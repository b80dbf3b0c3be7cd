---------------------------- MODULE MCModelRouter ----------------------------
\* One stream over a role with a fallback on another provider.
EXTENDS ModelRouter

CONSTANTS nvidia, minimax

MCRoutes == {<<nvidia, minimax>>}
=============================================================================

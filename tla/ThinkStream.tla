----------------------------- MODULE ThinkStream -----------------------------
(***************************************************************************)
(* MiniMax puts its reasoning into the content, between two tags.  A       *)
(* complete answer is split by a pattern; a stream is split as it comes,   *)
(* and a tag may straddle any number of its deltas, so the end of a delta  *)
(* that may begin a tag is carried over to the next.  Letters stand for    *)
(* characters.  Trimming of the white space of a complete answer is left   *)
(* out, and so are lines without content, which pass through.              *)
(***************************************************************************)
EXTENDS Integers, Sequences

CONSTANTS
  Letters, OpenTag, CloseTag,
  MaxLetters,  \* bound: letters of an answer
  MaxDelta     \* bound: letters of a delta

ASSUME ThinkAssumption ==
  /\ OpenTag \in Seq(Letters) \ {<<>>} /\ CloseTag \in Seq(Letters) \ {<<>>}
  /\ MaxLetters \in Nat /\ MaxDelta \in Nat \ {0}

VARIABLES
  sent,       \* the content of all deltas so far
  inThink,    \* the splitter is behind an open tag
  carry,      \* what it holds back
  visible,    \* the content passed on
  thinking,   \* the reasoning passed on
  closed      \* the stream has ended

thinkVars == <<sent, inThink, carry, visible, thinking, closed>>

(* The first place of the tag from which it is complete, or 0. *)
Occurs(tag, text, i) == SubSeq(text, i, i + Len(tag) - 1) = tag
Found(tag, text) == {i \in 1..(Len(text) - Len(tag) + 1) : Occurs(tag, text, i)}
IndexOf(tag, text) ==
  IF Found(tag, text) = {} THEN 0
  ELSE CHOOSE i \in Found(tag, text) : \A j \in Found(tag, text) : i <= j

From(text, i) == SubSeq(text, i, Len(text))

(* How many letters at the end may be the beginning of the tag. *)
HoldNothing(text, tag) == 0 * Len(text)
Hold(text, tag) ==
  LET fits == {n \in 1..(Len(tag) - 1) : n <= Len(text)
                                         /\ From(text, Len(text) - n + 1) = SubSeq(tag, 1, n)}
  IN  IF fits = {} THEN 0 ELSE CHOOSE n \in fits : \A m \in fits : m <= n

(* feed: everything up to a tag goes out, then the rest on the other side, *)
(* until there is no tag any more, and the end may be held back.           *)
Splits == [in : BOOLEAN, text : Seq(Letters), vis : Seq(Letters), thk : Seq(Letters)]
Out(s, n, in, i) ==
  LET out == SubSeq(s.text, 1, n)
  IN  [in |-> in, text |-> From(s.text, i),
       vis |-> IF s.in THEN s.vis ELSE s.vis \o out, thk |-> IF s.in THEN s.thk \o out ELSE s.thk]
Feed[s \in Splits] ==
  LET tag == IF s.in THEN CloseTag ELSE OpenTag
      at  == IndexOf(tag, s.text)
      n   == Len(s.text) - Hold(s.text, tag)
  IN  IF at = 0 THEN Out(s, n, s.in, n + 1) ELSE Feed[Out(s, at - 1, ~s.in, at + Len(tag))]

(* splitThinkTagsOnce: each open tag with the first close tag behind it.   *)
Wholes == [text : Seq(Letters), vis : Seq(Letters), thk : Seq(Letters)]
Once[s \in Wholes] ==
  LET open  == IndexOf(OpenTag, s.text)
      inner == From(s.text, open + Len(OpenTag))
      close == IndexOf(CloseTag, inner)
  IN  IF open = 0 \/ close = 0 THEN [vis |-> s.vis \o s.text, thk |-> s.thk]
      ELSE Once[[text |-> From(inner, close + Len(CloseTag)),
                 vis |-> s.vis \o SubSeq(s.text, 1, open - 1),
                 thk |-> s.thk \o SubSeq(inner, 1, close - 1)]]

ThinkInit == /\ sent = <<>> /\ visible = <<>> /\ thinking = <<>>
             /\ inThink = FALSE /\ carry = <<>> /\ closed = FALSE

Deltas == UNION {[1..n -> Letters] : n \in 1..MaxDelta}

(* A line of the stream with a delta of content. *)
DeltaArrives(delta) ==
  /\ ~closed /\ Len(sent) + Len(delta) <= MaxLetters
  /\ LET fed == Feed[[in |-> inThink, text |-> carry \o delta, vis |-> visible, thk |-> thinking]]
     IN  inThink' = fed.in /\ carry' = fed.text /\ visible' = fed.vis /\ thinking' = fed.thk
  /\ sent' = sent \o delta
  /\ UNCHANGED closed

(* Nothing is done with what is held back. *)
ThinkEnds == /\ ~closed /\ closed' = TRUE
             /\ UNCHANGED <<sent, inThink, carry, visible, thinking>>

ThinkNext == (\E delta \in Deltas : DeltaArrives(delta)) \/ ThinkEnds

ThinkSpec == ThinkInit /\ [][ThinkNext]_thinkVars

---------------------------------------------------------------------------
(* A stream is split as the complete answer would be, wherever its deltas  *)
(* were cut: what was passed on and what is held back are what             *)
(* splitThinkTagsOnce makes of all that was sent; only a tag that is not   *)
(* closed yet is taken for an open one, which the complete answer keeps.   *)
StreamSplitsLikeOnce ==
  LET whole == Once[[text |-> sent, vis |-> <<>>, thk |-> <<>>]]
      open  == From(thinking, Len(whole.thk) + 1)
  IN  /\ whole.thk \o open = thinking
      /\ whole.vis = visible \o (IF inThink THEN OpenTag ELSE <<>>) \o open \o carry
      /\ ~inThink => open = <<>>

=============================================================================

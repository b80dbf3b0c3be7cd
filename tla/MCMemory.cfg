SPECIFICATION MCSpec
CONSTANTS
 Texts <- MCTextsAll
 Fact <- MCFact
 Cosine <- MCCosine
 Overlap <- MCOverlap
 Archived <- MCArchived
 Writers = {w1, w2}
 MaxRows = 2
 FreshWindow = 1
 MaxTime = 3
 MaxEdits = 1
 MaxVerdicts = 1
 Shared = {s1}
 Context = {x1}
 Archive = {z1}
 MaxSteps = 1
 MaxTools = 2
 TopN = 2
 MaxChanges = 1
 ToolSteps = 5
 Nudges = 1
 FactCap = 3
 TaskBudget = 3
 MaxBatch = 2
 ContextMax = 6
 ReportMax = 7
 MaxLength = 4
CHECK_DEADLOCK FALSE
SYMMETRY MCSymmetry
INVARIANT QuietNightConverges
PROPERTY FactsAreKept
INVARIANT PromptIsFounded
INVARIANT ExtractionIsBounded
INVARIANT ReportFits

SPECIFICATION Spec
CONSTANTS
 Texts <- MCTexts
 Fact <- MCFact
 Cosine <- MCCosine
 Overlap <- MCOverlap
 Archived = {}
 Writers = {w1}
 MaxRows = 2
 FreshWindow = 1
 MaxTime = 2
 MaxEdits = 0
 MaxVerdicts = 0
CHECK_DEADLOCK FALSE
INVARIANT WinnerStays

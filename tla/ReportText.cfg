SPECIFICATION ReportSpec
CONSTANTS
 ContextMax = 6
 ReportMax = 7
 MaxLength = 4
INVARIANT ReportIsSent

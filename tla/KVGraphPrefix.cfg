CONSTANTS
    Keys <- KChars
    Owners <- One
    MaxOps = 4
    MaxLabel = 1
    Lists <- CharDefs
    CharPrefix <- Chars
SPECIFICATION Spec
INVARIANT TargetsExact

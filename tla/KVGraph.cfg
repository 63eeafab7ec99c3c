CONSTANTS
    Keys <- K3
    Owners <- Own
    MaxOps = 6
    MaxLabel = 2
    Lists <- Defs
    CharPrefix <- NoChars
SPECIFICATION Spec
INVARIANTS LookupExact TargetsExact SourcesMirror SaveComplete NoPanic

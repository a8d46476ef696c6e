\* Arrays up to 3 bytes, lists of up to 2 of 12 fields, a file rewritten once.
SPECIFICATION Spec
CONSTANTS
    Ids <- MCIds
    Contents <- SmallContents
    Sidecars <- SmallSidecars
    NewContents <- NewSmallContents
    NewSidecars <- NewSmallSidecars
    Actuals <- SmallActuals
    MaxWrites = 1
INVARIANTS
    MaskedIsReference
    StrictImpliesTolerant
    OracleAgrees

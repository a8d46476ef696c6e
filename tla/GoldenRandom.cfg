\* ClientHellos that differ in one byte of the random, and what the manifest masks.
SPECIFICATION Spec
CONSTANTS
    Ids <- MCIds
    Contents <- HelloContents
    Sidecars <- ManifestSidecars
    NewContents <- None
    NewSidecars <- None
    Actuals <- HelloActuals
    MaxWrites = 0
INVARIANTS
    RandomTolerated

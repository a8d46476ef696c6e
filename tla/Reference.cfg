\* Two calls, and files that go and come back in between.
SPECIFICATION Spec
CONSTANTS
    Calls = {r1, r2}
    Profiles <- MCProfiles
    Dumps <- MCDumps
    Versions = {v1, v2}
    HelloVersions = {v1}
    Missing = Missing
    MaxChanges = 2
INVARIANTS
    ListedIsServed
    StoreIsStable
PROPERTIES
    ImplementsProvider
\* Every call is settled and the directory at rest.
CHECK_DEADLOCK FALSE

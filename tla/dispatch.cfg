SPECIFICATION Spec
CONSTANTS
    dsc = dsc
    did = did
    r1 = r1
    r2 = r2
    server = server
    NoElem = NoElem
    Services <- MCServices
    Routines <- MCRoutines
    Runnables <- MCRunnables
    Capacity <- MCCapacity
INVARIANTS
    SameElements
PROPERTIES
    AllAsked
    AllTold

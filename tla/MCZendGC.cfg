SPECIFICATION Spec
CONSTANTS
    Zvals <- ThreeZvals
    Objects <- OneObject
    Slots = 4
    Destructors = {}
    Unsets = FALSE
    Resurrects = {}
    Collections = TRUE
    MaxVariables = 1
    MaxStored = 4
INVARIANT CollectsExactlyGarbage
INVARIANT RefcountsExact
INVARIANT RootsAllocated

SPECIFICATION FairSpec
CONSTANTS
    Zvals <- ThreeZvals
    Objects <- OneObject
    Slots = 1
    Destructors <- OneObject
    Unsets = TRUE
    Resurrects = {"last"}
    Collections = TRUE
    MaxVariables = 1
    MaxStored = 2
INVARIANTS TypeOK NoDanglingZval GarbageIsHeld ReachableObjectsValid RefcountsExact
PROPERTY EngineReturns

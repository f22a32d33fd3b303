SPECIFICATION Spec
CONSTANTS
    Names = {"t", "u", "yes"}
    Odd = {"yes"}
    Vals = {0, 1, 2}
    Missing = Missing
    Typed = {1}
    Cut <- MCCut
    Lossy = {"t"}
    Savepoints = {"s"}
    Tuples <- MCTuples
    Sets <- MCSets
    Wheres <- MCWheres
    CteLists <- MCCteLists
    Recursions <- MCRecursions
    InitStates <- MCInitStates
    MaxRows = 3
    MaxSaves = 2
    MaxViews = 2
    MaxStmts = 3
    MaxFaults = 1
    MaxCtes = 2
    MaxIters = 2
INVARIANT ViewsAcyclic
PROPERTIES RollbackRestores WithLeavesNothing RecursiveIsFixpoint RepliesAreExact WithReturns
VIEW MCView
CHECK_DEADLOCK FALSE

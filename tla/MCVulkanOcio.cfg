SPECIFICATION Spec
CONSTANTS
    Planes = {"p1", "p2"}
    Threads = {"t1", "t2"}
    Machines <- MCMachines
    Scripts <- MCScripts
    MaxFailures = 2
INVARIANTS
    ObjectLifetimes
    BarriersNameTheLayout
    ReadBackIsResult

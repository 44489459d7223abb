\* Every dependency relation on three nodes, and the chain with loops longer than the pool.  A pool that is too small for the
\* loops of a call stops (see MCScheduler_one_worker.cfg), so deadlock is left to
\* RunReturns.
SPECIFICATION FairSpec
CONSTANTS
    N = 3
    MaxRows = 3
    w1 = w1
    w2 = w2
    Main = Main
    Workers = {w1, w2}
    Errors <- MCErrors
    Inputs <- MCInputs
INVARIANTS
    FramesOutliveTasks
    ChainIsSequential
PROPERTIES
    ImplementsContract
    RunReturns
CHECK_DEADLOCK FALSE

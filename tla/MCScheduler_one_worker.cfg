\* Two nodes in a chain and one worker: default_worker_count() on two cores.
SPECIFICATION FairSpec
CONSTANTS
    N = 2
    MaxRows = 2
    w1 = w1
    w2 = w2
    Main = Main
    Workers = {w1}
    Errors <- MCErrors
    Inputs <- MCChainInputs
PROPERTIES
    RunAlwaysReturns
CHECK_DEADLOCK FALSE

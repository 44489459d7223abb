SPECIFICATION HookSpec
CONSTANTS
    r1 = r1
    r2 = r2
    r3 = r3
    Schedulers = {r1, r2, r3}
    Null = Null
INVARIANTS
    NewestKeepsHook

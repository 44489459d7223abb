SPECIFICATION Spec
CONSTANTS
    Manifest <- MCManifest
    Documents <- MCDocuments
    Reloads <- MCReloads
    MaxLoads = 3
INVARIANTS
    SortIsExact
    AcceptedPlan
    StepsAreThoseUpstream
    LoadIsAllOrNothing

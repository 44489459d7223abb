SPECIFICATION ClientSpec
CONSTANTS
    c1 = c1
    c2 = c2
    page = page
    Other = Other
    Nobody = Nobody
    tone = tone
    wb = wb
    v1 = v1
    v2 = v2
    Pages = {page}
    Clients <- MCClients
    Casts <- TwoCasts
    Documents <- TwoNodes
    Values = {v1, v2}
    OtherValues = {v1}
    Intervals = {1, 2}
    PageInterval = 1
    FullRate = 1
    CapInterval = 2
    Debounce = 1
    MaxTime = 2
    MaxRuns = 3
    MaxPuts = 1
    MaxActs = 4
SYMMETRY Symmetry
INVARIANTS
    RunIdsKeepMeaning
    SharedFrames
    UpdatesAreShown
    EditsAgree
    InspectorShowsLatest

SPECIFICATION RunSpec
CONSTANTS
    Problems <- MCProblems
    Images <- MCImages
INVARIANTS
    SlotsDisjoint
    ValuesSurviveToReaders
    WithinTwicePlan

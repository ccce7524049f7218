SPECIFICATION CdmSpec
CONSTANTS
    Cassettes = {"CASS1", "CASS2", "CASS3"}
    Denom <- MCDenom
    Minimum <- MCMinimum
    Maximum <- MCMaximum
    InitialCount <- MCInitialCount
    Requested = {2, 6, 12, 15}
    CustomNotes = {0, 1, 3}
    MaxReject = 3
    NoCash = NoCash
INVARIANTS
    NotesConserved
    OnlyShownIsTaken
    MixIsMinimal

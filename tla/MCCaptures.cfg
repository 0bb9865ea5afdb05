SPECIFICATION MCSpec
CONSTANTS
    Frames <- MCFrames
    MaxFrames <- MCMaxFrames
    StartupLength = 2
    StartupIds <- MCStartupIds
    MaySameIds = {FALSE, TRUE}
    MaxTransitions = 2
    MaxRepeats = 2
    MaxVariations = 2
    MaxValues = 2
    MaxLength = 4
INVARIANTS
    InventoryFaithful
    TablesAgree
    PatternsFound
    TracesPartOnce
    AlignmentFaithful
CHECK_DEADLOCK FALSE

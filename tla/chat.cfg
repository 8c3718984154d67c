SPECIFICATION MCSpec
CONSTANTS
    c1 = c1
    c2 = c2
    plain = plain
    hit = hit
    s1 = s1
    s2 = s2
    Channels = {c1, c2}
    Texts = {plain, hit}
    Matching = {hit}
    Sends = {s1, s2}
    Searches = {FALSE, TRUE}
    None = None
    Unborn = Unborn
    Gone = Gone
    Unloaded = Unloaded
    PageCap = 2
    MaxMessages = 2
    MaxWrites = 2
SYMMETRY MCSymmetry
INVARIANT NoRowTwice
PROPERTY OnlyACancelledFetchRevivesPlaceholders
PROPERTY OnlyAnswersDropRows
PROPERTY OnlyWaitingSendsMove
CHECK_DEADLOCK FALSE

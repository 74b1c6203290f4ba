SPECIFICATION MCSpec
CONSTANTS
    None = None
    MaxAsked = 4
    Years = {0, 13, 30}
    People = {1, 2, 3, 4, 5, 6, 7, 8, 9}
    Families = {1, 2, 3, 4, 5, 6}
    fold <- MCFold
    sound <- MCSound
    contains <- MCContains
    Worlds <- MCWorlds
    AtOnce = 2
INVARIANTS
    ProposalIsTrue
    NobodyTwice
    TreeIsTrue
    NothingNearer
    ViewsAgree
    CirclesAreReported
CHECK_DEADLOCK FALSE

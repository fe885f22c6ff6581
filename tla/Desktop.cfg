SPECIFICATION PartSpec
CONSTANTS
    Calls = {1, 2}
    Gens = {1, 2}
    Requests <- MCRequests
    Universe <- FreshUniverse
    WindowBox <- MCWindow
    Titles = {"mail"}
    Desktop <- MCDesktop
    Scopes = {"foreground", "w"}
    MaxRefs = 2
    MaxNodes = 3
    MaxVisit = 4
    MaxBlocks = 2
    MaxPixels = 8
INVARIANTS StopsInTime DesktopLeftAlone AnswerHonest RefsMeanOneControl SecretsHidden
PROPERTIES CallEnds
CHECK_DEADLOCK FALSE

SPECIFICATION RefSpec
CONSTANTS
    Calls = {1, 2}
    Gens = {1, 2}
    Requests <- MCRequests
    Universe <- ReusedUniverse
    WindowBox <- MCWindow
    Titles = {"mail"}
    Desktop <- MCDesktop
    Scopes = {"foreground", "w"}
    MaxRefs = 2
    MaxNodes = 3
    MaxVisit = 4
    MaxBlocks = 2
    MaxPixels = 8
INVARIANT PressesTheNamed
CHECK_DEADLOCK FALSE

SPECIFICATION Spec
CONSTANTS
    NULL = NULL
    InitCap = 2
    LongBits = 6
    CharBits = 4
    Sessions <- MCSessions
    Dirs <- MCDirs
    Paths <- MCPaths
    Names <- MCNames
    MaxFail = 1
INVARIANTS
    TypeOK TableSound NamesSound WordsTakeEffect CdTellsTruth ExitCodeRight
PROPERTIES
    ImplementsEnvMap

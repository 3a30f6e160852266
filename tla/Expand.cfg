SPECIFICATION Spec
CONSTANTS
    Pipelines <- MCPipelines
    Values <- MCValues
    Name <- MCName
    NULL = NULL
    BodyLines <- MCBodyLines
    MaxFail = 1
INVARIANTS
    ArgvExactlyFilled FieldsRight

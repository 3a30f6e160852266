SPECIFICATION Spec
CONSTANTS
    Pipelines <- MCPipelines
    MaxCount = 3
    Outcomes <- MCOutcomes
    Writes = 2
    Faults <- MCFaults
    MaxSig = 1
INVARIANTS
    TypeOK EndsInPlace NoEarlyEof LastStatus NothingLeft
PROPERTIES
    PipelineReturns

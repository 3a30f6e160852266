SPECIFICATION Spec
CONSTANTS
    Pipelines <- MCPipelines
    MaxCount = 3
    Outcomes <- MCOutcomes
    Writes = 1
    Faults <- MCFaults
    MaxSig = 1
INVARIANTS
    AllChildrenReaped

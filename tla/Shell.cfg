SPECIFICATION Spec
CONSTANTS
    MaxFd = 6
    Lines <- MCLines
    Inputs <- MCInputs
    Outcomes <- MCOutcomes
    MaxInputs = 2
    MaxSig = 2
INVARIANTS
    TypeOK StdioRestored NoDescriptorLeak RedirectsInForce HeredocTempRemoved
    ForkedUnderRecorder OwnershipConsistent NothingLeakedAtExit
    HeredocInterruptStatus StdioNeverClosed LeaksOnlyReadEnds
PROPERTIES
    ImplementsRepl HeredocInterruptReturns

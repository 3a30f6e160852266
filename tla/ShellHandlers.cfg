SPECIFICATION Spec
CONSTANTS
    MaxFd = 5
    Lines <- MCHeredocLines
    Inputs <- MCHeredocInputs
    Outcomes <- MCOutcomes
    MaxInputs = 1
    MaxSig = 1
INVARIANTS
    CommandsUnderRecorder

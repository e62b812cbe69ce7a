SPECIFICATION RunnerMachineSpec
CONSTANTS
    None = None
    Qty <- MCQty
    ExitReason <- MCExitReason
    EmergencyReason <- MCEmergencyReason
INVARIANTS
    MachineConsistent
PROPERTIES
    KeepsRoundTrip

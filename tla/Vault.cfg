SPECIFICATION Spec
CONSTANTS
    Generation = {g1, g2}
    None = None
    Policy <- MCPolicies
    DefaultPolicy <- MCDefaultPolicy
    Beneficiary = {ann, bob}
    Message = {m1}
    MaxRevision = 2
    MaxMoved = 1
INVARIANTS
    TypeOK
    Recoverable
    OneCeremony
    SharesAreReal
    SameGate
PROPERTIES
    ReleaseFreezes
    RefinesSetup
SYMMETRY Alike
CHECK_DEADLOCK FALSE

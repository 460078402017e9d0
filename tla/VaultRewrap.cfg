SPECIFICATION Spec
CONSTANTS
    Generation = {g1}
    None = None
    Policy <- MCPolicies
    DefaultPolicy <- MCDefaultPolicy
    Beneficiary = {ann}
    Message = {m1}
    MaxRevision = 2
    MaxMoved = 0
PROPERTY DrillQualifies
CHECK_DEADLOCK FALSE

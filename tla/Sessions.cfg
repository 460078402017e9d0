SPECIFICATION Spec
CONSTANTS
    Owner = Owner
    None = None
    Beneficiary = {ann}
    Family = {f1, f2}
    Challenge = {c1, c2}
    Invitation = {i1, i2}
    Process = {p1, p2}
    Minute = 1
    LinkLife = 2
    MaxNow = 2
    MaxTokens = 2
    MaxContact = 1
    MaxEpoch = 1
INVARIANTS
    TypeOK
    OneLiveToken
    NothingOutlivesItsRecipient
    OpensOneSession
    OneLinkAMinute
PROPERTY
    DeadStaysDead
SYMMETRY Alike
CHECK_DEADLOCK FALSE

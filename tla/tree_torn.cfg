SPECIFICATION Spec
CONSTANTS
    g1 = g1
    g2 = g2
    r1 = r1
    r2 = r2
    Grants = {g1, g2}
    Interpreters = {}
    Rules = {r1, r2}
    ExprRules = {r2}
    OpaqueRules = {}
    NoEnvelope = NoEnvelope
    NoDeadline = NoDeadline
    Sessions = {s1, s2, s3}
    s1 = s1
    s2 = s2
    s3 = s3
    NoSession = NoSession
    NoCount = NoCount
    MaxCount = 3
    Groups = {}
    NoGroup = NoGroup
    AskAfter = 0
    Absent = Absent
    Unreadable = Unreadable
    Nobody = Nobody
    Founders = {s1}
    RootEnvelopes <- OneEnvelope
    Proposals <- OneEnvelope
    Wants <- Amounts
    Reports <- Uses
    Faults = {"tear"}
    MaxHit = 1
    MaxAsks = 1
INVARIANTS
    ReservationsFit
SYMMETRY Symmetry
CHECK_DEADLOCK FALSE

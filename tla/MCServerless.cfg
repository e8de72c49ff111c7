CONSTANTS
    c1 = c1
    a1 = a1
    a2 = a2
    i1 = i1
    i2 = i2
    b1 = b1
    Facts = {c1, a1, a2, i1, i2}
    Calls = {c1}
    Attacks = {a1, a2}
    Invocations = {i1, i2}
    Beats = {b1}
    Startup = Startup
    Never = Never
    Answers = {"success", "invalid_token", "rate_limited", "error", "throws"}
    Pause = 1
    MaxEvents = 1
    EventInterval = 1
    FirstHeartbeat = 0
    SecondHeartbeat = 0
    NextHeartbeat = 1
    Timeout = 1
    FlushEvery = 0
    Concurrency = 2
    MaxTime = 2
SPECIFICATION Spec
SYMMETRY Symmetric
INVARIANTS
    InvocationsTypeOK
    AttacksAwaited
PROPERTIES
    ImplementsLedger
    SilentWhileRefused
    AttacksReportedUpToLimit
    EndsFlushed
CHECK_DEADLOCK FALSE

\* Two requests at a time; companies keep their status in the cache for one tick.
SPECIFICATION MCSpec
CONSTANTS
    t1 = t1
    t2 = t2
    u1 = u1
    u2 = u2
    o1 = o1
    p1 = p1
    m1 = m1
    b1 = b1
    b2 = b2
    r1 = r1
    r2 = r2
    None = None
    Tenants = {t1, t2}
    Existing = {t1}
    PoolMax = 1
    TTL = 1
    Requests = {r1, r2}
    Users = {u1, u2}
    Roles = {o1}
    Permissions = {p1}
    Modules = {m1}
    ModuleOf <- MCModuleOf
    Admin = None
    Limits = {None, 1, 2}
    PermTTL = 2
    ModuleTTL = 1
    Tabs = {b1, b2}
    Calls = {r1, r2}
    AccessTTL = 1
    RefreshTTL = 2
    MaxVersion = 1
VIEW MCView
CONSTRAINT MCScenario
SYMMETRY MCSymmetry
INVARIANTS
    OnePool
    SuspendedInTime
    OpenIsReady
    RevokedInTime
    SeatsKept
    SessionsEnd

SPECIFICATION Spec
CONSTANTS
    u1 = u1
    u2 = u2
    t1 = t1
    t2 = t2
    t3 = t3
    i1 = i1
    Nobody = Nobody
    Gone = Gone
    UserIds = {u1, u2}
    Usernames = {"a", "b"}
    Passwords = {"p", "q"}
    TokenIds = {t1, t2, t3}
    MaxRequests = 3
    TokenTTL = 1
    MaxTime = 1
    MaxApps = 3
    AppNames = {"x", "y"}
    InstallationIds = {i1}
    MaxAppsPerUser = 1
    Workloads <- MCWorkloads
INVARIANTS
    QuotaHolds
    OwnRows
PROPERTIES
    RevokedIsFinal
    ChangesAuthorized

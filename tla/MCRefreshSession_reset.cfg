SPECIFICATION Spec
CONSTANTS
    NULL = NULL
    alice = alice
    phone = phone
    r1 = r1
    r2 = r2
    Session = {phone}
    User = {alice}
    Owner <- MCOwner
    Request = {r1, r2}
    AccessTtl = 2
    RefreshTtl = 3
    Grace = 1
    MaxGen = 3
    MaxClock = 3
INVARIANT RevocationReachesAccessTokens

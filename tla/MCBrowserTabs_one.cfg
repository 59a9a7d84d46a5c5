SPECIFICATION MCSpec
CONSTANTS
    NULL = NULL
    alice = alice
    phone = phone
    family = phone
    r1 = r1
    r2 = r2
    t1 = t1
    t2 = t2
    Session = {phone}
    User = {alice}
    Owner <- MCOwner
    Request = {r1, r2}
    AccessTtl = 1
    RefreshTtl = 2
    Grace = 0
    MaxGen = 4
    MaxClock = 2
    Tab = {t1}
    PriceCeilings = {150000}
    RatingFloors = {40}
    Radii = {2}
    MaxCompare = 2
    TeaserCount = 2
    None = None
    Blank = Blank
    Junk = Junk
    Pages = {p1, p2, p3}
    Still = Still
INVARIANTS
    NoFalseTheft
    CookieRotates
    ScreenFollows
    PagesTellTheTruth
PROPERTIES
    RefreshSettles
CHECK_DEADLOCK FALSE

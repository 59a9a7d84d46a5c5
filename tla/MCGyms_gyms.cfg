SPECIFICATION MCSpec
CONSTANTS
    Ids = {1, 2, 3}
    Gyms = {g1, g2}
    Names = {1, 2}
    Handlers = {h1, h2}
    Limit = 1
    Submitters = {s1, s2, s3}
    Uploaders = {u1, u2}
    Applications = {a1, a2}
    Workers = {w1, w2}
    Checks = {geo, pan}
    Nobody = nobody
    TicksPerHour = 2
    TargetHours = 2
    SoonHours = 1
    ListLimit = 2
    PageSize = 1
    ReasonFloor = 20
    Moves = {"SUBMITTED", "INFO_REQUESTED", "APPROVED"}
    MaxGyms = 2
    Instants = {0, 1, 5}
SYMMETRY Symmetry
INVARIANTS
    EstateKeepsItsShape IntakeAgrees SuitesAreSound RulesAreSafe NothingIsLost
CHECK_DEADLOCK FALSE

SPECIFICATION MCSpec
CONSTANTS
    Users = {ana, bo}
    Roles = {owner, manager}
    Owner = owner
    Changes = {c1, c2}
    AccessLife = 2
    None = none
    Gym = gym
    Agent = agent
    Subject = subject
    MaxMinutes = 2
    DenylistTtl = 1
    Gyms = {north, south}
    Connections = {d1, d2}
    RequestKeys = {k1}
    MaxRequests = 3
    MaxWall = 3
INVARIANT RecordComesFirst
SYMMETRY Symmetry
CHECK_DEADLOCK FALSE

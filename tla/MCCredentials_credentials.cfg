SPECIFICATION MCSpec
CONSTANTS
    Handlers = {h1, h2}
    Purposes = {login}
    Codes = {c1, c2}
    MaxAttempts = 2
    MaxSends = 2
    MaxFromIp = 2
    CaptchaFrom = 1
    CodeLife = 1
    SendWindow = 2
    Cooldown = 1
    IpWindow = 1
    MaxGeneration = 2
    RecoveryCount = 2
    Threshold = 2
    Window = 1
    Drift = 1
    MaxSecrets = 2
    MaxEnrolments = 1
    MaxStep = 2
    Passwords = {old, new}
    Code = code
    ConfiguredThreshold = 2
    LoginWindow = 2
    EscalationThreshold = 1
    EscalationWindow = 2
    StrikeWindow = 1
    LinkLife = 2
    None = none
    Callers = {k1, k2, k3, k4}
    Permits = 2
INVARIANTS LimitsHold OnlyDeathParts FactorHolds
    LinksHold CountsHold SlotsAreKept
PROPERTIES StepsAreHeld StepsServeOnce LockIsNotProlonged
SYMMETRY Symmetry

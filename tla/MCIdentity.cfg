SPECIFICATION Spec
CONSTANTS
    Users = {u1, u2}
    Passwords = {p1, p2}
    Certificates = {c1}
    GivenRoles = {"administrator", "operator"}
    RecoveryCodes = {r1}
    SessionLifetime = 2
    Inactivity = 1
    BootstrapLifetime = 1
    MaxDelay = 2
    MaxTime = 2
    MaxSteps = 4
    MaxSessions = 2
    MaxTokens = 1
SYMMETRY Symmetry
INVARIANTS
    CredentialsAreCurrent
    ChangesAreAudited
PROPERTY AdministratorRemains
CHECK_DEADLOCK FALSE

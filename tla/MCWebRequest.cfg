SPECIFICATION Spec
CHECK_DEADLOCK FALSE
CONSTANTS
    Char = {"a", "b", ".", ":"}
    Dot = "."
    Colon = ":"
    NoPort = 0
    Domain <- SomeDomains
    KeyFile <- SomeFiles
    Server <- SomeServers
    Credential <- SomeLogins
    Family <- Families
INVARIANT TypeOK
INVARIANT ComparesPrimaryDomains
INVARIANT UsableKeysAreRead
INVARIANT AdmissionIsRight
INVARIANT GoodCredentialsLogIn

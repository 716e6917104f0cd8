SPECIFICATION FairSpec
CONSTANTS
    A = A
    B = B
    v1 = v1
    c1 = c1
    c2 = c2
    Services = {A, B}
    Ports = {80, 90, 443}
    Values = {v1}
    Certs = {c1, c2}
    KnownCerts = {c2}
    ConsoleCert = c1
    ValidCerts = {c1, c2}
    Plans <- MCPlans
    ConsoleKeys <- MCConsole
    Unset = Unset
    Default = Default
    User = User
    NoCert = NoCert
    NoListener = NoListener
    NoRec = NoRec
INVARIANT TypeOK
PROPERTIES NoForeignDelete KeptListenersServe ListenersConverge
CHECK_DEADLOCK FALSE

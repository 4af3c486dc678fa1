SPECIFICATION Spec
CONSTANTS
    server = server
    admin = admin
    Accounts = {server, admin}
    Server = server
    k1 = k1
    k2 = k2
    Keys = {k1, k2}
    age = age
    Circuits = {age}
    AgeProof = age
    Deployer = admin
    Admin = admin
    ZeroKey = k1
    MaxInputs = 0
    t1 = t1
    t2 = t2
    t3 = t3
    Txs = {t1, t2, t3}
    r1 = r1
    Calls = {r1}
    None = None
CHECK_DEADLOCK FALSE
INVARIANTS
    TypeOK
    VerdictIsExecuted
    DeployedIsReady
PROPERTIES
    AdminDecides
    ExecutedIsAnswered

SPECIFICATION Spec
CONSTANTS
    War = {w1, w2}
    Direct = {d}
    Bearer = {e}
    Casts = {{w1, w2}, {w1, e}, {d, e}}
    Grants = {g1, g2}
    NoOne = NoOne
    CallLimit = 1
    Until = 1
    Ttl = 2
    Horizon = 3
    fileF = fileF
    fileG = fileG
    Files = {fileF, fileG}
    Import <- BothFiles
    Docs = {d1, d2}
    Contents = {x, y}
    Clients = {c1, c2}
    NoDoc = NoDoc
    MaxVersions = 3
    Deliveries = {r1, r2}
    MaxRequests = 4
    Sessions = {s1, s2, s3}
    Risky = {s3}
    NoSession = NoSession
    MaxStates = 2
    MaxLost = 1
    MaxHandoffStates = 1
    agentA = agentA
    agentB = agentB
    agentC = agentC
    Domains = {administration}
    Experts = {agentA, agentB}
    DomainAgents <- OneExpert
    RequestKeys = {k1}
    Signals = {q1}
    NoValue = NoValue
    MaxFacts = 1
    MaxAdvisories = 1
    Signatures = {p, q}
    Words = {x, y, z}
    Excepted = {z}
    MaxRetries = 1
    MaxTools = 3
    Threshold = 3
    TailLength = 6
    MinUnit = 1
    MaxUnit = 2
    MinRepeats = 2
    Cooldown = 1
    MaxSeen = 5
    Agents = {agentA, agentB, agentC}
    AgentLists <- OneListPerPattern
    MaxDepends = 2
    MaxRev = 2
    MaxCycle = 3
    NoToken = NoToken
    NoRow = NoRow
    workerW = workerW
    Team <- OneWorker
    MaxCrashes = 1
    Parts = {"watch"}
INVARIANTS
    LoopReportedOnce
CHECK_DEADLOCK FALSE

CONSTANTS
    Lane = {a,b}
    Sender = {a}
    Topic = {t}
    Base = base
    Mortal = {b}
    MailKey = {k1,k2}
    BroadcastMin = 1
    MaxMail = 2
    MaxStops = 1
    MessageItem = {1}
    OfferItem = {2}
    Repeats = 2
    MaxHalts = 1
    Poller = {1,2}
    MaxArrivals = 2
    MaxNotices = 1
    MaxBatches = 2
    Calls = {1,2,3}
    Transport = {t,u}
    DeliveryTries = 2
    MaxDecisions = 2
    MaxLosses = 1
    MissLimit = 2
    MaxUpdates = 4
    MaxRestarts = 1
    Requests = {q1, q2, q3, q4}
    Workers = 2
    Waiters = 2
    MaxClaims = 2
    MaxForgeNews = 3
    MaxRefusals = 2
    Commands = {c1, c2}
    MaxTurns = 3
    MaxForgeRefusals = 2
    Askers = {h1, h2}
    MaxWorld = 1
    MaxFailures = 2

SPECIFICATION Spec
CHECK_DEADLOCK FALSE

INVARIANT TypeOK
INVARIANT HandledOnce
INVARIANT NothingIsDropped
PROPERTY DecisionsAreRespected
PROPERTY EverythingSettles

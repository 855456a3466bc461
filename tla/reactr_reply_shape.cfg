\* One Reactr listening on the bus, one message.
CONSTANTS
    r1 = r1
    r2 = r2
    c1 = c1
    m1 = m1
    m2 = m2
    Reactrs <- MCOneReactr
    Types <- MCTypes
    UserCaps <- MCUserCaps
    Msgs <- MCMsgs1
    MaxJobs = 2
    Retries = 1
    NoCore = NoCore
    NoCaps = NoCaps
    NoJob = NoJob
SPECIFICATION Spec
INVARIANT ReplyShape

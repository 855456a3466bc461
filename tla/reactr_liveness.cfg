\* One Reactr listening on the bus, two messages, two jobs, one retry;
\* runs may hang, timeouts fire.
CONSTANTS
    r1 = r1
    r2 = r2
    c1 = c1
    m1 = m1
    m2 = m2
    Reactrs <- MCOneReactr
    Types <- MCTypes
    UserCaps <- MCUserCaps
    Msgs <- MCMsgs2
    MaxJobs = 2
    Retries = 1
    NoCore = NoCore
    NoCaps = NoCaps
    NoJob = NoJob
SPECIFICATION FairSpec
PROPERTY ListenReplies

\* Two Reactrs that may share one Capabilities object, one job type, one
\* bus message, two jobs in all, one retry per job.
CONSTANTS
    r1 = r1
    r2 = r2
    c1 = c1
    m1 = m1
    m2 = m2
    Reactrs <- MCReactrs
    Types <- MCTypes
    UserCaps <- MCUserCaps
    Msgs <- MCMsgs1
    MaxJobs = 2
    Retries = 1
    NoCore = NoCore
    NoCaps = NoCaps
    NoJob = NoJob
SYMMETRY ReactrSymmetry
SPECIFICATION Spec
INVARIANT TypeOK

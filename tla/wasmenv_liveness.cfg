\* Autoscaling pool between 1 and 2 instances, two users, one job of one
\* host call each, under the fairness of FairSpec; the properties assume
\* that guest runs end.
CONSTANTS
    u1 = u1
    u2 = u2
    Users <- MCUsers
    Scaler = Scaler
    NoUser = NoUser
    Idents <- MCIdents
    PoolMin = 1
    PoolMax = 2
    MaxInstances = 3
    MaxJobs = 1
    MaxHostCalls = 1
SPECIFICATION FairSpec
PROPERTY JobCompletes
PROPERTY RemoveCompletes

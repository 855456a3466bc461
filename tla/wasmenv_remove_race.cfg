\* The autoscaling pool of wasmenv_autoscale: a job that picked the last
\* instance meets removeInstance.
CONSTANTS
    u1 = u1
    u2 = u2
    Users <- MCUsers
    Scaler = Scaler
    NoUser = NoUser
    Idents <- MCIdents
    PoolMin = 1
    PoolMax = 2
    MaxInstances = 3
    MaxJobs = 2
    MaxHostCalls = 2
SYMMETRY UserSymmetry
SPECIFICATION Spec
INVARIANT RemovedInstanceNotClaimed

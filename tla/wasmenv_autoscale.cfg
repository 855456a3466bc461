\* Autoscaling pool between 1 and 2 instances, 3 instances ever created,
\* two users running two jobs of up to two host calls each.
CONSTANTS
    u1 = u1
    u2 = u2
    Users <- MCUsers
    Scaler = Scaler
    NoUser = NoUser
    Idents <- MCIdents
    PoolMin = 1
    PoolMax = 2
    MaxInstances = 3
    MaxJobs = 2
    MaxHostCalls = 2
SYMMETRY UserSymmetry
SPECIFICATION Spec
INVARIANT TypeOK
INVARIANT ExclusiveUse
INVARIANT GuestOnPooledInstance
INVARIANT CursorInRange
INVARIANT UseInv

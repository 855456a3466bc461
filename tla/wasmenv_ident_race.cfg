\* A fixed pool of two instances (autoscale disabled), two users drawing
\* identifiers from a two-value space.
CONSTANTS
    u1 = u1
    u2 = u2
    Users <- MCUsers
    Scaler = Scaler
    NoUser = NoUser
    Idents <- MCIdents
    PoolMin = 2
    PoolMax = 2
    MaxInstances = 2
    MaxJobs = 1
    MaxHostCalls = 1
SYMMETRY UserSymmetry
SPECIFICATION Spec
INVARIANT IdentRoundTrip

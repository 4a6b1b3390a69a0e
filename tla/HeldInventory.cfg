\* Every deployment, a limit of one root, two publications, one load or sweep, one fault.
CONSTANTS
    a = a
    b = b
    Digests <- Two
    NoDigest = none
    Base <- Extends
    Shorter <- Aliased
    Deployments = {"pages", "rows", "stream"}
    TtlSettings = {TRUE}
    MaxRoots = 1
    MaxStores = 2
    MaxLoads = 1
    MaxFaults = 1
SPECIFICATION Spec
INVARIANTS OffersBacked 
PROPERTY PinnedBaseKept
CHECK_DEADLOCK FALSE

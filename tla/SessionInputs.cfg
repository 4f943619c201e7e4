SPECIFICATION FairSpec
CONSTANTS
    Humans = {h1}
    Peers = {}
    Tasks = {t1}
    Hosts = {a}
    NoOne = NoOne
    MaxInputs = 3
    MaxContinuations = 1
    MaxCompactions = 1
INVARIANTS LifecycleExcludesLease OwnedOnce OncePerClient SteeringHasCarrier
PROPERTY EventuallyApplied CancelDoesNotRestart ImplementsDelivery

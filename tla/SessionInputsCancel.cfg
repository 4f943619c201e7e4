SPECIFICATION FairSpec
CONSTANTS
    Humans = {h1}
    Peers = {}
    Tasks = {}
    Hosts = {}
    NoOne = NoOne
    MaxInputs = 1
    MaxContinuations = 1
    MaxCompactions = 1
PROPERTY CancelAlwaysCancels

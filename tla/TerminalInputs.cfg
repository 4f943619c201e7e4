SPECIFICATION FairSpec
CONSTANTS
    Humans = {h1, h2}
    Machines = {m1}
    NoOne = NoOne
    MaxInputs = 2
    MaxStops = 1
INVARIANTS TerminalOwnsOnce SteeringInFlight CancelReachesTurn
PROPERTY InputsSettle

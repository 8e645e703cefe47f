CONSTANTS
    c1 = c1
    c2 = c2
    Clients = {c1, c2}
    Closers = {}
    Firsts <- FirstPackets
    Nexts <- Proposals
    Offers <- Named
    Long <- LongOnes
    Policy <- Routes
    Results = {"done"}
    MaxHops = 2
    MaxLines = 1
    MaxAhead = 2
    MaxNoise = 1
SPECIFICATION FairSpec
CHECK_DEADLOCK FALSE
PROPERTY
    TimeoutsReturn

SPECIFICATION FairSpec
CONSTANTS
    MaxSequence = 6
    BufferSize = 2
    PacketSize = 2
    First = 4
    ServerSends = 3
    ClientSends = 0
    MaxInFlight = 2
    MaxFaults = 1
INVARIANTS
    TypeOK
    KeptUntilTaken
    PeerHeard
PROPERTIES
    InOrderOnce
    Arrives

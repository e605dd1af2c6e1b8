\* Two clients, one message each, of any target, flag and size.
CONSTANTS
    a = a
    b = b
    Clients <- TwoClients
    AllPlayers = AllPlayers
    Server = Server
    NoPiece = NoPiece
    Channels = {"plain", "not for the relay"}
    RelayChannels = {"plain"}
    Prefix = 1
    MaxEnvelopeChars = 4
    OverheadReserve = 1
    MaxFragments = 2
    MaxPayloadChars = 5
    Requests <- AllKinds
    MaxSends <- OneEach
    Leavers <- JustB
    CaptureSlots = 2
    MaxPending = 1
    Lifetime = 0
    MaxStops = 1
SPECIFICATION Spec
INVARIANTS TypeOK DeliveredWhole DeliveredOnce NothingLostSilently
PROPERTIES Arrives
CHECK_DEADLOCK FALSE

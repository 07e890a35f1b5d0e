SPECIFICATION LabsSpec
CONSTANTS
    Sizes <- MCSizes
    Versions = {"hand_in", "draft", "prototype"}
    Chars = {"a", "b", "c", "d", "h", "l", "t", ".", "/", "*"}
    Names <- MCNames
    Root <- MCRoot
    LinkTo <- MCLinkTo
    Behind <- MCBehind
    Words = {"key", "w"}
    Hosts <- MCHosts
    Lists <- MCLists
    MaxWords = 2
    MaxLogged = 1
    Argvs <- MCArgvs
    Modules = {"maze", "hellomod"}
    MaxOpen = 2
    Procs = {"p", "q"}
    Slots = {0, 1}
    Destroyers = {"q"}
    Layouts <- MCLayouts
    BadSizes <- MCBadSizes
    Deltas <- MCDeltas
    Batches <- MCBatches
    Children <- MCChildren
    Clients <- MCClients
    SlotIds = {0, 1, 2}
    Nobody = 99
CHECK_DEADLOCK FALSE
INVARIANTS TypesOK BorderClosed Joined SpanningMaze
INVARIANTS NeverMissed LogsFaithful KeepsCommand
INVARIANTS NothingDangles DraftServes LostByRefusal
PROPERTIES Builds RefusedReadKeepsPlace OnlyLastStays

SPECIFICATION BackendsSpec
CONSTANTS
    Channels = {"#a", "#b"}
    Presence = {"#a"}
    Refusing = {}
    Welcomers = {1, 2}
    MaxDrops = 2
    MaxActs = 2
    Transfers = {"t1", "t2"}
    Chunk = 2
    MaxSize = 5
    Mucs = {"a"}
    MucPresence = {"a"}
    Hands = {"t1", "t2"}
    MaxMoves = 4
    Threads = {1, 2}
    MaxRoomCmds = 4
    NUpdates = 3
    MaxDelay = 8
    Jitter = 2
    MaxCrashes = 1
    Backends = {"irc", "telegram", "text", "test", "xmpp"}
    Speakers = {1, 2}
    Asker = "alice"
    RelayedUsers = {"alice"}
    RelayedTo = {"gbin"}
    Notified <- MCNotified
    Malformed = {"zoni"}
    Words <- MCWords
    SizeLimit = 2
    DefaultLimit = 4
    MaxJobs = 2
    Commands = {"status", "deploy", "reload", "reloading", "yes", "log"}
    Names <- MCNames
    Decorations <- MCDecorations
    Senders = {"gbin", "mallory"}
    Rooms = {"ops", "lobby"}
    Texts = {"prod", "test", "None"}
    Admins = {"gbin"}
    DefaultRule <- MCDefaultRule
    Controls <- MCControls
    Direct = "direct"
    Repos = {"a", "ab", "tgz"}
    Archives = {"ab", "tgz"}
    Misnamed = {"tgz"}
    NeedsDeps = {"ab"}
    Begins <- MCBegins
    MaxRepoCrashes = 1
    MaxReleases = 2
INVARIANTS
    BackendsTypeOK
    ReactorSurvives
    UpdatesAreHandledOnce
    RoomFollowsCommands
    ArrivalsAreTold
    RepliesReachWhoAsked
    AccessIsAsConfigured
    
PROPERTIES
    RoomsAreRejoined
    BackOffGrows
CHECK_DEADLOCK FALSE

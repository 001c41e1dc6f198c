SPECIFICATION ServicesSpec
CONSTANTS
    Parts = {"poller", "storage", "tee", "server", "routes", "templates"}
    Polled = {"watch", "remind"}
    Times <- MCTimes
    MaxChains = 3
    s1 = s1
    s2 = s2
    s3 = s3
    Sections <- MCSections
    Keys = {"k", "l"}
    MaxReopens = 2
    Absent = Absent
    NoFile = NoFile
    NClients = 2
    NChunks = 3
    Room = 1
    MaxStarts = 3
    Hookers = {"ci", "wiki", "ops"}
    Webhooks <- MCWebhooks
    MaxVersions = 2
    Owners = {"ci", "wiki", "status"}
    Dir <- MCDir
    Templated = {"plugins/pair"}
    MaxAdds = 3
INVARIANTS
    ServicesTypeOK
    MutableSectionsAreAtomic
    SuccessIsWhole
    WebhooksAnswer
    ActivePluginsFindTemplates
PROPERTIES
    EndlessPollersKeepPolling
    StoppedPollersFallSilent
    EveryStreamSettles
    DeactivationsEnd
CHECK_DEADLOCK FALSE

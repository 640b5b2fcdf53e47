CONSTANTS
    Meters = {"m"}
    Channels = {"a", "b"}
    Configs <- MCConfigs
    Aggregated = {"a"}
    Key <- MCKey
    Skip = {"m"}
    Keys = {"middleware"}
    NoThread = NoThread
    PushThread = "pusher"
    SmlConfigs <- SmlConfig
    MaxFds = 2
    MqttConfigs <- MqttConfig
    MqttChannels = {"c"}
    Announcements = {"id", "uuid"}
SPECIFICATION HostSpec
INVARIANTS TypeOK NothingLost CountedOnce NoUseAfterDelete AnnouncedIsKnown
PROPERTIES PublishedIsSent AddedIsPushed ShutdownEnds SmlRecovers MqttReconnects

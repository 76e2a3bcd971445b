SPECIFICATION FairSpec
CONSTANTS
  Clients = {"Cgatt", "Yield", "Connect", "Publish", "Register", "Subscribe",
             "Unsubscribe", "Disconnect"}
  Unknown = "Unknown"
  MaxQueue = 1
  Topics = {t1}
  NoTopic = NoTopic
  Durations = {0, 5}
  RestartThreshold = 2
  Faults = {"register","attach","drop"}
  Calls = {"connect", "sleep", "asleep", "wakeup", "hibernate", "poll", "disconnect"}
  MaxTopics = 1
  AutoPoll = TRUE
  Patient = TRUE
INVARIANTS WakeupLeavesSleep
PROPERTIES AttemptEnds ErrorRecovers DisconnectCompletes AwakeEnds

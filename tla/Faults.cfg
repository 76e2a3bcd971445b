SPECIFICATION Spec
CONSTANTS
  Clients = {"Cgatt", "Yield", "Connect", "Publish", "Register", "Subscribe",
             "Unsubscribe", "Disconnect"}
  Unknown = "Unknown"
  MaxQueue = 1
  Topics = {t1}
  NoTopic = NoTopic
  Durations = {0}
  RestartThreshold = 2
  Faults = {"init", "attach", "ip", "send", "close", "drop"}
  Calls = {"connect", "disconnect"}
  MaxTopics = 1
  AutoPoll = FALSE
  Patient = FALSE
INVARIANTS TypeOK OperationalStatesInitialized ErrorHasReason

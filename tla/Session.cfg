SPECIFICATION Spec
CONSTANTS
  Clients = {"Cgatt", "Yield", "Connect", "Publish", "Register", "Subscribe",
             "Unsubscribe", "Disconnect"}
  Unknown = "Unknown"
  MaxQueue = 1
  Topics = {t1, t2}
  NoTopic = NoTopic
  Durations = {0}
  RestartThreshold = 2
  Faults = {"attach", "drop"}
  Calls = {"connect", "publish", "subscribe", "unsubscribe", "disconnect"}
  MaxTopics = 1
  AutoPoll = FALSE
  Patient = TRUE
INVARIANTS ConnectedAtRest DisconnectedAtRest SubscriptionsKnown
PROPERTIES LoopSendsOwnPacket PendingEndsHooked
VIEW PendingView

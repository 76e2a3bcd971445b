----------------------------- MODULE NbiotStm ------------------------------
(***************************************************************************)
(* The connection state machine of the library (nbiotstm.cpp) on top of    *)
(* the event dispatcher of external/src/StateMachine and the loop          *)
(* controller of NbiotLoop.                                                *)
(*                                                                         *)
(* The program is single threaded and every handler runs to completion.    *)
(* A dispatch() is a run of small steps, one per event: while dispatching  *)
(* is TRUE nothing but the handler of Head(events) can happen.  "calls" is *)
(* what the running API function still has to do once the dispatch it      *)
(* started is over; it is used by NbiotMqtt.                               *)
(***************************************************************************)
EXTENDS NbiotLoop

CONSTANTS
  Topics,            \* topic names
  NoTopic,           \* an unset topic
  Durations,         \* sleep durations the application asks for
  RestartThreshold,  \* restartModemThreshold
  Faults             \* what the environment may do wrong

ASSUME StmAssumption ==
  /\ Clients = {"Cgatt", "Yield", "Connect", "Publish", "Register",
                "Subscribe", "Unsubscribe", "Disconnect"}
  /\ NoTopic \notin Topics
  /\ 0 \in Durations /\ Durations \subseteq Nat
  /\ RestartThreshold \in Nat \ {0}
  /\ Faults \subseteq {"init", "attach", "ip", "send", "close", "drop", "register"}

VARIABLES
  stm,          \* current state
  events,       \* m_events: handled by the running or the next dispatch()
  posted,       \* m_pendingEvents: handled by the dispatch() after that
  timer,        \* state timer: "off", "run" or "due" (remaining() = 0)
  dispatching,  \* inside EventDispatcher::dispatch()
  calls,        \* the rest of the running API call
  pool,         \* NbiotStmDataPool
  client,       \* NbiotMqttSnClient
  net,          \* Network::isConnected(): a socket is open
  modemOn       \* the modem has not been switched off

stmVars == <<stm, events, posted, timer, dispatching>>
vars == <<loopVars, stmVars, calls, pool, client, net, modemOn>>

States == {"Invalid", "Initial", "Disconnected", "Error", "Connected",
           "ConnectedSleep", "ConnectedAwake", "DeepSleep",
           "DisconnectedSleep", "WaitForAttach", "WaitForConnect"}

\* AwakeActiveEvent has a transition of its own, but nothing ever sends it.
Events == {"Initialize", "Connect", "Attached", "ConnectedEv", "Sleep",
           "Wakeup", "ConnectedAwakeEv", "AwakeSleep", "Hibernate",
           "ReInitialize", "Disconnect", "ErrorDisconnect", "Timer"}

Errnos == {"Success", "InitializeError", "GprsNotConnected",
           "IpNotConnected", "ConnectionError", "NotStartedError",
           "MaxTopicsExceeded"}

Packet(type, arg) == [type |-> type, arg |-> arg]

\* The outcome of an operation that can only fail if fault f is assumed.
Outcome(f) == IF f \in Faults THEN BOOLEAN ELSE {TRUE}

Idle == ~dispatching /\ calls = <<>>

isSleeping == stm \in {"ConnectedSleep", "ConnectedAwake", "DisconnectedSleep"}

StmInit ==
  /\ LoopInit
  /\ stm = "Invalid"
  /\ events = <<>>
  /\ posted = <<>>
  /\ timer = "off"
  /\ dispatching = FALSE
  /\ calls = <<>>
  /\ pool = [errno |-> "NotStartedError", initialized |-> FALSE,
             authentication |-> FALSE, cleanSession |-> 0, duration |-> 0,
             autoReconnect |-> FALSE, restarts |-> 0,
             hasSubscription |-> FALSE, topicid |-> NoTopic,
             currentTopic |-> NoTopic, currentReg |-> {},
             registry |-> [t \in Topics |-> {}]]
  /\ client = [isconnected |-> FALSE, cleansession |-> 0,
               sendbuf |-> Packet("NONE", 0), inflight |-> FALSE,
               pmPing |-> FALSE, yieldRunning |-> FALSE]
  /\ net = FALSE
  /\ modemOn = TRUE

----------------------------------------------------------------------------
(* EventDispatcher                                                         *)

\* dispatch(), with the events es pushed before it: a due state timer adds
\* a Timer event behind them and is restarted.
Dispatch(es) ==
  /\ events' = events \o es \o (IF timer = "due" THEN <<"Timer">> ELSE <<>>)
  /\ timer' = IF timer = "due" THEN "run" ELSE timer
  /\ dispatching' = TRUE
  /\ UNCHANGED <<stm, posted>>

\* The batch is handled; what the handlers posted waits for the next call.
DispatchEnd ==
  /\ dispatching
  /\ events = <<>>
  /\ events' = posted
  /\ posted' = <<>>
  /\ dispatching' = FALSE
  /\ UNCHANGED <<loopVars, stm, timer, calls, pool, client, net, modemOn>>

\* The state timer runs out, at a moment of its own choosing.
TimerExpires ==
  /\ Idle
  /\ timer = "run"
  /\ timer' = "due"
  /\ UNCHANGED <<loopVars, stm, events, posted, dispatching, calls, pool,
                 client, net, modemOn>>

\* take_front() of the event to be handled.
Take(e) ==
  /\ dispatching
  /\ events # <<>>
  /\ e = Head(events)
  /\ events' = Tail(events)
  /\ UNCHANGED <<dispatching, calls>>

\* Handled by the dispatch() after the running one.
postEvent(e) == posted' = Append(posted, e)

\* State::enter(): the state timer is cleared, the entry action may start it.
Enter(s, t) == stm' = s /\ timer' = t

----------------------------------------------------------------------------
(* MQTT-SN client and network, as the handlers use them                    *)

loopDisconnect == RegisterLoopClients(<<"Disconnect">>)
loopConnect == RegisterLoopClients(<<"Connect">>)
doModemAttach == RegisterLoopClients(<<"Cgatt">>)

\* Mutant: the packet is serialised and nobody sends it.
clientDisconnectForgotten(p) ==
  /\ client' = [client EXCEPT !.sendbuf = Packet("DISCONNECT", p.duration)]
  /\ UNCHANGED loopVars

\* client.disconnect(m_duration): serialised now, sent by the loop client.
clientDisconnect(p) ==
  /\ client' = [client EXCEPT !.sendbuf = Packet("DISCONNECT", p.duration)]
  /\ loopDisconnect

\* Network::disconnect() forgets the socket only if the modem closed it.
closeSocket ==
  IF net THEN \E ok \in Outcome("close") : net' = ~ok ELSE UNCHANGED net

\* finishDisconnect(): close the socket, break a busy loop controller.
finishDisconnect ==
  /\ closeSocket
  /\ IF isBusy THEN loopBreak ELSE UNCHANGED loopVars

doDisconnect(p) ==
  \/ client.isconnected /\ clientDisconnect(p) /\ UNCHANGED net
  \/ ~client.isconnected /\ finishDisconnect /\ UNCHANGED client

mqttDisconnect ==
  IF client.isconnected THEN clientDisconnect(pool)
  ELSE UNCHANGED <<client, loopVars>>

\* mqttConnect(cleanSession): a client that is connected is left alone.
mqttConnect(clean) ==
  IF client.isconnected THEN UNCHANGED <<client, loopVars>>
  ELSE /\ client' = [client EXCEPT !.sendbuf = Packet("CONNECT", clean),
                                   !.cleansession = clean]
       /\ loopConnect

----------------------------------------------------------------------------
(* Entry actions; p is the data pool the transition action left behind     *)

actionDisconnectedEntry(p) ==
  /\ Enter("Disconnected", "off")
  /\ doDisconnect(p)
  /\ pool' = [p EXCEPT !.errno = "Success"]
  /\ UNCHANGED <<posted, modemOn>>

\* Mutant: the error counter is not reset when the modem restarts.
actionErrorEntryNoReset(p) ==
  /\ Enter("Error", IF p.initialized THEN "off" ELSE "run")
  /\ pool' = p
  /\ posted' = IF ~p.initialized THEN posted
               ELSE Append(posted, IF p.restarts >= RestartThreshold
                                   THEN "ReInitialize" ELSE "ErrorDisconnect")
  /\ UNCHANGED modemOn

\* Mutant: nothing is posted for an ordinary error.
actionErrorEntryStuck(p) ==
  /\ Enter("Error", IF p.initialized THEN "off" ELSE "run")
  /\ pool' = p
  /\ posted' = IF p.initialized /\ p.restarts >= RestartThreshold
               THEN Append(posted, "ReInitialize") ELSE posted
  /\ UNCHANGED modemOn

\* Every restartModemThreshold-th attach error reboots the modem.
actionErrorEntry(p) ==
  /\ Enter("Error", IF p.initialized THEN "off" ELSE "run")
  /\ IF p.initialized /\ p.restarts >= RestartThreshold
       THEN /\ pool' = [p EXCEPT !.restarts = 0]
            /\ postEvent("ReInitialize")
       ELSE /\ pool' = p
            /\ posted' = IF p.initialized
                         THEN Append(posted, "ErrorDisconnect") ELSE posted
  /\ UNCHANGED modemOn

\* Entered by ReInitialize or Timer: no reboot, no login, and the event that
\* leaves the state is posted in any case.
actionInitialEntry ==
  \E ok \in Outcome("init") :
    /\ Enter("Initial", "run")
    /\ pool' = [pool EXCEPT !.initialized = ok]
    /\ postEvent("Initialize")
    /\ modemOn' = (modemOn \/ ok)

\* The registry gives every topic its flags; a topic that is not in it has
\* none, and one that the gateway registered has "GW".
hasAnyTopic(p) == \E t \in Topics : p.registry[t] \cap {"PUB", "SUB"} # {}

actionConnectedEntry ==
  /\ Enter("Connected", "off")
  /\ LET p == [pool EXCEPT !.errno = "Success"] IN
     pool' = IF p.hasSubscription \/ ~hasAnyTopic(p) THEN p
             ELSE IF p.cleanSession # 0
                  THEN [p EXCEPT !.registry = [t \in Topics |-> {}]]
                  ELSE [p EXCEPT !.hasSubscription = TRUE]
  /\ UNCHANGED <<posted, modemOn>>

actionDeepSleepEntry ==
  /\ Enter("DeepSleep", "off")
  /\ doDisconnect(pool)
  /\ modemOn' = FALSE
  /\ pool' = [pool EXCEPT !.initialized = FALSE, !.hasSubscription = FALSE]
  /\ UNCHANGED posted

----------------------------------------------------------------------------
(* Transitions: one action per state and event                             *)

\* startStateMachine(): Initial is entered with an Invalid event, so the
\* modem is rebooted and the login is fixed; then Initialize is dispatched.
startStateMachine ==
  /\ Idle
  /\ stm = "Invalid"
  /\ \E ok \in Outcome("init") :
       pool' = [pool EXCEPT !.initialized = ok, !.authentication = ok]
  /\ stm' = "Initial"
  /\ timer' = "run"
  /\ events' = <<"Initialize">>
  /\ dispatching' = TRUE
  /\ UNCHANGED <<loopVars, posted, calls, client, net, modemOn>>

\* Mutant: the choice isInitialized is skipped.
InitialLeaveUnchecked ==
  /\ stm = "Initial"
  /\ \E e \in {"Initialize", "Timer"} : Take(e)
  /\ actionDisconnectedEntry(pool)

\* Initialize or Timer in Initial, through the choice isInitialized.
InitialLeave ==
  /\ stm = "Initial"
  /\ \E e \in {"Initialize", "Timer"} : Take(e)
  /\ \/ pool.initialized /\ actionDisconnectedEntry(pool)
     \/ /\ ~pool.initialized
        /\ actionErrorEntry([pool EXCEPT !.errno = "InitializeError"])
        /\ UNCHANGED <<loopVars, client, net>>

\* Mutant: the state timer of WaitForConnect is never started.
IpConnectUntimed(p) ==
  /\ net' = TRUE
  /\ mqttConnect(p.cleanSession)
  /\ Enter("WaitForConnect", "off")
  /\ pool' = [p EXCEPT !.restarts = 0]
  /\ UNCHANGED <<posted, modemOn>>

\* actionIsAttachedIpConnect, then the choice isIpConnected.  A failing
\* Network::connect() may leave an old socket number in place.
IpConnect(p) ==
  LET q == [p EXCEPT !.restarts = 0] IN
  \/ /\ net' = TRUE
     /\ mqttConnect(q.cleanSession)
     /\ Enter("WaitForConnect", "run")
     /\ pool' = q
     /\ UNCHANGED <<posted, modemOn>>
  \/ /\ "ip" \in Faults
     /\ net' = FALSE
     /\ actionErrorEntry([q EXCEPT !.errno = "IpNotConnected"])
     /\ UNCHANGED <<loopVars, client>>

\* Connect, through the choice isAttached.
DisconnectedConnect ==
  /\ stm = "Disconnected"
  /\ Take("Connect")
  /\ LET p == [pool EXCEPT !.errno = "Success"] IN
     \/ IpConnect(p)
     \/ /\ doModemAttach
        /\ Enter("WaitForAttach", "run")
        /\ pool' = p
        /\ UNCHANGED <<posted, client, net, modemOn>>

WaitForAttachAttached ==
  /\ stm = "WaitForAttach"
  /\ Take("Attached")
  /\ IpConnect(pool)

WaitForAttachTimer ==
  /\ stm = "WaitForAttach"
  /\ Take("Timer")
  /\ actionErrorEntry([pool EXCEPT !.errno = "GprsNotConnected",
                                   !.restarts = @ + 1])
  /\ UNCHANGED <<loopVars, client, net>>

WaitForConnectConnected ==
  /\ stm = "WaitForConnect"
  /\ Take("ConnectedEv")
  /\ actionConnectedEntry
  /\ UNCHANGED <<loopVars, client, net>>

\* Mutant: no error number is set.
WaitForConnectTimerSilent ==
  /\ stm = "WaitForConnect"
  /\ Take("Timer")
  /\ actionErrorEntry(pool)
  /\ UNCHANGED <<loopVars, client, net>>

WaitForConnectTimer ==
  /\ stm = "WaitForConnect"
  /\ Take("Timer")
  /\ actionErrorEntry([pool EXCEPT !.errno = "ConnectionError"])
  /\ UNCHANGED <<loopVars, client, net>>

ErrorDisconnect ==
  /\ stm = "Error"
  /\ Take("ErrorDisconnect")
  /\ actionDisconnectedEntry(pool)

\* ReInitialize or Timer in Error, ReInitialize in DeepSleep.
ReInitialize ==
  /\ \/ stm = "Error" /\ \E e \in {"ReInitialize", "Timer"} : Take(e)
     \/ stm = "DeepSleep" /\ Take("ReInitialize")
  /\ actionInitialEntry
  /\ UNCHANGED <<loopVars, client, net>>

ConnectedDisconnect ==
  /\ stm = "Connected"
  /\ Take("Disconnect")
  /\ actionDisconnectedEntry(pool)

ConnectedSleepEvent ==
  /\ stm = "Connected"
  /\ Take("Sleep")
  /\ Enter("ConnectedSleep", "off")
  /\ IF pool.duration > 0 THEN mqttDisconnect ELSE UNCHANGED <<client, loopVars>>
  /\ UNCHANGED <<posted, pool, net, modemOn>>

\* The state is Connected at once, whatever becomes of the CONNECT.
ConnectedSleepWakeup ==
  /\ stm = "ConnectedSleep"
  /\ Take("Wakeup")
  /\ IF pool.duration > 0 THEN mqttConnect(0) ELSE UNCHANGED <<client, loopVars>>
  /\ actionConnectedEntry
  /\ UNCHANGED net

\* Mutant: the timer of the awake state is not started.
ConnectedSleepAwakeUntimed ==
  /\ stm = "ConnectedSleep"
  /\ Take("ConnectedAwakeEv")
  /\ Enter("ConnectedAwake", "off")
  /\ UNCHANGED <<loopVars, posted, pool, client, net, modemOn>>

\* The awake state is left by its timer after m_duration seconds.
ConnectedSleepAwake ==
  /\ stm = "ConnectedSleep"
  /\ Take("ConnectedAwakeEv")
  /\ Enter("ConnectedAwake", IF pool.duration = 0 THEN "due" ELSE "run")
  /\ UNCHANGED <<loopVars, posted, pool, client, net, modemOn>>

ConnectedAwakeLeave ==
  /\ stm = "ConnectedAwake"
  /\ \E e \in {"AwakeSleep", "Timer"} : Take(e)
  /\ Enter("ConnectedSleep", "off")
  /\ UNCHANGED <<loopVars, posted, pool, client, net, modemOn>>

Hibernate ==
  /\ stm \in {"Connected", "Disconnected"}
  /\ Take("Hibernate")
  /\ actionDeepSleepEntry

DisconnectedSleepEvent ==
  /\ stm = "Disconnected"
  /\ Take("Sleep")
  /\ Enter("DisconnectedSleep", "off")
  /\ UNCHANGED <<loopVars, posted, pool, client, net, modemOn>>

DisconnectedSleepWakeup ==
  /\ stm = "DisconnectedSleep"
  /\ Take("Wakeup")
  /\ actionDisconnectedEntry(pool)

\* The events a state has a transition for; any other event is ignored.
Accepts(s) ==
  CASE s = "Initial"           -> {"Initialize", "Timer"}
    [] s = "Disconnected"      -> {"Connect", "Sleep", "Hibernate"}
    [] s = "Error"             -> {"ErrorDisconnect", "ReInitialize", "Timer"}
    [] s = "Connected"         -> {"Sleep", "Hibernate", "Disconnect"}
    [] s = "ConnectedSleep"    -> {"Wakeup", "ConnectedAwakeEv"}
    [] s = "ConnectedAwake"    -> {"AwakeSleep", "Timer"}
    [] s = "DeepSleep"         -> {"ReInitialize"}
    [] s = "DisconnectedSleep" -> {"Wakeup"}
    [] s = "WaitForAttach"     -> {"Attached", "Timer"}
    [] s = "WaitForConnect"    -> {"ConnectedEv", "Timer"}
    [] OTHER                   -> {}

IgnoreEvent ==
  /\ \E e \in Events : e \notin Accepts(stm) /\ Take(e)
  /\ UNCHANGED <<loopVars, stm, posted, timer, pool, client, net, modemOn>>

HandleEvent ==
  \/ InitialLeave \/ DisconnectedConnect \/ WaitForAttachAttached
  \/ WaitForAttachTimer \/ WaitForConnectConnected \/ WaitForConnectTimer
  \/ ErrorDisconnect \/ ReInitialize \/ ConnectedDisconnect
  \/ ConnectedSleepEvent \/ ConnectedSleepWakeup \/ ConnectedSleepAwake
  \/ ConnectedAwakeLeave \/ Hibernate \/ DisconnectedSleepEvent
  \/ DisconnectedSleepWakeup \/ IgnoreEvent
=============================================================================

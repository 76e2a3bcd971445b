----------------------------- MODULE NbiotMqtt -----------------------------
(***************************************************************************)
(* The library as its user sees it (nbiotmqtt.cpp): the API functions and  *)
(* the event loop, composed with the state machine (NbiotStm), the loop    *)
(* controller (NbiotLoop) and the loop handlers of the MQTT-SN client      *)
(* (nbiotmqttsnclient.cpp).  The gateway, the modem and the passing of     *)
(* time are the environment: any answer, no answer, any moment.            *)
(***************************************************************************)
EXTENDS NbiotStm, FiniteSets

CONSTANTS
  Calls,      \* the API functions the application uses
  MaxTopics,  \* m_maxTopics
  AutoPoll,   \* autoPollInterval > 0
  Patient     \* the application of the examples: see API

ASSUME MqttAssumption ==
  /\ Calls \subseteq {"connect", "publish", "subscribe", "unsubscribe",
                      "disconnect", "sleep", "hibernate", "wakeup", "poll",
                      "asleep"}
  /\ MaxTopics \in Nat \ {0}
  /\ AutoPoll \in BOOLEAN /\ Patient \in BOOLEAN

----------------------------------------------------------------------------
(* The running API call: a list of things still to do                      *)

Op(o, a) == [op |-> o, arg |-> a]

\* sendEvent(e), then the operations rest.
SendThen(e, rest) == Dispatch(<<e>>) /\ calls' = rest

At(o) == ~dispatching /\ calls # <<>> /\ Head(calls).op = o

SendStep ==
  /\ At("send")
  /\ SendThen(Head(calls).arg, Tail(calls))
  /\ UNCHANGED <<loopVars, pool, client, net, modemOn>>

(***************************************************************************)
(* The application calls function f; MaxQueue bounds the loop client list. *)
(* A patient application follows the main loop of the examples: one call   *)
(* at most after each turn of the event loop, and only if that turn        *)
(* returned LC_Idle.  It did exactly if it left no loop id behind.         *)
(***************************************************************************)
API(f) ==
  /\ Idle
  /\ f \in Calls
  /\ Len(clientList) < MaxQueue
  /\ Patient => loopId = Unknown

Return == IF Patient THEN <<Op("loop", 0)>> ELSE <<>>

----------------------------------------------------------------------------
(* API functions; a call that returns without an effect is left out        *)

connect(clean) ==
  /\ API("connect")
  /\ pool.initialized
  /\ \/ /\ stm # "Connected" /\ ~isSleeping
        /\ pool' = [pool EXCEPT !.cleanSession = clean]
        /\ SendThen("Connect", Return)
     \/ /\ isSleeping
        /\ SendThen("Wakeup", Return)
        /\ UNCHANGED pool
  /\ UNCHANGED <<loopVars, client, net, modemOn>>

publish(t) ==
  /\ API("publish")
  /\ pool.initialized
  /\ \/ isSleeping /\ SendThen("Wakeup", <<Op("publish", t)>> \o Return)
     \/ /\ stm = "Connected" /\ calls' = <<Op("publish", t)>> \o Return
        /\ UNCHANGED stmVars
  /\ UNCHANGED <<loopVars, pool, client, net, modemOn>>

topicCount == Cardinality({t \in Topics : pool.registry[t] # {}})

\* m_currentTopic and m_topicid, once publish() or subscribe() chose t.
Selected(t, p) ==
  [p EXCEPT !.currentTopic = t, !.topicid = t, !.currentReg = p.registry[t]]

\* publish() gives up: errno, then sendEvent(DisconnectEvent).
PublishFails(p, err) ==
  /\ pool' = [p EXCEPT !.errno = err]
  /\ SendThen("Disconnect", Tail(calls))

\* Mutant: the publish loop is registered before the register loop.
PublishBodySwapped ==
  /\ At("publish")
  /\ stm = "Connected" /\ ~isBusy /\ client.isconnected
  /\ LET t == Head(calls).arg IN
     /\ client' = [client EXCEPT !.sendbuf = Packet("REGISTER", t)]
     /\ pool' = Selected(t, [pool EXCEPT !.errno = "Success"])
  /\ RegisterLoopClients(<<"Publish", "Register", "Yield">>)
  /\ calls' = Tail(calls)
  /\ UNCHANGED <<stmVars, net, modemOn>>

\* publish() from the isConnected() test on.  A new topic is registered
\* first; poll() queues a yield behind the publish.
PublishBody ==
  /\ At("publish")
  /\ UNCHANGED <<net, modemOn>>
  /\ LET t     == Head(calls).arg
         known == pool.registry[t] # {}
         p     == [pool EXCEPT !.errno = "Success", !.topicid = NoTopic]
         q     == Selected(t, [p EXCEPT !.registry[t] = IF known THEN @ \cup {"PUB"} ELSE @])
         first == IF known THEN <<>> ELSE <<"Register">>
     IN
     \/ /\ stm # "Connected" \/ isBusy
        /\ calls' = Tail(calls)
        /\ UNCHANGED <<loopVars, stmVars, pool, client>>
     \/ /\ stm = "Connected" /\ ~isBusy
        /\ ~known /\ topicCount >= MaxTopics
        /\ PublishFails(p, "MaxTopicsExceeded")
        /\ UNCHANGED <<loopVars, client>>
     \/ /\ stm = "Connected" /\ ~isBusy
        /\ known \/ topicCount < MaxTopics
        /\ client' = IF known THEN client
                     ELSE [client EXCEPT !.sendbuf = Packet("REGISTER", t)]
        /\ IF client.isconnected
           THEN /\ RegisterLoopClients(first \o <<"Publish", "Yield">>)
                /\ pool' = q
                /\ calls' = Tail(calls)
                /\ UNCHANGED stmVars
           ELSE /\ RegisterLoopClients(first)
                /\ PublishFails(q, "ConnectionError")

loopSubscribe == RegisterLoopClients(<<"Subscribe">>)

\* A topic that is subscribed already only gets a new message handler.
subscribe(t) ==
  /\ API("subscribe")
  /\ stm = "Connected"
  /\ ~isBusy
  /\ "SUB" \notin pool.registry[t]
  /\ pool.registry[t] # {} \/ topicCount < MaxTopics
  /\ pool' = Selected(t, pool)
  /\ IF client.isconnected THEN loopSubscribe
     ELSE UNCHANGED loopVars
  /\ calls' = Return
  /\ UNCHANGED <<stmVars, client, net, modemOn>>

loopUnsubscribe == RegisterLoopClients(<<"Unsubscribe">>)

\* No busy check here; the topic is forgotten before the gateway answers.
unsubscribe(t) ==
  /\ API("unsubscribe")
  /\ stm = "Connected"
  /\ "SUB" \in pool.registry[t]
  /\ client.isconnected
  /\ client' = [client EXCEPT !.sendbuf = Packet("UNSUBSCRIBE", t)]
  /\ loopUnsubscribe
  /\ LET p == [pool EXCEPT !.topicid = t, !.registry[t] = {}] IN
     pool' = [p EXCEPT !.hasSubscription =
                @ /\ \E u \in Topics : "SUB" \in p.registry[u]]
  /\ calls' = Return
  /\ UNCHANGED <<stmVars, net, modemOn>>

disconnect ==
  /\ API("disconnect")
  /\ \/ isSleeping /\ SendThen("Wakeup", <<Op("send", "Disconnect")>> \o Return)
     \/ stm = "Connected" /\ SendThen("Disconnect", Return)
  /\ UNCHANGED <<loopVars, pool, client, net, modemOn>>

sleep(d) ==
  /\ API("sleep")
  /\ stm \in {"Connected", "Disconnected"}
  /\ pool' = [pool EXCEPT !.duration = d, !.autoReconnect = FALSE]
  /\ SendThen("Sleep", Return)
  /\ UNCHANGED <<loopVars, client, net, modemOn>>

hibernate(d) ==
  /\ API("hibernate")
  /\ \/ isSleeping /\ SendThen("Wakeup", <<Op("hibernate", d)>> \o Return)
     \/ /\ stm \in {"Connected", "Disconnected"}
        /\ calls' = <<Op("hibernate", d)>> \o Return
        /\ UNCHANGED stmVars
  /\ UNCHANGED <<loopVars, pool, client, net, modemOn>>

HibernateBody ==
  /\ At("hibernate")
  /\ LET d == Head(calls).arg IN
     pool' = [pool EXCEPT !.duration = d,
                          !.autoReconnect = (stm = "Connected" /\ d > 0)]
  /\ SendThen("Hibernate", Tail(calls))
  /\ UNCHANGED <<loopVars, client, net, modemOn>>

\* Mutant: ConnectedAwake is not put to sleep before it is woken up.
wakeupAwake ==
  /\ API("wakeup")
  /\ isSleeping
  /\ SendThen("Wakeup", <<Op("wakeup", 0)>> \o Return)
  /\ UNCHANGED <<loopVars, pool, client, net, modemOn>>

wakeup ==
  /\ API("wakeup")
  /\ LET rest == <<Op("wakeup", 0)>> \o Return IN
     CASE stm = "ConnectedAwake" ->
            SendThen("AwakeSleep", <<Op("send", "Wakeup")>> \o rest)
       [] stm \in {"ConnectedSleep", "DisconnectedSleep"} ->
            SendThen("Wakeup", rest)
       [] stm = "DeepSleep" -> SendThen("ReInitialize", rest)
       [] OTHER -> calls' = rest /\ UNCHANGED stmVars
  /\ UNCHANGED <<loopVars, pool, client, net, modemOn>>

\* doReconnect() borrows m_cleanSession for the time of one sendEvent().
WakeupBody ==
  /\ At("wakeup")
  /\ IF pool.autoReconnect
     THEN /\ pool' = [pool EXCEPT !.cleanSession = 0]
          /\ SendThen("Connect",
               <<Op("reconnected", pool.cleanSession)>> \o Tail(calls))
     ELSE /\ pool' = [pool EXCEPT !.duration = 0]
          /\ calls' = Tail(calls)
          /\ UNCHANGED stmVars
  /\ UNCHANGED <<loopVars, client, net, modemOn>>

ReconnectDone ==
  /\ At("reconnected")
  /\ pool' = [pool EXCEPT !.cleanSession = Head(calls).arg,
                          !.autoReconnect = FALSE, !.duration = 0]
  /\ calls' = Tail(calls)
  /\ UNCHANGED <<loopVars, stmVars, client, net, modemOn>>

loopYield == RegisterLoopClients(<<"Yield">>)

poll ==
  /\ API("poll")
  /\ \/ isSleeping /\ SendThen("Wakeup", <<Op("yield", 0)>> \o Return)
     \/ /\ stm = "Connected" /\ calls' = <<Op("yield", 0)>> \o Return
        /\ UNCHANGED stmVars
  /\ UNCHANGED <<loopVars, pool, client, net, modemOn>>

yield ==
  /\ At("yield")
  /\ loopYield
  /\ calls' = Tail(calls)
  /\ UNCHANGED <<stmVars, pool, client, net, modemOn>>

----------------------------------------------------------------------------
(* eventLoop(): one turn                                                   *)

eventLoop ==
  /\ Idle
  /\ stm # "Invalid"
  /\ calls' = <<Op("loop", 0)>>
  /\ UNCHANGED <<loopVars, stmVars, pool, client, net, modemOn>>

\* eventLoop(EventModeAsleep) in the state ConnectedSleep.
eventLoopAsleep ==
  /\ API("asleep")
  /\ stm = "ConnectedSleep"
  /\ SendThen("ConnectedAwakeEv", <<Op("ping", 0), Op("yield", 0), Op("loop", 0)>>)
  /\ UNCHANGED <<loopVars, pool, client, net, modemOn>>

\* sendPacket(): nothing leaves without an open socket and a running modem.
sendPacket == IF net /\ modemOn THEN Outcome("send") ELSE {FALSE}

\* A packet that is sent at once: PUBACK, REGACK or PINGREQ.
AtOnce == Packet("AtOnce", 0)

pmPing ==
  /\ At("ping")
  /\ IF client.pmPing THEN UNCHANGED client
     ELSE \E ok \in sendPacket :
            client' = [client EXCEPT !.sendbuf = AtOnce, !.pmPing = ok]
  /\ calls' = Tail(calls)
  /\ UNCHANGED <<loopVars, stmVars, pool, net, modemOn>>

\* What eventLoop() does after nbiotLoop() when the loop is not pending.
Finish == <<Op("dispatch", 0), Op("autopoll", 0)>>

LoopTurn == At("loop") /\ UNCHANGED modemOn

LoopNothing ==
  /\ LoopTurn
  /\ LoopIdle
  /\ calls' = Finish
  /\ UNCHANGED <<stmVars, pool, client, net>>

StartResult(c, ok) ==
  /\ LoopStart(c, ok)
  /\ calls' = IF ok THEN <<>> ELSE <<Op("fail", 0)>> \o Finish

\* The client is still Pending from an earlier life: no start handler runs.
StartStale ==
  /\ LoopTurn
  /\ \E c \in Clients : result[c] = "Pending" /\ StartResult(c, TRUE)
  /\ UNCHANGED <<stmVars, pool, client, net>>

startAttachLoop ==
  /\ LoopTurn
  /\ result["Cgatt"] # "Pending"
  /\ \E ok \in Outcome("attach") : StartResult("Cgatt", ok)
  /\ UNCHANGED <<stmVars, pool, client, net>>

startYieldLoop ==
  /\ LoopTurn
  /\ result["Yield"] # "Pending"
  /\ StartResult("Yield", TRUE)
  /\ client' = [client EXCEPT !.yieldRunning = TRUE]
  /\ UNCHANGED <<stmVars, pool, net>>

\* The start handler of c hands a packet to the modem.
StartWith(c) ==
  /\ LoopTurn
  /\ result[c] # "Pending"
  /\ \E ok \in sendPacket : StartResult(c, ok)

\* The packet of these four was serialised when the client was registered;
\* what is sent is what sendbuf holds now.
startConLoop == StartWith("Connect") /\ UNCHANGED <<stmVars, pool, client, net>>
startRegLoop == StartWith("Register") /\ UNCHANGED <<stmVars, pool, client, net>>
startUnsubLoop == StartWith("Unsubscribe") /\ UNCHANGED <<stmVars, pool, client, net>>
startDisLoop == StartWith("Disconnect") /\ UNCHANGED <<stmVars, pool, client, net>>

\* SUBSCRIBE and PUBLISH are serialised when they are sent, for the topic
\* m_topicid holds now.  "inflight" is inflightMsgid > 0: message id 0 is
\* that of QoS 0.
sendSubPacket ==
  client' = [client EXCEPT !.sendbuf = Packet("SUBSCRIBE", pool.topicid)]

sendPubPacket(qos) ==
  client' = [client EXCEPT !.sendbuf = Packet("PUBLISH", pool.topicid),
                           !.inflight = (qos = 1)]

startSubLoop ==
  StartWith("Subscribe") /\ sendSubPacket /\ UNCHANGED <<stmVars, pool, net>>

startPubLoop ==
  /\ StartWith("Publish")
  /\ \E qos \in {0, 1} : sendPubPacket(qos)
  /\ UNCHANGED <<stmVars, pool, net>>

----------------------------------------------------------------------------
(* A turn of the hooked client                                             *)

StepResult(ok, rc) ==
  calls' = IF ok THEN <<Op("done", 0)>> ELSE <<Op("fail", rc)>> \o Finish

StepDone(c, ok, rc) == LoopStepDone(c, ok) /\ StepResult(ok, rc)

Receiving == net /\ modemOn

\* The clients whose step handler runs cycle().
Cyclers == Clients \ {"Cgatt"}

\* Nothing of interest arrives, and the client's timer is not due yet.
StepWaits ==
  /\ LoopTurn
  /\ \E c \in Clients :
       /\ LoopStepPending(c)
       /\ c = "Yield" => client.yieldRunning
  /\ calls' = <<>>
  /\ UNCHANGED <<stmVars, pool, client, net>>

\* cycle() answers a PUBLISH or sends a keep-alive: both use sendbuf.
StepTraffic ==
  /\ LoopTurn
  /\ Receiving
  /\ \E c \in Cyclers :
       /\ LoopStepPending(c)
       /\ c = "Yield" => client.yieldRunning
  /\ client' = [client EXCEPT !.sendbuf = AtOnce]
  /\ calls' = <<>>
  /\ UNCHANGED <<stmVars, pool, net>>

\* Mutant: the application is told and the state is left alone.
disconnectNotifyOnly(rest) == calls' = rest /\ UNCHANGED stmVars

\* disconnectNotify(0) outside ConnectedSleep and ConnectedAwake calls
\* disconnect(); the loop handler then goes on with rest.
disconnectNotify(rest) ==
  CASE stm = "Connected" -> SendThen("Disconnect", rest)
    [] stm = "DisconnectedSleep" ->
         SendThen("Wakeup", <<Op("send", "Disconnect")>> \o rest)
    [] OTHER -> calls' = rest /\ UNCHANGED stmVars

\* The gateway disconnects on its own, or answers a DISCONNECT.
StepDisconnectReceived ==
  /\ LoopTurn
  /\ Receiving
  /\ \E c \in Cyclers :
       /\ LoopStepPending(c)
       /\ c = "Yield" => client.yieldRunning
       /\ \/ c = "Disconnect" /\ disconnectNotify(<<Op("disconnected", 0)>>)
          \/ c # "Disconnect" /\ "drop" \in Faults /\ disconnectNotify(<<>>)
  /\ client' = [client EXCEPT !.isconnected = FALSE]
  /\ UNCHANGED <<pool, net>>

\* PINGRESP: pingRespNotify() sends AwakeSleep and stops the yield.
StepPingResponse ==
  /\ LoopTurn
  /\ Receiving
  /\ client.pmPing
  /\ \E c \in Cyclers :
       LoopStepPending(c) /\ (c = "Yield" => client.yieldRunning)
  /\ client' = [client EXCEPT !.pmPing = FALSE,
                  !.yieldRunning = @ /\ stm # "ConnectedAwake"]
  /\ IF stm = "ConnectedAwake" THEN SendThen("AwakeSleep", <<>>)
     ELSE calls' = <<>> /\ UNCHANGED stmVars
  /\ UNCHANGED <<pool, net>>

\* The retransmission of doSubLoop() and doPubLoop(): the timer is due, and
\* the packet is serialised again, for what m_topicid holds by now.
doSubLoop ==
  /\ LoopTurn
  /\ LoopStepPending("Subscribe")
  /\ sendSubPacket
  /\ calls' = <<>>
  /\ UNCHANGED <<stmVars, pool, net>>

doPubLoop ==
  /\ LoopTurn
  /\ LoopStepPending("Publish")
  /\ sendPubPacket(1)
  /\ calls' = <<>>
  /\ UNCHANGED <<stmVars, pool, net>>

\* Attached in time, or not.
finishAttachLoop ==
  /\ LoopTurn
  /\ \E ok \in BOOLEAN :
       /\ StepDone("Cgatt", ok, 0)
       /\ IF ok THEN postEvent("Attached") ELSE UNCHANGED posted
  /\ UNCHANGED <<stm, events, timer, dispatching, pool, client, net>>

\* CONNACK, good or bad, or the timeout.  In any case a publish in flight is
\* copied back to sendbuf, although it is not sent again.
finishConLoop ==
  /\ LoopTurn
  /\ \E ok \in BOOLEAN :
       /\ ok => Receiving
       /\ StepDone("Connect", ok, 0)
       /\ client' = [client EXCEPT !.isconnected = @ \/ ok,
                       !.pmPing = @ /\ ~ok,
                       !.sendbuf = IF client.cleansession = 0 /\ client.inflight
                                   THEN Packet("PUBLISH", NoTopic) ELSE @]
  /\ UNCHANGED <<stmVars, pool, net>>

\* A PUBLISH with QoS 0 is done once it is sent.
finishPubLoopQoS0 ==
  /\ LoopTurn
  /\ StepDone("Publish", TRUE, 0)
  /\ UNCHANGED <<stmVars, pool, client, net>>

\* A PUBACK nobody waits for rejects the topic id of an earlier QoS 0 PUBLISH:
\* pubackNotify() forgets that topic.
StepTopicRejected ==
  /\ LoopTurn
  /\ Receiving
  /\ \E c \in Cyclers \ {"Publish"}, t \in Topics :
       /\ LoopStepPending(c)
       /\ c = "Yield" => client.yieldRunning
       /\ "PUB" \in pool.registry[t] /\ ~client.inflight
       /\ pool' = [pool EXCEPT !.registry[t] = {}]
  /\ calls' = <<>>
  /\ UNCHANGED <<stmVars, client, net>>

\* The gateway registers a topic: registerNotify() updates or inserts it,
\* without any flag, and the answer goes through sendbuf.
StepRegisterReceived ==
  /\ LoopTurn
  /\ Receiving
  /\ "register" \in Faults
  /\ \E c \in Cyclers, t \in Topics :
       /\ LoopStepPending(c)
       /\ c = "Yield" => client.yieldRunning
       /\ pool' = IF pool.registry[t] # {} \/ topicCount < MaxTopics
                  THEN [pool EXCEPT !.registry[t] = {"GW"}] ELSE pool
       /\ client' = [client EXCEPT !.sendbuf = AtOnce]
  /\ calls' = <<>>
  /\ UNCHANGED <<stmVars, net>>

\* The acknowledgement arrives and accepts; or it rejects, or cannot be
\* read, or the timer is due first.
Acknowledged(c) ==
  /\ LoopTurn
  /\ \E ok \in BOOLEAN : (ok => Receiving) /\ StepDone(c, ok, 0)
  /\ UNCHANGED <<stmVars, pool, client, net>>

finishRegLoop == Acknowledged("Register")
finishSubLoop == Acknowledged("Subscribe")
finishUnsubLoop == Acknowledged("Unsubscribe")

\* A PUBACK ends the publish loop, or the timer.  The return code counts,
\* and the publish is no longer in flight, only if the PUBACK carries the id
\* in flight.
finishPubLoop ==
  /\ LoopTurn
  /\ \/ /\ Receiving /\ client.inflight
        /\ \E rc \in {0, 1, 2} : StepDone("Publish", rc = 0, rc)
        /\ client' = [client EXCEPT !.inflight = FALSE]
     \/ /\ Receiving /\ StepDone("Publish", TRUE, 0)
        /\ UNCHANGED client
     \/ /\ StepDone("Publish", FALSE, 0)
        /\ UNCHANGED client
  /\ UNCHANGED <<stmVars, pool, net>>

finishYieldLoop ==
  /\ LoopTurn
  /\ \E inTime \in BOOLEAN :
       /\ inTime => ~client.yieldRunning
       /\ StepDone("Yield", ~inTime, 0)
  /\ client' = [client EXCEPT !.yieldRunning = FALSE]
  /\ UNCHANGED <<stmVars, pool, net>>

\* Reached by the timer, or by the gateway's answer, whose notification may
\* have raised the break flag meanwhile.
finishDisLoop ==
  /\ \/ LoopTurn /\ StepDone("Disconnect", TRUE, 0)
     \/ /\ At("disconnected")
        /\ StepEnd("Disconnect", TRUE) /\ StepResult(TRUE, 0)
        /\ UNCHANGED <<breakFlag, modemOn>>
  /\ client' = [client EXCEPT !.isconnected = FALSE, !.pmPing = FALSE]
  /\ UNCHANGED <<stmVars, pool, net>>

----------------------------------------------------------------------------
(* eventLoop() after nbiotLoop()                                           *)

\* LC_Fail: a failed publish ends the connection unless only its topic id
\* was refused (rc 2); in any case every queued client is dropped.
EventLoopFail ==
  /\ At("fail")
  /\ IF loopId # "Publish" THEN UNCHANGED <<pool, posted>>
     ELSE IF Head(calls).arg = 2
     THEN /\ pool' = [pool EXCEPT !.registry[pool.currentTopic] = {}]
          /\ UNCHANGED posted
     ELSE /\ pool' = [pool EXCEPT !.errno = "ConnectionError"]
          /\ postEvent("Disconnect")
  /\ IF loopId = "Disconnect"
     THEN closeSocket /\ breakFlag' = (breakFlag \/ Len(clientList) > 0)
     ELSE UNCHANGED <<net, breakFlag>>
  /\ clear
  /\ calls' = Tail(calls)
  /\ UNCHANGED <<stm, events, timer, dispatching, client, modemOn>>

\* Mutant: the disconnect process is not continued.
EventLoopDoneOpen ==
  /\ At("done")
  /\ calls' = <<>>
  /\ posted' = IF loopId = "Connect" /\ client.isconnected
               THEN Append(posted, "ConnectedEv") ELSE posted
  /\ UNCHANGED <<loopVars, pool, net, stm, events, timer, dispatching, client,
                 modemOn>>

\* Mutant: a subscription is registered and not remembered.
EventLoopDoneUnaware ==
  /\ At("done")
  /\ calls' = <<>>
  /\ pool' = IF loopId = "Subscribe"
             THEN [pool EXCEPT !.registry[pool.currentTopic] = {"SUB"}] ELSE pool
  /\ posted' = IF loopId = "Connect" /\ client.isconnected
               THEN Append(posted, "ConnectedEv") ELSE posted
  /\ UNCHANGED <<loopVars, net, stm, events, timer, dispatching, client, modemOn>>

\* LC_Idle with a loop id: the result is applied, one more turn is needed.
EventLoopDone ==
  /\ At("done")
  /\ calls' = <<>>
  /\ LET flag == IF loopId = "Register" THEN "PUB" ELSE "SUB"
         t    == pool.currentTopic
     IN pool' = IF loopId \in {"Register", "Subscribe"}
                THEN [pool EXCEPT !.currentReg = @ \cup {flag},
                        !.registry[t] = pool.currentReg \cup {flag},
                        !.hasSubscription = @ \/ loopId = "Subscribe"]
                ELSE pool
  /\ posted' = IF loopId = "Connect" /\ client.isconnected
               THEN Append(posted, "ConnectedEv") ELSE posted
  /\ IF loopId = "Disconnect" THEN finishDisconnect
     ELSE UNCHANGED <<loopVars, net>>
  /\ UNCHANGED <<stm, events, timer, dispatching, client, modemOn>>

EventLoopDispatch ==
  /\ At("dispatch")
  /\ Dispatch(<<>>)
  /\ calls' = Tail(calls)
  /\ UNCHANGED <<loopVars, pool, client, net, modemOn>>

EventLoopAutoPoll ==
  /\ At("autopoll")
  /\ calls' = Tail(calls)
  /\ \/ AutoPoll /\ client.isconnected /\ loopYield
     \/ UNCHANGED loopVars
  /\ UNCHANGED <<stmVars, pool, client, net, modemOn>>

----------------------------------------------------------------------------

Application ==
  \/ \E c \in {0, 1} : connect(c)
  \/ \E t \in Topics : publish(t) \/ subscribe(t) \/ unsubscribe(t)
  \/ disconnect \/ wakeup \/ poll
  \/ \E d \in Durations : sleep(d) \/ hibernate(d)

Continue ==
  \/ SendStep \/ PublishBody \/ HibernateBody \/ WakeupBody \/ ReconnectDone
  \/ yield \/ pmPing
  \/ EventLoopFail \/ EventLoopDone \/ EventLoopDispatch \/ EventLoopAutoPoll

LoopStarts ==
  \/ StartStale \/ startAttachLoop \/ startYieldLoop
  \/ startConLoop \/ startRegLoop \/ startUnsubLoop \/ startDisLoop
  \/ startSubLoop \/ startPubLoop

LoopSteps ==
  \/ StepWaits \/ StepTraffic \/ StepDisconnectReceived \/ StepPingResponse
  \/ finishAttachLoop \/ finishConLoop \/ finishPubLoopQoS0
  \/ finishPubLoop \/ doSubLoop \/ doPubLoop
  \/ StepTopicRejected \/ StepRegisterReceived
  \/ finishRegLoop \/ finishSubLoop \/ finishUnsubLoop
  \/ finishYieldLoop \/ finishDisLoop

Next ==
  \/ startStateMachine \/ TimerExpires
  \/ Application \/ eventLoop \/ eventLoopAsleep
  \/ HandleEvent \/ DispatchEnd
  \/ Continue \/ LoopNothing \/ LoopStarts \/ LoopSteps

Init == StmInit
Spec == Init /\ [][Next]_vars

(***************************************************************************)
(* What may be expected of the world.  A function of the library runs to   *)
(* its end.  The application calls the event loop again and again, as      *)
(* libnbiot.h asks it to.  No timer runs forever: neither the one of a     *)
(* state, nor the one that every step handler of a loop client consults.   *)
(***************************************************************************)
Fairness ==
  /\ WF_vars(~Idle /\ Next)
  /\ SF_vars(eventLoop)
  /\ []<>(timer # "run")
  /\ \A c \in Clients : []<>(loopClient # c)

FairSpec == Spec /\ Fairness

----------------------------------------------------------------------------
(* Properties                                                              *)

\* Type invariant of the composed system.  actionErrorEntry() resets
\* m_modemRestartOnError in time: attach errors never outrun the threshold
\* that restarts the modem.
TypeOK ==
  /\ LoopTypeOK
  /\ stm \in States
  /\ events \in Seq(Events) /\ posted \in Seq(Events)
  /\ timer \in {"off", "run", "due"}
  /\ dispatching \in BOOLEAN
  /\ pool.errno \in Errnos
  /\ pool.initialized \in BOOLEAN /\ pool.authentication \in BOOLEAN
  /\ pool.cleanSession \in {0, 1} /\ pool.duration \in Durations
  /\ pool.autoReconnect \in BOOLEAN /\ pool.hasSubscription \in BOOLEAN
  /\ pool.restarts \in 0..RestartThreshold
  /\ pool.topicid \in Topics \cup {NoTopic}
  /\ pool.currentTopic \in Topics \cup {NoTopic}
  /\ pool.currentReg \subseteq {"GW", "PUB", "SUB"}
  /\ pool.registry \in [Topics -> SUBSET {"GW", "PUB", "SUB"}]
  /\ client.isconnected \in BOOLEAN /\ client.pmPing \in BOOLEAN
  /\ client.yieldRunning \in BOOLEAN /\ client.inflight \in BOOLEAN
  /\ client.cleansession \in {0, 1}
  /\ net \in BOOLEAN /\ modemOn \in BOOLEAN

\* Nothing is running, queued or waiting to be dispatched.
Quiet == Idle /\ events = <<>> /\ posted = <<>> /\ ~isBusy

(***************************************************************************)
(* The machine works with the modem only after actionInitialEntry() set it *)
(* up: every state that talks to it, sleeping ones included, has           *)
(* "initialized" set and the modem on, whatever failed, was posted or was  *)
(* left in the event list before.                                          *)
(***************************************************************************)
OperationalStatesInitialized ==
  stm \notin {"Invalid", "Initial", "Error", "DeepSleep"} =>
    pool.initialized /\ modemOn

\* getNbiotError() names the error as long as the state is Error, also when
\* API calls and stale events arrive in between.
ErrorHasReason ==
  stm = "Error" => pool.errno \in {"InitializeError", "GprsNotConnected",
                                  "IpNotConnected", "ConnectionError"}

(***************************************************************************)
(* isNbiotConnected() tells the truth once everything has calmed down: the *)
(* state Connected is backed by a connected MQTT-SN client and a socket.   *)
(***************************************************************************)
ConnectedAtRest == Quiet /\ stm = "Connected" => client.isconnected /\ net

(***************************************************************************)
(* doDisconnect() and finishDisconnect() do their work: at rest, the state *)
(* Disconnected means no connected client and no open socket.              *)
(***************************************************************************)
DisconnectedAtRest ==
  Quiet /\ stm = "Disconnected" => ~client.isconnected /\ ~net

\* wakeup() has left every sleeping state when it decides on a reconnect.
WakeupLeavesSleep == At("wakeup") => ~isSleeping /\ stm # "DeepSleep"

(***************************************************************************)
(* m_hasSubscription decides whether a clean connect may drop the registry *)
(* (actionConnectedEntry): in Connected it is set whenever a subscription  *)
(* is registered.                                                          *)
(***************************************************************************)
SubscriptionsKnown ==
  stm = "Connected" /\ (\E t \in Topics : "SUB" \in pool.registry[t]) =>
    pool.hasSubscription

\* What has to be in sendbuf when the start handler of client c sends it.
OwnPacket(c) ==
  CASE c = "Connect"     -> client.sendbuf.type = "CONNECT"
    [] c = "Register"    -> client.sendbuf = Packet("REGISTER", pool.currentTopic)
    [] c = "Unsubscribe" -> client.sendbuf.type = "UNSUBSCRIBE"
    [] c = "Disconnect"  -> client.sendbuf.type = "DISCONNECT"

(***************************************************************************)
(* The packet a start handler sends is the one that was serialised for it: *)
(* sendbuf has not been overwritten while the client was queued.  For a    *)
(* REGISTER that includes the topic: the one whose id is inserted later.   *)
(***************************************************************************)
LoopSendsOwnPacket ==
  [][startConLoop \/ startRegLoop \/ startUnsubLoop \/ startDisLoop =>
       OwnPacket(Head(clientList))]_vars

\* A connection attempt comes to an end, although the state timer is only
\* looked at when no loop client is pending.
AttemptEnds ==
  (stm \in {"WaitForAttach", "WaitForConnect"}) ~> (stm \in {"Connected", "Error"})

\* Error is left without any help from the application.
ErrorRecovers == (stm = "Error") ~> (stm = "Disconnected")

\* A client that is still connected in Disconnected gets its DISCONNECT
\* through, unless the application reconnects first.
DisconnectCompletes ==
  (stm = "Disconnected" /\ client.isconnected) ~>
    (~client.isconnected \/ stm # "Disconnected")

\* The awake phase of a sleeping client ends, with or without a PINGRESP.
AwakeEnds == (stm = "ConnectedAwake") ~> (stm # "ConnectedAwake")

----------------------------------------------------------------------------
(* What the documentation says and the code does not do: see the README    *)

\* publish() registers a topic with the gateway: whenever the register loop
\* takes over, its start handler has sent a REGISTER for this very call.
RegisterIsSent ==
  [][loopClient' = "Register" /\ loopClient # "Register" =>
       result["Register"] # "Pending"]_vars

\* A subscription lasts until unsubscribe(), until the gateway rejects the
\* topic id, or until a connect.
SubscriptionKept ==
  [][\A t \in Topics :
       "SUB" \in pool.registry[t] /\ "SUB" \notin pool'.registry[t] =>
         \/ unsubscribe(t) \/ StepTopicRejected \/ EventLoopFail
         \/ stm # "Connected" /\ stm' = "Connected"]_vars

\* mqttConnect(): every CONNECT carries the authentication that
\* actionInitialEntry() builds from the login or the IMSI.
AuthenticatedConnect ==
  client.sendbuf.type = "CONNECT" => pool.authentication

\* nbiotHibernate(): once the modem is off and all is calm, the client has
\* been disconnected.
OffMeansDisconnected == Quiet /\ ~modemOn => ~client.isconnected

\* nbiotConnect() with a clean session forgets every registered topic once
\* the connection is made.
CleanSessionForgets ==
  [][stm = "WaitForConnect" /\ stm' = "Connected" /\ pool.cleanSession = 1 =>
       \A t \in Topics : pool'.registry[t] = {}]_vars

\* nbiotConnect() sends a CONNECT: one is queued when the machine starts to
\* wait for its answer.
ConnectSendsConnect ==
  [][stm # "WaitForConnect" /\ stm' = "WaitForConnect" =>
       \E i \in 1..Len(clientList') : clientList'[i] = "Connect"]_vars

\* nbiotHibernate() switches the modem off.
HibernateSwitchesOff == At("hibernate") ~> ~modemOn
=============================================================================

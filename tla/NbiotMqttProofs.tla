-------------------------- MODULE NbiotMqttProofs --------------------------
(***************************************************************************)
(* Proofs about the composed library: the API and the event loop, the      *)
(* state machine with its two event queues, and the loop controller.  They *)
(* hold for every set of topics and durations, every combination of faults *)
(* of the environment, any application (patient or not), and queues of any *)
(* length.  Only the last three sections assume more: an application that  *)
(* uses the library as the examples do (PlainUse) and, the last of them, a *)
(* modem that opens, serves and closes its sockets (SocketsWork).          *)
(*                                                                         *)
(* The order of the proof: types; what a step outside the state machine    *)
(* does to it (Outside); what a handler does (HandleEffect); the order of  *)
(* the events in the two queues (QueueInv), which the safety of the        *)
(* machine rests on; then wakeup(), the subscriptions, the connection, the *)
(* packets that wait in sendbuf, and the way a connection is given up,     *)
(* each with an invariant of its own.                                      *)
(***************************************************************************)
EXTENDS NbiotMqtt, NbiotLoopProofs, SequenceTheorems

----------------------------------------------------------------------------
(* Types                                                                   *)

\* What can be left of an API call.
Ops ==
  {Op("send", e) : e \in {"Disconnect", "Wakeup"}}
  \cup {Op("publish", t) : t \in Topics}
  \cup {Op("hibernate", d) : d \in Durations}
  \cup {Op("reconnected", c) : c \in {0, 1}}
  \cup {Op("fail", rc) : rc \in {0, 1, 2}}
  \cup {Op(o, 0) : o \in {"wakeup", "yield", "ping", "loop", "dispatch",
                          "autopoll", "done", "disconnected"}}

Flags == {"GW", "PUB", "SUB"}

Pools ==
  [errno : Errnos, initialized : BOOLEAN, authentication : BOOLEAN,
   cleanSession : {0, 1}, duration : Durations, autoReconnect : BOOLEAN,
   restarts : Nat, hasSubscription : BOOLEAN,
   topicid : Topics \cup {NoTopic}, currentTopic : Topics \cup {NoTopic},
   currentReg : SUBSET Flags, registry : [Topics -> SUBSET Flags]]

PacketTypes == {"NONE", "CONNECT", "REGISTER", "SUBSCRIBE", "UNSUBSCRIBE",
                "PUBLISH", "DISCONNECT", "AtOnce"}
PacketArgs == Nat \cup Topics \cup {NoTopic}
Packets == [type : PacketTypes, arg : PacketArgs]

ClientRecs ==
  [isconnected : BOOLEAN, cleansession : {0, 1}, sendbuf : Packets,
   inflight : BOOLEAN, pmPing : BOOLEAN, yieldRunning : BOOLEAN]

\* The events that are posted: by the handlers and by eventLoop().
PostEvents == {"Initialize", "Attached", "ConnectedEv", "Disconnect",
               "ReInitialize", "ErrorDisconnect"}

StmTypes ==
  /\ stm \in States
  /\ events \in Seq(Events) /\ posted \in Seq(PostEvents)
  /\ timer \in {"off", "run", "due"}
  /\ dispatching \in BOOLEAN

CallTypes == calls \in Seq(Ops)
PoolTypes == pool \in Pools
ClientTypes == client \in ClientRecs
NetTypes == net \in BOOLEAN /\ modemOn \in BOOLEAN

\* Stronger than TypeOK: the fields of pool and client are all there, calls
\* only holds operations of Ops, and posted only events of PostEvents.
TypeInv ==
  LoopInv /\ StmTypes /\ CallTypes /\ PoolTypes /\ ClientTypes /\ NetTypes

LEMMA OpTypes ==
  /\ \A e \in {"Disconnect", "Wakeup"} : Op("send", e) \in Ops
  /\ \A t \in Topics : Op("publish", t) \in Ops
  /\ \A d \in Durations : Op("hibernate", d) \in Ops
  /\ \A c \in {0, 1} : Op("reconnected", c) \in Ops
  /\ \A rc \in {0, 1, 2} : Op("fail", rc) \in Ops
  /\ \A o \in {"wakeup", "yield", "ping", "loop", "dispatch", "autopoll",
              "done", "disconnected"} : Op(o, 0) \in Ops
  BY DEF Ops

LEMMA OpArgs ==
  ASSUME NEW o \in Ops
  PROVE  /\ o.op = "send" => o.arg \in {"Disconnect", "Wakeup"}
         /\ o.op = "publish" => o.arg \in Topics
         /\ o.op = "hibernate" => o.arg \in Durations
         /\ o.op = "reconnected" => o.arg \in {0, 1}
         /\ o.op = "fail" => o.arg \in {0, 1, 2}
  BY DEF Ops, Op

LEMMA HeadTyped ==
  ASSUME CallTypes, calls # <<>>
  PROVE  Head(calls) \in Ops /\ Tail(calls) \in Seq(Ops)
  BY DEF CallTypes

LEMMA FinishTyped == Finish \in Seq(Ops) /\ Return \in Seq(Ops)
<1>1. Op("dispatch", 0) \in Ops /\ Op("autopoll", 0) \in Ops /\ Op("loop", 0) \in Ops
  BY OpTypes
<1> QED BY <1>1 DEF Finish, Return

LEMMA PoolUpdates ==
  ASSUME NEW p \in Pools
  PROVE  /\ \A e \in Errnos : [p EXCEPT !.errno = e] \in Pools
         /\ \A b \in BOOLEAN : [p EXCEPT !.initialized = b] \in Pools
         /\ \A b \in BOOLEAN : [p EXCEPT !.authentication = b] \in Pools
         /\ \A c \in {0, 1} : [p EXCEPT !.cleanSession = c] \in Pools
         /\ \A d \in Durations : [p EXCEPT !.duration = d] \in Pools
         /\ \A b \in BOOLEAN : [p EXCEPT !.autoReconnect = b] \in Pools
         /\ \A n \in Nat : [p EXCEPT !.restarts = n] \in Pools
         /\ \A b \in BOOLEAN : [p EXCEPT !.hasSubscription = b] \in Pools
         /\ \A t \in Topics \cup {NoTopic} : [p EXCEPT !.topicid = t] \in Pools
         /\ \A t \in Topics \cup {NoTopic} : [p EXCEPT !.currentTopic = t] \in Pools
         /\ \A F \in SUBSET Flags : [p EXCEPT !.currentReg = F] \in Pools
         /\ \A r \in [Topics -> SUBSET Flags] : [p EXCEPT !.registry = r] \in Pools
  BY DEF Pools

LEMMA ClientUpdates ==
  ASSUME NEW p \in ClientRecs
  PROVE  /\ \A b \in BOOLEAN : [p EXCEPT !.isconnected = b] \in ClientRecs
         /\ \A c \in {0, 1} : [p EXCEPT !.cleansession = c] \in ClientRecs
         /\ \A k \in Packets : [p EXCEPT !.sendbuf = k] \in ClientRecs
         /\ \A b \in BOOLEAN : [p EXCEPT !.inflight = b] \in ClientRecs
         /\ \A b \in BOOLEAN : [p EXCEPT !.pmPing = b] \in ClientRecs
         /\ \A b \in BOOLEAN : [p EXCEPT !.yieldRunning = b] \in ClientRecs
  BY DEF ClientRecs

LEMMA PoolFields ==
  ASSUME NEW p \in Pools
  PROVE  /\ p.errno \in Errnos
         /\ p.initialized \in BOOLEAN /\ p.authentication \in BOOLEAN
         /\ p.cleanSession \in {0, 1} /\ p.duration \in Durations
         /\ p.autoReconnect \in BOOLEAN /\ p.hasSubscription \in BOOLEAN
         /\ p.restarts \in Nat
         /\ p.topicid \in Topics \cup {NoTopic}
         /\ p.currentTopic \in Topics \cup {NoTopic}
         /\ p.currentReg \in SUBSET Flags
         /\ p.registry \in [Topics -> SUBSET Flags]
  BY DEF Pools

LEMMA ClientFields ==
  ASSUME NEW p \in ClientRecs
  PROVE  /\ p.isconnected \in BOOLEAN /\ p.pmPing \in BOOLEAN
         /\ p.yieldRunning \in BOOLEAN /\ p.inflight \in BOOLEAN
         /\ p.cleansession \in {0, 1}
  BY DEF ClientRecs

LEMMA PacketTyped ==
  ASSUME NEW type \in PacketTypes, NEW arg \in PacketArgs
  PROVE  Packet(type, arg) \in Packets
  BY DEF Packet, Packets

LEMMA InitTypes == Init => TypeInv
<1> SUFFICES ASSUME Init PROVE TypeInv
  OBVIOUS
<1> USE DEF Init, StmInit
<1>1. LoopInv
  BY LoopInitInv
<1>2. StmTypes
  <2>1. dispatching \in BOOLEAN
    BY Zenon
  <2> QED BY <2>1 DEF StmTypes, States, Events, PostEvents
<1>3. CallTypes
  BY DEF CallTypes
<1>4. PoolTypes
  BY StmAssumption DEF PoolTypes, Pools, Errnos, Flags
<1>5. ClientTypes
  <2>1. Packet("NONE", 0) \in Packets
    BY PacketTyped DEF PacketTypes, PacketArgs
  <2>2. client = [isconnected |-> FALSE, cleansession |-> 0,
                  sendbuf |-> Packet("NONE", 0), inflight |-> FALSE,
                  pmPing |-> FALSE, yieldRunning |-> FALSE]
    OBVIOUS
  <2>3. FALSE \in BOOLEAN
    OBVIOUS
  <2> HIDE DEF Init, StmInit
  <2> QED BY <2>1, <2>2, <2>3 DEF ClientTypes, ClientRecs
<1>6. NetTypes
  BY Zenon DEF NetTypes
<1> QED BY <1>1, <1>2, <1>3, <1>4, <1>5, <1>6 DEF TypeInv

----------------------------------------------------------------------------
(* What the helpers of the handlers do to the types                        *)

LEMMA ClientNames ==
  /\ "Cgatt" \in Clients /\ "Yield" \in Clients /\ "Connect" \in Clients
  /\ "Publish" \in Clients /\ "Register" \in Clients
  /\ "Subscribe" \in Clients /\ "Unsubscribe" \in Clients
  /\ "Disconnect" \in Clients
  BY StmAssumption

LEMMA RegisterTyped ==
  ASSUME LoopInv, NEW cs \in Seq(Clients), RegisterLoopClients(cs)
  PROVE  LoopInv'
  BY DEF RegisterLoopClients, LoopInv, LoopTypeOK, HookedIsPending

LEMMA ClearTyped ==
  ASSUME LoopInv, clear, breakFlag' \in BOOLEAN
  PROVE  LoopInv'
  BY DEF clear, LoopInv, LoopTypeOK, HookedIsPending

LEMMA BreakTyped ==
  ASSUME LoopInv, loopBreak
  PROVE  LoopInv'
  BY DEF loopBreak, LoopInv, LoopTypeOK, HookedIsPending

LEMMA LoopSame == LoopInv /\ UNCHANGED loopVars => LoopInv'
  BY DEF loopVars, LoopInv, LoopTypeOK, HookedIsPending

LEMMA StmSame == StmTypes /\ UNCHANGED stmVars => StmTypes'
  BY DEF stmVars, StmTypes

LEMMA OutcomeTyped == \A f : Outcome(f) \subseteq BOOLEAN
  BY DEF Outcome

LEMMA SendPacketTyped == sendPacket \subseteq BOOLEAN
  BY OutcomeTyped DEF sendPacket

\* The parts of the types that the event, the entry of a state and the
\* client and its network account for.
Taken ==
  /\ events' \in Seq(Events) /\ dispatching' \in BOOLEAN
  /\ CallTypes'

Entered ==
  /\ stm' \in States /\ timer' \in {"off", "run", "due"}
  /\ posted' \in Seq(PostEvents)
  /\ PoolTypes' /\ modemOn' \in BOOLEAN

Linked == LoopInv' /\ ClientTypes' /\ net' \in BOOLEAN

LEMMA HandledTyped == Taken /\ Entered /\ Linked => TypeInv'
  BY DEF Taken, Entered, Linked, TypeInv, StmTypes, NetTypes

LEMMA LinkSame ==
  TypeInv /\ UNCHANGED <<loopVars, client, net>> => Linked
<1> SUFFICES ASSUME TypeInv, UNCHANGED <<loopVars, client, net>> PROVE Linked
  OBVIOUS
<1>1. LoopInv'
  BY LoopSame DEF TypeInv
<1> QED BY <1>1 DEF TypeInv, Linked, ClientTypes, NetTypes

LEMMA TakeTyped ==
  ASSUME TypeInv, NEW e, Take(e)
  PROVE  Taken /\ e \in Events
<1>1. events' \in Seq(Events) /\ e \in Events
  BY DEF TypeInv, StmTypes, Take
<1>2. dispatching' \in BOOLEAN /\ CallTypes'
  BY DEF TypeInv, StmTypes, CallTypes, Take
<1> QED BY <1>1, <1>2 DEF Taken

LEMMA DurationArgs == Durations \subseteq PacketArgs /\ {0, 1} \subseteq PacketArgs
  BY StmAssumption DEF PacketArgs

LEMMA ClientDisconnectTyped ==
  ASSUME TypeInv, NEW p \in Pools, clientDisconnect(p)
  PROVE  LoopInv' /\ ClientTypes'
<1>1. Packet("DISCONNECT", p.duration) \in Packets
  BY PoolFields, PacketTyped, DurationArgs DEF PacketTypes
<1>2. ClientTypes'
  BY <1>1, ClientUpdates DEF clientDisconnect, TypeInv, ClientTypes
<1>3. <<"Disconnect">> \in Seq(Clients)
  BY ClientNames
<1>4. LoopInv'
  BY <1>3, RegisterTyped DEF clientDisconnect, loopDisconnect, TypeInv
<1> QED BY <1>2, <1>4

LEMMA CloseTyped == TypeInv /\ closeSocket => net' \in BOOLEAN
<1> SUFFICES ASSUME TypeInv, closeSocket PROVE net' \in BOOLEAN
  OBVIOUS
<1>1. CASE net
  BY <1>1, Zenon DEF closeSocket
<1>2. CASE ~net
  BY <1>2 DEF closeSocket, TypeInv, NetTypes
<1> QED BY <1>1, <1>2

LEMMA FinishDisconnectTyped ==
  TypeInv /\ finishDisconnect => LoopInv' /\ net' \in BOOLEAN
<1> SUFFICES ASSUME TypeInv, finishDisconnect PROVE LoopInv' /\ net' \in BOOLEAN
  OBVIOUS
<1>1. net' \in BOOLEAN
  BY CloseTyped DEF finishDisconnect
<1>2. LoopInv'
  BY BreakTyped, LoopSame DEF finishDisconnect, TypeInv
<1> QED BY <1>1, <1>2

LEMMA DoDisconnectTyped ==
  ASSUME TypeInv, NEW p \in Pools, doDisconnect(p)
  PROVE  Linked
<1>1. CASE clientDisconnect(p) /\ UNCHANGED net
  BY <1>1, ClientDisconnectTyped DEF Linked, TypeInv, NetTypes
<1>2. CASE finishDisconnect /\ UNCHANGED client
  BY <1>2, FinishDisconnectTyped DEF Linked, TypeInv, ClientTypes
<1> QED BY <1>1, <1>2 DEF doDisconnect

LEMMA MqttDisconnectTyped == TypeInv /\ mqttDisconnect => LoopInv' /\ ClientTypes'
<1> SUFFICES ASSUME TypeInv, mqttDisconnect PROVE LoopInv' /\ ClientTypes'
  OBVIOUS
<1>1. CASE clientDisconnect(pool)
  BY <1>1, ClientDisconnectTyped DEF TypeInv, PoolTypes
<1>2. CASE UNCHANGED <<client, loopVars>>
  BY <1>2, LoopSame DEF TypeInv, ClientTypes
<1> QED BY <1>1, <1>2 DEF mqttDisconnect

LEMMA MqttConnectTyped ==
  ASSUME TypeInv, NEW clean \in {0, 1}, mqttConnect(clean)
  PROVE  LoopInv' /\ ClientTypes'
<1>1. CASE UNCHANGED <<client, loopVars>>
  BY <1>1, LoopSame DEF TypeInv, ClientTypes
<1>2. CASE /\ client' = [client EXCEPT !.sendbuf = Packet("CONNECT", clean),
                                       !.cleansession = clean]
           /\ loopConnect
  <2>1. Packet("CONNECT", clean) \in Packets
    BY PacketTyped, DurationArgs DEF PacketTypes
  <2>2. [client EXCEPT !.sendbuf = Packet("CONNECT", clean)] \in ClientRecs
    BY <2>1, ClientUpdates DEF TypeInv, ClientTypes
  <2>3. ClientTypes'
    BY <1>2, <2>2, ClientUpdates DEF ClientTypes
  <2>4. <<"Connect">> \in Seq(Clients)
    BY ClientNames
  <2> QED BY <1>2, <2>3, <2>4, RegisterTyped DEF loopConnect, TypeInv
<1> QED BY <1>1, <1>2 DEF mqttConnect

LEMMA DisconnectedEntryTyped ==
  ASSUME TypeInv, NEW p \in Pools, actionDisconnectedEntry(p)
  PROVE  Entered /\ Linked
<1>1. Linked
  BY DoDisconnectTyped DEF actionDisconnectedEntry
<1>2. PoolTypes'
  BY PoolUpdates DEF actionDisconnectedEntry, PoolTypes, Errnos
<1>3. stm' \in States /\ timer' \in {"off", "run", "due"}
  BY DEF actionDisconnectedEntry, Enter, States
<1>4. posted' \in Seq(PostEvents) /\ modemOn' \in BOOLEAN
  BY DEF actionDisconnectedEntry, TypeInv, StmTypes, NetTypes
<1> QED BY <1>1, <1>2, <1>3, <1>4 DEF Entered

LEMMA ErrorEntryTyped ==
  ASSUME TypeInv, NEW p \in Pools, actionErrorEntry(p)
  PROVE  Entered
<1>1. PoolTypes'
  BY PoolUpdates DEF actionErrorEntry, PoolTypes
<1>2. stm' \in States /\ timer' \in {"off", "run", "due"}
  BY DEF actionErrorEntry, Enter, States
<1>3. posted' \in Seq(PostEvents)
  <2>1. \A e \in PostEvents : Append(posted, e) \in Seq(PostEvents)
    BY DEF TypeInv, StmTypes
  <2>2. posted \in Seq(PostEvents)
    BY DEF TypeInv, StmTypes
  <2>3. "ReInitialize" \in PostEvents /\ "ErrorDisconnect" \in PostEvents
    BY DEF PostEvents
  <2> QED BY <2>1, <2>2, <2>3, Zenon DEF actionErrorEntry, postEvent
<1>4. modemOn' \in BOOLEAN
  BY DEF actionErrorEntry, TypeInv, NetTypes
<1> QED BY <1>1, <1>2, <1>3, <1>4 DEF Entered

LEMMA InitialEntryTyped == TypeInv /\ actionInitialEntry => Entered
<1> SUFFICES ASSUME TypeInv, actionInitialEntry PROVE Entered
  OBVIOUS
<1>1. PICK ok \in Outcome("init") :
           /\ Enter("Initial", "run")
           /\ pool' = [pool EXCEPT !.initialized = ok]
           /\ postEvent("Initialize")
           /\ modemOn' = (modemOn \/ ok)
  BY DEF actionInitialEntry
<1>2. ok \in BOOLEAN
  BY OutcomeTyped
<1>3. PoolTypes'
  BY <1>1, <1>2, PoolUpdates DEF TypeInv, PoolTypes
<1>4. stm' \in States /\ timer' \in {"off", "run", "due"}
  BY <1>1 DEF Enter, States
<1>5. posted' \in Seq(PostEvents)
  BY <1>1 DEF postEvent, PostEvents, TypeInv, StmTypes
<1>6. modemOn' \in BOOLEAN
  BY <1>1, Zenon
<1> QED BY <1>3, <1>4, <1>5, <1>6 DEF Entered

LEMMA ConnectedEntryTyped == TypeInv /\ actionConnectedEntry => Entered
<1> SUFFICES ASSUME TypeInv, actionConnectedEntry PROVE Entered
  OBVIOUS
<1>1. PoolTypes'
  <2> DEFINE p == [pool EXCEPT !.errno = "Success"]
  <2>1. p \in Pools
    BY PoolUpdates DEF TypeInv, PoolTypes, Errnos
  <2>2. [t \in Topics |-> {}] \in [Topics -> SUBSET Flags]
    OBVIOUS
  <2>3. /\ [p EXCEPT !.registry = [t \in Topics |-> {}]] \in Pools
        /\ [p EXCEPT !.hasSubscription = TRUE] \in Pools
    BY <2>1, <2>2, PoolUpdates
  <2> QED BY <2>1, <2>3 DEF actionConnectedEntry, PoolTypes
<1>2. stm' \in States /\ timer' \in {"off", "run", "due"}
  BY DEF actionConnectedEntry, Enter, States
<1>3. posted' \in Seq(PostEvents) /\ modemOn' \in BOOLEAN
  BY DEF actionConnectedEntry, TypeInv, StmTypes, NetTypes
<1> QED BY <1>1, <1>2, <1>3 DEF Entered

LEMMA IpConnectTyped ==
  ASSUME TypeInv, NEW p \in Pools, IpConnect(p)
  PROVE  Entered /\ Linked
<1> DEFINE q == [p EXCEPT !.restarts = 0]
<1>1. q \in Pools /\ q.cleanSession \in {0, 1}
  BY PoolUpdates, PoolFields
<1> HIDE DEF q
<1>2. ASSUME net' = TRUE, mqttConnect(q.cleanSession),
             Enter("WaitForConnect", "run"), pool' = q,
             UNCHANGED <<posted, modemOn>>
      PROVE  Entered /\ Linked
  <2>1. LoopInv' /\ ClientTypes'
    BY <1>1, <1>2, MqttConnectTyped
  <2>2. net' \in BOOLEAN
    BY <1>2, Zenon
  <2>3. Entered
    BY <1>1, <1>2 DEF Enter, Entered, States, PoolTypes, TypeInv, StmTypes, NetTypes
  <2> QED BY <2>1, <2>2, <2>3 DEF Linked
<1>3. ASSUME net' = FALSE, actionErrorEntry([q EXCEPT !.errno = "IpNotConnected"]),
             UNCHANGED <<loopVars, client>>
      PROVE  Entered /\ Linked
  <2>1. [q EXCEPT !.errno = "IpNotConnected"] \in Pools
    BY <1>1, PoolUpdates DEF Errnos
  <2>2. Entered
    BY <1>3, <2>1, ErrorEntryTyped
  <2>3. LoopInv' /\ ClientTypes'
    BY <1>3, LoopSame DEF TypeInv, ClientTypes
  <2>4. net' \in BOOLEAN
    BY <1>3, Zenon
  <2> QED BY <2>2, <2>3, <2>4 DEF Linked
<1> QED BY <1>2, <1>3 DEF IpConnect, q

\* Every handler keeps the types.
LEMMA HandleTyped == TypeInv /\ HandleEvent => TypeInv'
<1> SUFFICES ASSUME TypeInv, HandleEvent PROVE TypeInv'
  OBVIOUS
<1>0. pool \in Pools /\ pool.restarts \in Nat /\ pool.cleanSession \in {0, 1}
  BY PoolFields DEF TypeInv, PoolTypes
<1>1. Taken
  <2>1. \E e : Take(e)
    BY DEF HandleEvent, InitialLeave, DisconnectedConnect,
       WaitForAttachAttached, WaitForAttachTimer, WaitForConnectConnected,
       WaitForConnectTimer, ErrorDisconnect, ReInitialize,
       ConnectedDisconnect, ConnectedSleepEvent, ConnectedSleepWakeup,
       ConnectedSleepAwake, ConnectedAwakeLeave, Hibernate,
       DisconnectedSleepEvent, DisconnectedSleepWakeup, IgnoreEvent
  <2> QED BY <2>1, TakeTyped
<1>2. SUFFICES Entered /\ Linked
  BY <1>1, HandledTyped
<1>3. CASE InitialLeave
  <2>1. CASE actionDisconnectedEntry(pool)
    BY <1>0, <2>1, DisconnectedEntryTyped
  <2>2. CASE /\ actionErrorEntry([pool EXCEPT !.errno = "InitializeError"])
             /\ UNCHANGED <<loopVars, client, net>>
    <3>1. [pool EXCEPT !.errno = "InitializeError"] \in Pools
      BY <1>0, PoolUpdates DEF Errnos
    <3> QED BY <2>2, <3>1, ErrorEntryTyped, LinkSame
  <2> QED BY <1>3, <2>1, <2>2 DEF InitialLeave
<1>4. CASE DisconnectedConnect
  <2> DEFINE p == [pool EXCEPT !.errno = "Success"]
  <2>1. p \in Pools
    BY <1>0, PoolUpdates DEF Errnos
  <2> HIDE DEF p
  <2>2. CASE IpConnect(p)
    BY <2>1, <2>2, IpConnectTyped
  <2>3. ASSUME doModemAttach, Enter("WaitForAttach", "run"), pool' = p,
               UNCHANGED <<posted, client, net, modemOn>>
        PROVE  Entered /\ Linked
    <3>1. <<"Cgatt">> \in Seq(Clients)
      BY ClientNames
    <3>2. LoopInv'
      BY <2>3, <3>1, RegisterTyped DEF doModemAttach, TypeInv
    <3>3. Linked
      BY <2>3, <3>2 DEF Linked, TypeInv, ClientTypes, NetTypes
    <3>4. Entered
      BY <2>1, <2>3 DEF Entered, Enter, States, TypeInv, StmTypes, PoolTypes, NetTypes
    <3> QED BY <3>3, <3>4
  <2> QED BY <1>4, <2>2, <2>3 DEF DisconnectedConnect, p
<1>5. CASE WaitForAttachAttached
  BY <1>0, <1>5, IpConnectTyped DEF WaitForAttachAttached
<1>6. CASE WaitForAttachTimer
  <2>1. [pool EXCEPT !.errno = "GprsNotConnected"] \in Pools
    BY <1>0, PoolUpdates DEF Errnos
  <2>2. pool.restarts + 1 \in Nat
    BY <1>0
  <2>3. [[pool EXCEPT !.errno = "GprsNotConnected"]
           EXCEPT !.restarts = pool.restarts + 1] \in Pools
    BY <2>1, <2>2, PoolUpdates
  <2>4. [pool EXCEPT !.errno = "GprsNotConnected", !.restarts = @ + 1] \in Pools
    BY <1>0, <2>3 DEF Pools
  <2> QED BY <1>6, <2>4, ErrorEntryTyped, LinkSame DEF WaitForAttachTimer
<1>7. CASE WaitForConnectConnected
  BY <1>7, ConnectedEntryTyped, LinkSame DEF WaitForConnectConnected
<1>8. CASE WaitForConnectTimer
  <2>1. [pool EXCEPT !.errno = "ConnectionError"] \in Pools
    BY <1>0, PoolUpdates DEF Errnos
  <2> QED BY <1>8, <2>1, ErrorEntryTyped, LinkSame DEF WaitForConnectTimer
<1>9. CASE ErrorDisconnect
  BY <1>0, <1>9, DisconnectedEntryTyped DEF ErrorDisconnect
<1>10. CASE ReInitialize
  BY <1>10, InitialEntryTyped, LinkSame DEF ReInitialize
<1>11. CASE ConnectedDisconnect
  BY <1>0, <1>11, DisconnectedEntryTyped DEF ConnectedDisconnect
<1>12. ASSUME NEW s \in States, NEW t \in {"off", "run", "due"}, Enter(s, t),
              UNCHANGED <<posted, pool, modemOn>>
       PROVE  Entered
  BY <1>12 DEF Entered, Enter, TypeInv, StmTypes, PoolTypes, NetTypes
<1>13. CASE ConnectedSleepEvent
  <2>1. LoopInv' /\ ClientTypes' /\ net' \in BOOLEAN
    <3>1. CASE mqttDisconnect
      BY <1>13, <3>1, MqttDisconnectTyped DEF ConnectedSleepEvent, TypeInv, NetTypes
    <3>2. CASE UNCHANGED <<client, loopVars>>
      BY <1>13, <3>2, LoopSame DEF ConnectedSleepEvent, TypeInv, ClientTypes, NetTypes
    <3> QED BY <1>13, <3>1, <3>2 DEF ConnectedSleepEvent
  <2>2. Entered
    BY <1>12, <1>13 DEF ConnectedSleepEvent, States
  <2> QED BY <2>1, <2>2 DEF Linked
<1>14. CASE ConnectedSleepWakeup
  <2>1. LoopInv' /\ ClientTypes' /\ net' \in BOOLEAN
    <3>1. CASE mqttConnect(0)
      BY <1>14, <3>1, MqttConnectTyped DEF ConnectedSleepWakeup, TypeInv, NetTypes
    <3>2. CASE UNCHANGED <<client, loopVars>>
      BY <1>14, <3>2, LoopSame DEF ConnectedSleepWakeup, TypeInv, ClientTypes, NetTypes
    <3> QED BY <1>14, <3>1, <3>2 DEF ConnectedSleepWakeup
  <2> QED BY <1>14, <2>1, ConnectedEntryTyped DEF ConnectedSleepWakeup, Linked
<1>15. CASE ConnectedSleepAwake
  BY <1>12, <1>15, LinkSame DEF ConnectedSleepAwake, States
<1>16. CASE ConnectedAwakeLeave
  BY <1>12, <1>16, LinkSame DEF ConnectedAwakeLeave, States
<1>17. CASE Hibernate
  <2>1. Linked
    BY <1>0, <1>17, DoDisconnectTyped DEF Hibernate, actionDeepSleepEntry
  <2>2. [[pool EXCEPT !.initialized = FALSE] EXCEPT !.hasSubscription = FALSE] \in Pools
    BY <1>0, PoolUpdates
  <2>3. PoolTypes'
    BY <1>0, <1>17, <2>2 DEF Hibernate, actionDeepSleepEntry, PoolTypes, Pools
  <2>4. modemOn' \in BOOLEAN
    BY <1>17, Zenon DEF Hibernate, actionDeepSleepEntry
  <2>5. Entered
    BY <1>17, <2>3, <2>4 DEF Hibernate, actionDeepSleepEntry, Entered, Enter,
       States, TypeInv, StmTypes
  <2> QED BY <2>1, <2>5
<1>18. CASE DisconnectedSleepEvent
  BY <1>12, <1>18, LinkSame DEF DisconnectedSleepEvent, States
<1>19. CASE DisconnectedSleepWakeup
  BY <1>0, <1>19, DisconnectedEntryTyped DEF DisconnectedSleepWakeup
<1>20. CASE IgnoreEvent
  <2>1. Linked
    BY <1>20, LinkSame DEF IgnoreEvent
  <2>2. Entered
    BY <1>20 DEF IgnoreEvent, Entered, TypeInv, StmTypes, PoolTypes, NetTypes
  <2> QED BY <2>1, <2>2
<1> QED BY <1>3, <1>4, <1>5, <1>6, <1>7, <1>8, <1>9, <1>10, <1>11, <1>13,
           <1>14, <1>15, <1>16, <1>17, <1>18, <1>19, <1>20 DEF HandleEvent

----------------------------------------------------------------------------
(* The same for the API and the event loop                                 *)

LEMMA SameTyped ==
  ASSUME TypeInv
  PROVE  /\ UNCHANGED loopVars => LoopInv'
         /\ UNCHANGED stmVars => StmTypes'
         /\ UNCHANGED calls => CallTypes'
         /\ UNCHANGED pool => PoolTypes'
         /\ UNCHANGED client => ClientTypes'
         /\ UNCHANGED <<net, modemOn>> => NetTypes'
  BY LoopSame, StmSame DEF TypeInv, CallTypes, PoolTypes, ClientTypes, NetTypes

LEMMA AllTyped ==
  LoopInv' /\ StmTypes' /\ CallTypes' /\ PoolTypes' /\ ClientTypes' /\ NetTypes'
    => TypeInv'
  BY DEF TypeInv

LEMMA DispatchTyped ==
  ASSUME TypeInv, NEW es \in Seq(Events), Dispatch(es)
  PROVE  StmTypes'
<1>1. events' \in Seq(Events)
  <2>1. <<"Timer">> \in Seq(Events) /\ <<>> \in Seq(Events)
    BY DEF Events
  <2>2. events \o es \in Seq(Events)
    BY DEF TypeInv, StmTypes
  <2> QED BY <2>1, <2>2 DEF Dispatch
<1>2. stm' \in States /\ posted' \in Seq(PostEvents) /\ timer' \in {"off", "run", "due"}
  BY DEF Dispatch, TypeInv, StmTypes
<1>3. dispatching' \in BOOLEAN
  BY Zenon DEF Dispatch
<1> QED BY <1>1, <1>2, <1>3 DEF StmTypes

LEMMA SendTyped ==
  ASSUME TypeInv, NEW e \in Events, NEW rest \in Seq(Ops), SendThen(e, rest)
  PROVE  StmTypes' /\ CallTypes'
<1>1. <<e>> \in Seq(Events)
  OBVIOUS
<1> QED BY <1>1, DispatchTyped DEF SendThen, CallTypes

LEMMA StartTyped ==
  ASSUME TypeInv, NEW c \in Clients, NEW ok \in BOOLEAN, StartResult(c, ok)
  PROVE  LoopInv' /\ CallTypes'
<1>1. <<>> \in Seq(Ops) /\ <<Op("fail", 0)>> \o Finish \in Seq(Ops)
  BY OpTypes, FinishTyped
<1>2. CallTypes'
  BY <1>1 DEF StartResult, CallTypes
<1> QED BY <1>2, StartInv DEF StartResult, TypeInv

LEMMA StepResultTyped ==
  ASSUME NEW ok \in BOOLEAN, NEW rc \in {0, 1, 2}, StepResult(ok, rc)
  PROVE  CallTypes'
<1>1. <<Op("done", 0)>> \in Seq(Ops) /\ <<Op("fail", rc)>> \o Finish \in Seq(Ops)
  BY OpTypes, FinishTyped
<1> QED BY <1>1 DEF StepResult, CallTypes

LEMMA DoneTyped ==
  ASSUME TypeInv, NEW c \in Clients, NEW ok \in BOOLEAN, NEW rc \in {0, 1, 2},
         StepDone(c, ok, rc)
  PROVE  LoopInv' /\ CallTypes'
<1>1. StepEnd(c, ok) /\ breakFlag' \in BOOLEAN
  BY DEF StepDone, LoopStepDone, TypeInv, LoopInv, LoopTypeOK
<1> QED BY <1>1, StepEndInv, StepResultTyped DEF StepDone, TypeInv

LEMMA PendingTyped ==
  ASSUME TypeInv, NEW c, LoopStepPending(c)
  PROVE  LoopInv'
  BY LoopSame DEF LoopStepPending, TypeInv

LEMMA SendbufTyped ==
  ASSUME TypeInv, NEW k \in Packets, client' = [client EXCEPT !.sendbuf = k]
  PROVE  ClientTypes'
  BY ClientUpdates DEF TypeInv, ClientTypes

LEMMA RegistryTyped ==
  ASSUME NEW p \in Pools, NEW t, NEW F \in SUBSET Flags
  PROVE  [p EXCEPT !.registry[t] = F] \in Pools
<1>1. [p.registry EXCEPT ![t] = F] \in [Topics -> SUBSET Flags]
  BY PoolFields
<1> QED BY <1>1, PoolUpdates

LEMMA SelectedTyped ==
  ASSUME NEW p \in Pools, NEW t \in Topics
  PROVE  Selected(t, p) \in Pools
<1>1. p.registry[t] \in SUBSET Flags
  BY PoolFields
<1>2. [p EXCEPT !.currentTopic = t] \in Pools
  BY PoolUpdates
<1>3. [[p EXCEPT !.currentTopic = t] EXCEPT !.topicid = t] \in Pools
  BY <1>2, PoolUpdates
<1>4. [[[p EXCEPT !.currentTopic = t] EXCEPT !.topicid = t]
         EXCEPT !.currentReg = p.registry[t]] \in Pools
  BY <1>1, <1>3, PoolUpdates
<1> QED BY <1>4 DEF Selected, Pools

\* The calls of the application keep the types.
LEMMA ApplicationTyped == TypeInv /\ (Application \/ eventLoop \/ eventLoopAsleep) => TypeInv'
<1> SUFFICES ASSUME TypeInv, Application \/ eventLoop \/ eventLoopAsleep PROVE TypeInv'
  OBVIOUS
<1>0. pool \in Pools /\ client \in ClientRecs
  BY DEF TypeInv, PoolTypes, ClientTypes
<1>r. Return \in Seq(Ops)
  BY FinishTyped
<1>e. /\ "Connect" \in Events /\ "Wakeup" \in Events /\ "Disconnect" \in Events
      /\ "Sleep" \in Events /\ "Hibernate" \in Events
      /\ "AwakeSleep" \in Events /\ "ReInitialize" \in Events
      /\ "ConnectedAwakeEv" \in Events
  BY DEF Events
<1>1. ASSUME NEW c \in {0, 1}, connect(c) PROVE TypeInv'
  <2>1. StmTypes' /\ CallTypes'
    BY <1>1, <1>r, <1>e, SendTyped DEF connect
  <2>2. PoolTypes'
    BY <1>0, <1>1, PoolUpdates DEF connect, PoolTypes
  <2> QED BY <1>1, <2>1, <2>2, SameTyped, AllTyped DEF connect
<1>2. ASSUME NEW t \in Topics, publish(t) PROVE TypeInv'
  <2>1. <<Op("publish", t)>> \o Return \in Seq(Ops)
    BY <1>r, OpTypes
  <2>2. StmTypes' /\ CallTypes'
    BY <1>2, <1>e, <2>1, SendTyped, SameTyped DEF publish, CallTypes
  <2> QED BY <1>2, <2>2, SameTyped, AllTyped DEF publish
<1>3. ASSUME NEW t \in Topics, subscribe(t) PROVE TypeInv'
  <2>1. LoopInv'
    <3>1. <<"Subscribe">> \in Seq(Clients)
      BY ClientNames
    <3> QED BY <1>3, <3>1, RegisterTyped, SameTyped DEF subscribe, loopSubscribe, TypeInv
  <2>2. PoolTypes'
    BY <1>0, <1>3, SelectedTyped DEF subscribe, PoolTypes
  <2>3. CallTypes'
    BY <1>3, <1>r DEF subscribe, CallTypes
  <2> QED BY <1>3, <2>1, <2>2, <2>3, SameTyped, AllTyped DEF subscribe
<1>4. ASSUME NEW t \in Topics, unsubscribe(t) PROVE TypeInv'
  <2>1. LoopInv'
    <3>1. <<"Unsubscribe">> \in Seq(Clients)
      BY ClientNames
    <3> QED BY <1>4, <3>1, RegisterTyped DEF unsubscribe, loopUnsubscribe, TypeInv
  <2>2. PoolTypes'
    <3> DEFINE p == [pool EXCEPT !.topicid = t, !.registry[t] = {}]
    <3>1. [[pool EXCEPT !.topicid = t] EXCEPT !.registry[t] = {}] \in Pools
      BY <1>0, PoolUpdates, RegistryTyped
    <3>2. p \in Pools
      BY <1>0, <3>1 DEF Pools
    <3>3. pool' = [p EXCEPT !.hasSubscription =
                     @ /\ \E u \in Topics : "SUB" \in p.registry[u]]
      BY <1>4 DEF unsubscribe
    <3> HIDE DEF p
    <3>4. (p.hasSubscription /\ \E u \in Topics : "SUB" \in p.registry[u]) \in BOOLEAN
      BY Zenon
    <3> QED BY <3>2, <3>3, <3>4, PoolUpdates DEF PoolTypes
  <2>3. ClientTypes'
    <3>1. Packet("UNSUBSCRIBE", t) \in Packets
      BY PacketTyped DEF PacketTypes, PacketArgs
    <3> QED BY <1>4, <3>1, SendbufTyped DEF unsubscribe
  <2>4. CallTypes'
    BY <1>4, <1>r DEF unsubscribe, CallTypes
  <2> QED BY <1>4, <2>1, <2>2, <2>3, <2>4, SameTyped, AllTyped DEF unsubscribe
<1>5. CASE disconnect
  <2>1. <<Op("send", "Disconnect")>> \o Return \in Seq(Ops)
    BY <1>r, OpTypes
  <2>2. StmTypes' /\ CallTypes'
    BY <1>5, <1>r, <1>e, <2>1, SendTyped DEF disconnect
  <2> QED BY <1>5, <2>2, SameTyped, AllTyped DEF disconnect
<1>6. ASSUME NEW d \in Durations, sleep(d) PROVE TypeInv'
  <2>1. StmTypes' /\ CallTypes'
    BY <1>6, <1>r, <1>e, SendTyped DEF sleep
  <2>2. [[pool EXCEPT !.duration = d] EXCEPT !.autoReconnect = FALSE] \in Pools
    BY <1>0, PoolUpdates
  <2>3. PoolTypes'
    BY <1>0, <1>6, <2>2 DEF sleep, PoolTypes, Pools
  <2> QED BY <1>6, <2>1, <2>3, SameTyped, AllTyped DEF sleep
<1>7. ASSUME NEW d \in Durations, hibernate(d) PROVE TypeInv'
  <2>1. <<Op("hibernate", d)>> \o Return \in Seq(Ops)
    BY <1>r, OpTypes
  <2>2. StmTypes' /\ CallTypes'
    BY <1>7, <1>e, <2>1, SendTyped, SameTyped DEF hibernate, CallTypes
  <2> QED BY <1>7, <2>2, SameTyped, AllTyped DEF hibernate
<1>8. CASE wakeup
  <2> DEFINE rest == <<Op("wakeup", 0)>> \o Return
  <2>1. rest \in Seq(Ops) /\ <<Op("send", "Wakeup")>> \o rest \in Seq(Ops)
    BY <1>r, OpTypes
  <2> HIDE DEF rest
  <2>2. \/ SendThen("AwakeSleep", <<Op("send", "Wakeup")>> \o rest)
        \/ SendThen("Wakeup", rest) \/ SendThen("ReInitialize", rest)
        \/ calls' = rest /\ UNCHANGED stmVars
    BY <1>8 DEF wakeup, rest
  <2>3. StmTypes' /\ CallTypes'
    BY <1>e, <2>1, <2>2, SendTyped, SameTyped DEF CallTypes
  <2> QED BY <1>8, <2>3, SameTyped, AllTyped DEF wakeup
<1>9. CASE poll
  <2>1. <<Op("yield", 0)>> \o Return \in Seq(Ops)
    BY <1>r, OpTypes
  <2>2. StmTypes' /\ CallTypes'
    BY <1>9, <1>e, <2>1, SendTyped, SameTyped DEF poll, CallTypes
  <2> QED BY <1>9, <2>2, SameTyped, AllTyped DEF poll
<1>10. CASE eventLoop
  <2>1. <<Op("loop", 0)>> \in Seq(Ops)
    BY OpTypes
  <2> QED BY <1>10, <2>1, SameTyped, AllTyped DEF eventLoop, CallTypes
<1>11. CASE eventLoopAsleep
  <2>1. <<Op("ping", 0), Op("yield", 0), Op("loop", 0)>> \in Seq(Ops)
    BY OpTypes
  <2>2. StmTypes' /\ CallTypes'
    BY <1>11, <1>e, <2>1, SendTyped DEF eventLoopAsleep
  <2> QED BY <1>11, <2>2, SameTyped, AllTyped DEF eventLoopAsleep
<1> QED BY <1>1, <1>2, <1>3, <1>4, <1>5, <1>6, <1>7, <1>8, <1>9, <1>10, <1>11
        DEF Application

\* The operations that an API call and a turn of the event loop leave to be
\* done keep the types.
LEMMA ContinueTyped == TypeInv /\ Continue => TypeInv'
<1> SUFFICES ASSUME TypeInv, Continue PROVE TypeInv'
  OBVIOUS
<1>0. pool \in Pools /\ client \in ClientRecs
  BY DEF TypeInv, PoolTypes, ClientTypes
<1>a. \A o : At(o) => /\ Head(calls) \in Ops /\ Tail(calls) \in Seq(Ops)
                      /\ Head(calls).op = o
  BY HeadTyped DEF At, TypeInv
<1>e. /\ "Connect" \in Events /\ "Wakeup" \in Events /\ "Disconnect" \in Events
      /\ "Hibernate" \in Events
  BY DEF Events
<1>y. <<"Yield">> \in Seq(Clients)
  BY ClientNames
<1>1. CASE SendStep
  <2>1. Head(calls).arg \in Events /\ Tail(calls) \in Seq(Ops)
    BY <1>1, <1>a, <1>e, OpArgs DEF SendStep
  <2>2. StmTypes' /\ CallTypes'
    BY <1>1, <2>1, SendTyped DEF SendStep
  <2> QED BY <1>1, <2>2, SameTyped, AllTyped DEF SendStep
<1>2. CASE PublishBody
  <2> DEFINE t     == Head(calls).arg
             known == pool.registry[t] # {}
             p     == [pool EXCEPT !.errno = "Success", !.topicid = NoTopic]
             q     == Selected(t, [p EXCEPT !.registry[t] =
                                     IF known THEN @ \cup {"PUB"} ELSE @])
             first == IF known THEN <<>> ELSE <<"Register">>
  <2>1. At("publish") /\ t \in Topics /\ Tail(calls) \in Seq(Ops)
    BY <1>2, <1>a, OpArgs DEF PublishBody
  <2>2. p \in Pools
    <3>1. [[pool EXCEPT !.errno = "Success"] EXCEPT !.topicid = NoTopic] \in Pools
      BY <1>0, PoolUpdates DEF Errnos
    <3> QED BY <1>0, <3>1 DEF Pools
  <2>3. q \in Pools
    <3>1. p.registry[t] \in SUBSET Flags
      BY <2>1, <2>2, PoolFields
    <3>2. (IF known THEN p.registry[t] \cup {"PUB"} ELSE p.registry[t]) \in SUBSET Flags
      BY <3>1 DEF Flags
    <3>3. [p EXCEPT !.registry[t] = IF known THEN @ \cup {"PUB"} ELSE @] \in Pools
      BY <2>2, <3>2, RegistryTyped
    <3> QED BY <2>1, <3>3, SelectedTyped
  <2>4. first \in Seq(Clients) /\ first \o <<"Publish", "Yield">> \in Seq(Clients)
    BY ClientNames
  <2>5. ASSUME NEW r \in Pools, NEW err \in Errnos, PublishFails(r, err)
        PROVE  PoolTypes' /\ StmTypes' /\ CallTypes'
    BY <1>e, <2>1, <2>5, SendTyped, PoolUpdates DEF PublishFails, PoolTypes
  <2>6. "MaxTopicsExceeded" \in Errnos /\ "ConnectionError" \in Errnos
    BY DEF Errnos
  <2>7. UNCHANGED <<net, modemOn>>
    BY <1>2 DEF PublishBody
  <2>8. ASSUME calls' = Tail(calls), UNCHANGED <<loopVars, stmVars, pool, client>>
        PROVE  TypeInv'
    BY <2>1, <2>7, <2>8, SameTyped, AllTyped DEF CallTypes
  <2>9. ASSUME PublishFails(p, "MaxTopicsExceeded"), UNCHANGED <<loopVars, client>>
        PROVE  TypeInv'
    BY <2>2, <2>5, <2>6, <2>7, <2>9, SameTyped, AllTyped
  <2>10. ASSUME client' = IF known THEN client
                         ELSE [client EXCEPT !.sendbuf = Packet("REGISTER", t)]
         PROVE  ClientTypes'
    <3>1. Packet("REGISTER", t) \in Packets
      BY <2>1, PacketTyped DEF PacketTypes, PacketArgs
    <3> QED BY <2>10, <3>1, SendbufTyped, SameTyped
  <2>11. ASSUME RegisterLoopClients(first \o <<"Publish", "Yield">>), pool' = q,
                calls' = Tail(calls), UNCHANGED stmVars, ClientTypes'
         PROVE  TypeInv'
    <3>1. LoopInv'
      BY <2>4, <2>11, RegisterTyped DEF TypeInv
    <3> HIDE DEF q
    <3> QED BY <2>1, <2>3, <2>7, <2>11, <3>1, SameTyped, AllTyped DEF CallTypes, PoolTypes
  <2>12. ASSUME RegisterLoopClients(first), PublishFails(q, "ConnectionError"),
                ClientTypes'
         PROVE  TypeInv'
    <3>1. LoopInv'
      BY <2>4, <2>12, RegisterTyped DEF TypeInv
    <3> HIDE DEF q
    <3> QED BY <2>3, <2>5, <2>6, <2>7, <2>12, <3>1, SameTyped, AllTyped
  <2> QED BY <1>2, <2>8, <2>9, <2>10, <2>11, <2>12 DEF PublishBody
<1>3. CASE HibernateBody
  <2> DEFINE d == Head(calls).arg
             b == stm = "Connected" /\ d > 0
  <2>1. d \in Durations /\ Tail(calls) \in Seq(Ops)
    BY <1>3, <1>a, OpArgs DEF HibernateBody
  <2>2. StmTypes' /\ CallTypes'
    BY <1>3, <1>e, <2>1, SendTyped DEF HibernateBody
  <2>3. pool' = [pool EXCEPT !.duration = d, !.autoReconnect = b]
    BY <1>3 DEF HibernateBody
  <2>4. b \in BOOLEAN
    BY Zenon
  <2> HIDE DEF b, d
  <2>5. [[pool EXCEPT !.duration = d] EXCEPT !.autoReconnect = b] \in Pools
    BY <1>0, <2>1, <2>4, PoolUpdates
  <2>6. PoolTypes'
    BY <1>0, <2>3, <2>5 DEF PoolTypes, Pools
  <2> QED BY <1>3, <2>2, <2>6, SameTyped, AllTyped DEF HibernateBody
<1>4. CASE WakeupBody
  <2>1. Tail(calls) \in Seq(Ops)
    BY <1>4, <1>a DEF WakeupBody
  <2>2. pool.cleanSession \in {0, 1}
    BY <1>0, PoolFields
  <2>3. <<Op("reconnected", pool.cleanSession)>> \o Tail(calls) \in Seq(Ops)
    BY <2>1, <2>2, OpTypes
  <2>4. 0 \in Durations
    BY StmAssumption
  <2>5. StmTypes' /\ CallTypes'
    BY <1>4, <1>e, <2>1, <2>3, SendTyped, SameTyped DEF WakeupBody, CallTypes
  <2>6. PoolTypes'
    BY <1>0, <1>4, <2>4, PoolUpdates DEF WakeupBody, PoolTypes
  <2> QED BY <1>4, <2>5, <2>6, SameTyped, AllTyped DEF WakeupBody
<1>5. CASE ReconnectDone
  <2>1. Tail(calls) \in Seq(Ops) /\ Head(calls).arg \in {0, 1} /\ 0 \in Durations
    BY <1>5, <1>a, OpArgs, StmAssumption DEF ReconnectDone
  <2>2. [pool EXCEPT !.cleanSession = Head(calls).arg] \in Pools
    BY <1>0, <2>1, PoolUpdates
  <2>3. [[pool EXCEPT !.cleanSession = Head(calls).arg]
           EXCEPT !.autoReconnect = FALSE] \in Pools
    BY <2>2, PoolUpdates
  <2>4. [[[pool EXCEPT !.cleanSession = Head(calls).arg]
           EXCEPT !.autoReconnect = FALSE] EXCEPT !.duration = 0] \in Pools
    BY <2>1, <2>3, PoolUpdates
  <2>5. PoolTypes'
    BY <1>0, <1>5, <2>4 DEF ReconnectDone, PoolTypes, Pools
  <2> QED BY <1>5, <2>1, <2>5, SameTyped, AllTyped DEF ReconnectDone, CallTypes
<1>6. CASE yield
  <2>1. LoopInv'
    BY <1>6, <1>y, RegisterTyped DEF yield, loopYield, TypeInv
  <2>2. CallTypes'
    BY <1>6, <1>a DEF yield, CallTypes
  <2> QED BY <1>6, <2>1, <2>2, SameTyped, AllTyped DEF yield
<1>7. CASE pmPing
  <2>1. ClientTypes'
    <3>1. CASE UNCHANGED client
      BY <3>1, SameTyped
    <3>2. ASSUME NEW ok \in sendPacket,
                 client' = [client EXCEPT !.sendbuf = AtOnce, !.pmPing = ok]
          PROVE  ClientTypes'
      <4>1. AtOnce \in Packets
        BY PacketTyped DEF AtOnce, PacketTypes, PacketArgs
      <4>2. ok \in BOOLEAN
        BY SendPacketTyped
      <4>3. [[client EXCEPT !.sendbuf = AtOnce] EXCEPT !.pmPing = ok] \in ClientRecs
        BY <1>0, <4>1, <4>2, ClientUpdates
      <4> QED BY <1>0, <3>2, <4>3 DEF ClientTypes, ClientRecs
    <3> QED BY <1>7, <3>1, <3>2 DEF pmPing
  <2>2. CallTypes'
    BY <1>7, <1>a DEF pmPing, CallTypes
  <2> QED BY <1>7, <2>1, <2>2, SameTyped, AllTyped DEF pmPing
<1>8. CASE EventLoopFail
  <2>1. CallTypes'
    BY <1>8, <1>a DEF EventLoopFail, CallTypes
  <2>2. PoolTypes'
    <3>1. \A t : [pool EXCEPT !.registry[t] = {}] \in Pools
      BY <1>0, RegistryTyped
    <3>2. [pool EXCEPT !.errno = "ConnectionError"] \in Pools
      BY <1>0, PoolUpdates DEF Errnos
    <3> QED BY <1>0, <1>8, <3>1, <3>2 DEF EventLoopFail, PoolTypes
  <2>3. net' \in BOOLEAN /\ breakFlag' \in BOOLEAN
    <3>1. CASE closeSocket /\ breakFlag' = (breakFlag \/ Len(clientList) > 0)
      <4>1. breakFlag' \in BOOLEAN
        BY <3>1, Zenon
      <4> QED BY <3>1, <4>1, CloseTyped
    <3>2. CASE UNCHANGED <<net, breakFlag>>
      BY <3>2 DEF TypeInv, NetTypes, LoopInv, LoopTypeOK
    <3> QED BY <1>8, <3>1, <3>2 DEF EventLoopFail
  <2>4. LoopInv'
    BY <1>8, <2>3, ClearTyped DEF EventLoopFail, TypeInv
  <2>5. posted' \in Seq(PostEvents)
    BY <1>8 DEF EventLoopFail, postEvent, PostEvents, TypeInv, StmTypes
  <2>6. StmTypes' /\ NetTypes'
    BY <1>8, <2>3, <2>5 DEF EventLoopFail, TypeInv, StmTypes, NetTypes
  <2> QED BY <1>8, <2>1, <2>2, <2>4, <2>6, SameTyped, AllTyped DEF EventLoopFail
<1>9. CASE EventLoopDone
  <2>1. CallTypes'
    BY <1>9 DEF EventLoopDone, CallTypes
  <2>2. PoolTypes'
    <3> DEFINE flag == IF loopId = "Register" THEN "PUB" ELSE "SUB"
               t == pool.currentTopic
               F == pool.currentReg \cup {flag}
               h == pool.hasSubscription \/ loopId = "Subscribe"
    <3>1. F \in SUBSET Flags /\ flag \in Flags
      BY <1>0, PoolFields DEF Flags
    <3>2. h \in BOOLEAN
      BY Zenon
    <3>3. pool' \in {pool, [pool EXCEPT !.currentReg = @ \cup {flag},
                             !.registry[t] = F, !.hasSubscription = h]}
      BY <1>9 DEF EventLoopDone
    <3>4. pool' \in {pool, [pool EXCEPT !.currentReg = F,
                             !.registry[t] = F, !.hasSubscription = h]}
      BY <3>3
    <3> HIDE DEF F, h, flag, t
    <3>5. [pool EXCEPT !.currentReg = F] \in Pools
      BY <1>0, <3>1, PoolUpdates
    <3>6. [[pool EXCEPT !.currentReg = F] EXCEPT !.registry[t] = F] \in Pools
      BY <3>1, <3>5, RegistryTyped
    <3>7. [[[pool EXCEPT !.currentReg = F] EXCEPT !.registry[t] = F]
             EXCEPT !.hasSubscription = h] \in Pools
      BY <3>2, <3>6, PoolUpdates
    <3>8. [[[pool EXCEPT !.currentReg = F] EXCEPT !.registry[t] = F]
             EXCEPT !.hasSubscription = h]
          = [pool EXCEPT !.currentReg = F, !.registry[t] = F, !.hasSubscription = h]
      BY <1>0 DEF Pools
    <3> QED BY <1>0, <3>4, <3>7, <3>8 DEF PoolTypes
  <2>3. LoopInv' /\ net' \in BOOLEAN
    <3>1. CASE finishDisconnect
      BY <3>1, FinishDisconnectTyped
    <3>2. CASE UNCHANGED <<loopVars, net>>
      BY <3>2, SameTyped DEF TypeInv, NetTypes
    <3> QED BY <1>9, <3>1, <3>2 DEF EventLoopDone
  <2>4. posted' \in Seq(PostEvents)
    <3>1. Append(posted, "ConnectedEv") \in Seq(PostEvents)
      BY DEF PostEvents, TypeInv, StmTypes
    <3>2. posted' \in {posted, Append(posted, "ConnectedEv")}
      BY <1>9 DEF EventLoopDone
    <3> QED BY <3>1, <3>2 DEF TypeInv, StmTypes
  <2>5. StmTypes' /\ NetTypes'
    BY <1>9, <2>3, <2>4 DEF EventLoopDone, TypeInv, StmTypes, NetTypes
  <2> QED BY <1>9, <2>1, <2>2, <2>3, <2>5, SameTyped, AllTyped DEF EventLoopDone
<1>10. CASE EventLoopDispatch
  <2>1. CallTypes'
    BY <1>10, <1>a DEF EventLoopDispatch, CallTypes
  <2>2. StmTypes'
    <3>1. <<>> \in Seq(Events) /\ Dispatch(<<>>)
      BY <1>10 DEF EventLoopDispatch
    <3> QED BY <3>1, DispatchTyped
  <2> QED BY <1>10, <2>1, <2>2, SameTyped, AllTyped DEF EventLoopDispatch
<1>11. CASE EventLoopAutoPoll
  <2>1. CallTypes'
    BY <1>11, <1>a DEF EventLoopAutoPoll, CallTypes
  <2>2. LoopInv'
    BY <1>11, <1>y, RegisterTyped, SameTyped DEF EventLoopAutoPoll, loopYield, TypeInv
  <2> QED BY <1>11, <2>1, <2>2, SameTyped, AllTyped DEF EventLoopAutoPoll
<1> QED BY <1>1, <1>2, <1>3, <1>4, <1>5, <1>6, <1>7, <1>8, <1>9, <1>10, <1>11
        DEF Continue

\* Every way of starting a loop client keeps the types.
LEMMA StartsTyped == TypeInv /\ LoopStarts => TypeInv'
<1> SUFFICES ASSUME TypeInv, LoopStarts PROVE TypeInv'
  OBVIOUS
<1>0. UNCHANGED <<stmVars, pool, net>> /\ UNCHANGED modemOn
  BY DEF LoopStarts, StartStale, startAttachLoop, startYieldLoop, startConLoop,
     startRegLoop, startUnsubLoop, startDisLoop, startSubLoop, startPubLoop,
     StartWith, LoopTurn
<1>1. StmTypes' /\ PoolTypes' /\ NetTypes'
  BY <1>0, SameTyped
<1>2. ASSUME NEW c \in Clients, StartWith(c) PROVE LoopInv' /\ CallTypes'
  <2>1. PICK ok \in sendPacket : StartResult(c, ok)
    BY <1>2 DEF StartWith
  <2>2. ok \in BOOLEAN
    BY SendPacketTyped
  <2> QED BY <2>1, <2>2, StartTyped
<1>3. LoopInv' /\ CallTypes'
  <2>1. CASE StartStale
    BY <2>1, StartTyped DEF StartStale
  <2>2. CASE startAttachLoop
    <3>1. PICK ok \in Outcome("attach") : StartResult("Cgatt", ok)
      BY <2>2 DEF startAttachLoop
    <3>2. ok \in BOOLEAN
      BY OutcomeTyped
    <3> QED BY <3>1, <3>2, StartTyped, ClientNames
  <2>3. CASE startYieldLoop
    BY <2>3, StartTyped, ClientNames DEF startYieldLoop
  <2> QED BY <1>2, <2>1, <2>2, <2>3, ClientNames DEF LoopStarts, startConLoop,
         startRegLoop, startUnsubLoop, startDisLoop, startSubLoop, startPubLoop
<1>4. ClientTypes'
  <2>0. client \in ClientRecs /\ pool.topicid \in Topics \cup {NoTopic}
    BY PoolFields DEF TypeInv, ClientTypes, PoolTypes
  <2>1. CASE UNCHANGED client
    BY <2>1, SameTyped
  <2>2. CASE startYieldLoop
    BY <2>0, <2>2, ClientUpdates DEF startYieldLoop, ClientTypes
  <2>3. CASE startSubLoop
    <3>1. Packet("SUBSCRIBE", pool.topicid) \in Packets
      BY <2>0, PacketTyped DEF PacketTypes, PacketArgs
    <3> QED BY <2>3, <3>1, SendbufTyped DEF startSubLoop, sendSubPacket
  <2>4. CASE startPubLoop
    <3>1. PICK qos \in {0, 1} : sendPubPacket(qos)
      BY <2>4 DEF startPubLoop
    <3> DEFINE b == qos = 1
               k == Packet("PUBLISH", pool.topicid)
    <3>2. b \in BOOLEAN
      BY Zenon
    <3>3. k \in Packets
      BY <2>0, PacketTyped DEF PacketTypes, PacketArgs
    <3>4. client' = [client EXCEPT !.sendbuf = k, !.inflight = b]
      BY <3>1 DEF sendPubPacket
    <3> HIDE DEF b, k
    <3>5. [[client EXCEPT !.sendbuf = k] EXCEPT !.inflight = b] \in ClientRecs
      BY <2>0, <3>2, <3>3, ClientUpdates
    <3> QED BY <2>0, <3>4, <3>5 DEF ClientTypes, ClientRecs
  <2> QED BY <2>1, <2>2, <2>3, <2>4 DEF LoopStarts, StartStale, startAttachLoop,
         startConLoop, startRegLoop, startUnsubLoop, startDisLoop
<1> QED BY <1>1, <1>3, <1>4, AllTyped

\* A turn of the hooked client keeps the types.
LEMMA StepsTyped == TypeInv /\ LoopSteps => TypeInv'
<1> SUFFICES ASSUME TypeInv, LoopSteps PROVE TypeInv'
  OBVIOUS
<1>0. pool \in Pools /\ client \in ClientRecs
  BY DEF TypeInv, PoolTypes, ClientTypes
<1>n. <<>> \in Seq(Ops)
  OBVIOUS
<1>o. AtOnce \in Packets
  BY PacketTyped DEF AtOnce, PacketTypes, PacketArgs
<1>p. \A c : LoopStepPending(c) => LoopInv'
  BY PendingTyped
<1>t. pool.topicid \in PacketArgs
  BY <1>0, PoolFields DEF PacketArgs
<1>1. CASE StepWaits
  <2>1. LoopInv' /\ CallTypes'
    BY <1>1, <1>p, <1>n DEF StepWaits, CallTypes
  <2> QED BY <1>1, <2>1, SameTyped, AllTyped DEF StepWaits, LoopTurn
<1>2. CASE StepTraffic
  <2>1. LoopInv' /\ CallTypes'
    BY <1>2, <1>p, <1>n DEF StepTraffic, CallTypes
  <2>2. ClientTypes'
    BY <1>2, <1>o, SendbufTyped DEF StepTraffic
  <2> QED BY <1>2, <2>1, <2>2, SameTyped, AllTyped DEF StepTraffic, LoopTurn
<1>3. CASE StepDisconnectReceived
  <2>1. ASSUME NEW rest \in Seq(Ops), disconnectNotify(rest)
        PROVE  StmTypes' /\ CallTypes'
    <3>1. <<Op("send", "Disconnect")>> \o rest \in Seq(Ops)
      BY OpTypes
    <3>2. "Disconnect" \in Events /\ "Wakeup" \in Events
      BY DEF Events
    <3>3. \/ SendThen("Disconnect", rest)
          \/ SendThen("Wakeup", <<Op("send", "Disconnect")>> \o rest)
          \/ calls' = rest /\ UNCHANGED stmVars
      BY <2>1 DEF disconnectNotify
    <3> QED BY <3>1, <3>2, <3>3, SendTyped, SameTyped DEF CallTypes
  <2>2. <<Op("disconnected", 0)>> \in Seq(Ops)
    BY OpTypes
  <2>3. StmTypes' /\ CallTypes'
    BY <1>3, <1>n, <2>1, <2>2 DEF StepDisconnectReceived
  <2>4. LoopInv'
    BY <1>3, <1>p DEF StepDisconnectReceived
  <2>5. ClientTypes'
    BY <1>0, <1>3, ClientUpdates DEF StepDisconnectReceived, ClientTypes
  <2> QED BY <1>3, <2>3, <2>4, <2>5, SameTyped, AllTyped DEF StepDisconnectReceived, LoopTurn
<1>4. CASE StepPingResponse
  <2>1. LoopInv'
    BY <1>4, <1>p DEF StepPingResponse
  <2>2. StmTypes' /\ CallTypes'
    <3>1. "AwakeSleep" \in Events
      BY DEF Events
    <3> QED BY <1>4, <1>n, <3>1, SendTyped, SameTyped DEF StepPingResponse, CallTypes
  <2>3. ClientTypes'
    <3> DEFINE b == client.yieldRunning /\ stm # "ConnectedAwake"
    <3>1. b \in BOOLEAN
      BY Zenon
    <3>2. client' = [client EXCEPT !.pmPing = FALSE, !.yieldRunning = b]
      BY <1>4 DEF StepPingResponse
    <3> HIDE DEF b
    <3>3. [[client EXCEPT !.pmPing = FALSE] EXCEPT !.yieldRunning = b] \in ClientRecs
      BY <1>0, <3>1, ClientUpdates
    <3> QED BY <1>0, <3>2, <3>3 DEF ClientTypes, ClientRecs
  <2> QED BY <1>4, <2>1, <2>2, <2>3, SameTyped, AllTyped DEF StepPingResponse, LoopTurn
<1>5. CASE finishAttachLoop
  <2>1. LoopInv' /\ CallTypes'
    BY <1>5, DoneTyped, ClientNames DEF finishAttachLoop
  <2>2. posted' \in Seq(PostEvents)
    BY <1>5 DEF finishAttachLoop, postEvent, PostEvents, TypeInv, StmTypes
  <2>3. StmTypes'
    BY <1>5, <2>2 DEF finishAttachLoop, TypeInv, StmTypes
  <2> QED BY <1>5, <2>1, <2>3, SameTyped, AllTyped DEF finishAttachLoop, LoopTurn
<1>6. CASE finishConLoop
  <2>1. PICK ok \in BOOLEAN :
           /\ StepDone("Connect", ok, 0)
           /\ client' = [client EXCEPT !.isconnected = @ \/ ok,
                           !.pmPing = @ /\ ~ok,
                           !.sendbuf = IF client.cleansession = 0 /\ client.inflight
                                       THEN Packet("PUBLISH", NoTopic) ELSE @]
    BY <1>6 DEF finishConLoop
  <2>2. LoopInv' /\ CallTypes'
    BY <2>1, DoneTyped, ClientNames
  <2>3. ClientTypes'
    <3> DEFINE i == client.isconnected \/ ok
               g == client.pmPing /\ ~ok
               k == IF client.cleansession = 0 /\ client.inflight
                    THEN Packet("PUBLISH", NoTopic) ELSE client.sendbuf
    <3>1. i \in BOOLEAN /\ g \in BOOLEAN
      BY Zenon
    <3>2. k \in Packets
      <4>1. Packet("PUBLISH", NoTopic) \in Packets
        BY PacketTyped DEF PacketTypes, PacketArgs
      <4>2. client.sendbuf \in Packets
        BY <1>0 DEF ClientRecs
      <4> QED BY <4>1, <4>2, Zenon
    <3>3. client' = [client EXCEPT !.isconnected = i, !.pmPing = g, !.sendbuf = k]
      BY <2>1
    <3> HIDE DEF i, g, k
    <3>4. [client EXCEPT !.isconnected = i] \in ClientRecs
      BY <1>0, <3>1, ClientUpdates
    <3>5. [[client EXCEPT !.isconnected = i] EXCEPT !.pmPing = g] \in ClientRecs
      BY <3>1, <3>4, ClientUpdates
    <3>6. [[[client EXCEPT !.isconnected = i] EXCEPT !.pmPing = g]
             EXCEPT !.sendbuf = k] \in ClientRecs
      BY <3>2, <3>5, ClientUpdates
    <3> QED BY <1>0, <3>3, <3>6 DEF ClientTypes, ClientRecs
  <2> QED BY <1>6, <2>2, <2>3, SameTyped, AllTyped DEF finishConLoop, LoopTurn
<1>7. CASE finishPubLoopQoS0
  <2>1. LoopInv' /\ CallTypes'
    BY <1>7, DoneTyped, ClientNames DEF finishPubLoopQoS0
  <2> QED BY <1>7, <2>1, SameTyped, AllTyped DEF finishPubLoopQoS0, LoopTurn
<1>8. CASE finishPubLoop
  <2>1. LoopInv' /\ CallTypes'
    <3>1. \A rc \in {0, 1, 2} : (rc = 0) \in BOOLEAN
      BY Zenon
    <3> QED BY <1>8, <3>1, DoneTyped, ClientNames DEF finishPubLoop
  <2>2. ClientTypes'
    BY <1>0, <1>8, ClientUpdates DEF finishPubLoop, ClientTypes
  <2> QED BY <1>8, <2>1, <2>2, SameTyped, AllTyped DEF finishPubLoop, LoopTurn
<1>9. CASE doSubLoop
  <2>1. LoopInv' /\ CallTypes'
    BY <1>9, <1>p, <1>n DEF doSubLoop, CallTypes
  <2>2. Packet("SUBSCRIBE", pool.topicid) \in Packets
    BY <1>t, PacketTyped DEF PacketTypes
  <2>3. ClientTypes'
    BY <1>9, <2>2, SendbufTyped DEF doSubLoop, sendSubPacket
  <2> QED BY <1>9, <2>1, <2>3, SameTyped, AllTyped DEF doSubLoop, LoopTurn
<1>10. CASE doPubLoop
  <2>1. LoopInv' /\ CallTypes'
    BY <1>10, <1>p, <1>n DEF doPubLoop, CallTypes
  <2>2. Packet("PUBLISH", pool.topicid) \in Packets
    BY <1>t, PacketTyped DEF PacketTypes
  <2>3. client' = [client EXCEPT !.sendbuf = Packet("PUBLISH", pool.topicid),
                                 !.inflight = TRUE]
    BY <1>10 DEF doPubLoop, sendPubPacket
  <2>4. [[client EXCEPT !.sendbuf = Packet("PUBLISH", pool.topicid)]
           EXCEPT !.inflight = TRUE] \in ClientRecs
    BY <1>0, <2>2, ClientUpdates
  <2>5. ClientTypes'
    BY <1>0, <2>3, <2>4 DEF ClientTypes, ClientRecs
  <2> QED BY <1>10, <2>1, <2>5, SameTyped, AllTyped DEF doPubLoop, LoopTurn
<1>11. CASE StepTopicRejected
  <2>1. LoopInv' /\ CallTypes'
    BY <1>11, <1>p, <1>n DEF StepTopicRejected, CallTypes
  <2>2. PoolTypes'
    <3>1. \A t : [pool EXCEPT !.registry[t] = {}] \in Pools
      BY <1>0, RegistryTyped
    <3> QED BY <1>11, <3>1 DEF StepTopicRejected, PoolTypes
  <2> QED BY <1>11, <2>1, <2>2, SameTyped, AllTyped DEF StepTopicRejected, LoopTurn
<1>12. CASE StepRegisterReceived
  <2>1. LoopInv' /\ CallTypes'
    BY <1>12, <1>p, <1>n DEF StepRegisterReceived, CallTypes
  <2>2. PoolTypes'
    <3>1. {"GW"} \in SUBSET Flags
      BY DEF Flags
    <3>2. \A t : [pool EXCEPT !.registry[t] = {"GW"}] \in Pools
      BY <1>0, <3>1, RegistryTyped
    <3> QED BY <1>0, <1>12, <3>2 DEF StepRegisterReceived, PoolTypes
  <2>3. ClientTypes'
    BY <1>12, <1>o, SendbufTyped DEF StepRegisterReceived
  <2> QED BY <1>12, <2>1, <2>2, <2>3, SameTyped, AllTyped DEF StepRegisterReceived, LoopTurn
<1>13. ASSUME NEW c \in Clients, Acknowledged(c) PROVE TypeInv'
  <2>1. LoopInv' /\ CallTypes'
    BY <1>13, DoneTyped DEF Acknowledged
  <2> QED BY <1>13, <2>1, SameTyped, AllTyped DEF Acknowledged, LoopTurn
<1>14. CASE finishYieldLoop
  <2>1. PICK inTime \in BOOLEAN : StepDone("Yield", ~inTime, 0)
    BY <1>14 DEF finishYieldLoop
  <2>2. (~inTime) \in BOOLEAN
    BY Zenon
  <2>3. LoopInv' /\ CallTypes'
    BY <2>1, <2>2, DoneTyped, ClientNames
  <2>4. ClientTypes'
    BY <1>0, <1>14, ClientUpdates DEF finishYieldLoop, ClientTypes
  <2> QED BY <1>14, <2>3, <2>4, SameTyped, AllTyped DEF finishYieldLoop, LoopTurn
<1>15. CASE finishDisLoop
  <2>1. LoopInv' /\ CallTypes'
    <3>1. CASE StepDone("Disconnect", TRUE, 0)
      BY <3>1, DoneTyped, ClientNames
    <3>2. CASE /\ StepEnd("Disconnect", TRUE) /\ StepResult(TRUE, 0)
               /\ UNCHANGED <<breakFlag, modemOn>>
      <4>1. breakFlag' \in BOOLEAN
        BY <3>2 DEF TypeInv, LoopInv, LoopTypeOK
      <4> QED BY <3>2, <4>1, StepEndInv, StepResultTyped, ClientNames DEF TypeInv
    <3> QED BY <1>15, <3>1, <3>2 DEF finishDisLoop
  <2>2. [[client EXCEPT !.isconnected = FALSE] EXCEPT !.pmPing = FALSE] \in ClientRecs
    BY <1>0, ClientUpdates
  <2>3. ClientTypes'
    BY <1>0, <1>15, <2>2 DEF finishDisLoop, ClientTypes, ClientRecs
  <2> QED BY <1>15, <2>1, <2>3, SameTyped, AllTyped DEF finishDisLoop, LoopTurn
<1> QED BY <1>1, <1>2, <1>3, <1>4, <1>5, <1>6, <1>7, <1>8, <1>9, <1>10, <1>11,
           <1>12, <1>13, <1>14, <1>15, ClientNames
        DEF LoopSteps, finishRegLoop, finishSubLoop, finishUnsubLoop

\* The types are an invariant of every step.
LEMMA StepTypes == TypeInv /\ [Next]_vars => TypeInv'
<1> SUFFICES ASSUME TypeInv, [Next]_vars PROVE TypeInv'
  OBVIOUS
<1>1. CASE startStateMachine
  <2>0. pool \in Pools
    BY DEF TypeInv, PoolTypes
  <2>1. PoolTypes'
    <3>1. PICK ok \in Outcome("init") :
            pool' = [pool EXCEPT !.initialized = ok, !.authentication = ok]
      BY <1>1 DEF startStateMachine
    <3>2. ok \in BOOLEAN
      BY OutcomeTyped
    <3>3. [[pool EXCEPT !.initialized = ok] EXCEPT !.authentication = ok] \in Pools
      BY <2>0, <3>2, PoolUpdates
    <3> QED BY <2>0, <3>1, <3>3 DEF PoolTypes, Pools
  <2>2. dispatching' \in BOOLEAN
    BY <1>1, Zenon DEF startStateMachine
  <2>3. StmTypes'
    BY <1>1, <2>2 DEF startStateMachine, StmTypes, TypeInv, States, Events
  <2> QED BY <1>1, <2>1, <2>3, SameTyped, AllTyped DEF startStateMachine
<1>2. CASE TimerExpires
  <2>1. StmTypes'
    BY <1>2 DEF TimerExpires, StmTypes, TypeInv
  <2> QED BY <1>2, <2>1, SameTyped, AllTyped DEF TimerExpires
<1>3. CASE DispatchEnd
  <2>1. dispatching' \in BOOLEAN
    BY <1>3, Zenon DEF DispatchEnd
  <2>2. Seq(PostEvents) \subseteq Seq(Events)
    BY DEF PostEvents, Events
  <2>3. StmTypes'
    BY <1>3, <2>1, <2>2 DEF DispatchEnd, StmTypes, TypeInv
  <2> QED BY <1>3, <2>3, SameTyped, AllTyped DEF DispatchEnd
<1>4. CASE LoopNothing
  <2>1. CallTypes'
    BY <1>4, FinishTyped DEF LoopNothing, CallTypes
  <2>2. breakFlag' \in BOOLEAN
    BY <1>4, Zenon DEF LoopNothing, LoopIdle
  <2>3. LoopInv'
    BY <1>4, <2>2, ClearTyped DEF LoopNothing, LoopIdle, TypeInv
  <2> QED BY <1>4, <2>1, <2>3, SameTyped, AllTyped DEF LoopNothing, LoopTurn
<1>5. CASE UNCHANGED vars
  BY <1>5, SameTyped, AllTyped DEF vars
<1> QED BY <1>1, <1>2, <1>3, <1>4, <1>5, HandleTyped, ApplicationTyped,
           ContinueTyped, StartsTyped, StepsTyped DEF Next

----------------------------------------------------------------------------
(* Event queues                                                            *)

Has(q, e) == \E i \in 1..Len(q) : q[i] = e
HasNone(q, S) == \A i \in 1..Len(q) : q[i] \notin S

LEMMA HasNoneTail ==
  ASSUME NEW q \in Seq(Events), q # <<>>, NEW S
  PROVE  /\ HasNone(q, S) => HasNone(Tail(q), S) /\ Head(q) \notin S
         /\ HasNone(Tail(q), S) /\ Head(q) \notin S => HasNone(q, S)
<1>1. /\ Len(q) \in Nat \ {0} /\ Len(Tail(q)) = Len(q) - 1 /\ Head(q) = q[1]
      /\ \A i \in 1..Len(Tail(q)) : Tail(q)[i] = q[i + 1]
  OBVIOUS
<1>2. ASSUME HasNone(q, S) PROVE HasNone(Tail(q), S) /\ Head(q) \notin S
  BY <1>1, <1>2 DEF HasNone
<1>3. ASSUME HasNone(Tail(q), S), Head(q) \notin S PROVE HasNone(q, S)
  <2> SUFFICES ASSUME NEW i \in 1..Len(q) PROVE q[i] \notin S
    BY DEF HasNone
  <2>1. CASE i = 1
    BY <1>1, <1>3, <2>1
  <2>2. CASE i # 1
    <3>1. i - 1 \in 1..Len(Tail(q)) /\ Tail(q)[i - 1] = q[i]
      BY <1>1, <2>2
    <3> QED BY <1>3, <3>1 DEF HasNone
  <2> QED BY <2>1, <2>2
<1> QED BY <1>2, <1>3

LEMMA HasTail ==
  ASSUME NEW q \in Seq(Events), q # <<>>, NEW e, Has(q, e), Head(q) # e
  PROVE  Has(Tail(q), e)
<1>1. PICK i \in 1..Len(q) : q[i] = e
  BY DEF Has
<1>2. /\ Len(q) \in Nat \ {0} /\ Len(Tail(q)) = Len(q) - 1 /\ Head(q) = q[1]
      /\ \A j \in 1..Len(Tail(q)) : Tail(q)[j] = q[j + 1]
  OBVIOUS
<1>3. i # 1
  BY <1>1, <1>2
<1>4. i - 1 \in 1..Len(Tail(q)) /\ Tail(q)[i - 1] = e
  BY <1>1, <1>2, <1>3
<1> QED BY <1>4 DEF Has

LEMMA HasOf == \A q, e : Has(q, e) <=> ~HasNone(q, {e})
  BY DEF Has, HasNone

LEMMA HasNoneConcat ==
  ASSUME NEW p \in Seq(Events), NEW q \in Seq(Events), NEW S
  PROVE  HasNone(p \o q, S) <=> HasNone(p, S) /\ HasNone(q, S)
<1>1. /\ Len(p) \in Nat /\ Len(q) \in Nat /\ Len(p \o q) = Len(p) + Len(q)
      /\ \A i \in 1..Len(p) : (p \o q)[i] = p[i]
      /\ \A i \in 1..Len(q) : (p \o q)[i + Len(p)] = q[i]
  OBVIOUS
<1>2. ASSUME HasNone(p \o q, S) PROVE HasNone(p, S) /\ HasNone(q, S)
  <2>1. \A i \in 1..Len(p) : i \in 1..Len(p \o q)
    BY <1>1
  <2>2. \A i \in 1..Len(q) : i + Len(p) \in 1..Len(p \o q)
    BY <1>1
  <2> QED BY <1>1, <1>2, <2>1, <2>2 DEF HasNone
<1>3. ASSUME HasNone(p, S), HasNone(q, S) PROVE HasNone(p \o q, S)
  <2> SUFFICES ASSUME NEW i \in 1..Len(p \o q) PROVE (p \o q)[i] \notin S
    BY DEF HasNone
  <2>1. CASE i <= Len(p)
    BY <1>1, <1>3, <2>1 DEF HasNone
  <2>2. CASE i > Len(p)
    <3>1. i - Len(p) \in 1..Len(q) /\ (i - Len(p)) + Len(p) = i
      BY <1>1, <2>2
    <3> QED BY <1>1, <1>3, <3>1 DEF HasNone
  <2> QED BY <1>1, <2>1, <2>2
<1> QED BY <1>2, <1>3

LEMMA HasNoneOne == \A e, S : HasNone(<<e>>, S) <=> e \notin S
  BY DEF HasNone

LEMMA HasNoneEmpty == \A S : HasNone(<<>>, S)
  BY DEF HasNone

LEMMA HasNoneAppend ==
  ASSUME NEW q \in Seq(Events), NEW e \in Events, NEW S
  PROVE  HasNone(Append(q, e), S) <=> HasNone(q, S) /\ e \notin S
<1>1. /\ Len(q) \in Nat /\ Len(Append(q, e)) = Len(q) + 1
      /\ Append(q, e)[Len(q) + 1] = e
      /\ \A i \in 1..Len(q) : Append(q, e)[i] = q[i]
  OBVIOUS
<1>2. /\ Len(q) + 1 \in 1..Len(Append(q, e))
      /\ \A i \in 1..Len(q) : i \in 1..Len(Append(q, e))
      /\ \A i \in 1..Len(Append(q, e)) : i \in 1..Len(q) \/ i = Len(q) + 1
  BY <1>1
<1> QED BY <1>1, <1>2 DEF HasNone

LEMMA HasNoneUnion ==
  \A q, S, T : HasNone(q, S \cup T) <=> HasNone(q, S) /\ HasNone(q, T)
  BY DEF HasNone

LEMMA HasNoneSub ==
  \A q, S, T : HasNone(q, S) /\ T \subseteq S => HasNone(q, T)
  BY DEF HasNone

LEMMA PostedAreEvents == Seq(PostEvents) \subseteq Seq(Events)
  BY DEF PostEvents, Events

\* Events that move Error and DeepSleep on.
Recovery == {"ErrorDisconnect", "ReInitialize"}

\* Initialize once, no Timer before it and no recovery behind it.
InitializeFirst(q) ==
  \E k \in 1..Len(q) :
    /\ q[k] = "Initialize"
    /\ \A i \in 1..Len(q) :
         /\ i < k => q[i] \notin {"Initialize", "Timer"}
         /\ i > k => q[i] \notin Recovery \cup {"Initialize"}

LEMMA FirstTail ==
  ASSUME NEW q \in Seq(Events), q # <<>>, InitializeFirst(q)
  PROVE  /\ Head(q) # "Timer"
         /\ Head(q) = "Initialize" => HasNone(Tail(q), Recovery \cup {"Initialize"})
         /\ Head(q) # "Initialize" => InitializeFirst(Tail(q))
<1>1. PICK k \in 1..Len(q) :
    /\ q[k] = "Initialize"
    /\ \A i \in 1..Len(q) :
         /\ i < k => q[i] \notin {"Initialize", "Timer"}
         /\ i > k => q[i] \notin Recovery \cup {"Initialize"}
  BY DEF InitializeFirst
<1>2. /\ Len(q) \in Nat \ {0} /\ Len(Tail(q)) = Len(q) - 1 /\ Head(q) = q[1]
      /\ \A j \in 1..Len(Tail(q)) : j + 1 \in 1..Len(q) /\ Tail(q)[j] = q[j + 1]
      /\ 1 \in 1..Len(q)
  OBVIOUS
<1>3. CASE k = 1
  <2>1. Head(q) = "Initialize"
    BY <1>1, <1>2, <1>3
  <2>2. HasNone(Tail(q), Recovery \cup {"Initialize"})
    BY <1>1, <1>2, <1>3 DEF HasNone
  <2> QED BY <2>1, <2>2
<1>4. CASE k # 1
  <2>1. 1 < k /\ k - 1 \in 1..Len(Tail(q)) /\ Tail(q)[k - 1] = q[k]
    BY <1>2, <1>4
  <2>2. Head(q) \notin {"Initialize", "Timer"}
    BY <1>1, <1>2, <2>1
  <2>3. ASSUME NEW i \in 1..Len(Tail(q))
        PROVE /\ i < k - 1 => Tail(q)[i] \notin {"Initialize", "Timer"}
              /\ i > k - 1 => Tail(q)[i] \notin Recovery \cup {"Initialize"}
    <3>1. i + 1 \in 1..Len(q) /\ Tail(q)[i] = q[i + 1]
      BY <1>2
    <3>2. (i < k - 1 => i + 1 < k) /\ (i > k - 1 => i + 1 > k)
      BY <1>1
    <3> QED BY <1>1, <3>1, <3>2
  <2>4. InitializeFirst(Tail(q))
    BY <1>1, <2>1, <2>3 DEF InitializeFirst
  <2> QED BY <2>2, <2>4
<1> QED BY <1>3, <1>4

LEMMA FirstConcat ==
  ASSUME NEW q \in Seq(Events), NEW es \in Seq(Events), InitializeFirst(q),
         HasNone(es, Recovery \cup {"Initialize"})
  PROVE  InitializeFirst(q \o es)
<1>1. PICK k \in 1..Len(q) :
    /\ q[k] = "Initialize"
    /\ \A i \in 1..Len(q) :
         /\ i < k => q[i] \notin {"Initialize", "Timer"}
         /\ i > k => q[i] \notin Recovery \cup {"Initialize"}
  BY DEF InitializeFirst
<1>2. /\ Len(q) \in Nat /\ Len(es) \in Nat /\ Len(q \o es) = Len(q) + Len(es)
      /\ \A i \in 1..Len(q) : (q \o es)[i] = q[i]
      /\ \A i \in 1..Len(es) : (q \o es)[i + Len(q)] = es[i]
  OBVIOUS
<1>3. k \in 1..Len(q \o es) /\ (q \o es)[k] = "Initialize"
  BY <1>1, <1>2
<1>4. ASSUME NEW i \in 1..Len(q \o es)
      PROVE /\ i < k => (q \o es)[i] \notin {"Initialize", "Timer"}
            /\ i > k => (q \o es)[i] \notin Recovery \cup {"Initialize"}
  <2>1. CASE i <= Len(q)
    BY <1>1, <1>2, <2>1
  <2>2. CASE i > Len(q)
    <3>1. i - Len(q) \in 1..Len(es) /\ (i - Len(q)) + Len(q) = i /\ ~(i < k)
      BY <1>1, <1>2, <2>2
    <3>2. (q \o es)[i] = es[i - Len(q)]
      BY <1>2, <3>1
    <3> QED BY <3>1, <3>2 DEF HasNone
  <2> QED BY <1>2, <2>1, <2>2
<1> QED BY <1>3, <1>4 DEF InitializeFirst

LEMMA FirstAppend ==
  ASSUME NEW q \in Seq(Events), HasNone(q, {"Initialize", "Timer"})
  PROVE  InitializeFirst(Append(q, "Initialize"))
<1> DEFINE k == Len(q) + 1
           r == Append(q, "Initialize")
<1>1. Len(q) \in Nat /\ Len(r) = k /\ r[k] = "Initialize"
      /\ \A i \in 1..Len(q) : r[i] = q[i]
  OBVIOUS
<1> HIDE DEF r
<1>2. k \in 1..Len(r)
  BY <1>1
<1>3. ASSUME NEW i \in 1..Len(r)
      PROVE  /\ i < k => r[i] \notin {"Initialize", "Timer"}
             /\ i > k => r[i] \notin Recovery \cup {"Initialize"}
  <2>1. ~(i > k) /\ (i < k => i \in 1..Len(q))
    BY <1>1
  <2> QED BY <1>1, <2>1 DEF HasNone
<1>4. InitializeFirst(r)
  BY <1>1, <1>2, <1>3 DEF InitializeFirst
<1> QED BY <1>4 DEF r

\* At most one event of the queue recovers from an error.
Lone(q) ==
  \A i, j \in 1..Len(q) : q[i] \in Recovery /\ q[j] \in Recovery => i = j

LEMMA LoneTail ==
  ASSUME NEW q \in Seq(Events), q # <<>>, Lone(q)
  PROVE  /\ Lone(Tail(q))
         /\ Head(q) \in Recovery => HasNone(Tail(q), Recovery)
<1>1. /\ Len(q) \in Nat \ {0} /\ Len(Tail(q)) = Len(q) - 1 /\ Head(q) = q[1]
      /\ \A j \in 1..Len(Tail(q)) : j + 1 \in 1..Len(q) /\ Tail(q)[j] = q[j + 1]
      /\ 1 \in 1..Len(q)
  OBVIOUS
<1>2. Lone(Tail(q))
  <2> SUFFICES ASSUME NEW i \in 1..Len(Tail(q)), NEW j \in 1..Len(Tail(q)),
                      Tail(q)[i] \in Recovery, Tail(q)[j] \in Recovery
               PROVE  i = j
    BY DEF Lone
  <2>1. i + 1 = j + 1
    BY <1>1 DEF Lone
  <2> QED BY <2>1
<1>3. ASSUME Head(q) \in Recovery, NEW i \in 1..Len(Tail(q)),
             Tail(q)[i] \in Recovery
      PROVE  FALSE
  <2>1. i + 1 = 1
    BY <1>1, <1>3 DEF Lone
  <2> QED BY <2>1
<1> QED BY <1>2, <1>3 DEF HasNone

LEMMA LoneConcat ==
  ASSUME NEW q \in Seq(Events), NEW es \in Seq(Events), Lone(q), HasNone(es, Recovery)
  PROVE  Lone(q \o es)
<1>1. /\ Len(q) \in Nat /\ Len(es) \in Nat /\ Len(q \o es) = Len(q) + Len(es)
      /\ \A i \in 1..Len(q) : (q \o es)[i] = q[i]
      /\ \A i \in 1..Len(es) : (q \o es)[i + Len(q)] = es[i]
  OBVIOUS
<1>2. ASSUME NEW i \in 1..Len(q \o es), (q \o es)[i] \in Recovery
      PROVE  i \in 1..Len(q) /\ q[i] \in Recovery
  <2>1. CASE i > Len(q)
    <3>1. i - Len(q) \in 1..Len(es) /\ (i - Len(q)) + Len(q) = i
      BY <1>1, <2>1
    <3>2. (q \o es)[i] = es[i - Len(q)]
      BY <1>1, <3>1
    <3> QED BY <1>2, <3>1, <3>2 DEF HasNone
  <2>2. CASE i <= Len(q)
    BY <1>1, <1>2, <2>2
  <2> QED BY <1>1, <2>1, <2>2
<1> QED BY <1>2 DEF Lone

LEMMA LoneAppend ==
  ASSUME NEW q \in Seq(Events), HasNone(q, Recovery), NEW e
  PROVE  Lone(Append(q, e))
<1>1. /\ Len(q) \in Nat /\ Len(Append(q, e)) = Len(q) + 1
      /\ \A i \in 1..Len(q) : Append(q, e)[i] = q[i]
  OBVIOUS
<1>2. \A i \in 1..Len(Append(q, e)) :
         Append(q, e)[i] \in Recovery => i = Len(q) + 1
  BY <1>1 DEF HasNone
<1> QED BY <1>2 DEF Lone

LEMMA LoneNone == \A q : HasNone(q, Recovery) => Lone(q)
  BY DEF HasNone, Lone

\* A Timer event is the last one of its batch.
TimerLast(q) == \A i \in 1..Len(q) : q[i] = "Timer" => i = Len(q)

LEMMA TimerLastTail ==
  ASSUME NEW q \in Seq(Events), q # <<>>, TimerLast(q)
  PROVE  /\ TimerLast(Tail(q))
         /\ Head(q) = "Timer" => Tail(q) = <<>>
<1>1. /\ Len(q) \in Nat \ {0} /\ Len(Tail(q)) = Len(q) - 1 /\ Head(q) = q[1]
      /\ \A j \in 1..Len(Tail(q)) : j + 1 \in 1..Len(q) /\ Tail(q)[j] = q[j + 1]
      /\ 1 \in 1..Len(q)
  OBVIOUS
<1>2. TimerLast(Tail(q))
  <2> SUFFICES ASSUME NEW i \in 1..Len(Tail(q)), Tail(q)[i] = "Timer"
               PROVE  i = Len(Tail(q))
    BY DEF TimerLast
  <2>0. i + 1 \in 1..Len(q) /\ q[i + 1] = "Timer"
    BY <1>1
  <2>1. i + 1 = Len(q)
    BY <2>0 DEF TimerLast
  <2>2. Len(q) \in Nat /\ Len(Tail(q)) = Len(q) - 1
    BY <1>1
  <2> QED BY <2>1, <2>2
<1>3. ASSUME Head(q) = "Timer" PROVE Tail(q) = <<>>
  <2>1. Len(q) = 1
    BY <1>1, <1>3 DEF TimerLast
  <2> QED BY <1>1, <2>1
<1> QED BY <1>2, <1>3

LEMMA TimerLastAppended ==
  ASSUME NEW q \in Seq(Events), HasNone(q, {"Timer"})
  PROVE  TimerLast(q) /\ TimerLast(q \o <<"Timer">>)
<1>1. /\ Len(q) \in Nat /\ Len(q \o <<"Timer">>) = Len(q) + 1
      /\ \A i \in 1..Len(q) : (q \o <<"Timer">>)[i] = q[i]
  OBVIOUS
<1> QED BY <1>1 DEF TimerLast, HasNone

----------------------------------------------------------------------------
(* What a step outside the handlers of the state machine does to it        *)

\* The events that API functions and callbacks send; wakeup() also sends
\* ReInitialize, in DeepSleep.
Sent == {"Connect", "Wakeup", "Disconnect", "Sleep", "Hibernate",
         "AwakeSleep", "ConnectedAwakeEv"}

\* dispatch() is entered, with the events es.
Pushes ==
  /\ ~dispatching
  /\ \E es \in Seq(Events) :
       /\ Dispatch(es)
       /\ HasNone(es, {"Initialize", "ErrorDisconnect", "Timer"})
       /\ stm # "DeepSleep" => HasNone(es, {"ReInitialize"})

\* The event loop posts the outcome of a loop client.
Posts ==
  /\ ~dispatching
  /\ UNCHANGED <<stm, events, timer, dispatching>>
  /\ \E e \in {"Attached", "ConnectedEv", "Disconnect"} : postEvent(e)

\* m_initialized and the error counter belong to the handlers, m_errno does
\* in the state Error; the modem is switched by the handlers only.
Keeps ==
  /\ pool'.initialized = pool.initialized
  /\ pool'.restarts = pool.restarts
  /\ UNCHANGED modemOn
  /\ \/ pool'.errno = pool.errno \/ stm = "Connected"
     \/ pool'.errno = "ConnectionError"

Outside == Keeps /\ (UNCHANGED stmVars \/ Pushes \/ Posts)

LEMMA PushesSent ==
  ASSUME ~dispatching, NEW e \in Sent, NEW rest, SendThen(e, rest)
  PROVE  Pushes
<1>1. <<e>> \in Seq(Events)
  BY DEF Sent, Events
<1>2. /\ HasNone(<<e>>, {"Initialize", "ErrorDisconnect", "Timer"})
      /\ HasNone(<<e>>, {"ReInitialize"})
  BY HasNoneOne DEF Sent
<1> QED BY <1>1, <1>2 DEF SendThen, Pushes

LEMMA KeepsPool == UNCHANGED <<pool, modemOn>> => Keeps
  BY DEF Keeps

LEMMA ApplicationEffect ==
  TypeInv /\ (Application \/ eventLoop \/ eventLoopAsleep) => Outside
<1> SUFFICES ASSUME TypeInv, Application \/ eventLoop \/ eventLoopAsleep PROVE Outside
  OBVIOUS
<1>0. pool \in Pools
  BY DEF TypeInv, PoolTypes
<1>i. \A f : API(f) => ~dispatching
  BY DEF API, Idle
<1>e. /\ "Connect" \in Sent /\ "Wakeup" \in Sent /\ "Disconnect" \in Sent
      /\ "Sleep" \in Sent /\ "Hibernate" \in Sent /\ "AwakeSleep" \in Sent
      /\ "ConnectedAwakeEv" \in Sent
  BY DEF Sent
<1>1. ASSUME NEW c \in {0, 1}, connect(c) PROVE Outside
  <2>1. Pushes
    BY <1>1, <1>i, <1>e, PushesSent DEF connect
  <2>2. pool' = pool \/ pool' = [pool EXCEPT !.cleanSession = c]
    BY <1>1 DEF connect
  <2>3. Keeps
    BY <1>0, <1>1, <2>2 DEF connect, Keeps, Pools
  <2> QED BY <2>1, <2>3 DEF Outside
<1>2. ASSUME NEW t \in Topics, publish(t) PROVE Outside
  BY <1>2, <1>i, <1>e, PushesSent, KeepsPool DEF publish, Outside
<1>3. ASSUME NEW t \in Topics, subscribe(t) PROVE Outside
  <2>1. Keeps
    BY <1>0, <1>3 DEF subscribe, Keeps, Selected, Pools
  <2> QED BY <1>3, <2>1 DEF subscribe, Outside
<1>4. ASSUME NEW t \in Topics, unsubscribe(t) PROVE Outside
  <2> DEFINE p == [pool EXCEPT !.topicid = t, !.registry[t] = {}]
             h == p.hasSubscription /\ \E u \in Topics : "SUB" \in p.registry[u]
  <2>1. pool' = [p EXCEPT !.hasSubscription = h] /\ UNCHANGED modemOn
    BY <1>4 DEF unsubscribe
  <2> HIDE DEF h
  <2>2. Keeps
    BY <1>0, <2>1 DEF Keeps, Pools
  <2> QED BY <1>4, <2>2 DEF unsubscribe, Outside
<1>5. CASE disconnect
  BY <1>5, <1>i, <1>e, PushesSent, KeepsPool DEF disconnect, Outside
<1>6. ASSUME NEW d \in Durations, sleep(d) PROVE Outside
  <2>1. Pushes
    BY <1>6, <1>i, <1>e, PushesSent DEF sleep
  <2>2. Keeps
    BY <1>0, <1>6 DEF sleep, Keeps, Pools
  <2> QED BY <2>1, <2>2 DEF Outside
<1>7. ASSUME NEW d \in Durations, hibernate(d) PROVE Outside
  BY <1>7, <1>i, <1>e, PushesSent, KeepsPool DEF hibernate, Outside
<1>8. CASE wakeup
  <2>1. ~dispatching /\ UNCHANGED <<pool, modemOn>>
    BY <1>8, <1>i DEF wakeup
  <2>2. \/ \E e \in Sent : \E rest : SendThen(e, rest)
        \/ stm = "DeepSleep" /\ Dispatch(<<"ReInitialize">>)
        \/ UNCHANGED stmVars
    BY <1>8, <1>e DEF wakeup, SendThen
  <2>3. ASSUME stm = "DeepSleep", Dispatch(<<"ReInitialize">>) PROVE Pushes
    <3>1. <<"ReInitialize">> \in Seq(Events)
      BY DEF Events
    <3>2. HasNone(<<"ReInitialize">>, {"Initialize", "ErrorDisconnect", "Timer"})
      BY HasNoneOne
    <3> QED BY <2>1, <2>3, <3>1, <3>2 DEF Pushes
  <2> QED BY <2>1, <2>2, <2>3, PushesSent, KeepsPool DEF Outside
<1>9. CASE poll
  BY <1>9, <1>i, <1>e, PushesSent, KeepsPool DEF poll, Outside
<1>10. CASE eventLoop
  BY <1>10, KeepsPool DEF eventLoop, Outside
<1>11. CASE eventLoopAsleep
  BY <1>11, <1>i, <1>e, PushesSent, KeepsPool DEF eventLoopAsleep, Outside
<1> QED BY <1>1, <1>2, <1>3, <1>4, <1>5, <1>6, <1>7, <1>8, <1>9, <1>10, <1>11
        DEF Application

LEMMA ContinueEffect == TypeInv /\ Continue => Outside
<1> SUFFICES ASSUME TypeInv, Continue PROVE Outside
  OBVIOUS
<1>0. pool \in Pools
  BY DEF TypeInv, PoolTypes
<1>i. \A o : At(o) => ~dispatching
  BY DEF At
<1>e. /\ "Connect" \in Sent /\ "Wakeup" \in Sent /\ "Disconnect" \in Sent
      /\ "Hibernate" \in Sent
  BY DEF Sent
<1>1. CASE SendStep
  <2>1. Head(calls).arg \in Sent
    BY <1>1, <1>e, HeadTyped, OpArgs DEF SendStep, At, TypeInv
  <2> QED BY <1>1, <1>i, <2>1, PushesSent, KeepsPool DEF SendStep, Outside
<1>2. CASE PublishBody
  <2> DEFINE t     == Head(calls).arg
             known == pool.registry[t] # {}
             p     == [pool EXCEPT !.errno = "Success", !.topicid = NoTopic]
             q     == Selected(t, [p EXCEPT !.registry[t] =
                                     IF known THEN @ \cup {"PUB"} ELSE @])
  <2>1. ~dispatching /\ UNCHANGED modemOn
    BY <1>2, <1>i DEF PublishBody
  <2>2. \/ UNCHANGED <<stmVars, pool>>
        \/ stm = "Connected" /\ PublishFails(p, "MaxTopicsExceeded")
        \/ stm = "Connected" /\ PublishFails(q, "ConnectionError")
        \/ stm = "Connected" /\ pool' = q /\ UNCHANGED stmVars
    BY <1>2 DEF PublishBody
  <2>3. /\ p.initialized = pool.initialized /\ p.restarts = pool.restarts
        /\ q.initialized = pool.initialized /\ q.restarts = pool.restarts
        /\ \A v : /\ [p EXCEPT !.errno = v].initialized = pool.initialized
                  /\ [p EXCEPT !.errno = v].restarts = pool.restarts
                  /\ [q EXCEPT !.errno = v].initialized = pool.initialized
                  /\ [q EXCEPT !.errno = v].restarts = pool.restarts
    BY <1>0 DEF Pools, Selected
  <2> HIDE DEF p, q
  <2>4. Keeps
    BY <2>1, <2>2, <2>3, KeepsPool DEF PublishFails, Keeps
  <2> QED BY <1>e, <2>1, <2>2, <2>4, PushesSent DEF PublishFails, Outside
<1>3. CASE HibernateBody
  <2> DEFINE b == stm = "Connected" /\ Head(calls).arg > 0
  <2>1. /\ pool' = [pool EXCEPT !.duration = Head(calls).arg, !.autoReconnect = b]
        /\ UNCHANGED modemOn
    BY <1>3 DEF HibernateBody
  <2> HIDE DEF b
  <2>2. Keeps
    BY <1>0, <2>1 DEF Keeps, Pools
  <2> QED BY <1>3, <1>i, <1>e, <2>2, PushesSent DEF HibernateBody, Outside
<1>4. CASE WakeupBody
  <2>1. Keeps
    BY <1>0, <1>4 DEF WakeupBody, Keeps, Pools
  <2> QED BY <1>4, <1>i, <1>e, <2>1, PushesSent DEF WakeupBody, Outside
<1>5. CASE ReconnectDone
  <2>1. Keeps
    BY <1>0, <1>5 DEF ReconnectDone, Keeps, Pools
  <2> QED BY <1>5, <2>1 DEF ReconnectDone, Outside
<1>6. CASE yield
  BY <1>6, KeepsPool DEF yield, Outside
<1>7. CASE pmPing
  BY <1>7, KeepsPool DEF pmPing, Outside
<1>8. CASE EventLoopFail
  <2>1. \/ pool' = pool
        \/ pool' = [pool EXCEPT !.registry[pool.currentTopic] = {}]
        \/ pool' = [pool EXCEPT !.errno = "ConnectionError"]
    BY <1>8 DEF EventLoopFail
  <2>2. UNCHANGED modemOn
    BY <1>8 DEF EventLoopFail
  <2>3. Keeps
    BY <1>0, <2>1, <2>2 DEF Keeps, Pools
  <2>4. UNCHANGED stmVars \/ Posts
    BY <1>8, <1>i DEF EventLoopFail, stmVars, Posts
  <2> QED BY <2>3, <2>4 DEF Outside
<1>9. CASE EventLoopDone
  <2>1. Keeps
    <3> DEFINE F == pool.currentReg \cup {IF loopId = "Register" THEN "PUB" ELSE "SUB"}
               h == pool.hasSubscription \/ loopId = "Subscribe"
    <3>1. pool' \in {pool, [pool EXCEPT !.currentReg = F,
                        !.registry[pool.currentTopic] = F, !.hasSubscription = h]}
      BY <1>9 DEF EventLoopDone
    <3>2. UNCHANGED modemOn
      BY <1>9 DEF EventLoopDone
    <3> HIDE DEF F, h
    <3> QED BY <1>0, <3>1, <3>2 DEF Keeps, Pools
  <2>2. UNCHANGED stmVars \/ Posts
    BY <1>9, <1>i DEF EventLoopDone, stmVars, Posts, postEvent
  <2> QED BY <2>1, <2>2 DEF Outside
<1>10. CASE EventLoopDispatch
  <2>1. <<>> \in Seq(Events) /\ \A S : HasNone(<<>>, S)
    BY HasNoneEmpty
  <2> QED BY <1>10, <1>i, <2>1, KeepsPool DEF EventLoopDispatch, Pushes, Outside
<1>11. CASE EventLoopAutoPoll
  BY <1>11, KeepsPool DEF EventLoopAutoPoll, Outside
<1> QED BY <1>1, <1>2, <1>3, <1>4, <1>5, <1>6, <1>7, <1>8, <1>9, <1>10, <1>11
        DEF Continue

LEMMA TurnEffect == TypeInv /\ (LoopNothing \/ LoopStarts \/ LoopSteps) => Outside
<1> SUFFICES ASSUME TypeInv, LoopNothing \/ LoopStarts \/ LoopSteps PROVE Outside
  OBVIOUS
<1>0. pool \in Pools
  BY DEF TypeInv, PoolTypes
<1>1. UNCHANGED modemOn /\ ~dispatching
  <2>1. LoopTurn => UNCHANGED modemOn /\ ~dispatching
    BY DEF LoopTurn, At
  <2>2. CASE LoopNothing
    BY <2>1, <2>2 DEF LoopNothing
  <2>3. CASE LoopStarts
    BY <2>1, <2>3 DEF LoopStarts, StartStale, startAttachLoop, startYieldLoop,
       startConLoop, startRegLoop, startUnsubLoop, startDisLoop, startSubLoop,
       startPubLoop, StartWith
  <2>4. CASE finishDisLoop
    BY <2>1, <2>4 DEF finishDisLoop, At
  <2> QED BY <2>1, <2>2, <2>3, <2>4 DEF LoopSteps, StepWaits, StepTraffic,
         StepDisconnectReceived, StepPingResponse, finishAttachLoop,
         finishConLoop, finishPubLoopQoS0, finishPubLoop, doSubLoop, doPubLoop,
         StepTopicRejected, StepRegisterReceived, finishRegLoop, finishSubLoop,
         finishUnsubLoop, Acknowledged, finishYieldLoop
<1>2. CASE UNCHANGED <<stmVars, pool>>
  BY <1>1, <1>2, KeepsPool DEF Outside
<1>3. CASE StepDisconnectReceived
  <2>1. "Disconnect" \in Sent /\ "Wakeup" \in Sent
    BY DEF Sent
  <2>2. ASSUME NEW rest, disconnectNotify(rest) PROVE UNCHANGED stmVars \/ Pushes
    BY <1>1, <2>1, <2>2, PushesSent DEF disconnectNotify
  <2> QED BY <1>1, <1>3, <2>2, KeepsPool DEF StepDisconnectReceived, Outside
<1>4. CASE StepPingResponse
  <2>1. "AwakeSleep" \in Sent
    BY DEF Sent
  <2> QED BY <1>1, <1>4, <2>1, PushesSent, KeepsPool DEF StepPingResponse, Outside
<1>5. CASE finishAttachLoop
  BY <1>1, <1>5, KeepsPool DEF finishAttachLoop, Outside, Posts, stmVars
<1>6. CASE StepTopicRejected \/ StepRegisterReceived
  <2>1. UNCHANGED stmVars
    BY <1>6 DEF StepTopicRejected, StepRegisterReceived
  <2>2. pool' = pool \/ \E t, F : pool' = [pool EXCEPT !.registry[t] = F]
    BY <1>6 DEF StepTopicRejected, StepRegisterReceived
  <2>3. Keeps
    BY <1>0, <1>1, <2>2 DEF Keeps, Pools
  <2> QED BY <2>1, <2>3 DEF Outside
<1>7. LoopNothing \/ LoopStarts => UNCHANGED <<stmVars, pool>>
  BY DEF LoopNothing, LoopStarts, StartStale, startAttachLoop, startYieldLoop,
     startConLoop, startRegLoop, startUnsubLoop, startDisLoop, startSubLoop,
     startPubLoop
<1> QED BY <1>2, <1>3, <1>4, <1>5, <1>6, <1>7 DEF LoopSteps, StepWaits,
       StepTraffic, finishConLoop, finishPubLoopQoS0, finishPubLoop, doSubLoop,
       doPubLoop, finishRegLoop, finishSubLoop, finishUnsubLoop, Acknowledged,
       finishYieldLoop, finishDisLoop

\* A step is a step of the state machine and its timer, or one outside it.
LEMMA StepEffect ==
  TypeInv /\ [Next]_vars =>
    \/ startStateMachine \/ TimerExpires \/ HandleEvent \/ DispatchEnd
    \/ Outside
<1> SUFFICES ASSUME TypeInv, [Next]_vars
             PROVE  \/ startStateMachine \/ TimerExpires \/ HandleEvent
                    \/ DispatchEnd \/ Outside
  OBVIOUS
<1>1. UNCHANGED vars => Outside
  BY KeepsPool DEF vars, Outside
<1> QED BY <1>1, ApplicationEffect, ContinueEffect, TurnEffect DEF Next

----------------------------------------------------------------------------
(* The handlers, as transitions                                            *)

Operational == stm \notin {"Invalid", "Initial", "Error", "DeepSleep"}

\* take_front() of the batch that is dispatched.
TakesHead ==
  /\ dispatching /\ dispatching'
  /\ events # <<>> /\ events' = Tail(events)
  /\ UNCHANGED calls

\* The pool keeps what the invariants look at.
SameMachine ==
  /\ pool'.initialized = pool.initialized
  /\ pool'.restarts = pool.restarts
  /\ UNCHANGED modemOn

LeavesInitial ==
  /\ stm = "Initial" /\ Head(events) \in {"Initialize", "Timer"}
  /\ SameMachine /\ UNCHANGED posted
  /\ \/ pool.initialized /\ stm' = "Disconnected"
     \/ /\ ~pool.initialized /\ stm' = "Error"
        /\ pool'.errno = "InitializeError"

\* From one operational state to another: the successor of a state for an
\* event.
Moves == {
  <<"Disconnected", "Connect", "WaitForConnect">>,
  <<"Disconnected", "Connect", "WaitForAttach">>,
  <<"WaitForAttach", "Attached", "WaitForConnect">>,
  <<"WaitForConnect", "ConnectedEv", "Connected">>,
  <<"Connected", "Disconnect", "Disconnected">>,
  <<"Connected", "Sleep", "ConnectedSleep">>,
  <<"ConnectedSleep", "Wakeup", "Connected">>,
  <<"ConnectedSleep", "ConnectedAwakeEv", "ConnectedAwake">>,
  <<"ConnectedAwake", "AwakeSleep", "ConnectedSleep">>,
  <<"ConnectedAwake", "Timer", "ConnectedSleep">>,
  <<"Disconnected", "Sleep", "DisconnectedSleep">>,
  <<"DisconnectedSleep", "Wakeup", "Disconnected">>}

MovesOn ==
  /\ <<stm, Head(events), stm'>> \in Moves
  /\ UNCHANGED <<posted, modemOn>>
  /\ pool'.initialized = pool.initialized
  /\ pool'.restarts \in {0, pool.restarts}

\* An operational state gives up.
Fails ==
  /\ \/ stm \in {"Disconnected", "WaitForAttach"} /\ Head(events) \in {"Connect", "Attached"}
     \/ stm \in {"WaitForAttach", "WaitForConnect"} /\ Head(events) = "Timer"
  /\ stm' = "Error"
  /\ pool'.initialized = pool.initialized /\ UNCHANGED modemOn
  /\ pool'.errno \in {"IpNotConnected", "GprsNotConnected", "ConnectionError"}
  /\ pool.initialized =>
       /\ timer' = "off"
       /\ \E e \in Recovery : posted' = Append(posted, e)
       /\ pool.restarts < RestartThreshold => pool'.restarts < RestartThreshold

SwitchesOff ==
  /\ stm \in {"Connected", "Disconnected"} /\ Head(events) = "Hibernate"
  /\ stm' = "DeepSleep" /\ timer' = "off" /\ UNCHANGED posted
  /\ pool'.initialized = FALSE /\ pool'.restarts = pool.restarts

Recovers ==
  /\ stm = "Error" /\ Head(events) = "ErrorDisconnect" /\ stm' = "Disconnected"
  /\ SameMachine /\ UNCHANGED posted

StartsOver ==
  /\ \/ stm = "Error" /\ Head(events) \in {"ReInitialize", "Timer"}
     \/ stm = "DeepSleep" /\ Head(events) = "ReInitialize"
  /\ stm' = "Initial"
  /\ posted' = Append(posted, "Initialize")
  /\ pool'.initialized => modemOn'
  /\ pool'.restarts = pool.restarts

Ignores ==
  /\ Head(events) \notin Accepts(stm)
  /\ UNCHANGED <<stm, posted, timer, pool, modemOn>>

LEMMA ErrorEntryEffect ==
  ASSUME NEW p \in Pools, actionErrorEntry(p)
  PROVE  /\ stm' = "Error" /\ UNCHANGED modemOn
         /\ pool'.initialized = p.initialized /\ pool'.errno = p.errno
         /\ pool'.restarts \in {p.restarts, 0}
         /\ ~p.initialized => UNCHANGED posted /\ pool'.restarts = p.restarts
         /\ p.initialized =>
              /\ timer' = "off"
              /\ \E e \in Recovery : posted' = Append(posted, e)
              /\ p.restarts <= RestartThreshold => pool'.restarts < RestartThreshold
<1>0. RestartThreshold \in Nat \ {0} /\ p.restarts \in Nat
  BY StmAssumption, PoolFields
<1>1. stm' = "Error" /\ UNCHANGED modemOn
  BY DEF actionErrorEntry, Enter
<1>2. ASSUME p.initialized, p.restarts >= RestartThreshold
      PROVE  /\ pool' = [p EXCEPT !.restarts = 0] /\ timer' = "off"
             /\ posted' = Append(posted, "ReInitialize")
  BY <1>2 DEF actionErrorEntry, Enter, postEvent
<1>3. ASSUME p.initialized, ~(p.restarts >= RestartThreshold)
      PROVE  /\ pool' = p /\ timer' = "off"
             /\ posted' = Append(posted, "ErrorDisconnect")
  BY <1>3 DEF actionErrorEntry, Enter
<1>4. ASSUME ~p.initialized PROVE pool' = p /\ UNCHANGED posted
  BY <1>4 DEF actionErrorEntry
<1>5. CASE p.initialized /\ p.restarts >= RestartThreshold
  <2>1. /\ pool'.initialized = p.initialized /\ pool'.errno = p.errno
        /\ pool'.restarts = 0
    BY <1>2, <1>5 DEF Pools
  <2>2. 0 < RestartThreshold
    BY <1>0
  <2> QED BY <1>1, <1>2, <1>5, <2>1, <2>2 DEF Recovery
<1>6. CASE p.initialized /\ ~(p.restarts >= RestartThreshold)
  <2>1. p.restarts < RestartThreshold
    BY <1>0, <1>6
  <2> QED BY <1>1, <1>3, <1>6, <2>1 DEF Recovery
<1>7. CASE ~p.initialized
  BY <1>1, <1>4, <1>7
<1> QED BY <1>5, <1>6, <1>7

LEMMA HandleTakes == TypeInv /\ HandleEvent => TakesHead
<1> SUFFICES ASSUME TypeInv, HandleEvent PROVE TakesHead
  OBVIOUS
<1>1. \E e : Take(e)
  BY DEF HandleEvent, InitialLeave, DisconnectedConnect,
     WaitForAttachAttached, WaitForAttachTimer, WaitForConnectConnected,
     WaitForConnectTimer, ErrorDisconnect, ReInitialize,
     ConnectedDisconnect, ConnectedSleepEvent, ConnectedSleepWakeup,
     ConnectedSleepAwake, ConnectedAwakeLeave, Hibernate,
     DisconnectedSleepEvent, DisconnectedSleepWakeup, IgnoreEvent
<1> QED BY <1>1 DEF Take, TakesHead

LEMMA IpConnectEffect ==
  ASSUME NEW p \in Pools, p.initialized = pool.initialized, IpConnect(p),
         stm \in {"Disconnected", "WaitForAttach"},
         Head(events) \in {"Connect", "Attached"}
  PROVE  \/ Fails
         \/ /\ stm' = "WaitForConnect" /\ UNCHANGED <<posted, modemOn>>
            /\ pool'.initialized = pool.initialized /\ pool'.restarts = 0
<1> DEFINE q == [p EXCEPT !.restarts = 0]
           r == [q EXCEPT !.errno = "IpNotConnected"]
<1>1. /\ q \in Pools /\ r \in Pools
      /\ q.initialized = p.initialized /\ q.restarts = 0
      /\ r.initialized = p.initialized /\ r.restarts = 0
      /\ r.errno = "IpNotConnected"
  <2>1. q \in Pools
    BY PoolUpdates
  <2>2. r \in Pools
    BY <2>1, PoolUpdates DEF Errnos
  <2> QED BY <2>1, <2>2 DEF Pools
<1>2. CASE actionErrorEntry(r)
  <2>1. 0 <= RestartThreshold
    BY StmAssumption
  <2> HIDE DEF r, q
  <2> QED BY <1>1, <1>2, <2>1, ErrorEntryEffect DEF Fails
<1>3. CASE pool' = q /\ Enter("WaitForConnect", "run") /\ UNCHANGED <<posted, modemOn>>
  BY <1>1, <1>3 DEF Enter
<1> QED BY <1>2, <1>3 DEF IpConnect

LEMMA HandleEffect ==
  TypeInv /\ HandleEvent =>
    \/ LeavesInitial \/ MovesOn \/ Fails \/ SwitchesOff
    \/ Recovers \/ StartsOver \/ Ignores
<1> SUFFICES ASSUME TypeInv, HandleEvent
             PROVE  \/ LeavesInitial \/ MovesOn \/ Fails \/ SwitchesOff
                    \/ Recovers \/ StartsOver \/ Ignores
  OBVIOUS
<1>0. pool \in Pools /\ pool.restarts \in Nat
  BY PoolFields DEF TypeInv, PoolTypes
<1>t. \A e : Take(e) => Head(events) = e
  BY DEF Take
<1>d. ASSUME actionDisconnectedEntry(pool)
      PROVE  stm' = "Disconnected" /\ UNCHANGED posted /\ SameMachine
  BY <1>0, <1>d DEF actionDisconnectedEntry, Enter, SameMachine, Pools
<1>1. CASE InitialLeave
  <2>1. stm = "Initial" /\ Head(events) \in {"Initialize", "Timer"}
    BY <1>1, <1>t DEF InitialLeave
  <2>2. CASE pool.initialized /\ actionDisconnectedEntry(pool)
    BY <1>d, <2>1, <2>2 DEF LeavesInitial
  <2>3. CASE /\ ~pool.initialized
             /\ actionErrorEntry([pool EXCEPT !.errno = "InitializeError"])
    <3> DEFINE p == [pool EXCEPT !.errno = "InitializeError"]
    <3>1. /\ p \in Pools /\ p.initialized = pool.initialized
          /\ p.restarts = pool.restarts /\ p.errno = "InitializeError"
      <4>1. p \in Pools
        BY <1>0, PoolUpdates DEF Errnos
      <4> QED BY <1>0, <4>1 DEF Pools
    <3> HIDE DEF p
    <3>2. actionErrorEntry(p)
      BY <2>3 DEF p
    <3> QED BY <2>1, <2>3, <3>1, <3>2, ErrorEntryEffect DEF LeavesInitial, SameMachine
  <2> QED BY <1>1, <2>2, <2>3 DEF InitialLeave
<1>2. CASE DisconnectedConnect
  <2> DEFINE p == [pool EXCEPT !.errno = "Success"]
  <2>1. p \in Pools /\ p.initialized = pool.initialized /\ p.restarts = pool.restarts
    <3>1. p \in Pools
      BY <1>0, PoolUpdates DEF Errnos
    <3> QED BY <1>0, <3>1 DEF Pools
  <2>2. stm = "Disconnected" /\ Head(events) = "Connect"
    BY <1>2, <1>t DEF DisconnectedConnect
  <2> HIDE DEF p
  <2>3. CASE IpConnect(p)
    BY <2>1, <2>2, <2>3, IpConnectEffect DEF MovesOn, Moves
  <2>4. CASE Enter("WaitForAttach", "run") /\ pool' = p /\ UNCHANGED <<posted, modemOn>>
    BY <2>1, <2>2, <2>4 DEF Enter, MovesOn, Moves
  <2> QED BY <1>2, <2>3, <2>4 DEF DisconnectedConnect, p
<1>3. CASE WaitForAttachAttached
  <2>1. stm = "WaitForAttach" /\ Head(events) = "Attached" /\ IpConnect(pool)
    BY <1>3, <1>t DEF WaitForAttachAttached
  <2> QED BY <1>0, <2>1, IpConnectEffect DEF MovesOn, Moves
<1>4. CASE WaitForAttachTimer
  <2> DEFINE p == [pool EXCEPT !.errno = "GprsNotConnected", !.restarts = @ + 1]
  <2>1. /\ p \in Pools /\ p.initialized = pool.initialized
        /\ p.restarts = pool.restarts + 1 /\ p.errno = "GprsNotConnected"
    <3>1. pool.restarts + 1 \in Nat /\ "GprsNotConnected" \in Errnos
      BY <1>0 DEF Errnos
    <3> QED BY <1>0, <3>1 DEF Pools
  <2>2. stm = "WaitForAttach" /\ Head(events) = "Timer" /\ actionErrorEntry(p)
    BY <1>4, <1>t DEF WaitForAttachTimer
  <2> HIDE DEF p
  <2>3. pool.restarts < RestartThreshold => p.restarts <= RestartThreshold
    BY <1>0, <2>1, StmAssumption
  <2> QED BY <2>1, <2>2, <2>3, ErrorEntryEffect DEF Fails
<1>5. CASE WaitForConnectConnected
  <2>1. /\ stm = "WaitForConnect" /\ Head(events) = "ConnectedEv"
        /\ actionConnectedEntry
    BY <1>5, <1>t DEF WaitForConnectConnected
  <2>2. pool'.initialized = pool.initialized /\ pool'.restarts = pool.restarts
    BY <1>0, <2>1 DEF actionConnectedEntry, Pools
  <2> QED BY <2>1, <2>2 DEF actionConnectedEntry, Enter, MovesOn, Moves
<1>6. CASE WaitForConnectTimer
  <2> DEFINE p == [pool EXCEPT !.errno = "ConnectionError"]
  <2>1. /\ p \in Pools /\ p.initialized = pool.initialized
        /\ p.restarts = pool.restarts /\ p.errno = "ConnectionError"
    <3>1. p \in Pools
      BY <1>0, PoolUpdates DEF Errnos
    <3> QED BY <1>0, <3>1 DEF Pools
  <2>2. stm = "WaitForConnect" /\ Head(events) = "Timer" /\ actionErrorEntry(p)
    BY <1>6, <1>t DEF WaitForConnectTimer
  <2> HIDE DEF p
  <2>3. pool.restarts < RestartThreshold => p.restarts <= RestartThreshold
    BY <1>0, <2>1, StmAssumption
  <2> QED BY <2>1, <2>2, <2>3, ErrorEntryEffect DEF Fails
<1>7. CASE ErrorDisconnect
  BY <1>7, <1>t, <1>d DEF ErrorDisconnect, Recovers
<1>8. CASE ReInitialize
  <2>1. PICK ok \in Outcome("init") :
             /\ Enter("Initial", "run")
             /\ pool' = [pool EXCEPT !.initialized = ok]
             /\ postEvent("Initialize")
             /\ modemOn' = (modemOn \/ ok)
    BY <1>8 DEF ReInitialize, actionInitialEntry
  <2>2. pool'.initialized = ok /\ pool'.restarts = pool.restarts
    BY <1>0, <2>1 DEF Pools
  <2>3. pool'.initialized => modemOn'
    BY <2>1, <2>2
  <2>4. \/ stm = "Error" /\ Head(events) \in {"ReInitialize", "Timer"}
        \/ stm = "DeepSleep" /\ Head(events) = "ReInitialize"
    BY <1>8, <1>t DEF ReInitialize
  <2> QED BY <2>1, <2>2, <2>3, <2>4 DEF Enter, postEvent, StartsOver
<1>9. CASE ConnectedDisconnect
  BY <1>9, <1>t, <1>d DEF ConnectedDisconnect, MovesOn, Moves, SameMachine
<1>10. CASE ConnectedSleepEvent
  BY <1>10, <1>t DEF ConnectedSleepEvent, Enter, MovesOn, Moves
<1>11. CASE ConnectedSleepWakeup
  <2>1. /\ stm = "ConnectedSleep" /\ Head(events) = "Wakeup"
        /\ actionConnectedEntry
    BY <1>11, <1>t DEF ConnectedSleepWakeup
  <2>2. pool'.initialized = pool.initialized /\ pool'.restarts = pool.restarts
    BY <1>0, <2>1 DEF actionConnectedEntry, Pools
  <2> QED BY <2>1, <2>2 DEF actionConnectedEntry, Enter, MovesOn, Moves
<1>12. CASE ConnectedSleepAwake
  BY <1>12, <1>t DEF ConnectedSleepAwake, Enter, MovesOn, Moves
<1>13. CASE ConnectedAwakeLeave
  BY <1>13, <1>t DEF ConnectedAwakeLeave, Enter, MovesOn, Moves
<1>14. CASE Hibernate
  <2>1. pool' = [pool EXCEPT !.initialized = FALSE, !.hasSubscription = FALSE]
    BY <1>14 DEF Hibernate, actionDeepSleepEntry
  <2>2. pool'.initialized = FALSE /\ pool'.restarts = pool.restarts
    BY <1>0, <2>1 DEF Pools
  <2> QED BY <1>14, <1>t, <2>2 DEF Hibernate, actionDeepSleepEntry, Enter, SwitchesOff
<1>15. CASE DisconnectedSleepEvent
  BY <1>15, <1>t DEF DisconnectedSleepEvent, Enter, MovesOn, Moves
<1>16. CASE DisconnectedSleepWakeup
  BY <1>16, <1>t, <1>d DEF DisconnectedSleepWakeup, MovesOn, Moves, SameMachine
<1>17. CASE IgnoreEvent
  BY <1>17, <1>t DEF IgnoreEvent, Ignores
<1> QED BY <1>1, <1>2, <1>3, <1>4, <1>5, <1>6, <1>7, <1>8, <1>9, <1>10, <1>11,
           <1>12, <1>13, <1>14, <1>15, <1>16, <1>17 DEF HandleEvent

----------------------------------------------------------------------------
(* The machine and its queues                                              *)

\* Nothing in the queue restarts the machine or ends an error.
Clean(q) == HasNone(q, Recovery \cup {"Initialize"})

\* A Timer is the last event of its batch; only a running handler posts the
\* events that restart the machine.
BatchInv ==
  /\ TimerLast(events)
  /\ ~dispatching => HasNone(events, {"Timer"}) /\ Clean(posted)

\* Initial waits for the Initialize it posted, and no Timer overtakes it.
InitialQueues ==
  \/ /\ dispatching
     /\ InitializeFirst(posted)
     /\ HasNone(events, {"Initialize", "Timer"})
  \/ InitializeFirst(events) /\ Clean(posted)

\* An error of an initialised modem has at most one way out under way.
ErrorQueues ==
  /\ timer = "off"
  /\ HasNone(events, {"ReInitialize"}) \/ HasNone(events, {"Timer"})
  /\ HasNone(events, {"Initialize"}) /\ HasNone(posted, {"Initialize"})
  /\ Lone(events) /\ Lone(posted)
  /\ HasNone(events, Recovery) \/ HasNone(posted, Recovery)

DeepSleepQueues ==
  /\ timer = "off"
  /\ HasNone(events, {"ReInitialize"}) \/ HasNone(events, {"Timer"})
  /\ HasNone(events, {"Initialize", "ErrorDisconnect"})
  /\ Clean(posted)

\* A recovery event is only under way in a state it was meant for.  If an
\* ErrorDisconnect could outlive its Error, a later Error without a working
\* modem would be left for Disconnected.
QueueInv ==
  /\ BatchInv
  /\ stm = "Initial" => InitialQueues
  /\ stm = "DeepSleep" => DeepSleepQueues
  /\ stm = "Error" /\ pool.initialized => ErrorQueues
  /\ stm = "Error" /\ ~pool.initialized => Clean(events) /\ Clean(posted)
  /\ stm \notin {"Initial", "DeepSleep", "Error"} => Clean(events) /\ Clean(posted)

\* The machine itself.
MachineInv ==
  /\ pool.initialized => modemOn
  /\ stm = "Invalid" => modemOn
  /\ Operational => pool.initialized
  /\ pool.restarts < RestartThreshold
  /\ ErrorHasReason

MqttInv == TypeInv /\ QueueInv /\ MachineInv

LEMMA CleanParts ==
  \A q : Clean(q) => HasNone(q, Recovery) /\ HasNone(q, {"Initialize"})
                     /\ HasNone(q, {"ReInitialize"}) /\ Lone(q)
                     /\ HasNone(q, {"Initialize", "ErrorDisconnect"})
  BY DEF Clean, HasNone, Lone, Recovery

LEMMA NoTimerPosted ==
  ASSUME NEW q \in Seq(PostEvents)
  PROVE  HasNone(q, {"Timer"})
  BY DEF HasNone, PostEvents

LEMMA EventsAssociative ==
  ASSUME NEW p \in Seq(Events), NEW q \in Seq(Events), NEW r \in Seq(Events)
  PROVE  (p \o q) \o r = p \o (q \o r)
  BY ConcatAssociative

\* A step outside the state machine keeps the order in its queues.
LEMMA OutsideQueues == MqttInv /\ Outside => QueueInv'
<1> SUFFICES ASSUME MqttInv, Outside PROVE QueueInv'
  OBVIOUS
<1>0. /\ events \in Seq(Events) /\ posted \in Seq(Events)
      /\ posted \in Seq(PostEvents)
      /\ pool'.initialized = pool.initialized
  BY PostedAreEvents DEF MqttInv, TypeInv, StmTypes, Outside, Keeps
<1>1. CASE UNCHANGED stmVars
  BY <1>0, <1>1 DEF MqttInv, QueueInv, stmVars, BatchInv, InitialQueues,
     ErrorQueues, DeepSleepQueues
<1>2. CASE Pushes
  <2>1. PICK es \in Seq(Events) :
             /\ Dispatch(es)
             /\ HasNone(es, {"Initialize", "ErrorDisconnect", "Timer"})
             /\ stm # "DeepSleep" => HasNone(es, {"ReInitialize"})
    BY <1>2 DEF Pushes
  <2> DEFINE tl == IF timer = "due" THEN <<"Timer">> ELSE <<>>
             bs == es \o tl
  <2>2. /\ tl \in Seq(Events) /\ bs \in Seq(Events)
        /\ timer = "off" => bs = es
        /\ HasNone(tl, {"Initialize", "ErrorDisconnect", "ReInitialize"})
    <3>1. tl \in Seq(Events)
      <4>1. "Timer" \in Events
        BY DEF Events
      <4>2. <<"Timer">> \in Seq(Events) /\ <<>> \in Seq(Events)
        BY <4>1
      <4> QED BY <4>2
    <3>2. HasNone(tl, {"Initialize", "ErrorDisconnect", "ReInitialize"})
      BY HasNoneOne, HasNoneEmpty
    <3>3. es \o <<>> = es
      BY ConcatEmptySeq, Zenon
    <3>4. timer = "off" => bs = es
      BY <3>3
    <3>5. bs \in Seq(Events)
      BY <3>1, ConcatProperties, Zenon
    <3> QED BY <3>1, <3>2, <3>4, <3>5
  <2>3. /\ events' = events \o bs /\ dispatching' /\ UNCHANGED <<stm, posted>>
        /\ timer = "off" => timer' = "off"
    <3>1. (events \o es) \o tl = events \o bs
      BY <1>0, <2>2, EventsAssociative
    <3> QED BY <2>1, <3>1 DEF Dispatch
  <2>4. ~dispatching /\ HasNone(events, {"Timer"}) /\ Clean(posted)
    BY <1>2 DEF Pushes, MqttInv, QueueInv, BatchInv
  <2>5. HasNone(bs, {"Initialize", "ErrorDisconnect"})
    <3>1. /\ HasNone(es, {"Initialize", "ErrorDisconnect"})
          /\ HasNone(tl, {"Initialize", "ErrorDisconnect"})
      BY <2>1, <2>2 DEF HasNone
    <3> QED BY <2>2, <3>1, HasNoneConcat
  <2>6. stm # "DeepSleep" => Clean(bs) /\ HasNone(bs, Recovery)
    <3>1. ASSUME HasNone(es, {"ReInitialize"}) PROVE HasNone(bs, {"ReInitialize"})
      <4>1. HasNone(tl, {"ReInitialize"})
        BY <2>2 DEF HasNone
      <4> QED BY <2>2, <3>1, <4>1, HasNoneConcat
    <3> QED BY <2>1, <2>5, <3>1 DEF Clean, HasNone, Recovery
  <2>7. TimerLast(events')
    <3>1. HasNone(es, {"Timer"})
      BY <2>1 DEF HasNone
    <3>2. HasNone(events \o es, {"Timer"}) /\ events \o es \in Seq(Events)
      BY <1>0, <2>4, <3>1, HasNoneConcat
    <3>3. /\ TimerLast(events \o es)
          /\ TimerLast((events \o es) \o <<"Timer">>)
      BY <3>2, TimerLastAppended
    <3>4. events' = events \o es \/ events' = (events \o es) \o <<"Timer">>
      <4>1. (events \o es) \o <<>> = events \o es
        BY <3>2, ConcatEmptySeq, Zenon
      <4> QED BY <2>1, <4>1 DEF Dispatch
    <3> QED BY <3>3, <3>4
  <2>8. timer = "off" => HasNone(events', {"Timer"})
    <3>1. HasNone(es, {"Timer"})
      BY <2>1 DEF HasNone
    <3> QED BY <1>0, <2>2, <2>3, <2>4, <3>1, HasNoneConcat
  <2> HIDE DEF bs
  <2>9. stm = "Initial" => InitialQueues'
    <3> SUFFICES ASSUME stm = "Initial" PROVE InitialQueues'
      OBVIOUS
    <3>1. InitializeFirst(events)
      BY <2>4 DEF MqttInv, QueueInv, InitialQueues
    <3>2. InitializeFirst(events')
      BY <1>0, <2>2, <2>3, <2>6, <3>1, FirstConcat DEF Clean
    <3> QED BY <2>3, <2>4, <3>2 DEF InitialQueues
  <2>10. stm = "DeepSleep" => DeepSleepQueues'
    <3> SUFFICES ASSUME stm = "DeepSleep" PROVE DeepSleepQueues'
      OBVIOUS
    <3>1. DeepSleepQueues
      BY DEF MqttInv, QueueInv
    <3>2. HasNone(events', {"Initialize", "ErrorDisconnect"})
      BY <1>0, <2>2, <2>3, <2>5, <3>1, HasNoneConcat DEF DeepSleepQueues
    <3> QED BY <2>3, <2>4, <2>8, <3>1, <3>2 DEF DeepSleepQueues
  <2>11. stm = "Error" /\ pool.initialized => ErrorQueues'
    <3> SUFFICES ASSUME stm = "Error", pool.initialized PROVE ErrorQueues'
      OBVIOUS
    <3>1. ErrorQueues
      BY DEF MqttInv, QueueInv
    <3>2. Clean(bs) /\ HasNone(bs, Recovery) /\ HasNone(bs, {"Initialize"})
      BY <2>6, CleanParts
    <3>3. Lone(events') /\ HasNone(events', {"Initialize"})
      BY <1>0, <2>2, <2>3, <3>1, <3>2, LoneConcat, HasNoneConcat DEF ErrorQueues
    <3>4. HasNone(posted, Recovery) /\ posted' = posted
      BY <2>3, <2>4, CleanParts
    <3> QED BY <2>3, <2>8, <3>1, <3>3, <3>4 DEF ErrorQueues
  <2>12. ASSUME Clean(events), stm # "DeepSleep" PROVE Clean(events')
    BY <1>0, <2>2, <2>3, <2>6, <2>12, HasNoneConcat DEF Clean
  <2>13. BatchInv'
    BY <2>3, <2>7 DEF BatchInv
  <2>14. Clean(posted')
    BY <2>3, <2>4
  <2>15. stm' = stm
    BY <2>3
  <2> QED BY <1>0, <2>9, <2>10, <2>11, <2>12, <2>13, <2>14, <2>15 DEF MqttInv, QueueInv
<1>3. CASE Posts
  <2>1. PICK e \in {"Attached", "ConnectedEv", "Disconnect"} : posted' = Append(posted, e)
    BY <1>3 DEF Posts, postEvent
  <2>2. ~dispatching /\ UNCHANGED <<stm, events, timer, dispatching>>
    BY <1>3 DEF Posts
  <2>3. Clean(posted)
    BY <2>2 DEF MqttInv, QueueInv, BatchInv
  <2>4. Clean(posted')
    <3>1. e \in Events /\ e \notin Recovery \cup {"Initialize"}
      BY DEF Events, Recovery
    <3> QED BY <1>0, <2>1, <2>3, <3>1, HasNoneAppend DEF Clean
  <2>5. /\ Lone(posted') /\ HasNone(posted', Recovery)
        /\ HasNone(posted', {"Initialize"})
    BY <2>4, CleanParts
  <2>6. BatchInv'
    BY <2>2, <2>4 DEF MqttInv, QueueInv, BatchInv
  <2>7. stm = "Initial" => InitialQueues'
    BY <2>2, <2>4 DEF MqttInv, QueueInv, InitialQueues
  <2>8. stm = "DeepSleep" => DeepSleepQueues'
    BY <2>2, <2>4 DEF MqttInv, QueueInv, DeepSleepQueues
  <2>9. stm = "Error" /\ pool.initialized => ErrorQueues'
    BY <2>2, <2>5 DEF MqttInv, QueueInv, ErrorQueues
  <2> QED BY <1>0, <2>2, <2>4, <2>6, <2>7, <2>8, <2>9 DEF MqttInv, QueueInv
<1> QED BY <1>1, <1>2, <1>3 DEF Outside

\* So does a handler.
LEMMA HandleQueues == MqttInv /\ HandleEvent => QueueInv'
<1> SUFFICES ASSUME MqttInv, HandleEvent PROVE QueueInv'
  OBVIOUS
<1>0. /\ events \in Seq(Events) /\ posted \in Seq(Events)
      /\ posted \in Seq(PostEvents)
  BY PostedAreEvents DEF MqttInv, TypeInv, StmTypes
<1>1. TakesHead
  BY HandleTakes DEF MqttInv
<1>2. /\ dispatching /\ dispatching' /\ events # <<>> /\ events' = Tail(events)
  BY <1>1 DEF TakesHead
<1>3. /\ TimerLast(events')
      /\ Head(events) = "Timer" => events' = <<>>
  BY <1>0, <1>2, TimerLastTail DEF MqttInv, QueueInv, BatchInv
<1>4. BatchInv'
  BY <1>2, <1>3 DEF BatchInv
<1>5. \A S : HasNone(events, S) => HasNone(events', S) /\ Head(events) \notin S
  BY <1>0, <1>2, HasNoneTail
<1>6. Clean(events) => Clean(events')
  BY <1>5 DEF Clean
<1>7. CASE LeavesInitial
  <2>1. InitialQueues /\ Head(events) \in {"Initialize", "Timer"}
    BY <1>7 DEF LeavesInitial, MqttInv, QueueInv
  <2>2. InitializeFirst(events) /\ Clean(posted)
    BY <1>5, <2>1 DEF InitialQueues
  <2>3. Clean(events')
    BY <1>0, <1>2, <2>1, <2>2, FirstTail DEF Clean
  <2>4. Clean(posted')
    BY <1>7, <2>2 DEF LeavesInitial
  <2>5. stm' = "Disconnected" \/ (stm' = "Error" /\ ~pool'.initialized)
    <3>1. pool'.initialized = pool.initialized
      BY <1>7 DEF LeavesInitial, SameMachine
    <3>2. stm' = "Disconnected" \/ (stm' = "Error" /\ ~pool.initialized)
      BY <1>7 DEF LeavesInitial
    <3> QED BY <3>1, <3>2, Zenon
  <2> QED BY <1>4, <2>3, <2>4, <2>5 DEF QueueInv
<1>8. ASSUME stm \notin {"Initial", "DeepSleep", "Error"}
      PROVE  Clean(events') /\ Clean(posted)
  BY <1>6, <1>8 DEF MqttInv, QueueInv
<1>9. CASE MovesOn
  <2>1. /\ stm \notin {"Initial", "DeepSleep", "Error"}
        /\ stm' \notin {"Initial", "DeepSleep", "Error"}
    BY <1>9 DEF MovesOn, Moves
  <2>2. Clean(events') /\ Clean(posted')
    BY <1>8, <1>9, <2>1 DEF MovesOn
  <2> QED BY <1>4, <2>1, <2>2 DEF QueueInv
<1>10. CASE Fails
  <2>1. stm \notin {"Initial", "DeepSleep", "Error", "Invalid"} /\ stm' = "Error"
    BY <1>10 DEF Fails
  <2>2. pool.initialized /\ pool'.initialized
    BY <1>10, <2>1 DEF Fails, MqttInv, MachineInv, Operational
  <2>3. PICK e \in Recovery : posted' = Append(posted, e)
    BY <1>10, <2>2 DEF Fails
  <2>4. timer' = "off"
    BY <1>10, <2>2 DEF Fails
  <2>5. Lone(posted') /\ HasNone(posted', {"Initialize"})
    <3>1. HasNone(posted, Recovery) /\ HasNone(posted, {"Initialize"})
      BY <1>8, <2>1, CleanParts
    <3>2. e \in Events /\ e # "Initialize"
      BY DEF Recovery, Events
    <3> QED BY <1>0, <2>3, <3>1, <3>2, LoneAppend, HasNoneAppend
  <2>6. /\ HasNone(events', Recovery) /\ HasNone(events', {"Initialize"})
        /\ HasNone(events', {"ReInitialize"}) /\ Lone(events')
    BY <1>8, <2>1, CleanParts
  <2>7. ErrorQueues'
    BY <2>4, <2>5, <2>6 DEF ErrorQueues
  <2> QED BY <1>4, <2>1, <2>2, <2>7 DEF QueueInv
<1>11. CASE SwitchesOff
  <2>1. stm \notin {"Initial", "DeepSleep", "Error"} /\ stm' = "DeepSleep"
    BY <1>11 DEF SwitchesOff
  <2>2. Clean(events') /\ Clean(posted') /\ timer' = "off"
    BY <1>8, <1>11, <2>1 DEF SwitchesOff
  <2>3. DeepSleepQueues'
    BY <2>2, CleanParts DEF DeepSleepQueues
  <2> QED BY <1>4, <2>1, <2>3 DEF QueueInv
<1>12. CASE Recovers
  <2>1. /\ stm = "Error" /\ stm' = "Disconnected" /\ posted' = posted
        /\ Head(events) = "ErrorDisconnect"
    BY <1>12 DEF Recovers
  <2>2. Head(events) \in Recovery
    BY <2>1 DEF Recovery
  <2>3. ErrorQueues
    BY <1>5, <2>1, <2>2, CleanParts DEF MqttInv, QueueInv
  <2>4. HasNone(events', Recovery) /\ HasNone(events', {"Initialize"})
    BY <1>0, <1>2, <1>5, <2>2, <2>3, LoneTail DEF ErrorQueues
  <2>5. HasNone(posted, Recovery) /\ HasNone(posted, {"Initialize"})
    BY <1>5, <2>2, <2>3 DEF ErrorQueues
  <2>6. Clean(events') /\ Clean(posted')
    BY <2>1, <2>4, <2>5, HasNoneUnion DEF Clean
  <2> QED BY <1>4, <2>1, <2>6 DEF QueueInv
<1>13. CASE StartsOver
  <2>1. /\ stm' = "Initial" /\ posted' = Append(posted, "Initialize")
        /\ stm \in {"Error", "DeepSleep"}
        /\ Head(events) \in {"ReInitialize", "Timer"}
        /\ stm = "DeepSleep" => Head(events) = "ReInitialize"
    BY <1>13 DEF StartsOver
  <2>2. HasNone(events, {"Initialize"}) /\ HasNone(posted, {"Initialize"})
    <3>1. CASE stm = "DeepSleep"
      <4>1. DeepSleepQueues
        BY <3>1 DEF MqttInv, QueueInv
      <4>2. HasNone(posted, {"Initialize"})
        BY <4>1, CleanParts DEF DeepSleepQueues
      <4>3. HasNone(events, {"Initialize"})
        BY <4>1 DEF DeepSleepQueues, HasNone
      <4> QED BY <4>2, <4>3
    <3>2. CASE stm = "Error"
      BY <3>2, CleanParts DEF MqttInv, QueueInv, ErrorQueues
    <3> QED BY <2>1, <3>1, <3>2
  <2>3. HasNone(events', {"Timer"})
    <3>1. CASE Head(events) = "Timer"
      BY <1>3, <3>1, HasNoneEmpty
    <3>2. CASE Head(events) = "ReInitialize"
      <4>1. ~HasNone(events, {"ReInitialize"})
        BY <1>5, <3>2
      <4>2. HasNone(events, {"Timer"})
        BY <2>1, <4>1, CleanParts DEF MqttInv, QueueInv, ErrorQueues, DeepSleepQueues
      <4> QED BY <1>5, <4>2
    <3> QED BY <2>1, <3>1, <3>2
  <2>4. HasNone(events', {"Initialize", "Timer"})
    BY <1>5, <2>2, <2>3 DEF HasNone
  <2>5. InitializeFirst(posted')
    <3>1. HasNone(posted, {"Initialize", "Timer"})
      BY <1>0, <2>2, NoTimerPosted DEF HasNone
    <3> QED BY <1>0, <2>1, <3>1, FirstAppend
  <2>6. InitialQueues'
    BY <1>2, <2>4, <2>5 DEF InitialQueues
  <2> QED BY <1>4, <2>1, <2>6 DEF QueueInv
<1>14. CASE Ignores
  <2>1. UNCHANGED <<stm, posted, timer, pool>> /\ Head(events) \notin Accepts(stm)
    BY <1>14 DEF Ignores
  <2>2. stm = "Initial" => InitialQueues'
    <3> SUFFICES ASSUME stm = "Initial" PROVE InitialQueues'
      OBVIOUS
    <3>1. Head(events) # "Initialize"
      BY <2>1 DEF Accepts
    <3>2. InitialQueues
      BY DEF MqttInv, QueueInv
    <3>3. CASE /\ dispatching
               /\ InitializeFirst(posted)
               /\ HasNone(events, {"Initialize", "Timer"})
      BY <1>2, <1>5, <2>1, <3>3 DEF InitialQueues
    <3>4. CASE InitializeFirst(events) /\ Clean(posted)
      <4>1. InitializeFirst(events')
        BY <1>0, <1>2, <3>1, <3>4, FirstTail
      <4> QED BY <2>1, <3>4, <4>1 DEF InitialQueues
    <3> QED BY <3>2, <3>3, <3>4 DEF InitialQueues
  <2>3. stm = "DeepSleep" => DeepSleepQueues'
    BY <1>5, <2>1 DEF MqttInv, QueueInv, DeepSleepQueues
  <2>4. stm = "Error" /\ pool.initialized => ErrorQueues'
    <3> SUFFICES ASSUME stm = "Error", pool.initialized PROVE ErrorQueues'
      OBVIOUS
    <3>1. ErrorQueues
      BY DEF MqttInv, QueueInv
    <3>2. Lone(events')
      BY <1>0, <1>2, <3>1, LoneTail DEF ErrorQueues
    <3> QED BY <1>5, <2>1, <3>1, <3>2 DEF ErrorQueues
  <2>5. Clean(posted) => Clean(posted')
    BY <2>1
  <2> QED BY <1>4, <1>6, <2>1, <2>2, <2>3, <2>4, <2>5 DEF MqttInv, QueueInv
<1> QED BY <1>7, <1>9, <1>10, <1>11, <1>12, <1>13, <1>14, HandleEffect DEF MqttInv

\* The queues keep their order in every step.
LEMMA StepQueues == MqttInv /\ [Next]_vars => QueueInv'
<1> SUFFICES ASSUME MqttInv, [Next]_vars PROVE QueueInv'
  OBVIOUS
<1>0. /\ events \in Seq(Events) /\ posted \in Seq(PostEvents)
      /\ QueueInv
  BY DEF MqttInv, TypeInv, StmTypes
<1>1. CASE startStateMachine
  <2>1. /\ stm = "Invalid" /\ stm' = "Initial" /\ UNCHANGED posted
        /\ events' = <<"Initialize">> /\ dispatching'
    BY <1>1 DEF startStateMachine
  <2>2. InitializeFirst(events') /\ TimerLast(events')
    BY <2>1 DEF InitializeFirst, TimerLast
  <2>3. Clean(posted')
    BY <1>0, <2>1 DEF QueueInv
  <2> QED BY <2>1, <2>2, <2>3 DEF QueueInv, BatchInv, InitialQueues
<1>2. CASE TimerExpires
  <2>1. /\ timer = "run" /\ UNCHANGED <<stm, events, posted, dispatching, pool>>
    BY <1>2 DEF TimerExpires
  <2> QED BY <1>0, <2>1 DEF QueueInv, BatchInv, InitialQueues, ErrorQueues,
          DeepSleepQueues
<1>3. CASE DispatchEnd
  <2>1. /\ events = <<>> /\ events' = posted /\ posted' = <<>> /\ dispatching' = FALSE
        /\ UNCHANGED <<stm, timer, pool>>
    BY <1>3 DEF DispatchEnd
  <2>2. /\ \A S : HasNone(posted', S)
        /\ Clean(posted') /\ Lone(posted')
    BY <2>1, HasNoneEmpty, LoneNone DEF Clean
  <2>3. HasNone(events', {"Timer"}) /\ TimerLast(events')
    <3>1. HasNone(events', {"Timer"})
      BY <1>0, <2>1, NoTimerPosted
    <3> QED BY <3>1 DEF HasNone, TimerLast
  <2>4. ~dispatching'
    BY <2>1
  <2>5. BatchInv'
    BY <2>2, <2>3 DEF BatchInv
  <2>6. stm = "Initial" => InitialQueues'
    <3> SUFFICES ASSUME stm = "Initial" PROVE InitialQueues'
      OBVIOUS
    <3>1. ~InitializeFirst(events)
      BY <2>1 DEF InitializeFirst
    <3>2. InitializeFirst(events')
      BY <1>0, <2>1, <3>1 DEF QueueInv, InitialQueues
    <3> QED BY <2>2, <3>2 DEF InitialQueues
  <2>7. stm = "DeepSleep" => DeepSleepQueues'
    <3> SUFFICES ASSUME stm = "DeepSleep" PROVE DeepSleepQueues'
      OBVIOUS
    <3>1. Clean(posted) /\ timer = "off"
      BY <1>0 DEF QueueInv, DeepSleepQueues
    <3>2. HasNone(events', {"Initialize", "ErrorDisconnect"})
      BY <2>1, <3>1, CleanParts
    <3> QED BY <2>1, <2>2, <2>3, <3>1, <3>2 DEF DeepSleepQueues
  <2>8. stm = "Error" /\ pool.initialized => ErrorQueues'
    <3> SUFFICES ASSUME stm = "Error", pool.initialized PROVE ErrorQueues'
      OBVIOUS
    <3>1. ErrorQueues
      BY <1>0 DEF QueueInv
    <3> QED BY <2>1, <2>2, <2>3, <3>1 DEF ErrorQueues
  <2>9. Clean(posted) => Clean(events')
    BY <2>1
  <2> QED BY <1>0, <2>1, <2>2, <2>5, <2>6, <2>7, <2>8, <2>9 DEF QueueInv
<1> QED BY <1>1, <1>2, <1>3, OutsideQueues, HandleQueues, StepEffect DEF MqttInv

\* Error is left for Disconnected only where the modem has been set up: a
\* stale ErrorDisconnect is what would break this.
LEMMA StepMachine == MqttInv /\ [Next]_vars => MachineInv'
<1> SUFFICES ASSUME MqttInv, [Next]_vars PROVE MachineInv'
  OBVIOUS
<1>0. MachineInv /\ TypeInv /\ QueueInv
  BY DEF MqttInv
<1>b. /\ pool.initialized \in BOOLEAN /\ modemOn \in BOOLEAN
      /\ pool \in Pools /\ pool.restarts \in Nat
  BY <1>0, PoolFields DEF TypeInv, PoolTypes, NetTypes
<1>r. RestartThreshold \in Nat \ {0}
  BY StmAssumption
<1>1. CASE startStateMachine
  <2>1. PICK ok \in Outcome("init") :
          pool' = [pool EXCEPT !.initialized = ok, !.authentication = ok]
    BY <1>1 DEF startStateMachine
  <2>2. pool'.restarts = pool.restarts
    BY <1>b, <2>1 DEF Pools
  <2>3. stm = "Invalid" /\ stm' = "Initial" /\ UNCHANGED modemOn
    BY <1>1 DEF startStateMachine
  <2> QED BY <1>0, <2>2, <2>3 DEF MachineInv, Operational, ErrorHasReason
<1>2. CASE TimerExpires \/ DispatchEnd
  <2>1. UNCHANGED <<stm, pool, modemOn>>
    BY <1>2 DEF TimerExpires, DispatchEnd
  <2> QED BY <1>0, <2>1 DEF MachineInv, Operational, ErrorHasReason
<1>3. CASE Outside
  <2>1. UNCHANGED <<stm, modemOn>>
    BY <1>3 DEF Outside, Keeps, Pushes, Posts, Dispatch, stmVars
  <2>2. /\ pool'.initialized = pool.initialized
        /\ pool'.restarts = pool.restarts
        /\ \/ pool'.errno = pool.errno \/ stm = "Connected"
           \/ pool'.errno = "ConnectionError"
    BY <1>3 DEF Outside, Keeps
  <2> QED BY <1>0, <2>1, <2>2 DEF MachineInv, Operational, ErrorHasReason
<1>4. ASSUME HandleEvent PROVE MachineInv'
  <2>1. TakesHead
    BY <1>0, <1>4, HandleTakes
  <2>2. CASE LeavesInitial
    BY <1>0, <2>2 DEF LeavesInitial, SameMachine, MachineInv, Operational, ErrorHasReason
  <2>3. CASE MovesOn
    <3>1. /\ Operational /\ stm' \notin {"Invalid", "Initial", "Error", "DeepSleep"}
          /\ UNCHANGED modemOn /\ pool'.initialized = pool.initialized
      BY <2>3 DEF MovesOn, Moves, Operational
    <3>2. pool'.restarts < RestartThreshold
      BY <1>0, <1>r, <2>3 DEF MovesOn, MachineInv
    <3> QED BY <1>0, <3>1, <3>2 DEF MachineInv, Operational, ErrorHasReason
  <2>4. CASE Fails
    <3>1. Operational /\ stm' = "Error"
      BY <2>4 DEF Fails, Operational
    <3>2. pool.initialized
      BY <1>0, <3>1 DEF MachineInv
    <3>3. /\ pool'.initialized = pool.initialized /\ UNCHANGED modemOn
          /\ pool'.restarts < RestartThreshold
          /\ pool'.errno \in {"IpNotConnected", "GprsNotConnected", "ConnectionError"}
      BY <1>0, <2>4, <3>2 DEF Fails, MachineInv
    <3> QED BY <1>0, <3>1, <3>3 DEF MachineInv, Operational, ErrorHasReason
  <2>5. CASE SwitchesOff
    BY <1>0, <2>5 DEF SwitchesOff, MachineInv, Operational, ErrorHasReason
  <2>6. CASE Recovers
    <3>1. pool.initialized
      <4>1. ~HasNone(events, Recovery)
        <5>1. Head(events) \in Recovery /\ events # <<>>
          BY <2>1, <2>6 DEF Recovers, TakesHead, Recovery
        <5> QED BY <1>0, <5>1, HasNoneTail DEF TypeInv, StmTypes
      <4> QED BY <1>0, <2>6, <4>1, CleanParts DEF Recovers, QueueInv
    <3> QED BY <1>0, <2>6, <3>1 DEF Recovers, SameMachine, MachineInv,
            Operational, ErrorHasReason
  <2>7. CASE StartsOver
    BY <1>0, <2>7 DEF StartsOver, MachineInv, Operational, ErrorHasReason
  <2>8. CASE Ignores
    BY <1>0, <2>8 DEF Ignores, MachineInv, Operational, ErrorHasReason
  <2> QED BY <1>0, <1>4, <2>2, <2>3, <2>4, <2>5, <2>6, <2>7, <2>8, HandleEffect
<1> QED BY <1>0, <1>1, <1>2, <1>3, <1>4, StepEffect

LEMMA InitMqtt == Init => MqttInv
<1> SUFFICES ASSUME Init PROVE MqttInv
  OBVIOUS
<1>1. TypeInv
  BY InitTypes
<1>2. events = <<>> /\ posted = <<>> /\ stm = "Invalid"
  BY DEF Init, StmInit
<1>3. QueueInv
  <2>1. Clean(<<>>) /\ HasNone(<<>>, {"Timer"}) /\ TimerLast(<<>>)
    BY DEF Clean, HasNone, TimerLast
  <2> QED BY <1>2, <2>1 DEF QueueInv, BatchInv
<1>4. /\ pool.initialized = FALSE /\ pool.restarts = 0 /\ modemOn
  BY DEF Init, StmInit
<1>5. MachineInv
  <2>1. 0 < RestartThreshold
    BY StmAssumption
  <2> QED BY <1>2, <1>4, <2>1 DEF MachineInv, Operational, ErrorHasReason
<1> QED BY <1>1, <1>3, <1>5 DEF MqttInv

\* The inductive invariant: types, the order of the event queues, and what
\* the states of the machine say about the modem.
THEOREM MqttInvariant == Spec => []MqttInv
<1>1. MqttInv /\ [Next]_vars => MqttInv'
  BY StepTypes, StepQueues, StepMachine DEF MqttInv
<1> QED BY <1>1, InitMqtt, PTL DEF Spec

\* Type correctness of the composed library; m_modemRestartOnError never
\* outruns restartModemThreshold (actionErrorEntry() resets it in time).
THEOREM MqttTypeCorrect == Spec => []TypeOK
<1>1. MqttInv => TypeOK
  <2> SUFFICES ASSUME MqttInv PROVE TypeOK
    OBVIOUS
  <2>1. LoopTypeOK
    BY DEF MqttInv, TypeInv, LoopInv
  <2>2. /\ stm \in States /\ events \in Seq(Events) /\ posted \in Seq(Events)
        /\ timer \in {"off", "run", "due"} /\ dispatching \in BOOLEAN
    BY PostedAreEvents DEF MqttInv, TypeInv, StmTypes
  <2>3. pool \in Pools /\ client \in ClientRecs
    BY DEF MqttInv, TypeInv, PoolTypes, ClientTypes
  <2>4. pool.restarts \in 0..RestartThreshold
    BY <2>3, PoolFields, StmAssumption DEF MqttInv, MachineInv
  <2>5. net \in BOOLEAN /\ modemOn \in BOOLEAN
    BY DEF MqttInv, TypeInv, NetTypes
  <2> QED BY <2>1, <2>2, <2>3, <2>4, <2>5, PoolFields, ClientFields DEF TypeOK, Flags
<1> QED BY <1>1, MqttInvariant, PTL

\* Every state that talks to the modem, sleeping ones included, is entered
\* only once actionInitialEntry() has set the modem up, whatever failed, was
\* posted or was left in the event list before.
THEOREM MqttOperational == Spec => []OperationalStatesInitialized
<1>1. MqttInv => OperationalStatesInitialized
  BY DEF MqttInv, MachineInv, Operational, OperationalStatesInitialized
<1> QED BY <1>1, MqttInvariant, PTL

\* As long as the state is Error, getNbiotError() names an error that leads
\* there, whatever API calls and stale events arrive in between.
THEOREM MqttErrorReason == Spec => []ErrorHasReason
<1>1. MqttInv => ErrorHasReason
  BY DEF MqttInv, MachineInv
<1> QED BY <1>1, MqttInvariant, PTL

\* In the whole library the hooked loop client is the one getLoopId() reports
\* and is Pending: isBusy(), which looks at the list and the id, covers it.
THEOREM MqttHooked == Spec => []HookedIsPending
<1>1. MqttInv => HookedIsPending
  BY DEF MqttInv, TypeInv, LoopInv
<1> QED BY <1>1, MqttInvariant, PTL

----------------------------------------------------------------------------
(* wakeup()                                                                *)

\* wakeup() does not come back to its reconnect decision within s.
NoWakeup(s) == \A i \in 1..Len(s) : s[i].op # "wakeup"

\* Between two calls of dispatch() only posted events are left.
StaleInv == ~dispatching => events \in Seq(PostEvents)

\* The decision on a reconnect comes next: a sleeping state is about to be
\* left, and nothing puts the machine to sleep again.
Waking ==
  /\ stm # "ConnectedAwake"
  /\ stm \in {"ConnectedSleep", "DisconnectedSleep"} =>
       dispatching /\ Has(events, "Wakeup")
  /\ stm = "DeepSleep" => dispatching /\ Has(events, "ReInitialize")
  /\ HasNone(events, {"Sleep", "Hibernate", "ConnectedAwakeEv"})

\* Wakeup is still to be sent: the awake state is about to be left.
Dozing ==
  /\ stm \in {"ConnectedAwake", "ConnectedSleep"}
  /\ stm = "ConnectedAwake" => dispatching /\ Has(events, "AwakeSleep")
  /\ HasNone(events, {"Wakeup", "ConnectedAwakeEv"})

\* Where the rest of a wakeup() can be, and what holds until it runs.
WakeupInv ==
  \A i \in 1..Len(calls) : calls[i].op = "wakeup" =>
    \/ i = 1 /\ Waking
    \/ i = 2 /\ calls[1] = Op("send", "Wakeup") /\ Dozing

LEMMA NoWakeupTail ==
  ASSUME TypeInv, WakeupInv, NEW o, At(o), o # "send"
  PROVE  NoWakeup(Tail(calls))
<1>1. /\ calls \in Seq(Ops) /\ calls # <<>> /\ Head(calls).op = o
  BY DEF TypeInv, CallTypes, At
<1>2. /\ Len(calls) \in Nat \ {0} /\ Len(Tail(calls)) = Len(calls) - 1
      /\ Head(calls) = calls[1]
      /\ \A i \in 1..Len(Tail(calls)) :
           i + 1 \in 1..Len(calls) /\ Tail(calls)[i] = calls[i + 1]
  BY <1>1
<1> SUFFICES ASSUME NEW i \in 1..Len(Tail(calls)), Tail(calls)[i].op = "wakeup"
             PROVE  FALSE
  BY DEF NoWakeup
<1>3. i + 1 \in 1..Len(calls) /\ calls[i + 1].op = "wakeup" /\ i + 1 # 1
  BY <1>2
<1>4. calls[1] = Op("send", "Wakeup")
  BY <1>3 DEF WakeupInv
<1> QED BY <1>1, <1>2, <1>4 DEF Op

LEMMA NoWakeupConcat ==
  ASSUME NEW o, NEW s \in Seq(Ops), o \in Ops, o.op # "wakeup", NoWakeup(s)
  PROVE  NoWakeup(<<o>> \o s)
<1>1. /\ Len(s) \in Nat /\ Len(<<o>> \o s) = Len(s) + 1
      /\ (<<o>> \o s)[1] = o
      /\ \A i \in 1..Len(s) : (<<o>> \o s)[i + 1] = s[i]
  OBVIOUS
<1> SUFFICES ASSUME NEW i \in 1..Len(<<o>> \o s) PROVE (<<o>> \o s)[i].op # "wakeup"
  BY DEF NoWakeup
<1>2. CASE i = 1
  BY <1>1, <1>2
<1>3. CASE i # 1
  <2>1. i - 1 \in 1..Len(s) /\ (i - 1) + 1 = i
    BY <1>1, <1>3
  <2>2. (<<o>> \o s)[i] = s[i - 1]
    BY <1>1, <2>1
  <2> QED BY <2>1, <2>2 DEF NoWakeup
<1> QED BY <1>2, <1>3

LEMMA NoWakeupShort ==
  /\ NoWakeup(<<>>) /\ NoWakeup(Return) /\ NoWakeup(Finish)
  /\ \A o, a : o # "wakeup" => NoWakeup(<<Op(o, a)>>)
  BY DEF NoWakeup, Return, Finish, Op

LEMMA NoWakeupThen ==
  ASSUME NEW o, NEW a, NEW s \in Seq(Ops), Op(o, a) \in Ops, o # "wakeup",
         NoWakeup(s)
  PROVE  NoWakeup(<<Op(o, a)>> \o s)
<1>1. Op(o, a).op = o
  BY DEF Op
<1> QED BY <1>1, NoWakeupConcat

LEMMA OnlyFirst ==
  ASSUME NEW o \in Ops, NEW s \in Seq(Ops), NoWakeup(s)
  PROVE  /\ <<o>> \o s \in Seq(Ops)
         /\ \A i \in 1..Len(<<o>> \o s) : (<<o>> \o s)[i].op = "wakeup" => i = 1
<1>1. /\ Len(s) \in Nat /\ Len(<<o>> \o s) = Len(s) + 1 /\ <<o>> \o s \in Seq(Ops)
      /\ \A i \in 1..Len(s) : (<<o>> \o s)[i + 1] = s[i]
  OBVIOUS
<1> SUFFICES ASSUME NEW i \in 1..Len(<<o>> \o s), i # 1
             PROVE  (<<o>> \o s)[i].op # "wakeup"
  BY <1>1
<1>2. i - 1 \in 1..Len(s) /\ (i - 1) + 1 = i
  BY <1>1
<1>3. (<<o>> \o s)[i] = s[i - 1]
  BY <1>1, <1>2
<1> QED BY <1>2, <1>3 DEF NoWakeup

LEMMA OnlySecond ==
  ASSUME NEW o \in Ops, NEW s \in Seq(Ops), o.op # "wakeup",
         \A i \in 1..Len(s) : s[i].op = "wakeup" => i = 1
  PROVE  /\ (<<o>> \o s)[1] = o
         /\ \A i \in 1..Len(<<o>> \o s) : (<<o>> \o s)[i].op = "wakeup" => i = 2
<1>1. /\ Len(s) \in Nat /\ Len(<<o>> \o s) = Len(s) + 1
      /\ (<<o>> \o s)[1] = o
      /\ \A i \in 1..Len(s) : (<<o>> \o s)[i + 1] = s[i]
  OBVIOUS
<1> SUFFICES ASSUME NEW i \in 1..Len(<<o>> \o s), (<<o>> \o s)[i].op = "wakeup"
             PROVE  i = 2
  BY <1>1
<1>2. i # 1
  BY <1>1 
<1>3. i - 1 \in 1..Len(s) /\ (i - 1) + 1 = i
  BY <1>1, <1>2
<1>4. (<<o>> \o s)[i] = s[i - 1]
  BY <1>1, <1>3
<1>5. i - 1 = 1
  BY <1>3, <1>4
<1> QED BY <1>5

\* Only wakeup() and its SendStep leave "wakeup" to be done.
LEMMA CallsEffect ==
  TypeInv /\ WakeupInv /\ [Next]_vars =>
    \/ NoWakeup(calls') \/ wakeup \/ SendStep \/ HandleEvent \/ DispatchEnd
    \/ UNCHANGED vars
<1> SUFFICES ASSUME TypeInv, WakeupInv, Next
             PROVE  \/ NoWakeup(calls') \/ wakeup \/ SendStep \/ HandleEvent
                    \/ DispatchEnd
  OBVIOUS
<1>i. Idle => calls = <<>>
  BY DEF Idle
<1>r. Return \in Seq(Ops) /\ Finish \in Seq(Ops)
  BY FinishTyped
<1>a. \A o : At(o) => Head(calls) \in Ops /\ Tail(calls) \in Seq(Ops)
  BY HeadTyped DEF At, TypeInv
<1>1. CASE startStateMachine \/ TimerExpires
  BY <1>1, <1>i, NoWakeupShort DEF startStateMachine, TimerExpires
<1>2. CASE Application \/ eventLoop \/ eventLoopAsleep
  <2>1. /\ \A t \in Topics : NoWakeup(<<Op("publish", t)>> \o Return)
        /\ NoWakeup(<<Op("send", "Disconnect")>> \o Return)
        /\ \A d \in Durations : NoWakeup(<<Op("hibernate", d)>> \o Return)
        /\ NoWakeup(<<Op("yield", 0)>> \o Return)
    BY <1>r, OpTypes, NoWakeupThen, NoWakeupShort
  <2>2. NoWakeup(<<Op("ping", 0), Op("yield", 0), Op("loop", 0)>>)
    BY DEF NoWakeup, Op
  <2> QED BY <1>2, <2>1, <2>2, NoWakeupShort DEF Application, connect, publish,
         subscribe, unsubscribe, disconnect, sleep, hibernate, poll, eventLoop,
         eventLoopAsleep, SendThen
<1>3. CASE Continue
  <2>1. \A o : At(o) /\ o # "send" => NoWakeup(Tail(calls))
    BY NoWakeupTail
  <2>2. CASE WakeupBody
    <3>1. NoWakeup(Tail(calls)) /\ Tail(calls) \in Seq(Ops)
      BY <1>a, <2>1, <2>2 DEF WakeupBody
    <3>2. pool.cleanSession \in {0, 1}
      BY PoolFields DEF TypeInv, PoolTypes
    <3>3. NoWakeup(<<Op("reconnected", pool.cleanSession)>> \o Tail(calls))
      BY <3>1, <3>2, OpTypes, NoWakeupThen
    <3> QED BY <2>2, <3>1, <3>3 DEF WakeupBody, SendThen
  <2>3. CASE PublishBody
    BY <2>1, <2>3 DEF PublishBody, PublishFails, SendThen
  <2>4. CASE HibernateBody \/ ReconnectDone \/ yield \/ pmPing \/ EventLoopFail
             \/ EventLoopDispatch \/ EventLoopAutoPoll
    BY <2>1, <2>4 DEF HibernateBody, ReconnectDone, yield, pmPing,
       EventLoopFail, EventLoopDispatch, EventLoopAutoPoll, SendThen
  <2>5. CASE EventLoopDone
    BY <2>5, NoWakeupShort DEF EventLoopDone
  <2> QED BY <1>3, <2>2, <2>3, <2>4, <2>5 DEF Continue
<1>4. CASE LoopNothing
  BY <1>4, NoWakeupShort DEF LoopNothing
<1>5. ASSUME NEW rc \in {0, 1, 2} PROVE NoWakeup(<<Op("fail", rc)>> \o Finish)
  BY <1>r, OpTypes, NoWakeupThen, NoWakeupShort
<1>6. CASE LoopStarts
  <2>1. \A c, ok : StartResult(c, ok) => NoWakeup(calls')
    BY <1>5, NoWakeupShort DEF StartResult
  <2> QED BY <1>6, <2>1 DEF LoopStarts, StartStale, startAttachLoop,
         startYieldLoop, startConLoop, startRegLoop, startUnsubLoop,
         startDisLoop, startSubLoop, startPubLoop, StartWith
<1>7. CASE LoopSteps
  <2>1. \A ok : \A rc \in {0, 1, 2} : StepResult(ok, rc) => NoWakeup(calls')
    BY <1>5, NoWakeupShort DEF StepResult
  <2>2. \A c, ok : \A rc \in {0, 1, 2} : StepDone(c, ok, rc) => NoWakeup(calls')
    BY <2>1 DEF StepDone
  <2>3. CASE StepDisconnectReceived
    <3>1. ASSUME NEW rest \in Seq(Ops), NoWakeup(rest), disconnectNotify(rest)
          PROVE  NoWakeup(calls')
      <4>1. NoWakeup(<<Op("send", "Disconnect")>> \o rest)
        BY <3>1, OpTypes, NoWakeupThen
      <4> QED BY <3>1, <4>1 DEF disconnectNotify, SendThen
    <3>2. /\ <<Op("disconnected", 0)>> \in Seq(Ops) /\ <<>> \in Seq(Ops)
      BY OpTypes
    <3>3. NoWakeup(<<Op("disconnected", 0)>>) /\ NoWakeup(<<>>)
      BY NoWakeupShort
    <3> QED BY <2>3, <3>1, <3>2, <3>3 DEF StepDisconnectReceived
  <2>4. CASE calls' = <<>>
    BY <2>4, NoWakeupShort
  <2>5. CASE StepPingResponse
    BY <2>5, NoWakeupShort DEF StepPingResponse, SendThen
  <2>6. CASE finishDisLoop
    BY <2>1, <2>2, <2>6 DEF finishDisLoop
  <2> QED BY <1>7, <2>2, <2>3, <2>4, <2>5, <2>6 DEF LoopSteps, StepWaits,
         StepTraffic, finishAttachLoop, finishConLoop, finishPubLoopQoS0,
         finishPubLoop, doSubLoop, doPubLoop, StepTopicRejected,
         StepRegisterReceived, finishRegLoop, finishSubLoop, finishUnsubLoop,
         Acknowledged, finishYieldLoop
<1> QED BY <1>1, <1>2, <1>3, <1>4, <1>6, <1>7 DEF Next

LEMMA StepStale == TypeInv /\ StaleInv /\ [Next]_vars => StaleInv'
<1> SUFFICES ASSUME TypeInv, StaleInv, [Next]_vars PROVE StaleInv'
  OBVIOUS
<1>1. CASE startStateMachine
  BY <1>1 DEF startStateMachine, StaleInv
<1>2. CASE TimerExpires
  BY <1>2 DEF TimerExpires, StaleInv
<1>3. CASE HandleEvent
  BY <1>3, HandleTakes DEF TakesHead, StaleInv
<1>4. CASE DispatchEnd
  BY <1>4 DEF DispatchEnd, StaleInv, TypeInv, StmTypes
<1>5. CASE Outside
  BY <1>5 DEF Outside, stmVars, Pushes, Posts, Dispatch, StaleInv
<1> QED BY <1>1, <1>2, <1>3, <1>4, <1>5, StepEffect

LEMMA DispatchOne ==
  ASSUME TypeInv, NEW e \in Events, Dispatch(<<e>>)
  PROVE  /\ dispatching' /\ UNCHANGED stm /\ Has(events', e)
         /\ \A S : HasNone(events, S) /\ e \notin S /\ "Timer" \notin S =>
                     HasNone(events', S)
<1> DEFINE tl == IF timer = "due" THEN <<"Timer">> ELSE <<>>
<1>1. /\ events \in Seq(Events) /\ <<e>> \in Seq(Events)
      /\ events \o <<e>> \in Seq(Events) /\ tl \in Seq(Events)
  <2>1. "Timer" \in Events
    BY DEF Events
  <2>2. <<"Timer">> \in Seq(Events) /\ <<>> \in Seq(Events)
    BY <2>1
  <2>3. tl \in Seq(Events)
    BY <2>2
  <2> QED BY <2>3 DEF TypeInv, StmTypes
<1>2. events' = (events \o <<e>>) \o tl /\ dispatching' /\ UNCHANGED stm
  BY DEF Dispatch
<1>3. \A S : "Timer" \notin S => HasNone(tl, S)
  BY HasNoneOne, HasNoneEmpty
<1> HIDE DEF tl
<1>4. ASSUME NEW S, HasNone(events, S), e \notin S, "Timer" \notin S
      PROVE  HasNone(events', S)
  <2>1. HasNone(events \o <<e>>, S)
    BY <1>1, <1>4, HasNoneConcat, HasNoneOne
  <2> QED BY <1>1, <1>2, <1>3, <1>4, <2>1, HasNoneConcat
<1>5. Has(events', e)
  <2>1. ~HasNone(<<e>>, {e})
    BY HasNoneOne
  <2>2. ~HasNone(events \o <<e>>, {e})
    BY <1>1, <2>1, HasNoneConcat
  <2>3. ~HasNone(events', {e})
    BY <1>1, <1>2, <2>2, HasNoneConcat
  <2> QED BY <2>3, HasOf
<1> QED BY <1>2, <1>4, <1>5

\* While the wakeup is under way, handlers only wake the machine up.
LEMMA HandleWaking ==
  ASSUME TypeInv, HandleEvent
  PROVE  (Waking => Waking') /\ (Dozing => Dozing')
<1>0. events \in Seq(Events) /\ TakesHead
  BY HandleTakes DEF TypeInv, StmTypes
<1>1. /\ dispatching' /\ events # <<>> /\ events' = Tail(events)
  BY <1>0 DEF TakesHead
<1>2. \A S : HasNone(events, S) => HasNone(events', S) /\ Head(events) \notin S
  BY <1>0, <1>1, HasNoneTail
<1>3. \A e : Has(events, e) /\ Head(events) # e => Has(events', e)
  BY <1>0, <1>1, HasTail
<1>4. ASSUME Waking PROVE Waking'
  <2>1. /\ HasNone(events', {"Sleep", "Hibernate", "ConnectedAwakeEv"})
        /\ Head(events) \notin {"Sleep", "Hibernate", "ConnectedAwakeEv"}
        /\ stm # "ConnectedAwake"
    BY <1>2, <1>4 DEF Waking
  <2>2. CASE Ignores
    <3>1. stm' = stm /\ Head(events) \notin Accepts(stm)
      BY <2>2 DEF Ignores
    <3>2. stm \in {"ConnectedSleep", "DisconnectedSleep"} => Has(events', "Wakeup")
      BY <1>3, <1>4, <3>1 DEF Waking, Accepts
    <3>3. stm = "DeepSleep" => Has(events', "ReInitialize")
      BY <1>3, <1>4, <3>1 DEF Waking, Accepts
    <3> QED BY <1>1, <2>1, <3>1, <3>2, <3>3 DEF Waking
  <2>3. ASSUME ~Ignores
        PROVE  stm' \notin {"ConnectedAwake", "ConnectedSleep",
                            "DisconnectedSleep", "DeepSleep"}
    BY <2>1, <2>3, HandleEffect DEF LeavesInitial, MovesOn, Moves, Fails,
       SwitchesOff, Recovers, StartsOver
  <2> QED BY <2>1, <2>2, <2>3 DEF Waking
<1>5. ASSUME Dozing PROVE Dozing'
  <2>1. /\ HasNone(events', {"Wakeup", "ConnectedAwakeEv"})
        /\ Head(events) \notin {"Wakeup", "ConnectedAwakeEv"}
        /\ stm \in {"ConnectedAwake", "ConnectedSleep"}
    BY <1>2, <1>5 DEF Dozing
  <2>2. CASE Ignores
    <3>1. stm' = stm /\ Head(events) \notin Accepts(stm)
      BY <2>2 DEF Ignores
    <3>2. stm = "ConnectedAwake" => Has(events', "AwakeSleep")
      BY <1>3, <1>5, <3>1 DEF Dozing, Accepts
    <3> QED BY <1>1, <2>1, <3>1, <3>2 DEF Dozing
  <2>3. ASSUME ~Ignores PROVE stm' = "ConnectedSleep"
    BY <2>1, <2>3, HandleEffect DEF LeavesInitial, MovesOn, Moves, Fails,
       SwitchesOff, Recovers, StartsOver
  <2> QED BY <2>1, <2>2, <2>3 DEF Dozing
<1> QED BY <1>4, <1>5

LEMMA StepWakeup ==
  TypeInv /\ StaleInv /\ WakeupInv /\ [Next]_vars => WakeupInv'
<1> SUFFICES ASSUME TypeInv, StaleInv, WakeupInv, [Next]_vars PROVE WakeupInv'
  OBVIOUS
<1>0. /\ events \in Seq(Events) /\ posted \in Seq(PostEvents)
      /\ calls \in Seq(Ops) /\ Return \in Seq(Ops)
  BY FinishTyped DEF TypeInv, StmTypes, CallTypes
<1>p. ASSUME NEW q \in Seq(PostEvents)
      PROVE  /\ HasNone(q, {"Sleep", "Hibernate", "ConnectedAwakeEv"})
             /\ HasNone(q, {"Wakeup", "ConnectedAwakeEv"})
  BY DEF HasNone, PostEvents
<1>1. CASE NoWakeup(calls')
  BY <1>1 DEF NoWakeup, WakeupInv
<1>2. CASE wakeup
  <2> DEFINE rest == <<Op("wakeup", 0)>> \o Return
             all  == <<Op("send", "Wakeup")>> \o rest
  <2>0. ~dispatching
    BY <1>2 DEF wakeup, API, Idle
  <2>1. /\ HasNone(events, {"Sleep", "Hibernate", "ConnectedAwakeEv"})
        /\ HasNone(events, {"Wakeup", "ConnectedAwakeEv"})
    BY <1>p, <2>0 DEF StaleInv
  <2>2. /\ Op("wakeup", 0) \in Ops /\ Op("send", "Wakeup") \in Ops
        /\ Op("send", "Wakeup").op = "send" /\ NoWakeup(Return)
    BY OpTypes, NoWakeupShort DEF Op
  <2>3. /\ rest \in Seq(Ops)
        /\ \A i \in 1..Len(rest) : rest[i].op = "wakeup" => i = 1
    BY <1>0, <2>2, OnlyFirst
  <2>4. /\ \A i \in 1..Len(all) : all[i].op = "wakeup" => i = 2
        /\ all[1] = Op("send", "Wakeup")
    BY <2>2, <2>3, OnlySecond
  <2>5. \/ stm = "ConnectedAwake" /\ SendThen("AwakeSleep", all)
        \/ stm \in {"ConnectedSleep", "DisconnectedSleep"} /\ SendThen("Wakeup", rest)
        \/ stm = "DeepSleep" /\ SendThen("ReInitialize", rest)
        \/ /\ stm \notin {"ConnectedAwake", "ConnectedSleep",
                          "DisconnectedSleep", "DeepSleep"}
           /\ calls' = rest /\ UNCHANGED stmVars
    BY <1>2 DEF wakeup
  <2> HIDE DEF rest, all
  <2>e. "AwakeSleep" \in Events /\ "Wakeup" \in Events /\ "ReInitialize" \in Events
    BY DEF Events
  <2>6. CASE stm = "ConnectedAwake" /\ SendThen("AwakeSleep", all)
    <3>1. Dispatch(<<"AwakeSleep">>) /\ calls' = all
      BY <2>6 DEF SendThen
    <3>2. Dozing'
      BY <2>1, <2>6, <2>e, <3>1, DispatchOne DEF Dozing
    <3> QED BY <2>4, <3>1, <3>2 DEF WakeupInv
  <2>7. ASSUME calls' = rest, Waking' PROVE WakeupInv'
    BY <2>3, <2>7 DEF WakeupInv
  <2>8. CASE /\ stm \in {"ConnectedSleep", "DisconnectedSleep"}
             /\ SendThen("Wakeup", rest)
    <3>1. Dispatch(<<"Wakeup">>) /\ calls' = rest
      BY <2>8 DEF SendThen
    <3>2. Waking'
      BY <2>1, <2>8, <2>e, <3>1, DispatchOne DEF Waking
    <3> QED BY <2>7, <3>1, <3>2
  <2>9. CASE stm = "DeepSleep" /\ SendThen("ReInitialize", rest)
    <3>1. Dispatch(<<"ReInitialize">>) /\ calls' = rest
      BY <2>9 DEF SendThen
    <3>2. Waking'
      BY <2>1, <2>9, <2>e, <3>1, DispatchOne DEF Waking
    <3> QED BY <2>7, <3>1, <3>2
  <2>10. CASE /\ stm \notin {"ConnectedAwake", "ConnectedSleep",
                             "DisconnectedSleep", "DeepSleep"}
              /\ calls' = rest /\ UNCHANGED stmVars
    <3>1. Waking'
      BY <2>1, <2>10 DEF Waking, stmVars
    <3> QED BY <2>7, <2>10, <3>1
  <2> QED BY <2>5, <2>6, <2>8, <2>9, <2>10
<1>3. CASE SendStep
  <2>1. /\ ~dispatching /\ calls # <<>> /\ calls' = Tail(calls)
        /\ Dispatch(<<Head(calls).arg>>)
    BY <1>3 DEF SendStep, At, SendThen
  <2>2. /\ Len(calls) \in Nat \ {0} /\ Len(Tail(calls)) = Len(calls) - 1
        /\ Head(calls) = calls[1]
        /\ \A i \in 1..Len(Tail(calls)) :
             i + 1 \in 1..Len(calls) /\ Tail(calls)[i] = calls[i + 1]
    BY <1>0, <2>1
  <2>3. SUFFICES ASSUME NEW i \in 1..Len(Tail(calls)), Tail(calls)[i].op = "wakeup"
                 PROVE  i = 1 /\ Waking'
    BY <2>1 DEF WakeupInv
  <2>4. i + 1 \in 1..Len(calls) /\ calls[i + 1].op = "wakeup" /\ i + 1 # 1
    BY <2>2, <2>3
  <2>5. i + 1 = 2 /\ calls[1] = Op("send", "Wakeup") /\ Dozing
    BY <2>4 DEF WakeupInv
  <2>6. i = 1
    BY <2>2, <2>5
  <2>7. Dispatch(<<"Wakeup">>) /\ "Wakeup" \in Events
    BY <2>1, <2>2, <2>5 DEF Op, Events
  <2>8. /\ HasNone(events, {"Sleep", "Hibernate", "ConnectedAwakeEv"})
    BY <1>p, <2>1 DEF StaleInv
  <2>9. stm = "ConnectedSleep"
    BY <2>1, <2>5 DEF Dozing
  <2>10. Waking'
    BY <2>7, <2>8, <2>9, DispatchOne DEF Waking
  <2> QED BY <2>6, <2>10
<1>4. CASE HandleEvent
  <2>1. calls' = calls
    BY <1>4, HandleTakes DEF TakesHead
  <2> QED BY <1>4, <2>1, HandleWaking DEF WakeupInv
<1>5. CASE DispatchEnd
  <2>1. /\ calls' = calls /\ stm' = stm /\ events = <<>> /\ events' = posted
    BY <1>5 DEF DispatchEnd
  <2>2. \A e : ~Has(events, e)
    BY <2>1 DEF Has
  <2>3. Waking => Waking'
    BY <1>0, <1>p, <2>1, <2>2 DEF Waking
  <2>4. Dozing => Dozing'
    BY <1>0, <1>p, <2>1, <2>2 DEF Dozing
  <2> QED BY <2>1, <2>3, <2>4 DEF WakeupInv
<1>6. CASE UNCHANGED vars
  BY <1>6 DEF vars, stmVars, WakeupInv, Waking, Dozing
<1> QED BY <1>1, <1>2, <1>3, <1>4, <1>5, <1>6, CallsEffect

\* When wakeup() decides on a reconnect, every sleeping state has been left:
\* no stale or posted event puts the machine back to sleep in between.
THEOREM MqttWakeup == Spec => []WakeupLeavesSleep
<1>1. Init => StaleInv /\ WakeupInv
  BY DEF Init, StmInit, StaleInv, WakeupInv
<1>2. TypeInv /\ StaleInv /\ WakeupInv /\ [Next]_vars => (StaleInv /\ WakeupInv)'
  BY StepStale, StepWakeup
<1>3. TypeInv /\ WakeupInv => WakeupLeavesSleep
  <2> SUFFICES ASSUME TypeInv, WakeupInv, At("wakeup")
               PROVE  ~isSleeping /\ stm # "DeepSleep"
    BY DEF WakeupLeavesSleep
  <2>1. ~dispatching /\ calls # <<>> /\ Head(calls).op = "wakeup" /\ calls \in Seq(Ops)
    BY DEF At, TypeInv, CallTypes
  <2>2. 1 \in 1..Len(calls) /\ calls[1].op = "wakeup"
    BY <2>1
  <2>3. Waking
    BY <2>2 DEF WakeupInv
  <2> QED BY <2>1, <2>3 DEF Waking, isSleeping
<1>4. MqttInv => TypeInv
  BY DEF MqttInv
<1> QED BY <1>1, <1>2, <1>3, <1>4, MqttInvariant, PTL DEF Spec

----------------------------------------------------------------------------
(* Subscriptions                                                           *)

\* The loop client c is in m_clientList, or getLoopId() still names it.
Queued(c) == Has(clientList, c) \/ loopId = c

\* Known to m_hasSubscription.
Known(p) == (\E t \in Topics : "SUB" \in p.registry[t]) => p.hasSubscription

\* While a register loop is under way its topic carries no subscription, and
\* no subscribe loop is there to change that.
RegisterInv ==
  Queued("Register") => "SUB" \notin pool.currentReg /\ ~Queued("Subscribe")

\* No register or subscribe loop is added.
KeepsOut == \A c \in {"Register", "Subscribe"} : Queued(c)' => Queued(c)

\* No subscription is added to the registry.
NoNewTopics ==
  /\ UNCHANGED stm
  /\ pool'.hasSubscription = pool.hasSubscription
  /\ \A t \in Topics : "SUB" \in pool'.registry[t] => "SUB" \in pool.registry[t]

\* A step that neither chooses a topic nor applies a result.
Quietly == KeepsOut /\ NoNewTopics /\ pool'.currentReg = pool.currentReg

\* publish() and subscribe() choose a topic, when nothing is queued.
Chooses ==
  /\ NoNewTopics
  /\ Queued("Register")' => "SUB" \notin pool'.currentReg /\ ~Queued("Subscribe")'

\* unsubscribe() forgets a topic.
Forgets ==
  /\ KeepsOut /\ pool'.currentReg = pool.currentReg
  /\ UNCHANGED stm
  /\ \E t \in Topics : "SUB" \in pool.registry[t]
  /\ pool'.hasSubscription =
       (pool.hasSubscription /\ \E t \in Topics : "SUB" \in pool'.registry[t])

\* The result of a register or a subscribe loop is applied.
Applies ==
  /\ KeepsOut /\ UNCHANGED stm
  /\ \/ /\ loopId = "Subscribe" /\ pool'.hasSubscription
     \/ /\ loopId = "Register"
        /\ pool'.currentReg = pool.currentReg \cup {"PUB"}
        /\ pool'.hasSubscription = pool.hasSubscription
        /\ \A t \in Topics :
             \/ pool'.registry[t] = pool.registry[t]
             \/ pool'.registry[t] = pool.currentReg \cup {"PUB"}

\* A handler of the state machine enters a state.
Enters ==
  /\ KeepsOut /\ pool'.currentReg = pool.currentReg
  /\ stm' = "Connected" => Known(pool')

LEMMA ListTail ==
  ASSUME NEW q \in Seq(Clients), q # <<>>, NEW c
  PROVE  /\ Has(Tail(q), c) => Has(q, c)
         /\ Has(q, Head(q))
<1>1. /\ Len(q) \in Nat \ {0} /\ Len(Tail(q)) = Len(q) - 1 /\ Head(q) = q[1]
      /\ \A i \in 1..Len(Tail(q)) : i + 1 \in 1..Len(q) /\ Tail(q)[i] = q[i + 1]
      /\ 1 \in 1..Len(q)
  OBVIOUS
<1> QED BY <1>1 DEF Has

LEMMA ListConcat ==
  ASSUME NEW p \in Seq(Clients), NEW q \in Seq(Clients), NEW c, Has(p \o q, c)
  PROVE  Has(p, c) \/ Has(q, c)
<1>1. /\ Len(p) \in Nat /\ Len(q) \in Nat /\ Len(p \o q) = Len(p) + Len(q)
      /\ \A i \in 1..Len(p) : (p \o q)[i] = p[i]
      /\ \A i \in 1..Len(q) : (p \o q)[i + Len(p)] = q[i]
  OBVIOUS
<1>2. PICK i \in 1..Len(p \o q) : (p \o q)[i] = c
  BY DEF Has
<1>3. CASE i <= Len(p)
  <2>1. i \in 1..Len(p)
    BY <1>1, <1>3
  <2> QED BY <1>1, <1>2, <2>1 DEF Has
<1>4. CASE i > Len(p)
  <2>1. i - Len(p) \in 1..Len(q) /\ (i - Len(p)) + Len(p) = i
    BY <1>1, <1>4
  <2> QED BY <1>1, <1>2, <2>1 DEF Has
<1> QED BY <1>1, <1>3, <1>4

LEMMA ListOne == /\ \A d, c : Has(<<d>>, c) => d = c
                 /\ \A c : ~Has(<<>>, c)
  BY DEF Has

LEMMA LoopKeepsOut ==
  ASSUME TypeInv
  PROVE  /\ UNCHANGED loopVars => KeepsOut
         /\ \A c \in Clients \ {"Register", "Subscribe"} :
              RegisterLoopClients(<<c>>) => KeepsOut
         /\ clear => KeepsOut
         /\ loopBreak => KeepsOut
         /\ \A c, ok : LoopStart(c, ok) => KeepsOut
         /\ \A c, ok : StepEnd(c, ok) => KeepsOut
         /\ \A c : LoopStepPending(c) => KeepsOut
<1>0. /\ clientList \in Seq(Clients) /\ Unknown \notin Clients
      /\ "Register" \in Clients /\ "Subscribe" \in Clients
  BY LoopAssumption, StmAssumption DEF TypeInv, LoopInv, LoopTypeOK
<1>1. UNCHANGED <<clientList, loopId>> => KeepsOut
  BY DEF KeepsOut, Queued
<1>2. ASSUME NEW c \in Clients \ {"Register", "Subscribe"},
             RegisterLoopClients(<<c>>)
      PROVE  KeepsOut
  <2>1. clientList' = clientList \o <<c>> /\ loopId' = loopId /\ <<c>> \in Seq(Clients)
    BY <1>2 DEF RegisterLoopClients
  <2>2. \A d : Has(clientList', d) => Has(clientList, d) \/ Has(<<c>>, d)
    BY <1>0, <2>1, ListConcat
  <2> QED BY <1>2, <2>1, <2>2, ListOne DEF KeepsOut, Queued
<1>3. clear => KeepsOut
  BY <1>0, ListOne DEF clear, KeepsOut, Queued
<1>4. ASSUME NEW c, NEW ok, LoopStart(c, ok) PROVE KeepsOut
  <2>1. /\ clientList # <<>> /\ clientList' = Tail(clientList)
        /\ c = Head(clientList) /\ loopId' \in {c, Unknown}
    BY <1>4 DEF LoopStart, Startable
  <2>2. \A d : Has(clientList', d) => Has(clientList, d)
    BY <1>0, <2>1, ListTail
  <2>3. Has(clientList, c)
    BY <1>0, <2>1, ListTail
  <2> QED BY <1>0, <2>1, <2>2, <2>3 DEF KeepsOut, Queued
<1> QED BY <1>1, <1>2, <1>3, <1>4
        DEF loopVars, loopBreak, StepEnd, LoopStepPending

LEMMA SamePool == UNCHANGED <<stm, pool>> =>
                    NoNewTopics /\ pool'.currentReg = pool.currentReg
  BY DEF NoNewTopics

LEMMA SendsStay == \A e, rest : SendThen(e, rest) => UNCHANGED stm
  BY DEF SendThen, Dispatch

LEMMA ApplicationTopics ==
  TypeInv /\ (Application \/ eventLoop \/ eventLoopAsleep) =>
    Quietly \/ Chooses \/ Forgets
<1> SUFFICES ASSUME TypeInv, Application \/ eventLoop \/ eventLoopAsleep
             PROVE  Quietly \/ Chooses \/ Forgets
  OBVIOUS
<1>0. pool \in Pools
  BY DEF TypeInv, PoolTypes
<1>s. \A e, rest : SendThen(e, rest) => UNCHANGED stm
  BY SendsStay
<1>k. UNCHANGED loopVars => KeepsOut
  BY LoopKeepsOut
<1>1. ASSUME NEW c \in {0, 1}, connect(c) PROVE Quietly
  <2>1. pool' = pool \/ pool' = [pool EXCEPT !.cleanSession = c]
    BY <1>1 DEF connect
  <2>2. UNCHANGED <<stm, loopVars>>
    BY <1>1, <1>s DEF connect
  <2> QED BY <1>0, <1>k, <2>1, <2>2 DEF Quietly, NoNewTopics, Pools
<1>2. ASSUME NEW t \in Topics, publish(t) PROVE Quietly
  BY <1>2, <1>s, <1>k, SamePool DEF publish, Quietly, stmVars
<1>3. ASSUME NEW t \in Topics, subscribe(t) PROVE Chooses
  <2>1. pool' = Selected(t, pool) /\ UNCHANGED stm
    BY <1>3 DEF subscribe, stmVars
  <2>2. NoNewTopics
    BY <1>0, <2>1 DEF NoNewTopics, Selected, Pools
  <2>3. ~Queued("Register")'
    <3>1. /\ clientList \in Seq(Clients) /\ Unknown \notin Clients
          /\ "Register" \in Clients /\ "Subscribe" \in Clients
      BY LoopAssumption, StmAssumption DEF TypeInv, LoopInv, LoopTypeOK
    <3>2. clientList = <<>> /\ loopId = Unknown
      BY <1>3, <3>1 DEF subscribe, isBusy
    <3>3. loopId' = loopId /\ clientList' \in {<<>>, <<"Subscribe">>}
      BY <1>3, <3>1, <3>2 DEF subscribe, loopSubscribe, RegisterLoopClients, loopVars
    <3> QED BY <3>1, <3>2, <3>3, ListOne DEF Queued
  <2> QED BY <2>2, <2>3 DEF Chooses
<1>4. ASSUME NEW t \in Topics, unsubscribe(t) PROVE Forgets
  <2> DEFINE p == [pool EXCEPT !.topicid = t, !.registry[t] = {}]
             h == p.hasSubscription /\ \E u \in Topics : "SUB" \in p.registry[u]
  <2>1. pool' = [p EXCEPT !.hasSubscription = h] /\ UNCHANGED stm
    BY <1>4 DEF unsubscribe, stmVars
  <2>2. p.hasSubscription = pool.hasSubscription /\ p.currentReg = pool.currentReg
    BY <1>0 DEF Pools
  <2>3. DOMAIN p = DOMAIN pool
    OBVIOUS
  <2>4. h = (pool.hasSubscription /\ \E u \in Topics : "SUB" \in p.registry[u])
    BY <2>2
  <2> HIDE DEF h, p
  <2>5. /\ pool'.hasSubscription = h /\ pool'.currentReg = p.currentReg
        /\ pool'.registry = p.registry
    BY <1>0, <2>1, <2>3 DEF Pools
  <2>6. KeepsOut
    BY <1>4, LoopKeepsOut, StmAssumption DEF unsubscribe, loopUnsubscribe
  <2>7. "SUB" \in pool.registry[t]
    BY <1>4 DEF unsubscribe
  <2> QED BY <2>1, <2>2, <2>4, <2>5, <2>6, <2>7 DEF Forgets
<1>5. CASE disconnect
  BY <1>5, <1>s, <1>k, SamePool DEF disconnect, Quietly
<1>6. ASSUME NEW d \in Durations, sleep(d) PROVE Quietly
  <2>1. /\ pool' = [pool EXCEPT !.duration = d, !.autoReconnect = FALSE]
        /\ UNCHANGED <<stm, loopVars>>
    BY <1>6, <1>s DEF sleep
  <2> QED BY <1>0, <1>k, <2>1 DEF Quietly, NoNewTopics, Pools
<1>7. ASSUME NEW d \in Durations, hibernate(d) PROVE Quietly
  BY <1>7, <1>s, <1>k, SamePool DEF hibernate, Quietly, stmVars
<1>8. CASE wakeup
  BY <1>8, <1>s, <1>k, SamePool DEF wakeup, Quietly, stmVars
<1>9. CASE poll
  BY <1>9, <1>s, <1>k, SamePool DEF poll, Quietly, stmVars
<1>10. CASE eventLoop
  BY <1>10, <1>k, SamePool DEF eventLoop, Quietly, stmVars
<1>11. CASE eventLoopAsleep
  BY <1>11, <1>s, <1>k, SamePool DEF eventLoopAsleep, Quietly
<1> QED BY <1>1, <1>2, <1>3, <1>4, <1>5, <1>6, <1>7, <1>8, <1>9, <1>10, <1>11
        DEF Application

LEMMA PublishTopics == TypeInv /\ PublishBody => Quietly \/ Chooses
<1> SUFFICES ASSUME TypeInv, PublishBody PROVE Quietly \/ Chooses
  OBVIOUS
<1> DEFINE t     == Head(calls).arg
           known == pool.registry[t] # {}
           p     == [pool EXCEPT !.errno = "Success", !.topicid = NoTopic]
           q     == Selected(t, [p EXCEPT !.registry[t] =
                                   IF known THEN @ \cup {"PUB"} ELSE @])
           first == IF known THEN <<>> ELSE <<"Register">>
<1>0. pool \in Pools
  BY DEF TypeInv, PoolTypes
<1>1. \/ UNCHANGED <<loopVars, stmVars, pool>>
      \/ UNCHANGED loopVars /\ PublishFails(p, "MaxTopicsExceeded")
      \/ /\ ~isBusy
         /\ \/ /\ RegisterLoopClients(first \o <<"Publish", "Yield">>)
               /\ pool' = q /\ UNCHANGED stmVars
            \/ RegisterLoopClients(first) /\ PublishFails(q, "ConnectionError")
  BY DEF PublishBody
<1>2. CASE UNCHANGED <<loopVars, stmVars, pool>>
  BY <1>2, LoopKeepsOut, SamePool DEF Quietly, stmVars
<1>3. CASE UNCHANGED loopVars /\ PublishFails(p, "MaxTopicsExceeded")
  <2>1. UNCHANGED stm
    BY <1>3, SendsStay DEF PublishFails
  <2>2. pool' = [p EXCEPT !.errno = "MaxTopicsExceeded"]
    BY <1>3 DEF PublishFails
  <2>3. NoNewTopics /\ pool'.currentReg = pool.currentReg
    BY <1>0, <2>1, <2>2 DEF NoNewTopics, Pools
  <2> QED BY <1>3, <2>3, LoopKeepsOut DEF Quietly
<1>4. CASE /\ ~isBusy
           /\ \/ /\ RegisterLoopClients(first \o <<"Publish", "Yield">>)
                 /\ pool' = q /\ UNCHANGED stmVars
              \/ RegisterLoopClients(first) /\ PublishFails(q, "ConnectionError")
  <2>1. /\ clientList \in Seq(Clients) /\ Unknown \notin Clients
        /\ "Register" \in Clients /\ "Subscribe" \in Clients
    BY LoopAssumption, StmAssumption DEF TypeInv, LoopInv, LoopTypeOK
  <2>2. clientList = <<>> /\ loopId = Unknown
    BY <1>4, <2>1 DEF isBusy
  <2>3. UNCHANGED stm
    BY <1>4, SendsStay DEF PublishFails, stmVars
  <2>4. pool' = q \/ pool' = [q EXCEPT !.errno = "ConnectionError"]
    BY <1>4 DEF PublishFails
  <2>5. t \in Topics
    BY HeadTyped, OpArgs DEF PublishBody, At, TypeInv
  <2>6. /\ q.hasSubscription = pool.hasSubscription
        /\ \A u \in Topics : "SUB" \in q.registry[u] => "SUB" \in pool.registry[u]
        /\ ~known => q.currentReg = {}
        /\ DOMAIN q = DOMAIN pool
    BY <1>0, <2>5 DEF Selected, Pools
  <2> HIDE DEF q
  <2>7. /\ pool'.hasSubscription = q.hasSubscription
        /\ pool'.registry = q.registry /\ pool'.currentReg = q.currentReg
    BY <1>0, <2>4, <2>6 DEF Pools
  <2>8. NoNewTopics
    BY <2>3, <2>6, <2>7 DEF NoNewTopics
  <2>9. /\ loopId' = Unknown
        /\ \/ clientList' = clientList \o (first \o <<"Publish", "Yield">>)
           \/ clientList' = clientList \o first
    BY <1>4, <2>2 DEF RegisterLoopClients
  <2>10. CASE known
    <3>1. clientList' \in {<<>>, <<"Publish", "Yield">>}
      BY <2>2, <2>9, <2>10
    <3>2. ~Has(clientList', "Register")
      BY <3>1 DEF Has
    <3> QED BY <2>1, <2>8, <2>9, <3>2 DEF Chooses, Queued
  <2>11. CASE ~known
    <3>1. clientList' \in {<<"Register">>, <<"Register", "Publish", "Yield">>}
      BY <2>2, <2>9, <2>11
    <3>2. ~Has(clientList', "Subscribe")
      BY <3>1 DEF Has
    <3> QED BY <2>1, <2>6, <2>7, <2>8, <2>9, <2>11, <3>2 DEF Chooses, Queued
  <2> QED BY <2>10, <2>11
<1> QED BY <1>1, <1>2, <1>3, <1>4

LEMMA ContinueTopics == TypeInv /\ Continue => Quietly \/ Chooses \/ Applies
<1> SUFFICES ASSUME TypeInv, Continue PROVE Quietly \/ Chooses \/ Applies
  OBVIOUS
<1>0. pool \in Pools
  BY DEF TypeInv, PoolTypes
<1>s. \A e, rest : SendThen(e, rest) => UNCHANGED stm
  BY SendsStay
<1>k. UNCHANGED loopVars => KeepsOut
  BY LoopKeepsOut
<1>1. CASE SendStep
  BY <1>1, <1>s, <1>k, SamePool DEF SendStep, Quietly
<1>2. CASE PublishBody
  BY <1>2, PublishTopics
<1>3. CASE HibernateBody
  <2> DEFINE b == stm = "Connected" /\ Head(calls).arg > 0
  <2>1. /\ pool' = [pool EXCEPT !.duration = Head(calls).arg, !.autoReconnect = b]
        /\ UNCHANGED <<stm, loopVars>>
    BY <1>3, <1>s DEF HibernateBody
  <2> HIDE DEF b
  <2> QED BY <1>0, <1>k, <2>1 DEF Quietly, NoNewTopics, Pools
<1>4. CASE WakeupBody
  <2>1. /\ \/ pool' = [pool EXCEPT !.cleanSession = 0]
           \/ pool' = [pool EXCEPT !.duration = 0]
        /\ UNCHANGED <<stm, loopVars>>
    BY <1>4, <1>s DEF WakeupBody, stmVars
  <2> QED BY <1>0, <1>k, <2>1 DEF Quietly, NoNewTopics, Pools
<1>5. CASE ReconnectDone
  <2>1. /\ pool' = [pool EXCEPT !.cleanSession = Head(calls).arg,
                                !.autoReconnect = FALSE, !.duration = 0]
        /\ UNCHANGED <<stm, loopVars>>
    BY <1>5 DEF ReconnectDone, stmVars
  <2> QED BY <1>0, <1>k, <2>1 DEF Quietly, NoNewTopics, Pools
<1>y. loopYield => KeepsOut
  BY LoopKeepsOut, StmAssumption DEF loopYield
<1>6. CASE yield
  BY <1>6, <1>y, SamePool DEF yield, Quietly, stmVars
<1>7. CASE pmPing
  BY <1>7, <1>k, SamePool DEF pmPing, Quietly, stmVars
<1>8. CASE EventLoopFail
  <2>1. \/ pool' = pool
        \/ pool' = [pool EXCEPT !.registry[pool.currentTopic] = {}]
        \/ pool' = [pool EXCEPT !.errno = "ConnectionError"]
    BY <1>8 DEF EventLoopFail
  <2>2. UNCHANGED stm /\ KeepsOut
    BY <1>8, LoopKeepsOut DEF EventLoopFail
  <2> QED BY <1>0, <2>1, <2>2 DEF Quietly, NoNewTopics, Pools
<1>9. CASE EventLoopDone
  <2>1. UNCHANGED stm /\ KeepsOut
    BY <1>9, LoopKeepsOut DEF EventLoopDone, finishDisconnect
  <2>2. CASE loopId = "Register"
    <3> DEFINE F == pool.currentReg \cup {"PUB"}
               h == pool.hasSubscription \/ loopId = "Subscribe"
    <3>1. pool' = [pool EXCEPT !.currentReg = F,
                     !.registry[pool.currentTopic] = F, !.hasSubscription = h]
      BY <1>9, <2>2 DEF EventLoopDone
    <3>2. h = pool.hasSubscription
      <4>1. pool.hasSubscription \in BOOLEAN /\ loopId # "Subscribe"
        BY <1>0, <2>2, PoolFields
      <4> QED BY <4>1, Zenon
    <3> HIDE DEF h
    <3>3. /\ pool'.currentReg = F /\ pool'.hasSubscription = h
          /\ \A t \in Topics :
               pool'.registry[t] = pool.registry[t] \/ pool'.registry[t] = F
      BY <1>0, <3>1 DEF Pools
    <3> QED BY <2>1, <2>2, <3>2, <3>3 DEF Applies
  <2>3. CASE loopId = "Subscribe"
    <3> DEFINE F == pool.currentReg \cup {"SUB"}
               h == pool.hasSubscription \/ loopId = "Subscribe"
    <3>1. pool' = [pool EXCEPT !.currentReg = F,
                     !.registry[pool.currentTopic] = F, !.hasSubscription = h]
      BY <1>9, <2>3 DEF EventLoopDone
    <3>2. h
      BY <2>3
    <3> HIDE DEF h
    <3>3. pool'.hasSubscription = h
      BY <1>0, <3>1 DEF Pools
    <3> QED BY <2>1, <2>3, <3>2, <3>3 DEF Applies
  <2>4. CASE loopId \notin {"Register", "Subscribe"}
    <3>1. pool' = pool
      BY <1>9, <2>4 DEF EventLoopDone
    <3> QED BY <2>1, <3>1, SamePool DEF Quietly
  <2> QED BY <2>2, <2>3, <2>4
<1>10. CASE EventLoopDispatch
  BY <1>10, <1>k, SamePool DEF EventLoopDispatch, Dispatch, Quietly
<1>11. CASE EventLoopAutoPoll
  BY <1>11, <1>k, <1>y, SamePool DEF EventLoopAutoPoll, Quietly, stmVars
<1> QED BY <1>1, <1>2, <1>3, <1>4, <1>5, <1>6, <1>7, <1>8, <1>9, <1>10, <1>11
        DEF Continue

LEMMA TurnTopics == TypeInv /\ (LoopNothing \/ LoopStarts \/ LoopSteps) => Quietly
<1> SUFFICES ASSUME TypeInv, LoopNothing \/ LoopStarts \/ LoopSteps PROVE Quietly
  OBVIOUS
<1>0. pool \in Pools
  BY DEF TypeInv, PoolTypes
<1>s. \A e, rest : SendThen(e, rest) => UNCHANGED stm
  BY SendsStay
<1>1. KeepsOut
  <2>1. CASE LoopNothing
    BY <2>1, LoopKeepsOut DEF LoopNothing, LoopIdle
  <2>2. CASE LoopStarts
    BY <2>2, LoopKeepsOut DEF LoopStarts, StartStale, startAttachLoop,
       startYieldLoop, startConLoop, startRegLoop, startUnsubLoop,
       startDisLoop, startSubLoop, startPubLoop, StartWith, StartResult
  <2>3. \A c, ok, rc : StepDone(c, ok, rc) => KeepsOut
    BY LoopKeepsOut DEF StepDone, LoopStepDone
  <2>4. CASE finishDisLoop
    BY <2>3, <2>4, LoopKeepsOut DEF finishDisLoop
  <2> QED BY <2>1, <2>2, <2>3, <2>4, LoopKeepsOut DEF LoopSteps, StepWaits,
       StepTraffic, StepDisconnectReceived, StepPingResponse, finishAttachLoop,
       finishConLoop, finishPubLoopQoS0, finishPubLoop, doSubLoop, doPubLoop,
       StepTopicRejected, StepRegisterReceived, finishRegLoop, finishSubLoop,
       finishUnsubLoop, Acknowledged, finishYieldLoop
<1>2. CASE UNCHANGED <<stm, pool>>
  BY <1>1, <1>2, SamePool DEF Quietly
<1>3. CASE StepDisconnectReceived
  <2>1. \A rest : disconnectNotify(rest) => UNCHANGED stm
    BY <1>s DEF disconnectNotify, stmVars
  <2> QED BY <1>2, <1>3, <2>1 DEF StepDisconnectReceived
<1>4. CASE StepTopicRejected \/ StepRegisterReceived
  <2>1. UNCHANGED stm
    BY <1>4 DEF StepTopicRejected, StepRegisterReceived, stmVars
  <2>2. \/ pool' = pool
        \/ \E t \in Topics : \E F \in {{}, {"GW"}} :
             pool' = [pool EXCEPT !.registry[t] = F]
    BY <1>4 DEF StepTopicRejected, StepRegisterReceived
  <2>3. NoNewTopics /\ pool'.currentReg = pool.currentReg
    <3>1. CASE pool' = pool
      BY <2>1, <3>1, SamePool
    <3>2. ASSUME NEW t \in Topics, NEW F \in {{}, {"GW"}},
                 pool' = [pool EXCEPT !.registry[t] = F]
          PROVE  NoNewTopics /\ pool'.currentReg = pool.currentReg
      <4>1. "SUB" \notin F
        OBVIOUS
      <4> QED BY <1>0, <2>1, <3>2, <4>1 DEF NoNewTopics, Pools
    <3> QED BY <2>2, <3>1, <3>2
  <2> QED BY <1>1, <2>3 DEF Quietly
<1>5. LoopNothing \/ LoopStarts => UNCHANGED <<stm, pool>>
  BY DEF LoopNothing, LoopStarts, StartStale, startAttachLoop, startYieldLoop,
     startConLoop, startRegLoop, startUnsubLoop, startDisLoop, startSubLoop,
     startPubLoop, stmVars
<1> QED BY <1>s, <1>2, <1>3, <1>4, <1>5 DEF LoopSteps, StepWaits, StepTraffic,
       StepPingResponse, finishAttachLoop, finishConLoop, finishPubLoopQoS0,
       finishPubLoop, doSubLoop, doPubLoop, finishRegLoop, finishSubLoop,
       finishUnsubLoop, Acknowledged, finishYieldLoop, finishDisLoop, stmVars

LEMMA HandleTopics == TypeInv /\ HandleEvent => Quietly \/ Enters
<1> SUFFICES ASSUME TypeInv, HandleEvent PROVE Quietly \/ Enters
  OBVIOUS
<1>0. pool \in Pools
  BY DEF TypeInv, PoolTypes
<1>k. /\ UNCHANGED loopVars => KeepsOut
      /\ \A c \in {"Disconnect", "Connect", "Cgatt"} :
           RegisterLoopClients(<<c>>) => KeepsOut
      /\ loopBreak => KeepsOut
  BY LoopKeepsOut, StmAssumption
<1>c. \A p : clientDisconnect(p) => KeepsOut
  BY <1>k DEF clientDisconnect, loopDisconnect
<1>d. \A p : doDisconnect(p) => KeepsOut
  BY <1>c, <1>k DEF doDisconnect, finishDisconnect
<1>m. \A n : mqttConnect(n) => KeepsOut
  BY <1>k DEF mqttConnect, loopConnect
<1>1. ASSUME NEW p \in Pools, p.currentReg = pool.currentReg,
             actionDisconnectedEntry(p)
      PROVE  Enters
  <2>1. KeepsOut /\ stm' = "Disconnected" /\ pool' = [p EXCEPT !.errno = "Success"]
    BY <1>1, <1>d DEF actionDisconnectedEntry, Enter
  <2>2. pool'.currentReg = p.currentReg
    BY <2>1 DEF Pools
  <2> QED BY <1>1, <2>1, <2>2 DEF Enters
<1>2. ASSUME NEW p \in Pools, p.currentReg = pool.currentReg,
             actionErrorEntry(p), UNCHANGED loopVars
      PROVE  Enters
  <2>1. stm' = "Error" /\ (pool' = p \/ pool' = [p EXCEPT !.restarts = 0])
    BY <1>2 DEF actionErrorEntry, Enter
  <2>2. pool'.currentReg = p.currentReg
    BY <2>1 DEF Pools
  <2> QED BY <1>2, <1>k, <2>1, <2>2 DEF Enters
<1>3. ASSUME NEW p \in Pools, p.currentReg = pool.currentReg, IpConnect(p)
      PROVE  Enters
  <2> DEFINE q == [p EXCEPT !.restarts = 0]
             r == [q EXCEPT !.errno = "IpNotConnected"]
  <2>1. /\ q \in Pools /\ r \in Pools
        /\ q.currentReg = p.currentReg /\ r.currentReg = p.currentReg
    <3>1. q \in Pools
      BY PoolUpdates
    <3>2. r \in Pools
      BY <3>1, PoolUpdates DEF Errnos
    <3> QED BY <3>1, <3>2 DEF Pools
  <2>2. \/ /\ mqttConnect(q.cleanSession) /\ stm' = "WaitForConnect" /\ pool' = q
        \/ actionErrorEntry(r) /\ UNCHANGED loopVars
    BY <1>3 DEF IpConnect, Enter
  <2> HIDE DEF q, r
  <2> QED BY <1>2, <1>3, <1>m, <2>1, <2>2 DEF Enters
<1>4. ASSUME actionConnectedEntry
      PROVE  stm' = "Connected" /\ Known(pool') /\ pool'.currentReg = pool.currentReg
  <2> DEFINE p == [pool EXCEPT !.errno = "Success"]
  <2>1. /\ p \in Pools /\ p.currentReg = pool.currentReg
    <3>1. p \in Pools
      BY <1>0, PoolUpdates DEF Errnos
    <3> QED BY <1>0, <3>1 DEF Pools
  <2>2. /\ stm' = "Connected"
        /\ pool' = IF p.hasSubscription \/ ~hasAnyTopic(p) THEN p
                   ELSE IF p.cleanSession # 0
                        THEN [p EXCEPT !.registry = [t \in Topics |-> {}]]
                        ELSE [p EXCEPT !.hasSubscription = TRUE]
    BY <1>4 DEF actionConnectedEntry, Enter
  <2> HIDE DEF p
  <2>3. CASE p.hasSubscription
    BY <2>1, <2>2, <2>3 DEF Known
  <2>4. CASE ~p.hasSubscription /\ ~hasAnyTopic(p)
    <3>1. \A t \in Topics : "SUB" \notin p.registry[t]
      BY <2>4 DEF hasAnyTopic
    <3> QED BY <2>1, <2>2, <2>4, <3>1 DEF Known
  <2>5. CASE ~(p.hasSubscription \/ ~hasAnyTopic(p)) /\ p.cleanSession # 0
    <3>1. pool' = [p EXCEPT !.registry = [t \in Topics |-> {}]]
      BY <2>2, <2>5
    <3>2. /\ pool'.registry = [t \in Topics |-> {}]
          /\ pool'.currentReg = p.currentReg
      BY <2>1, <3>1 DEF Pools
    <3>3. \A t \in Topics : "SUB" \notin pool'.registry[t]
      BY <3>2
    <3> QED BY <2>1, <2>2, <3>2, <3>3 DEF Known
  <2>6. CASE ~(p.hasSubscription \/ ~hasAnyTopic(p)) /\ p.cleanSession = 0
    <3>1. pool' = [p EXCEPT !.hasSubscription = TRUE]
      BY <2>2, <2>6
    <3>2. pool'.hasSubscription = TRUE /\ pool'.currentReg = p.currentReg
      BY <2>1, <3>1 DEF Pools
    <3> QED BY <2>1, <2>2, <3>2 DEF Known
  <2> QED BY <2>3, <2>4, <2>5, <2>6
<1>5. ASSUME NEW e \in Errnos
      PROVE  /\ [pool EXCEPT !.errno = e] \in Pools
             /\ [pool EXCEPT !.errno = e].currentReg = pool.currentReg
  <2>1. [pool EXCEPT !.errno = e] \in Pools
    BY <1>0, PoolUpdates
  <2> QED BY <1>0, <2>1 DEF Pools
<1>6. CASE InitialLeave
  BY <1>0, <1>1, <1>2, <1>5, <1>6 DEF InitialLeave, Errnos
<1>7. CASE DisconnectedConnect
  <2> DEFINE p == [pool EXCEPT !.errno = "Success"]
  <2>1. p \in Pools /\ p.currentReg = pool.currentReg
    BY <1>5 DEF Errnos
  <2> HIDE DEF p
  <2>2. \/ IpConnect(p)
        \/ doModemAttach /\ stm' = "WaitForAttach" /\ pool' = p
    BY <1>7 DEF DisconnectedConnect, Enter, p
  <2> QED BY <1>3, <1>k, <2>1, <2>2 DEF doModemAttach, Enters
<1>8. CASE WaitForAttachAttached
  BY <1>0, <1>3, <1>8 DEF WaitForAttachAttached
<1>9. CASE WaitForAttachTimer
  <2> DEFINE p == [pool EXCEPT !.errno = "GprsNotConnected", !.restarts = @ + 1]
  <2>1. p \in Pools /\ p.currentReg = pool.currentReg
    <3>1. pool.restarts + 1 \in Nat /\ "GprsNotConnected" \in Errnos
      BY <1>0, PoolFields DEF Errnos
    <3> QED BY <1>0, <3>1 DEF Pools
  <2>2. actionErrorEntry(p) /\ UNCHANGED loopVars
    BY <1>9 DEF WaitForAttachTimer
  <2> HIDE DEF p
  <2> QED BY <1>2, <2>1, <2>2
<1>10. CASE WaitForConnectConnected
  BY <1>4, <1>10, <1>k DEF WaitForConnectConnected, Enters
<1>11. CASE WaitForConnectTimer
  BY <1>2, <1>5, <1>11 DEF WaitForConnectTimer, Errnos
<1>12. CASE ErrorDisconnect \/ ConnectedDisconnect \/ DisconnectedSleepWakeup
  BY <1>0, <1>1, <1>12 DEF ErrorDisconnect, ConnectedDisconnect,
     DisconnectedSleepWakeup
<1>13. CASE ReInitialize
  <2>1. /\ stm' = "Initial" /\ UNCHANGED loopVars
        /\ \E ok : pool' = [pool EXCEPT !.initialized = ok]
    BY <1>13 DEF ReInitialize, actionInitialEntry, Enter
  <2>2. pool'.currentReg = pool.currentReg
    BY <1>0, <2>1 DEF Pools
  <2> QED BY <1>k, <2>1, <2>2 DEF Enters
<1>14. CASE ConnectedSleepEvent
  <2>1. KeepsOut
    BY <1>14, <1>c, <1>k DEF ConnectedSleepEvent, mqttDisconnect
  <2> QED BY <1>14, <2>1 DEF ConnectedSleepEvent, Enter, Enters
<1>15. CASE ConnectedSleepWakeup
  <2>1. KeepsOut
    BY <1>15, <1>m, <1>k DEF ConnectedSleepWakeup
  <2> QED BY <1>4, <1>15, <2>1 DEF ConnectedSleepWakeup, Enters
<1>16. CASE ConnectedSleepAwake \/ ConnectedAwakeLeave \/ DisconnectedSleepEvent
  BY <1>16, <1>k DEF ConnectedSleepAwake, ConnectedAwakeLeave,
     DisconnectedSleepEvent, Enter, Enters
<1>17. CASE Hibernate
  <2>1. /\ stm' = "DeepSleep" /\ KeepsOut
        /\ pool' = [pool EXCEPT !.initialized = FALSE, !.hasSubscription = FALSE]
    BY <1>17, <1>d DEF Hibernate, actionDeepSleepEntry, Enter
  <2>2. pool'.currentReg = pool.currentReg
    BY <1>0, <2>1 DEF Pools
  <2> QED BY <2>1, <2>2 DEF Enters
<1>18. CASE IgnoreEvent
  BY <1>18, <1>k, SamePool DEF IgnoreEvent, Quietly
<1> QED BY <1>6, <1>7, <1>8, <1>9, <1>10, <1>11, <1>12, <1>13, <1>14, <1>15,
           <1>16, <1>17, <1>18 DEF HandleEvent

\* Every step is of one of these five kinds.
LEMMA StepTopics ==
  TypeInv /\ [Next]_vars => Quietly \/ Chooses \/ Forgets \/ Applies \/ Enters
<1> SUFFICES ASSUME TypeInv, [Next]_vars
             PROVE  Quietly \/ Chooses \/ Forgets \/ Applies \/ Enters
  OBVIOUS
<1>0. pool \in Pools
  BY DEF TypeInv, PoolTypes
<1>1. CASE startStateMachine
  <2>1. /\ stm' = "Initial" /\ UNCHANGED loopVars
        /\ \E ok : pool' = [pool EXCEPT !.initialized = ok, !.authentication = ok]
    BY <1>1 DEF startStateMachine
  <2>2. pool'.currentReg = pool.currentReg
    BY <1>0, <2>1 DEF Pools
  <2> QED BY <2>1, <2>2, LoopKeepsOut DEF Enters
<1>2. CASE TimerExpires \/ DispatchEnd \/ UNCHANGED vars
  BY <1>2, LoopKeepsOut, SamePool DEF TimerExpires, DispatchEnd, vars, stmVars,
     Quietly
<1> QED BY <1>1, <1>2, ApplicationTopics, ContinueTopics, TurnTopics,
           HandleTopics DEF Next

\* m_hasSubscription covers every registered subscription in Connected.
SubscriptionInv == RegisterInv /\ (stm = "Connected" => Known(pool))

LEMMA StepSubscriptions ==
  TypeInv /\ SubscriptionInv /\ [Next]_vars => SubscriptionInv'
<1> SUFFICES ASSUME TypeInv, SubscriptionInv, [Next]_vars PROVE SubscriptionInv'
  OBVIOUS
<1>1. pool.hasSubscription \in BOOLEAN
  BY PoolFields DEF TypeInv, PoolTypes
<1>2. ASSUME KeepsOut, pool'.currentReg = pool.currentReg PROVE RegisterInv'
  BY <1>2 DEF SubscriptionInv, RegisterInv, KeepsOut
<1>3. ASSUME NoNewTopics PROVE (stm = "Connected" => Known(pool))'
  BY <1>3 DEF SubscriptionInv, NoNewTopics, Known
<1>4. CASE Quietly
  BY <1>2, <1>3, <1>4 DEF Quietly, SubscriptionInv
<1>5. CASE Chooses
  BY <1>3, <1>5 DEF Chooses, RegisterInv, SubscriptionInv
<1>6. CASE Forgets
  <2>1. RegisterInv'
    BY <1>2, <1>6 DEF Forgets
  <2>2. (stm = "Connected" => Known(pool))'
    BY <1>6 DEF Forgets, SubscriptionInv, Known
  <2> QED BY <2>1, <2>2 DEF SubscriptionInv
<1>7. CASE Applies
  <2>1. CASE loopId = "Subscribe" /\ pool'.hasSubscription
    <3>1. ~Queued("Register")
      BY <2>1 DEF SubscriptionInv, RegisterInv, Queued
    <3>2. ~Queued("Register")'
      BY <1>7, <3>1 DEF Applies, KeepsOut
    <3> QED BY <2>1, <3>2 DEF SubscriptionInv, RegisterInv, Known
  <2>2. CASE /\ loopId = "Register"
             /\ pool'.currentReg = pool.currentReg \cup {"PUB"}
             /\ pool'.hasSubscription = pool.hasSubscription
             /\ \A t \in Topics :
                  \/ pool'.registry[t] = pool.registry[t]
                  \/ pool'.registry[t] = pool.currentReg \cup {"PUB"}
    <3>1. "SUB" \notin pool.currentReg /\ ~Queued("Subscribe")
      BY <2>2 DEF SubscriptionInv, RegisterInv, Queued
    <3>2. "SUB" \notin pool.currentReg \cup {"PUB"} /\ ~Queued("Subscribe")'
      BY <1>7, <3>1 DEF Applies, KeepsOut
    <3>3. RegisterInv'
      BY <2>2, <3>2 DEF RegisterInv
    <3>4. NoNewTopics
      BY <1>7, <2>2, <3>2 DEF Applies, NoNewTopics
    <3> QED BY <1>3, <3>3, <3>4 DEF SubscriptionInv
  <2> QED BY <1>7, <2>1, <2>2 DEF Applies
<1>8. CASE Enters
  BY <1>2, <1>8 DEF Enters, SubscriptionInv
<1> QED BY <1>4, <1>5, <1>6, <1>7, <1>8, StepTopics

\* In Connected, m_hasSubscription is set whenever a subscription is
\* registered, so that a clean connect never drops a live one unnoticed: a
\* register loop cannot bring in a subscription behind its back.
THEOREM MqttSubscriptions == Spec => []SubscriptionsKnown
<1>1. Init => SubscriptionInv
  <2> SUFFICES ASSUME Init PROVE SubscriptionInv
    OBVIOUS
  <2>1. clientList = <<>> /\ loopId = Unknown /\ stm = "Invalid"
    BY DEF Init, StmInit, LoopInit
  <2>2. ~Queued("Register")
    BY <2>1, ListOne, LoopAssumption, StmAssumption DEF Queued
  <2> QED BY <2>1, <2>2 DEF SubscriptionInv, RegisterInv
<1>2. SubscriptionInv => SubscriptionsKnown
  BY DEF SubscriptionInv, Known, SubscriptionsKnown
<1>3. MqttInv => TypeInv
  BY DEF MqttInv
<1> QED BY <1>1, <1>2, <1>3, StepSubscriptions, MqttInvariant, PTL DEF Spec

----------------------------------------------------------------------------
(* A connection that is reported is there                                  *)

(***************************************************************************)
(* The application of the examples: one call at most after a turn of the   *)
(* event loop that left nothing to do, no automatic poll, no sleeping.     *)
(***************************************************************************)
PlainUse == Patient /\ ~AutoPoll /\ Calls \cap {"sleep", "hibernate", "wakeup"} = {}

\* What can be left to do in such an application.
LoopOnly == <<Op("loop", 0)>>
Shapes ==
  {<<>>, LoopOnly, Finish, <<Op("autopoll", 0)>>, <<Op("done", 0)>>,
   <<Op("disconnected", 0)>>, <<Op("yield", 0)>> \o LoopOnly}
  \cup {<<Op("publish", t)>> \o LoopOnly : t \in Topics}
  \cup {<<Op("fail", rc)>> \o Finish : rc \in {0, 1, 2}}

PhaseOf(s) == IF s = <<>> THEN "idle" ELSE Head(s).op
Phase == PhaseOf(calls)

\* Every shape, with its first operation.
LEMMA ShapePhase ==
  /\ <<>> \in Shapes /\ PhaseOf(<<>>) = "idle"
  /\ LoopOnly \in Shapes /\ PhaseOf(LoopOnly) = "loop"
  /\ Finish \in Shapes /\ PhaseOf(Finish) = "dispatch"
  /\ <<Op("autopoll", 0)>> \in Shapes /\ PhaseOf(<<Op("autopoll", 0)>>) = "autopoll"
  /\ <<Op("done", 0)>> \in Shapes /\ PhaseOf(<<Op("done", 0)>>) = "done"
  /\ /\ <<Op("disconnected", 0)>> \in Shapes
     /\ PhaseOf(<<Op("disconnected", 0)>>) = "disconnected"
  /\ /\ <<Op("yield", 0)>> \o LoopOnly \in Shapes
     /\ PhaseOf(<<Op("yield", 0)>> \o LoopOnly) = "yield"
  /\ \A t \in Topics : /\ <<Op("publish", t)>> \o LoopOnly \in Shapes
                       /\ PhaseOf(<<Op("publish", t)>> \o LoopOnly) = "publish"
  /\ \A rc \in {0, 1, 2} : /\ <<Op("fail", rc)>> \o Finish \in Shapes
                           /\ PhaseOf(<<Op("fail", rc)>> \o Finish) = "fail"
<1>1. \A o, a : /\ PhaseOf(<<Op(o, a)>>) = o
  <2> SUFFICES ASSUME NEW o, NEW a PROVE PhaseOf(<<Op(o, a)>>) = o
    OBVIOUS
  <2> DEFINE r == Op(o, a)
  <2>1. r.op = o
    BY DEF Op
  <2> HIDE DEF r
  <2>2. <<r>> # <<>> /\ Head(<<r>>) = r
    OBVIOUS
  <2> QED BY <2>1, <2>2 DEF PhaseOf, r
<1>2. \A o, a : \A s \in Seq(Ops) : Op(o, a) \in Ops => PhaseOf(<<Op(o, a)>> \o s) = o
  <2> SUFFICES ASSUME NEW o, NEW a, NEW s \in Seq(Ops), Op(o, a) \in Ops
               PROVE  PhaseOf(<<Op(o, a)>> \o s) = o
    OBVIOUS
  <2> DEFINE r == Op(o, a)
  <2>1. r.op = o /\ r \in Ops
    BY DEF Op
  <2> HIDE DEF r
  <2>2. /\ Len(<<r>> \o s) = 1 + Len(s) /\ Len(s) \in Nat
        /\ (<<r>> \o s)[1] = r
    BY <2>1
  <2>3. <<r>> \o s # <<>> /\ Head(<<r>> \o s) = r
    BY <2>1, <2>2
  <2> QED BY <2>1, <2>3 DEF PhaseOf, r
<1>3. Finish \in Seq(Ops) /\ LoopOnly \in Seq(Ops)
  BY FinishTyped, OpTypes DEF LoopOnly
<1>4. Finish # <<>> /\ Head(Finish) = Op("dispatch", 0)
  BY DEF Finish
<1>5. PhaseOf(Finish) = "dispatch"
  BY <1>4 DEF PhaseOf, Op
<1>6. PhaseOf(<<>>) = "idle"
  BY DEF PhaseOf
<1>7. PhaseOf(LoopOnly) = "loop"
  BY <1>1 DEF LoopOnly
<1>8. PhaseOf(<<Op("yield", 0)>> \o LoopOnly) = "yield"
  BY <1>2, <1>3, OpTypes
<1>9. \A t \in Topics : PhaseOf(<<Op("publish", t)>> \o LoopOnly) = "publish"
  BY <1>2, <1>3, OpTypes
<1>10. \A rc \in {0, 1, 2} : PhaseOf(<<Op("fail", rc)>> \o Finish) = "fail"
  BY <1>2, <1>3, OpTypes
<1>11. /\ PhaseOf(<<Op("autopoll", 0)>>) = "autopoll"
       /\ PhaseOf(<<Op("done", 0)>>) = "done"
       /\ PhaseOf(<<Op("disconnected", 0)>>) = "disconnected"
  BY <1>1
<1>12. /\ <<>> \in Shapes /\ LoopOnly \in Shapes /\ Finish \in Shapes
       /\ <<Op("autopoll", 0)>> \in Shapes /\ <<Op("done", 0)>> \in Shapes
       /\ <<Op("disconnected", 0)>> \in Shapes
       /\ <<Op("yield", 0)>> \o LoopOnly \in Shapes
       /\ \A t \in Topics : <<Op("publish", t)>> \o LoopOnly \in Shapes
       /\ \A rc \in {0, 1, 2} : <<Op("fail", rc)>> \o Finish \in Shapes
  BY Zenon DEF Shapes
<1> QED BY <1>5, <1>6, <1>7, <1>8, <1>9, <1>10, <1>11, <1>12

Phases == {"idle", "loop", "dispatch", "autopoll", "done", "disconnected",
           "yield", "publish", "fail"}

\* What is left after the first operation.
LEMMA ShapeTail ==
  ASSUME NEW s \in Shapes
  PROVE  /\ PhaseOf(s) \in Phases
         /\ PhaseOf(s) = "idle" => s = <<>>
         /\ PhaseOf(s) = "dispatch" => Tail(s) = <<Op("autopoll", 0)>>
         /\ PhaseOf(s) = "autopoll" => Tail(s) = <<>>
         /\ PhaseOf(s) \in {"publish", "yield"} => Tail(s) = LoopOnly
         /\ PhaseOf(s) = "fail" => Tail(s) = Finish
<1>3. Finish \in Seq(Ops) /\ LoopOnly \in Seq(Ops)
  BY FinishTyped, OpTypes DEF LoopOnly
<1>2. \A o, a : \A r \in Seq(Ops) : Op(o, a) \in Ops => Tail(<<Op(o, a)>> \o r) = r
  <2> SUFFICES ASSUME NEW o, NEW a, NEW r \in Seq(Ops), Op(o, a) \in Ops
               PROVE  Tail(<<Op(o, a)>> \o r) = r
    OBVIOUS
  <2> DEFINE x == Op(o, a)
  <2> HIDE DEF x
  <2>1. x \in Ops
    BY DEF x
  <2>2. Tail(<<x>> \o r) = r
    BY <2>1
  <2> QED BY <2>2 DEF x
<1>4. CASE s \in {<<>>, LoopOnly, <<Op("done", 0)>>, <<Op("disconnected", 0)>>}
  <2>1. s = <<>> \/ PhaseOf(s) \in {"loop", "done", "disconnected"}
    BY <1>4, ShapePhase
  <2> QED BY <2>1, ShapePhase DEF Phases
<1>5. CASE s = <<Op("autopoll", 0)>>
  <2>1. PhaseOf(s) = "autopoll"
    BY <1>5, ShapePhase
  <2>2. Tail(s) = <<>>
    BY <1>5
  <2> QED BY <2>1, <2>2 DEF Phases
<1>6. CASE s = Finish
  <2>1. PhaseOf(s) = "dispatch"
    BY <1>6, ShapePhase
  <2>2. Tail(Finish) = <<Op("autopoll", 0)>>
    BY DEF Finish
  <2> QED BY <1>6, <2>1, <2>2 DEF Phases
<1>7. CASE s = <<Op("yield", 0)>> \o LoopOnly
  <2>1. PhaseOf(s) = "yield"
    BY <1>7, ShapePhase
  <2>2. Tail(s) = LoopOnly
    BY <1>7, <1>2, <1>3, OpTypes
  <2> QED BY <2>1, <2>2 DEF Phases
<1>8. ASSUME NEW t \in Topics, s = <<Op("publish", t)>> \o LoopOnly
      PROVE  PhaseOf(s) = "publish" /\ Tail(s) = LoopOnly
  <2>1. PhaseOf(s) = "publish"
    BY <1>8, ShapePhase
  <2>2. Tail(s) = LoopOnly
    BY <1>8, <1>2, <1>3, OpTypes
  <2> QED BY <2>1, <2>2
<1>9. ASSUME NEW rc \in {0, 1, 2}, s = <<Op("fail", rc)>> \o Finish
      PROVE  PhaseOf(s) = "fail" /\ Tail(s) = Finish
  <2>1. PhaseOf(s) = "fail"
    BY <1>9, ShapePhase
  <2>2. Tail(s) = Finish
    BY <1>9, <1>2, <1>3, OpTypes
  <2> QED BY <2>1, <2>2
<1>10. \/ s \in {<<>>, LoopOnly, <<Op("done", 0)>>, <<Op("disconnected", 0)>>}
       \/ s = <<Op("autopoll", 0)>> \/ s = Finish
       \/ s = <<Op("yield", 0)>> \o LoopOnly
       \/ \E t \in Topics : s = <<Op("publish", t)>> \o LoopOnly
       \/ \E rc \in {0, 1, 2} : s = <<Op("fail", rc)>> \o Finish
  BY Zenon DEF Shapes
<1>11. CASE \E t \in Topics : s = <<Op("publish", t)>> \o LoopOnly
  <2>1. PhaseOf(s) = "publish" /\ Tail(s) = LoopOnly
    BY <1>8, <1>11
  <2> QED BY <2>1 DEF Phases
<1>12. CASE \E rc \in {0, 1, 2} : s = <<Op("fail", rc)>> \o Finish
  <2>1. PhaseOf(s) = "fail" /\ Tail(s) = Finish
    BY <1>9, <1>12
  <2> QED BY <2>1 DEF Phases
<1> QED BY <1>4, <1>5, <1>6, <1>7, <1>10, <1>11, <1>12

\* Events on their way.
Coming(e) == Has(events, e) \/ Has(posted, e)

\* A ConnectedEv is never behind a Connect: the connection it reports is not
\* an earlier one.
Order(q) ==
  \A i, j \in 1..Len(q) : q[i] = "Connect" /\ q[j] = "ConnectedEv" => j < i

\* Reading an event leaves the others in order.
LEMMA OrderTail ==
  ASSUME NEW q \in Seq(Events), q # <<>>, Order(q)
  PROVE  /\ Order(Tail(q))
         /\ Head(q) = "Connect" => HasNone(Tail(q), {"ConnectedEv"})
<1>1. /\ Len(q) \in Nat \ {0} /\ Len(Tail(q)) = Len(q) - 1 /\ Head(q) = q[1]
      /\ \A i \in 1..Len(Tail(q)) : i + 1 \in 1..Len(q) /\ Tail(q)[i] = q[i + 1]
      /\ 1 \in 1..Len(q)
  OBVIOUS
<1>2. Order(Tail(q))
  <2> SUFFICES ASSUME NEW i \in 1..Len(Tail(q)), NEW j \in 1..Len(Tail(q)),
                      Tail(q)[i] = "Connect", Tail(q)[j] = "ConnectedEv"
               PROVE  j < i
    BY DEF Order
  <2>1. q[i + 1] = "Connect" /\ q[j + 1] = "ConnectedEv"
    BY <1>1
  <2>2. j + 1 < i + 1
    BY <1>1, <2>1 DEF Order
  <2> QED BY <1>1, <2>2
<1>3. ASSUME Head(q) = "Connect" PROVE HasNone(Tail(q), {"ConnectedEv"})
  <2> SUFFICES ASSUME NEW i \in 1..Len(Tail(q)), Tail(q)[i] = "ConnectedEv"
               PROVE  FALSE
    BY DEF HasNone
  <2>1. q[1] = "Connect" /\ q[i + 1] = "ConnectedEv" /\ i + 1 \in 1..Len(q)
    BY <1>1, <1>3
  <2>2. i + 1 < 1
    BY <1>1, <2>1 DEF Order
  <2> QED BY <1>1, <2>2
<1> QED BY <1>2, <1>3

\* Two queues in a row are in order when no Connect is in the first and no
\* ConnectedEv in the second.
LEMMA OrderConcat ==
  ASSUME NEW p \in Seq(Events), NEW q \in Seq(Events),
         HasNone(p, {"Connect"}), HasNone(q, {"ConnectedEv"})
  PROVE  Order(p \o q)
<1>1. /\ Len(p) \in Nat /\ Len(q) \in Nat /\ Len(p \o q) = Len(p) + Len(q)
      /\ \A i \in 1..Len(p) : (p \o q)[i] = p[i]
      /\ \A i \in 1..Len(q) : (p \o q)[i + Len(p)] = q[i]
  OBVIOUS
<1> SUFFICES ASSUME NEW i \in 1..Len(p \o q), NEW j \in 1..Len(p \o q),
                    (p \o q)[i] = "Connect", (p \o q)[j] = "ConnectedEv"
             PROVE  j < i
  BY DEF Order
<1>2. ~(i \in 1..Len(p))
  BY <1>1 DEF HasNone
<1>3. ASSUME ~(j \in 1..Len(p)) PROVE FALSE
  <2>1. j - Len(p) \in 1..Len(q) /\ (j - Len(p)) + Len(p) = j
    BY <1>1, <1>3
  <2>2. q[j - Len(p)] = "ConnectedEv"
    BY <1>1, <2>1
  <2> QED BY <2>1, <2>2 DEF HasNone
<1>4. i > Len(p) /\ j <= Len(p)
  BY <1>1, <1>2, <1>3
<1> QED BY <1>1, <1>4

\* A queue without one of the two events is in order.
LEMMA OrderNone == \A q : HasNone(q, {"Connect"}) \/ HasNone(q, {"ConnectedEv"}) => Order(q)
  BY DEF HasNone, Order

\* The events a dispatch() starts with.
LEMMA DispatchSome ==
  ASSUME TypeInv, NEW es \in Seq(Events), Dispatch(es)
  PROVE  /\ dispatching' /\ UNCHANGED <<stm, posted>>
         /\ \A S : HasNone(events, S) /\ HasNone(es, S) /\ "Timer" \notin S =>
                     HasNone(events', S)
         /\ \A e : Has(events, e) \/ Has(es, e) => Has(events', e)
         /\ HasNone(events, {"Connect"}) /\ HasNone(es, {"ConnectedEv"}) =>
              Order(events')
<1> DEFINE tl == IF timer = "due" THEN <<"Timer">> ELSE <<>>
<1>1. /\ events \in Seq(Events) /\ tl \in Seq(Events)
  <2>1. "Timer" \in Events
    BY DEF Events
  <2>2. <<"Timer">> \in Seq(Events) /\ <<>> \in Seq(Events)
    BY <2>1
  <2>3. tl \in Seq(Events)
    BY <2>2
  <2> QED BY <2>3 DEF TypeInv, StmTypes
<1>2. events' = (events \o es) \o tl /\ dispatching' /\ UNCHANGED <<stm, posted>>
  BY DEF Dispatch
<1>3. \A S : "Timer" \notin S => HasNone(tl, S)
  BY HasNoneOne, HasNoneEmpty
<1> HIDE DEF tl
<1>4. events \o es \in Seq(Events) /\ es \o tl \in Seq(Events)
  BY <1>1
<1>5. ASSUME NEW S, HasNone(events, S), HasNone(es, S), "Timer" \notin S
      PROVE  HasNone(events', S)
  <2>1. HasNone(events \o es, S)
    BY <1>1, <1>5, HasNoneConcat
  <2> QED BY <1>1, <1>2, <1>3, <1>4, <1>5, <2>1, HasNoneConcat
<1>6. ASSUME NEW e, Has(events, e) \/ Has(es, e) PROVE Has(events', e)
  <2>1. ~HasNone(events, {e}) \/ ~HasNone(es, {e})
    BY <1>6, HasOf
  <2>2. ~HasNone(events \o es, {e})
    BY <1>1, <2>1, HasNoneConcat
  <2>3. ~HasNone(events', {e})
    BY <1>1, <1>2, <1>4, <2>2, HasNoneConcat
  <2> QED BY <2>3, HasOf
<1>7. ASSUME HasNone(events, {"Connect"}), HasNone(es, {"ConnectedEv"})
      PROVE  Order(events')
  <2>1. HasNone(tl, {"ConnectedEv"})
    BY <1>3
  <2>2. HasNone(es \o tl, {"ConnectedEv"})
    BY <1>1, <1>7, <2>1, HasNoneConcat
  <2>3. events' = events \o (es \o tl)
    BY <1>1, <1>2, EventsAssociative
  <2> QED BY <1>1, <1>4, <1>7, <2>2, <2>3, OrderConcat
<1> QED BY <1>2, <1>5, <1>6, <1>7

\* A CONNECT is only queued at the end of the list.
LastOnly(q) == \A i \in 1..Len(q) : q[i] = "Connect" => i = Len(q)

\* Hooking the first client leaves the CONNECT at the end.
LEMMA LastTail ==
  ASSUME NEW q \in Seq(Clients), q # <<>>, LastOnly(q)
  PROVE  LastOnly(Tail(q)) /\ (Head(q) = "Connect" => Tail(q) = <<>>)
<1>1. /\ Len(q) \in Nat \ {0} /\ Len(Tail(q)) = Len(q) - 1 /\ Head(q) = q[1]
      /\ \A i \in 1..Len(Tail(q)) : i + 1 \in 1..Len(q) /\ Tail(q)[i] = q[i + 1]
      /\ 1 \in 1..Len(q) /\ Tail(q) \in Seq(Clients)
  OBVIOUS
<1>2. ASSUME NEW i \in 1..Len(Tail(q)), Tail(q)[i] = "Connect"
      PROVE  i = Len(Tail(q))
  <2>1. i + 1 \in 1..Len(q) /\ q[i + 1] = "Connect"
    BY <1>1, <1>2
  <2>2. i + 1 = Len(q)
    BY <2>1 DEF LastOnly
  <2>3. i \in Nat /\ Len(q) \in Nat /\ Len(Tail(q)) = Len(q) - 1
    BY <1>1
  <2> HIDE <1>1
  <2>4. i = Len(q) - 1
    BY <2>2, <2>3
  <2> QED BY <2>3, <2>4
<1>3. ASSUME Head(q) = "Connect" PROVE Tail(q) = <<>>
  <2>1. 1 = Len(q)
    BY <1>1, <1>3 DEF LastOnly
  <2>2. \A m \in Nat : 1 = m => m - 1 = 0
    OBVIOUS
  <2>3. Len(q) \in Nat /\ Len(Tail(q)) = Len(q) - 1
    BY <1>1
  <2>4. Len(Tail(q)) = 0
    BY <2>1, <2>2, <2>3, Zenon
  <2>5. Tail(q) \in Seq(Clients)
    BY <1>1
  <2> HIDE <1>1
  <2> QED BY <2>4, <2>5, EmptySeq
<1> QED BY <1>2, <1>3 DEF LastOnly

\* A client added at the end keeps the order of a list without CONNECT.
LEMMA LastAdded ==
  ASSUME NEW q \in Seq(Clients), NEW c \in Clients, ~Has(q, "Connect")
  PROVE  LastOnly(q \o <<c>>)
<1>1. /\ Len(q) \in Nat /\ Len(q \o <<c>>) = Len(q) + 1
      /\ \A i \in 1..Len(q) : (q \o <<c>>)[i] = q[i]
  OBVIOUS
<1> SUFFICES ASSUME NEW i \in 1..Len(q \o <<c>>), (q \o <<c>>)[i] = "Connect"
             PROVE  i = Len(q \o <<c>>)
  BY DEF LastOnly
<1>2. i \notin 1..Len(q)
  BY <1>1 DEF Has
<1> QED BY <1>1, <1>2

\* Where a call stands.
CallInv ==
  /\ calls \in Shapes
  /\ Phase \in {"publish", "yield"} => stm = "Connected" /\ loopId = Unknown
  /\ Phase = "disconnected" => loopClient = "Disconnect" /\ stm # "Connected"
  /\ Phase = "done" => loopClient = Unknown /\ loopId # Unknown
  /\ Phase \in {"dispatch", "autopoll"} => loopId = Unknown
  /\ Phase = "done" /\ loopId = "Connect" => net
  /\ dispatching => Phase \in {"idle", "loop", "autopoll"} /\ loopId # "Connect"

\* A Connect is handled in the batch it was sent in, and finds nothing
\* posted: every turn of the event loop that has nothing to do dispatches.
FreshInv ==
  /\ ~dispatching /\ loopId = Unknown /\ Phase \in {"idle", "autopoll"} =>
       posted = <<>>
  /\ ~dispatching => HasNone(events, {"Connect"})
  /\ Order(events)
  /\ Has(events, "Connect") => HasNone(posted, {"ConnectedEv"})

\* The machine neither sleeps nor is put to sleep, and nothing happens
\* before it is started.
Awake == {"Invalid", "Initial", "Disconnected", "Error", "Connected",
          "WaitForAttach", "WaitForConnect"}

AwakeInv ==
  /\ stm \in Awake
  /\ HasNone(events, {"Sleep", "Hibernate"})
  /\ stm = "Invalid" =>
       /\ calls = <<>> /\ clientList = <<>> /\ loopId = Unknown
       /\ ~pool.initialized

\* A CONNECT that will be sent is the last client of the list, and one is
\* only queued for a client that is not connected.
ListInv ==
  /\ loopId = "Connect" => clientList = <<>>
  /\ ~breakFlag /\ Has(clientList, "Connect") =>
       /\ stm \in {"WaitForConnect", "Error", "Initial"}
       /\ ~client.isconnected
       /\ LastOnly(clientList)

Backed == client.isconnected /\ net

\* Connected is backed, or about to be left; a ConnectedEv that will be
\* believed reports a connection that nothing under way takes down.
BackedInv ==
  /\ stm = "Connected" =>
       /\ Coming("Disconnect") \/ Backed
       /\ ~Queued("Connect") /\ ~Queued("Disconnect")
  /\ stm = "WaitForConnect" /\ Coming("ConnectedEv") =>
       /\ Backed /\ clientList = <<>>
       /\ loopClient = Unknown /\ loopId \in {Unknown, "Connect"}
  /\ stm = "WaitForAttach" => ~Coming("ConnectedEv") /\ loopId # "Connect"

BackingInv == CallInv /\ FreshInv /\ AwakeInv /\ ListInv /\ BackedInv

\* Between two calls of dispatch() the machine and its events stay.
LEMMA BetweenKeeps ==
  ASSUME BackingInv, ~dispatching, ~dispatching', UNCHANGED <<stm, events>>,
         stm # "Invalid",
         loopId' = Unknown /\ Phase' \in {"idle", "autopoll"} => posted' = <<>>
  PROVE  FreshInv' /\ AwakeInv'
<1>1. HasNone(events', {"Connect"}) /\ Order(events') /\ ~Has(events', "Connect")
  <2>1. HasNone(events, {"Connect"}) /\ Order(events)
    BY DEF BackingInv, FreshInv
  <2>2. ~Has(events, "Connect")
    BY <2>1, HasOf
  <2> QED BY <2>1, <2>2
<1>2. FreshInv'
  BY <1>1 DEF FreshInv
<1>3. AwakeInv'
  BY DEF BackingInv, AwakeInv
<1> QED BY <1>2, <1>3

\* What is coming is a matter of the two queues.
LEMMA ComingSame == UNCHANGED <<events, posted>> => \A e : Coming(e)' <=> Coming(e)
  BY DEF Coming

\* postEvent() adds its event and takes none away.
LEMMA ComingPosted ==
  ASSUME TypeInv, NEW e \in Events, UNCHANGED events, postEvent(e)
  PROVE  \A d : Coming(d)' <=> Coming(d) \/ d = e
<1>1. posted \in Seq(Events) /\ posted' = Append(posted, e)
  BY PostedAreEvents DEF TypeInv, StmTypes, postEvent
<1>2. \A d : HasNone(posted', {d}) <=> HasNone(posted, {d}) /\ d # e
  BY <1>1, HasNoneAppend
<1>3. \A d : Has(posted', d) <=> Has(posted, d) \/ d = e
  BY <1>2, HasOf
<1> QED BY <1>3 DEF Coming

\* A step between two calls of dispatch() that leaves the list, the
\* connection and the events alone.
LEMMA PauseKeeps ==
  ASSUME TypeInv, BackingInv, ~dispatching,
         UNCHANGED <<stm, events, posted, dispatching>>,
         UNCHANGED loopVars,
         client'.isconnected = client.isconnected, net' = net,
         stm # "Invalid",
         calls' \in Shapes, Phase' \in {"idle", "loop", "publish", "yield"},
         Phase' = "idle" => loopId # Unknown \/ posted = <<>>,
         Phase' \in {"publish", "yield"} => stm = "Connected" /\ loopId = Unknown
  PROVE  BackingInv'
<1>1. UNCHANGED <<clientList, loopClient, loopId, breakFlag>>
  BY DEF loopVars
<1>2. CallInv'
  BY <1>1 DEF CallInv
<1>3. FreshInv' /\ AwakeInv'
  BY <1>1, BetweenKeeps
<1>4. ListInv'
  BY <1>1 DEF BackingInv, ListInv
<1>5. \A e : Coming(e)' <=> Coming(e)
  BY ComingSame
<1>6. \A c : Queued(c)' <=> Queued(c)
  BY <1>1 DEF Queued
<1>7. BackedInv'
  BY <1>1, <1>5, <1>6 DEF BackingInv, BackedInv, Backed
<1> QED BY <1>2, <1>3, <1>4, <1>7 DEF BackingInv

\* Clients are only added in Connected, and neither of those that change the
\* connection.
LEMMA AddKeeps ==
  ASSUME TypeInv, BackingInv, ~dispatching, UNCHANGED stmVars,
         NEW cs \in Seq(Clients), ~Has(cs, "Connect"), ~Has(cs, "Disconnect"),
         RegisterLoopClients(cs),
         client'.isconnected = client.isconnected, net' = net,
         stm = "Connected", calls' = LoopOnly
  PROVE  BackingInv'
<1>0. clientList \in Seq(Clients)
  BY DEF TypeInv, LoopInv, LoopTypeOK
<1>1. /\ UNCHANGED <<loopClient, loopId, breakFlag>> /\ clientList' = clientList \o cs
      /\ UNCHANGED <<stm, events, posted, dispatching>>
  BY DEF RegisterLoopClients, stmVars
<1>2. calls' \in Shapes /\ Phase' = "loop"
  BY ShapePhase DEF Phase
<1>3. CallInv'
  BY <1>1, <1>2 DEF CallInv
<1>4. FreshInv' /\ AwakeInv'
  BY <1>1, <1>2, BetweenKeeps
<1>5. \A e : Coming(e)' <=> Coming(e)
  BY <1>1, ComingSame
<1>6. \A c \in {"Connect", "Disconnect"} : ~Queued(c) /\ ~Queued(c)'
  <2>1. \A c \in {"Connect", "Disconnect"} : ~Queued(c)
    BY DEF BackingInv, BackedInv
  <2>2. \A c \in {"Connect", "Disconnect"} : ~Has(clientList', c)
    BY <1>0, <1>1, <2>1, ListConcat DEF Queued
  <2> QED BY <1>1, <2>1, <2>2 DEF Queued
<1>7. ListInv'
  BY <1>1, <1>6 DEF ListInv, Queued
<1>8. BackedInv'
  BY <1>1, <1>5, <1>6 DEF BackingInv, BackedInv, Backed
<1> QED BY <1>3, <1>4, <1>7, <1>8 DEF BackingInv

\* A client is started: only in WaitForConnect, or after it was given up,
\* can that be the one of the CONNECT.
LEMMA StartKeeps ==
  ASSUME TypeInv, BackingInv, At("loop"), UNCHANGED stmVars,
         NEW c, NEW ok \in BOOLEAN, StartResult(c, ok),
         client'.isconnected = client.isconnected, net' = net
  PROVE  BackingInv'
<1>0. /\ clientList \in Seq(Clients) /\ Unknown \notin Clients /\ c # Unknown
      /\ clientList # <<>> /\ c = Head(clientList) /\ ~breakFlag
  <2>1. clientList \in Seq(Clients) /\ Unknown \notin Clients
    BY LoopAssumption DEF TypeInv, LoopInv, LoopTypeOK
  <2>2. clientList # <<>> /\ c = Head(clientList) /\ ~breakFlag
    BY DEF StartResult, LoopStart, Startable
  <2> QED BY <2>1, <2>2
<1>1. /\ UNCHANGED breakFlag /\ clientList' = Tail(clientList)
      /\ loopClient' = loopId' /\ loopId' \in {c, Unknown}
      /\ UNCHANGED <<stm, events, posted, dispatching>>
      /\ ~dispatching /\ Phase = "loop"
  BY DEF StartResult, LoopStart, stmVars, At, Phase, PhaseOf
<1>2. (calls' = <<>> /\ loopId' = c) \/ calls' = <<Op("fail", 0)>> \o Finish
  <2>1. ASSUME ok PROVE loopId' = c
    <3>1. c \in Clients /\ result \in [Clients -> Results]
      BY <1>0 DEF TypeInv, LoopInv, LoopTypeOK
    <3>2. preLoopStep(c, ok) = "Pending"
      BY <2>1 DEF preLoopStep
    <3>3. result'[c] = "Pending"
      BY <3>1, <3>2 DEF StartResult, LoopStart
    <3> QED BY <3>3 DEF StartResult, LoopStart
  <2> QED BY <2>1 DEF StartResult
<1>3. /\ calls' \in Shapes /\ Phase' \in {"idle", "fail"}
      /\ Phase' = "idle" => loopId' # Unknown
  BY <1>0, <1>2, ShapePhase DEF Phase
<1>4. stm # "Invalid"
  <2>1. calls # <<>>
    BY DEF At
  <2> QED BY <2>1 DEF BackingInv, AwakeInv
<1>5. CallInv'
  BY <1>1, <1>3 DEF CallInv
<1>6. FreshInv' /\ AwakeInv'
  BY <1>1, <1>3, <1>4, BetweenKeeps
<1>7. \A d : Has(clientList', d) => Has(clientList, d)
  BY <1>0, <1>1, ListTail
<1>8. Has(clientList, c)
  BY <1>0, ListTail
<1>9. ListInv'
  <2>1. ASSUME c = "Connect" PROVE clientList' = <<>>
    BY <1>0, <1>1, <1>8, <2>1, LastTail DEF BackingInv, ListInv
  <2>2. ASSUME Has(clientList', "Connect")
        PROVE  stm' \in {"WaitForConnect", "Error", "Initial"}
               /\ ~client'.isconnected /\ LastOnly(clientList')
    <3>1. /\ stm \in {"WaitForConnect", "Error", "Initial"}
          /\ ~client.isconnected /\ LastOnly(clientList)
      BY <1>0, <1>7, <2>2 DEF BackingInv, ListInv
    <3> QED BY <1>0, <1>1, <3>1, LastTail
  <2>3. "Connect" \in Clients
    BY StmAssumption
  <2> QED BY <1>0, <1>1, <2>1, <2>2, <2>3 DEF ListInv
<1>10. \A e : Coming(e)' <=> Coming(e)
  BY <1>1, ComingSame
<1>11. BackedInv'
  <2>0. {"Connect", "Disconnect"} \subseteq Clients
    BY StmAssumption
  <2>1. ASSUME stm = "Connected"
        PROVE  ~Queued("Connect")' /\ ~Queued("Disconnect")'
    <3>1. ~Has(clientList, "Connect") /\ ~Has(clientList, "Disconnect")
      BY <2>1 DEF BackingInv, BackedInv, Queued
    <3>2. c # "Connect" /\ c # "Disconnect"
      BY <1>8, <3>1
    <3> QED BY <1>0, <1>1, <1>7, <2>0, <3>1, <3>2 DEF Queued
  <2>2. ~(stm = "WaitForConnect" /\ Coming("ConnectedEv"))
    BY <1>0 DEF BackingInv, BackedInv
  <2>3. ASSUME stm = "WaitForAttach" PROVE loopId' # "Connect"
    <3>1. c # "Connect"
      BY <1>0, <1>8, <2>3 DEF BackingInv, ListInv
    <3> QED BY <1>0, <1>1, <2>0, <3>1
  <2> QED BY <1>1, <1>10, <2>1, <2>2, <2>3 DEF BackingInv, BackedInv, Backed
<1> QED BY <1>5, <1>6, <1>9, <1>11 DEF BackingInv

\* The hooked client is one of the library, and its id is the one noted.
LEMMA HookedClient ==
  ASSUME TypeInv, loopClient # Unknown
  PROVE  loopId = loopClient /\ loopClient \in Clients /\ loopClient # Unknown
  BY DEF TypeInv, LoopInv, LoopTypeOK, HookedIsPending

\* The hooked client is done: a CONNECT that succeeds connects, and a client
\* that disconnects is not hooked in Connected.
LEMMA EndKeeps ==
  ASSUME TypeInv, BackingInv, ~dispatching, stm # "Invalid",
         NEW c \in Clients, NEW ok \in BOOLEAN, NEW rc \in {0, 1, 2},
         StepEnd(c, ok), StepResult(ok, rc),
         UNCHANGED <<breakFlag, stm, events, dispatching, net>>,
         UNCHANGED posted \/ postEvent("Attached"),
         c = "Connect" /\ ok => net,
         \/ client'.isconnected = client.isconnected
         \/ c = "Disconnect" /\ client'.isconnected = FALSE
         \/ c = "Connect"
  PROVE  BackingInv'
<1>0. c # Unknown /\ Unknown \notin Clients /\ loopClient = c
  BY LoopAssumption DEF StepEnd
<1>1. /\ loopId = c /\ loopClient' = Unknown /\ loopId' = c
      /\ UNCHANGED <<clientList, breakFlag>>
  BY <1>0, HookedClient DEF StepEnd
<1>2. /\ calls' \in Shapes /\ Phase' \in {"done", "fail"}
      /\ Phase' = "done" => ok
  <2>1. ok => calls' = <<Op("done", 0)>>
    BY DEF StepResult
  <2>2. ~ok => calls' = <<Op("fail", rc)>> \o Finish
    BY DEF StepResult
  <2> QED BY <2>1, <2>2, ShapePhase DEF Phase
<1>3. CallInv'
  BY <1>0, <1>1, <1>2 DEF CallInv
<1>4. FreshInv' /\ AwakeInv'
  BY <1>2, BetweenKeeps
<1>5. ListInv'
  BY <1>1, <1>0, ListOne DEF BackingInv, ListInv
<1>6. \A e \in {"Disconnect", "ConnectedEv"} : Coming(e)' <=> Coming(e)
  <2>1. CASE UNCHANGED posted
    BY <2>1, ComingSame
  <2>2. CASE postEvent("Attached")
    <3>1. "Attached" \in Events
      BY DEF Events
    <3> QED BY <2>2, <3>1, ComingPosted
  <2> QED BY <2>1, <2>2
<1>7. BackedInv'
  <2>1. ASSUME stm = "Connected"
        PROVE  /\ (Coming("Disconnect") \/ Backed)'
               /\ ~Queued("Connect")' /\ ~Queued("Disconnect")'
    <3>1. /\ Coming("Disconnect") \/ Backed
          /\ ~Queued("Connect") /\ ~Queued("Disconnect")
      BY <2>1 DEF BackingInv, BackedInv
    <3>2. c # "Connect" /\ c # "Disconnect"
      BY <1>1, <3>1 DEF Queued
    <3> QED BY <1>1, <1>6, <3>1, <3>2 DEF Queued, Backed
  <2>2. ~(stm = "WaitForConnect" /\ Coming("ConnectedEv"))
    BY <1>0 DEF BackingInv, BackedInv
  <2>3. stm = "WaitForAttach" => ~Coming("ConnectedEv") /\ loopId # "Connect"
    BY DEF BackingInv, BackedInv
  <2> QED BY <1>1, <1>6, <2>1, <2>2, <2>3 DEF BackedInv
<1> QED BY <1>3, <1>4, <1>5, <1>7 DEF BackingInv

\* nbiotLoop() has nothing to do.
LEMMA NothingKeeps ==
  ASSUME TypeInv, BackingInv, LoopNothing
  PROVE  BackingInv'
<1>1. /\ clientList' = <<>> /\ loopClient' = Unknown /\ loopId' = Unknown
      /\ UNCHANGED <<stm, events, posted, dispatching, client, net>>
      /\ ~dispatching /\ calls # <<>> /\ calls' = Finish
  BY DEF LoopNothing, LoopIdle, clear, LoopTurn, At, stmVars
<1>2. calls' \in Shapes /\ Phase' = "dispatch"
  BY <1>1, ShapePhase DEF Phase
<1>3. stm # "Invalid"
  BY <1>1 DEF BackingInv, AwakeInv
<1>0. {"Connect", "Disconnect"} \subseteq Clients /\ Unknown \notin Clients
  BY StmAssumption, LoopAssumption
<1>4. CallInv'
  BY <1>0, <1>1, <1>2 DEF CallInv
<1>5. FreshInv' /\ AwakeInv'
  BY <1>1, <1>2, <1>3, BetweenKeeps
<1>6. ListInv'
  BY <1>0, <1>1, ListOne DEF ListInv
<1>7. \A e : Coming(e)' <=> Coming(e)
  BY <1>1, ComingSame
<1>8. ~Queued("Connect")' /\ ~Queued("Disconnect")'
  BY <1>0, <1>1, ListOne DEF Queued
<1>9. BackedInv'
  BY <1>0, <1>1, <1>7, <1>8 DEF BackingInv, BackedInv, Backed
<1> QED BY <1>4, <1>5, <1>6, <1>9 DEF BackingInv

\* After a failure everything is dropped; the socket is closed only when a
\* DISCONNECT could not be sent.
LEMMA FailKeeps ==
  ASSUME TypeInv, BackingInv, EventLoopFail
  PROVE  BackingInv'
<1>1. /\ clientList' = <<>> /\ loopClient' = Unknown /\ loopId' = Unknown
      /\ UNCHANGED <<stm, events, dispatching, client>>
      /\ ~dispatching /\ calls # <<>> /\ calls' = Tail(calls) /\ Phase = "fail"
      /\ loopId # "Disconnect" => UNCHANGED net
      /\ UNCHANGED posted \/ postEvent("Disconnect")
  BY DEF EventLoopFail, clear, At, Phase, PhaseOf
<1>2. calls' \in Shapes /\ Phase' = "dispatch"
  <2>1. calls' = Finish
    BY <1>1, ShapeTail DEF Phase, BackingInv, CallInv
  <2> QED BY <2>1, ShapePhase DEF Phase
<1>3. stm # "Invalid"
  BY <1>1 DEF BackingInv, AwakeInv
<1>0. {"Connect", "Disconnect"} \subseteq Clients /\ Unknown \notin Clients
  BY StmAssumption, LoopAssumption
<1>4. CallInv'
  BY <1>0, <1>1, <1>2 DEF CallInv
<1>5. FreshInv' /\ AwakeInv'
  BY <1>1, <1>2, <1>3, BetweenKeeps
<1>6. ListInv'
  BY <1>0, <1>1, ListOne DEF ListInv
<1>7. /\ Coming("Disconnect") => Coming("Disconnect")'
      /\ Coming("ConnectedEv")' <=> Coming("ConnectedEv")
  <2>1. CASE UNCHANGED posted
    BY <1>1, <2>1, ComingSame
  <2>2. CASE postEvent("Disconnect")
    <3>1. "Disconnect" \in Events
      BY DEF Events
    <3> QED BY <1>1, <2>2, <3>1, ComingPosted
  <2> QED BY <1>1, <2>1, <2>2
<1>8. ~Queued("Connect")' /\ ~Queued("Disconnect")'
  BY <1>0, <1>1, ListOne DEF Queued
<1>9. BackedInv'
  <2>1. stm = "Connected" => loopId # "Disconnect"
    BY DEF BackingInv, BackedInv, Queued
  <2>2. stm = "WaitForConnect" /\ Coming("ConnectedEv") => loopId # "Disconnect"
    BY <1>0 DEF BackingInv, BackedInv
  <2> QED BY <1>0, <1>1, <1>7, <1>8, <2>1, <2>2 DEF BackingInv, BackedInv, Backed
<1> QED BY <1>4, <1>5, <1>6, <1>9 DEF BackingInv

\* The result of a client is applied: a CONNECT that succeeded posts a
\* ConnectedEv, and nothing is queued behind it.
LEMMA DoneKeeps ==
  ASSUME TypeInv, BackingInv, EventLoopDone
  PROVE  BackingInv'
<1>1. /\ UNCHANGED <<clientList, loopClient, loopId>>
      /\ UNCHANGED <<stm, events, dispatching, client>>
      /\ ~dispatching /\ calls # <<>> /\ calls' = <<>> /\ Phase = "done"
      /\ loopId # "Disconnect" => UNCHANGED <<net, breakFlag>>
      /\ IF loopId = "Connect" /\ client.isconnected
         THEN postEvent("ConnectedEv") ELSE UNCHANGED posted
  BY DEF EventLoopDone, At, Phase, PhaseOf, finishDisconnect, loopBreak,
     loopVars, postEvent
<1>2. calls' \in Shapes /\ Phase' = "idle"
  BY <1>1, ShapePhase DEF Phase
<1>3. /\ stm # "Invalid" /\ loopId # Unknown /\ loopClient = Unknown
      /\ loopId = "Connect" => net /\ clientList = <<>>
  BY <1>1 DEF BackingInv, AwakeInv, CallInv, ListInv
<1>b. breakFlag /\ breakFlag \in BOOLEAN => breakFlag'
  BY DEF EventLoopDone, finishDisconnect, loopBreak, loopVars
<1>0. /\ {"Connect", "Disconnect"} \subseteq Clients /\ Unknown \notin Clients
      /\ breakFlag \in BOOLEAN
  BY StmAssumption, LoopAssumption DEF TypeInv, LoopInv, LoopTypeOK
<1>4. CallInv'
  BY <1>1, <1>2 DEF CallInv
<1>5. FreshInv' /\ AwakeInv'
  BY <1>1, <1>2, <1>3, BetweenKeeps
<1>6. ListInv'
  BY <1>0, <1>b, <1>1 DEF BackingInv, ListInv
<1>7. /\ Coming("Disconnect") => Coming("Disconnect")'
      /\ \/ Coming("ConnectedEv")' <=> Coming("ConnectedEv")
         \/ loopId = "Connect" /\ client.isconnected
  <2>1. CASE UNCHANGED posted
    BY <1>1, <2>1, ComingSame
  <2>2. CASE loopId = "Connect" /\ client.isconnected /\ postEvent("ConnectedEv")
    <3>1. "ConnectedEv" \in Events
      BY DEF Events
    <3> QED BY <1>1, <2>2, <3>1, ComingPosted
  <2> QED BY <1>1, <2>1, <2>2
<1>8. \A c : Queued(c)' <=> Queued(c)
  BY <1>1 DEF Queued
<1>9. BackedInv'
  <2>1. stm = "Connected" => loopId # "Disconnect"
    BY DEF BackingInv, BackedInv, Queued
  <2>2. stm = "WaitForConnect" /\ Coming("ConnectedEv") => loopId # "Disconnect"
    BY <1>0 DEF BackingInv, BackedInv
  <2>3. ASSUME stm = "Connected"
        PROVE  /\ (Coming("Disconnect") \/ Backed)'
               /\ ~Queued("Connect")' /\ ~Queued("Disconnect")'
    BY <1>1, <1>7, <1>8, <2>1, <2>3 DEF BackingInv, BackedInv, Backed
  <2>4. ASSUME stm = "WaitForConnect", Coming("ConnectedEv")'
        PROVE  /\ Backed' /\ clientList' = <<>>
               /\ loopClient' = Unknown /\ loopId' \in {Unknown, "Connect"}
    <3>1. CASE Coming("ConnectedEv")
      BY <1>1, <2>2, <2>4, <3>1 DEF BackingInv, BackedInv, Backed
    <3>2. CASE loopId = "Connect" /\ client.isconnected
      BY <1>1, <1>3, <3>2 DEF Backed
    <3> QED BY <1>7, <2>4, <3>1, <3>2
  <2>5. ASSUME stm = "WaitForAttach"
        PROVE  ~Coming("ConnectedEv")' /\ loopId' # "Connect"
    BY <1>1, <1>7, <2>5 DEF BackingInv, BackedInv
  <2> QED BY <1>1, <2>3, <2>4, <2>5 DEF BackedInv
<1> QED BY <1>4, <1>5, <1>6, <1>9 DEF BackingInv

\* dispatch() is entered: a Connect finds nothing posted, and no client of a
\* CONNECT is under way.
LEMMA DispatchKeeps ==
  ASSUME TypeInv, BackingInv, ~dispatching, stm # "Invalid",
         NEW es \in Seq(Events), Dispatch(es),
         HasNone(es, {"Sleep", "Hibernate"}), HasNone(es, {"ConnectedEv"}),
         Has(es, "Connect") => posted = <<>>,
         calls' \in Shapes, Phase' \in {"idle", "loop", "autopoll"},
         Phase' = "autopoll" => loopId = Unknown,
         loopId # "Connect",
         UNCHANGED <<loopClient, loopId, breakFlag, net>>,
         \/ UNCHANGED clientList
         \/ stm = "Connected" /\ clientList' = clientList \o <<"Register">>,
         \/ client'.isconnected = client.isconnected
         \/ /\ stm = "Connected" /\ Has(es, "Disconnect")
            /\ client'.isconnected = FALSE
  PROVE  BackingInv'
<1>0. /\ clientList \in Seq(Clients)
      /\ {"Connect", "Disconnect", "Register"} \subseteq Clients
  BY StmAssumption DEF TypeInv, LoopInv, LoopTypeOK
<1>1. /\ dispatching' /\ UNCHANGED <<stm, posted>>
      /\ \A S : HasNone(events, S) /\ HasNone(es, S) /\ "Timer" \notin S =>
                  HasNone(events', S)
      /\ \A e : Has(events, e) \/ Has(es, e) => Has(events', e)
      /\ HasNone(events, {"Connect"}) /\ HasNone(es, {"ConnectedEv"}) =>
           Order(events')
  BY DispatchSome
<1>2. HasNone(events, {"Connect"}) /\ HasNone(events, {"Sleep", "Hibernate"})
  BY DEF BackingInv, FreshInv, AwakeInv
<1>3. CallInv'
  BY <1>1 DEF CallInv
<1>4. FreshInv'
  <2>1. Order(events')
    BY <1>1, <1>2
  <2>2. ASSUME Has(events', "Connect") PROVE HasNone(posted', {"ConnectedEv"})
    <3>1. ~HasNone(events', {"Connect"})
      BY <2>2, HasOf
    <3>2. ~HasNone(es, {"Connect"})
      BY <1>1, <1>2, <3>1
    <3>3. posted' = <<>>
      BY <1>1, <3>2, HasOf
    <3> QED BY <3>3, HasNoneEmpty
  <2> QED BY <1>1, <2>1, <2>2 DEF FreshInv
<1>5. AwakeInv'
  <2>1. HasNone(events', {"Sleep", "Hibernate"})
    BY <1>1, <1>2
  <2>2. stm' \in Awake /\ stm' # "Invalid"
    BY <1>1 DEF BackingInv, AwakeInv
  <2> QED BY <2>1, <2>2 DEF AwakeInv
<1>6. \A e : Coming(e) \/ Has(es, e) => Coming(e)'
  BY <1>1 DEF Coming
<1>7. Coming("ConnectedEv")' => Coming("ConnectedEv")
  <2>1. HasNone(events, {"ConnectedEv"}) => HasNone(events', {"ConnectedEv"})
    BY <1>1
  <2>2. Has(events', "ConnectedEv") => Has(events, "ConnectedEv")
    BY <2>1, HasOf
  <2> QED BY <1>1, <2>2 DEF Coming
<1>8. \A c \in {"Connect", "Disconnect"} : Has(clientList', c) => Has(clientList, c)
  <2>1. CASE UNCHANGED clientList
    BY <2>1
  <2>2. CASE clientList' = clientList \o <<"Register">>
    <3>1. <<"Register">> \in Seq(Clients)
      BY <1>0
    <3> QED BY <1>0, <2>2, <3>1, ListConcat, ListOne
  <2> QED BY <2>1, <2>2
<1>9. stm = "Connected" => /\ ~Has(clientList, "Connect")
                           /\ ~Has(clientList, "Disconnect")
                           /\ loopId # "Disconnect"
                           /\ Coming("Disconnect") \/ Backed
  BY DEF BackingInv, BackedInv, Queued
<1>10. ListInv'
  <2>1. loopId' # "Connect"
    OBVIOUS
  <2>2. ASSUME ~breakFlag', Has(clientList', "Connect")
        PROVE  /\ stm' \in {"WaitForConnect", "Error", "Initial"}
               /\ ~client'.isconnected /\ LastOnly(clientList')
    <3>1. Has(clientList, "Connect") /\ ~breakFlag
      BY <1>8, <2>2
    <3>2. clientList' = clientList
      BY <1>9, <3>1
    <3>3. /\ stm \in {"WaitForConnect", "Error", "Initial"}
          /\ ~client.isconnected /\ LastOnly(clientList)
      BY <3>1 DEF BackingInv, ListInv
    <3> QED BY <1>1, <3>2, <3>3
  <2> QED BY <2>1, <2>2 DEF ListInv
<1>11. BackedInv'
  <2>1. ASSUME stm = "Connected"
        PROVE  /\ (Coming("Disconnect") \/ Backed)'
               /\ ~Queued("Connect")' /\ ~Queued("Disconnect")'
    <3>1. ~Queued("Connect")' /\ ~Queued("Disconnect")'
      BY <1>8, <1>9, <2>1 DEF Queued
    <3>2. (Coming("Disconnect") \/ Backed)'
      BY <1>6, <1>9, <2>1 DEF Backed
    <3> QED BY <3>1, <3>2
  <2>2. ASSUME stm = "WaitForConnect", Coming("ConnectedEv")
        PROVE  /\ clientList' = <<>> /\ loopClient' = Unknown
               /\ loopId' \in {Unknown, "Connect"}
               /\ client.isconnected /\ net'
    BY <2>2 DEF BackingInv, BackedInv, Backed
  <2>3. stm = "WaitForAttach" => ~Coming("ConnectedEv")
    BY DEF BackingInv, BackedInv
  <2>4. ASSUME stm = "WaitForConnect" PROVE client'.isconnected = client.isconnected
    BY <2>4
  <2> QED BY <1>1, <1>7, <2>1, <2>2, <2>3, <2>4 DEF BackedInv, Backed
<1> QED BY <1>3, <1>4, <1>5, <1>10, <1>11 DEF BackingInv

\* A step that changes neither the machine and its events, nor the list, the
\* connection and the calls.
LEMMA StillKeeps ==
  ASSUME BackingInv, UNCHANGED <<stm, events, posted, dispatching, calls>>,
         UNCHANGED loopVars, UNCHANGED <<pool, client, net>>
  PROVE  BackingInv'
<1>1. UNCHANGED <<clientList, loopClient, loopId, breakFlag>> /\ Phase' = Phase
  BY DEF loopVars, Phase
<1>2. CallInv'
  BY <1>1 DEF BackingInv, CallInv
<1>3. FreshInv' /\ AwakeInv'
  BY <1>1 DEF BackingInv, FreshInv, AwakeInv
<1>4. ListInv'
  BY <1>1 DEF BackingInv, ListInv
<1>5. BackedInv'
  BY <1>1 DEF BackingInv, BackedInv, Backed, Coming, Queued
<1> QED BY <1>2, <1>3, <1>4, <1>5 DEF BackingInv

\* An API function of such an application is called when nothing is under
\* way.
LEMMA PlainCall ==
  ASSUME PlainUse, BackingInv, NEW f, API(f)
  PROVE  /\ ~dispatching /\ calls = <<>> /\ Phase = "idle"
         /\ loopId = Unknown /\ posted = <<>>
         /\ f \notin {"sleep", "hibernate", "wakeup"}
         /\ Return = LoopOnly /\ ~isSleeping
<1>1. ~dispatching /\ calls = <<>> /\ loopId = Unknown
  BY DEF API, Idle, PlainUse
<1>2. Phase = "idle"
  BY <1>1 DEF Phase, PhaseOf
<1>3. posted = <<>>
  BY <1>1, <1>2 DEF BackingInv, FreshInv
<1>4. f \in Calls /\ Calls \cap {"sleep", "hibernate", "wakeup"} = {}
  BY DEF API, PlainUse
<1>5. Return = LoopOnly
  BY DEF Return, LoopOnly, PlainUse
<1>6. ~isSleeping
  BY DEF BackingInv, AwakeInv, Awake, isSleeping
<1> QED BY <1>1, <1>2, <1>3, <1>4, <1>5, <1>6

\* What connect() and disconnect() send.
LEMMA SentEvents ==
  /\ <<"Connect">> \in Seq(Events) /\ <<"Disconnect">> \in Seq(Events)
  /\ <<>> \in Seq(Events)
  /\ \A e \in {"Connect", "Disconnect"} :
       /\ HasNone(<<e>>, {"Sleep", "Hibernate"}) /\ HasNone(<<e>>, {"ConnectedEv"})
       /\ Has(<<e>>, e)
  /\ ~Has(<<"Disconnect">>, "Connect")
<1>1. "Connect" \in Events /\ "Disconnect" \in Events
  BY DEF Events
<1>2. \A e \in {"Connect", "Disconnect"} :
       /\ HasNone(<<e>>, {"Sleep", "Hibernate"}) /\ HasNone(<<e>>, {"ConnectedEv"})
  BY HasNoneOne
<1>3. \A e \in {"Connect", "Disconnect"} : Has(<<e>>, e)
  BY DEF Has
<1>4. ~Has(<<"Disconnect">>, "Connect")
  BY ListOne
<1>5. <<"Connect">> \in Seq(Events) /\ <<"Disconnect">> \in Seq(Events)
      /\ <<>> \in Seq(Events)
  BY <1>1
<1> QED BY <1>2, <1>3, <1>4, <1>5

\* A Disconnect is sent in Connected, whatever is left to do after it.
LEMMA DisconnectSent ==
  ASSUME TypeInv, BackingInv, ~dispatching, stm = "Connected",
         NEW rest \in {<<>>, LoopOnly}, SendThen("Disconnect", rest),
         UNCHANGED <<loopClient, loopId, breakFlag, net>>,
         \/ UNCHANGED clientList
         \/ clientList' = clientList \o <<"Register">>,
         \/ client'.isconnected = client.isconnected
         \/ client'.isconnected = FALSE
  PROVE  BackingInv'
<1>1. Dispatch(<<"Disconnect">>) /\ calls' = rest
  BY DEF SendThen
<1>2. calls' \in Shapes /\ Phase' \in {"idle", "loop"}
  BY <1>1, ShapePhase DEF Phase
<1>3. loopId # "Connect"
  BY DEF BackingInv, BackedInv, Queued
<1> DEFINE es == <<"Disconnect">>
<1>4. /\ es \in Seq(Events) /\ Dispatch(es)
      /\ HasNone(es, {"Sleep", "Hibernate"}) /\ HasNone(es, {"ConnectedEv"})
      /\ ~Has(es, "Connect") /\ Has(es, "Disconnect")
  BY <1>1, SentEvents
<1> HIDE DEF es
<1> QED BY <1>2, <1>3, <1>4, DispatchKeeps

\* Neither a subscription, a poll nor a publication adds a client that
\* connects or disconnects.
LEMMA AddedClients ==
  /\ \A c \in {"Subscribe", "Unsubscribe", "Yield"} :
       /\ <<c>> \in Seq(Clients)
       /\ ~Has(<<c>>, "Connect") /\ ~Has(<<c>>, "Disconnect")
  /\ \A p \in {<<>>, <<"Register">>} :
       /\ p \o <<"Publish", "Yield">> \in Seq(Clients)
       /\ ~Has(p \o <<"Publish", "Yield">>, "Connect")
       /\ ~Has(p \o <<"Publish", "Yield">>, "Disconnect")
<1>1. {"Subscribe", "Unsubscribe", "Yield", "Register", "Publish"} \subseteq Clients
  BY StmAssumption
<1>2. ASSUME NEW c \in {"Subscribe", "Unsubscribe", "Yield"}
      PROVE  /\ <<c>> \in Seq(Clients)
             /\ ~Has(<<c>>, "Connect") /\ ~Has(<<c>>, "Disconnect")
  <2>1. c \in Clients /\ c # "Connect" /\ c # "Disconnect"
    BY <1>1
  <2>2. <<c>> \in Seq(Clients)
    BY <2>1
  <2> QED BY <2>1, <2>2, ListOne
<1>3. \A d \in {"Connect", "Disconnect"} :
        /\ ~Has(<<"Publish", "Yield">>, d)
        /\ ~Has(<<"Register">>, d) /\ ~Has(<<>>, d)
  BY DEF Has
<1>4. <<"Publish", "Yield">> \in Seq(Clients) /\ <<"Register">> \in Seq(Clients)
      /\ <<>> \in Seq(Clients)
  BY <1>1
<1>5. ASSUME NEW p \in {<<>>, <<"Register">>}
      PROVE  /\ p \o <<"Publish", "Yield">> \in Seq(Clients)
             /\ ~Has(p \o <<"Publish", "Yield">>, "Connect")
             /\ ~Has(p \o <<"Publish", "Yield">>, "Disconnect")
  <2>1. /\ p \in Seq(Clients)
        /\ \A d \in {"Connect", "Disconnect"} : ~Has(p, d)
    BY <1>3, <1>4
  <2> DEFINE q == <<"Publish", "Yield">>
  <2>2. q \in Seq(Clients) /\ \A d \in {"Connect", "Disconnect"} : ~Has(q, d)
    BY <1>3, <1>4
  <2> HIDE DEF q
  <2>3. p \o q \in Seq(Clients)
    BY <2>1, <2>2
  <2>4. ~Has(p \o q, "Connect") /\ ~Has(p \o q, "Disconnect")
    BY <2>1, <2>2, ListConcat
  <2> QED BY <2>3, <2>4 DEF q
<1> QED BY <1>2, <1>5

\* The calls of the application; sleeping and waking up are excluded.
LEMMA ApplicationBacking ==
  ASSUME PlainUse, TypeInv, BackingInv,
         Application \/ eventLoop \/ eventLoopAsleep
  PROVE  BackingInv'
<1>0. client \in ClientRecs
  BY DEF TypeInv, ClientTypes
<1>m. stm \in Awake /\ (stm = "Invalid" => ~pool.initialized)
  BY DEF BackingInv, AwakeInv
<1>1. ASSUME NEW c \in {0, 1}, connect(c) PROVE BackingInv'
  <2>1. /\ ~dispatching /\ loopId = Unknown /\ posted = <<>>
        /\ Return = LoopOnly /\ ~isSleeping
    BY <1>1, PlainCall DEF connect
  <2>2. /\ Dispatch(<<"Connect">>) /\ calls' = LoopOnly
        /\ UNCHANGED <<loopVars, client, net>> /\ pool.initialized
    BY <1>1, <2>1 DEF connect, SendThen
  <2>3. stm # "Invalid" /\ UNCHANGED <<clientList, loopClient, loopId, breakFlag>>
    BY <1>m, <2>2 DEF loopVars
  <2>4. calls' \in Shapes /\ Phase' = "loop"
    BY <2>2, ShapePhase DEF Phase
  <2>5. loopId # "Connect"
    BY <2>1, StmAssumption, LoopAssumption
  <2> DEFINE es == <<"Connect">>
  <2>6. /\ es \in Seq(Events) /\ Dispatch(es)
        /\ HasNone(es, {"Sleep", "Hibernate"}) /\ HasNone(es, {"ConnectedEv"})
    BY <2>2, SentEvents
  <2> HIDE DEF es
  <2> QED BY <2>1, <2>2, <2>3, <2>4, <2>5, <2>6, DispatchKeeps
<1>2. ASSUME NEW t \in Topics, publish(t) PROVE BackingInv'
  <2>1. /\ ~dispatching /\ loopId = Unknown
        /\ Return = LoopOnly /\ ~isSleeping
    BY <1>2, PlainCall DEF publish
  <2>2. /\ stm = "Connected" /\ calls' = <<Op("publish", t)>> \o LoopOnly
        /\ UNCHANGED <<stmVars, loopVars, client, net>>
    BY <1>2, <2>1 DEF publish
  <2>3. calls' \in Shapes /\ Phase' = "publish"
    BY <2>2, ShapePhase DEF Phase
  <2> QED BY <2>1, <2>2, <2>3, PauseKeeps DEF stmVars
<1>3. ASSUME NEW t \in Topics, subscribe(t) PROVE BackingInv'
  <2>1. /\ ~dispatching /\ loopId = Unknown /\ Return = LoopOnly
    BY <1>3, PlainCall DEF subscribe
  <2>2. /\ stm = "Connected" /\ calls' = LoopOnly
        /\ UNCHANGED <<stmVars, client, net>>
        /\ RegisterLoopClients(<<"Subscribe">>) \/ UNCHANGED loopVars
    BY <1>3, <2>1 DEF subscribe, loopSubscribe
  <2>3. calls' \in Shapes /\ Phase' = "loop"
    BY <2>2, ShapePhase DEF Phase
  <2>4. CASE UNCHANGED loopVars
    BY <2>1, <2>2, <2>3, <2>4, PauseKeeps DEF stmVars
  <2>5. CASE RegisterLoopClients(<<"Subscribe">>)
    BY <2>1, <2>2, <2>5, AddedClients, AddKeeps
  <2> QED BY <2>2, <2>4, <2>5
<1>4. ASSUME NEW t \in Topics, unsubscribe(t) PROVE BackingInv'
  <2>1. /\ ~dispatching /\ loopId = Unknown /\ Return = LoopOnly
    BY <1>4, PlainCall DEF unsubscribe
  <2>2. /\ stm = "Connected" /\ calls' = LoopOnly
        /\ UNCHANGED <<stmVars, net>>
        /\ RegisterLoopClients(<<"Unsubscribe">>)
        /\ client' = [client EXCEPT !.sendbuf = Packet("UNSUBSCRIBE", t)]
    BY <1>4, <2>1 DEF unsubscribe, loopUnsubscribe
  <2>3. client'.isconnected = client.isconnected
    BY <1>0, <2>2 DEF ClientRecs
  <2> QED BY <2>1, <2>2, <2>3, AddedClients, AddKeeps
<1>5. CASE disconnect
  <2>1. /\ ~dispatching /\ loopId = Unknown
        /\ Return = LoopOnly /\ ~isSleeping
    BY <1>5, PlainCall DEF disconnect
  <2>2. /\ stm = "Connected" /\ SendThen("Disconnect", LoopOnly)
        /\ UNCHANGED <<loopVars, client, net>>
    BY <1>5, <2>1 DEF disconnect
  <2> QED BY <2>1, <2>2, DisconnectSent DEF loopVars
<1>6. ASSUME NEW d \in Durations, sleep(d) \/ hibernate(d) PROVE FALSE
  BY <1>6, PlainCall DEF sleep, hibernate
<1>7. ~wakeup
  BY PlainCall DEF wakeup
<1>8. CASE poll
  <2>1. /\ ~dispatching /\ loopId = Unknown
        /\ Return = LoopOnly /\ ~isSleeping
    BY <1>8, PlainCall DEF poll
  <2>2. /\ stm = "Connected" /\ calls' = <<Op("yield", 0)>> \o LoopOnly
        /\ UNCHANGED <<stmVars, loopVars, client, net>>
    BY <1>8, <2>1 DEF poll
  <2>3. calls' \in Shapes /\ Phase' = "yield"
    BY <2>2, ShapePhase DEF Phase
  <2> QED BY <2>1, <2>2, <2>3, PauseKeeps DEF stmVars
<1>9. CASE eventLoop
  <2>1. /\ ~dispatching /\ stm # "Invalid" /\ calls' = LoopOnly
        /\ UNCHANGED <<stmVars, loopVars, client, net>>
    BY <1>9 DEF eventLoop, Idle, LoopOnly
  <2>2. calls' \in Shapes /\ Phase' = "loop"
    BY <2>1, ShapePhase DEF Phase
  <2> QED BY <2>1, <2>2, PauseKeeps DEF stmVars
<1>10. ~eventLoopAsleep
  BY <1>m DEF eventLoopAsleep, Awake
<1> QED BY <1>1, <1>2, <1>3, <1>4, <1>5, <1>6, <1>7, <1>8, <1>9, <1>10
        DEF Application

\* What is being done is one of the shapes' operations.
LEMMA AtPhase ==
  ASSUME BackingInv, NEW o, At(o)
  PROVE  /\ ~dispatching /\ calls # <<>> /\ Phase = o /\ o \in Phases
         /\ stm # "Invalid"
<1>1. ~dispatching /\ calls # <<>> /\ Phase = o
  BY DEF At, Phase, PhaseOf
<1>2. Phase \in Phases
  BY ShapeTail DEF BackingInv, CallInv, Phase
<1>3. stm # "Invalid"
  BY <1>1 DEF BackingInv, AwakeInv
<1> QED BY <1>1, <1>2, <1>3

\* The clients that publish() queues in Connected.
LEMMA PublishBacking ==
  ASSUME TypeInv, BackingInv, PublishBody
  PROVE  BackingInv'
<1>0. client \in ClientRecs
  BY DEF TypeInv, ClientTypes
<1>1. ~dispatching /\ calls # <<>> /\ Phase = "publish" /\ stm # "Invalid"
  BY AtPhase DEF PublishBody
<1>2. /\ stm = "Connected" /\ loopId = Unknown /\ Tail(calls) = LoopOnly
      /\ UNCHANGED net
  BY <1>1, ShapeTail DEF BackingInv, CallInv, Phase, PublishBody
<1> DEFINE t     == Head(calls).arg
           known == pool.registry[t] # {}
           p     == [pool EXCEPT !.errno = "Success", !.topicid = NoTopic]
           q     == Selected(t, [p EXCEPT !.registry[t] = IF known THEN @ \cup {"PUB"} ELSE @])
           first == IF known THEN <<>> ELSE <<"Register">>
           sent  == IF known THEN client
                    ELSE [client EXCEPT !.sendbuf = Packet("REGISTER", t)]
<1>3. \/ calls' = Tail(calls) /\ UNCHANGED <<loopVars, stmVars, pool, client>>
      \/ PublishFails(p, "MaxTopicsExceeded") /\ UNCHANGED <<loopVars, client>>
      \/ /\ client' = sent
         /\ \/ /\ RegisterLoopClients(first \o <<"Publish", "Yield">>)
               /\ calls' = Tail(calls) /\ UNCHANGED stmVars
            \/ RegisterLoopClients(first) /\ PublishFails(q, "ConnectionError")
  BY DEF PublishBody
<1>4. first \in {<<>>, <<"Register">>}
  OBVIOUS
<1>5. sent.isconnected = client.isconnected
  BY <1>0 DEF ClientRecs
<1> HIDE DEF p, q, first, sent
<1>6. CASE calls' = Tail(calls) /\ UNCHANGED <<loopVars, stmVars, pool, client>>
  <2>1. calls' \in Shapes /\ Phase' = "loop"
    BY <1>2, <1>6, ShapePhase DEF Phase
  <2> QED BY <1>1, <1>2, <1>6, <2>1, PauseKeeps DEF stmVars
<1>7. \A r, e : PublishFails(r, e) => SendThen("Disconnect", LoopOnly)
  BY <1>2 DEF PublishFails
<1>8. CASE PublishFails(p, "MaxTopicsExceeded") /\ UNCHANGED <<loopVars, client>>
  BY <1>1, <1>2, <1>7, <1>8, DisconnectSent DEF loopVars
<1>9. CASE /\ client' = sent
           /\ RegisterLoopClients(first \o <<"Publish", "Yield">>)
           /\ calls' = Tail(calls) /\ UNCHANGED stmVars
  <2> DEFINE cs == first \o <<"Publish", "Yield">>
  <2>1. /\ cs \in Seq(Clients) /\ ~Has(cs, "Connect") /\ ~Has(cs, "Disconnect")
    BY <1>4, AddedClients
  <2>2. RegisterLoopClients(cs)
    BY <1>9
  <2> HIDE DEF cs
  <2> QED BY <1>1, <1>2, <1>5, <1>9, <2>1, <2>2, AddKeeps
<1>10. CASE /\ client' = sent
            /\ RegisterLoopClients(first) /\ PublishFails(q, "ConnectionError")
  <2>1. /\ UNCHANGED <<loopClient, loopId, breakFlag>>
        /\ clientList' = clientList \o first /\ clientList \in Seq(Clients)
    BY <1>10 DEF RegisterLoopClients, TypeInv, LoopInv, LoopTypeOK
  <2>2. UNCHANGED clientList \/ clientList' = clientList \o <<"Register">>
    BY <1>4, <2>1
  <2>3. client'.isconnected = client.isconnected
    BY <1>5, <1>10
  <2> QED BY <1>1, <1>2, <1>7, <1>10, <2>1, <2>2, <2>3, DisconnectSent
<1> QED BY <1>3, <1>6, <1>8, <1>9, <1>10

\* What is left of a call after its dispatch(), and the end of a turn.
LEMMA ContinueBacking ==
  ASSUME PlainUse, TypeInv, BackingInv, Continue
  PROVE  BackingInv'
<1>1. CASE SendStep \/ HibernateBody \/ WakeupBody \/ ReconnectDone \/ pmPing
  <2>1. PICK o \in {"send", "hibernate", "wakeup", "reconnected", "ping"} : At(o)
    BY <1>1 DEF SendStep, HibernateBody, WakeupBody, ReconnectDone, pmPing
  <2>2. o \in Phases
    BY <2>1, AtPhase
  <2> QED BY <2>2 DEF Phases
<1>2. CASE yield
  <2>1. /\ ~dispatching /\ Phase = "yield" /\ calls' = Tail(calls)
        /\ UNCHANGED <<stmVars, client, net>> /\ RegisterLoopClients(<<"Yield">>)
    BY <1>2, AtPhase DEF yield, loopYield
  <2>2. stm = "Connected" /\ calls' = LoopOnly
    BY <2>1, ShapeTail DEF BackingInv, CallInv, Phase
  <2> QED BY <2>1, <2>2, AddedClients, AddKeeps
<1>3. CASE EventLoopDispatch
  <2>1. /\ ~dispatching /\ Phase = "dispatch" /\ calls' = Tail(calls)
        /\ stm # "Invalid"
        /\ UNCHANGED <<loopVars, client, net>> /\ Dispatch(<<>>)
    BY <1>3, AtPhase DEF EventLoopDispatch
  <2>2. loopId = Unknown /\ calls' = <<Op("autopoll", 0)>>
    BY <2>1, ShapeTail DEF BackingInv, CallInv, Phase
  <2>3. calls' \in Shapes /\ Phase' = "autopoll"
    BY <2>2, ShapePhase DEF Phase
  <2>4. loopId # "Connect"
    BY <2>2, StmAssumption, LoopAssumption
  <2> DEFINE es == <<>>
  <2>5. /\ es \in Seq(Events) /\ Dispatch(es) /\ ~Has(es, "Connect")
        /\ HasNone(es, {"Sleep", "Hibernate"}) /\ HasNone(es, {"ConnectedEv"})
    BY <2>1, SentEvents, HasNoneEmpty, ListOne
  <2> HIDE DEF es
  <2> QED BY <2>1, <2>2, <2>3, <2>4, <2>5, DispatchKeeps DEF loopVars
<1>4. CASE EventLoopAutoPoll
  <2>1. /\ ~dispatching /\ Phase = "autopoll" /\ calls' = Tail(calls)
        /\ stm # "Invalid"
        /\ UNCHANGED <<loopVars, stmVars, client, net>>
    BY <1>4, AtPhase DEF EventLoopAutoPoll, PlainUse
  <2>2. loopId = Unknown /\ calls' = <<>>
    BY <2>1, ShapeTail DEF BackingInv, CallInv, Phase
  <2>3. posted = <<>>
    BY <2>1, <2>2 DEF BackingInv, FreshInv
  <2>4. calls' \in Shapes /\ Phase' = "idle"
    BY <2>2, ShapePhase DEF Phase
  <2> QED BY <2>1, <2>3, <2>4, PauseKeeps DEF stmVars
<1> QED BY <1>1, <1>2, <1>3, <1>4, PublishBacking, FailKeeps, DoneKeeps DEF Continue

\* A turn of the hooked client that is not its last one.
LEMMA TurnGoesOn ==
  ASSUME TypeInv, BackingInv, At("loop"), UNCHANGED <<stmVars, net>>,
         NEW c \in Clients, LoopStepPending(c), calls' = <<>>,
         client'.isconnected = client.isconnected
  PROVE  BackingInv'
<1>1. ~dispatching /\ stm # "Invalid"
  BY AtPhase
<1>2. UNCHANGED loopVars /\ loopClient = c /\ c # Unknown
  BY DEF LoopStepPending, Steppable
<1>3. loopId # Unknown
  BY <1>2, HookedClient
<1>4. calls' \in Shapes /\ Phase' = "idle"
  BY ShapePhase DEF Phase
<1> QED BY <1>1, <1>2, <1>3, <1>4, PauseKeeps DEF stmVars

\* The start functions of the loops: no one of them ends its client.
LEMMA StartsBacking ==
  ASSUME TypeInv, BackingInv, LoopStarts
  PROVE  BackingInv'
<1>0. client \in ClientRecs
  BY DEF TypeInv, ClientTypes
<1>1. At("loop") /\ UNCHANGED stmVars
  BY DEF LoopStarts, LoopTurn, StartStale, startAttachLoop, startYieldLoop,
     startConLoop, startRegLoop, startUnsubLoop, startDisLoop, startSubLoop,
     startPubLoop, StartWith
<1>2. UNCHANGED net
  BY DEF LoopStarts, StartStale, startAttachLoop, startYieldLoop,
     startConLoop, startRegLoop, startUnsubLoop, startDisLoop, startSubLoop,
     startPubLoop
<1>3. \E c : \E ok \in BOOLEAN : StartResult(c, ok)
  <2>1. ASSUME NEW c, StartWith(c) PROVE \E ok \in BOOLEAN : StartResult(c, ok)
    BY <2>1, SendPacketTyped DEF StartWith
  <2>2. CASE StartStale
    <3>1. \E c : StartResult(c, TRUE)
      BY <2>2 DEF StartStale
    <3> QED BY <3>1
  <2>3. CASE startAttachLoop
    BY <2>3, OutcomeTyped DEF startAttachLoop
  <2>4. CASE startYieldLoop
    <3>1. StartResult("Yield", TRUE)
      BY <2>4 DEF startYieldLoop
    <3> QED BY <3>1
  <2> QED BY <2>1, <2>2, <2>3, <2>4 DEF LoopStarts, startConLoop, startRegLoop,
         startUnsubLoop, startDisLoop, startSubLoop, startPubLoop
<1>4. client'.isconnected = client.isconnected
  <2>1. CASE startYieldLoop
    BY <1>0, <2>1 DEF startYieldLoop, ClientRecs
  <2>2. CASE startSubLoop
    BY <1>0, <2>2 DEF startSubLoop, sendSubPacket, ClientRecs
  <2>3. CASE startPubLoop
    <3>1. PICK qos \in {0, 1} : sendPubPacket(qos)
      BY <2>3 DEF startPubLoop
    <3>2. client'.isconnected = client.isconnected
      BY <1>0, <3>1 DEF sendPubPacket, ClientRecs
    <3> QED BY <3>2
  <2>4. CASE UNCHANGED client
    BY <2>4
  <2> QED BY <2>1, <2>2, <2>3, <2>4 DEF LoopStarts, StartStale,
       startAttachLoop, startConLoop, startRegLoop, startUnsubLoop, startDisLoop
<1>5. PICK c : \E ok \in BOOLEAN : StartResult(c, ok)
  BY <1>3
<1>6. PICK ok \in BOOLEAN : StartResult(c, ok)
  BY <1>5
<1> QED BY <1>1, <1>2, <1>4, <1>6, StartKeeps

\* The gateway disconnects while the machine is not connected: no event is
\* sent, and none under way relies on the connection.
LEMMA DropKeeps ==
  ASSUME TypeInv, BackingInv, ~dispatching, UNCHANGED stmVars,
         stm # "Invalid", stm # "Connected",
         UNCHANGED loopVars, loopClient # Unknown, net' = net,
         client'.isconnected = FALSE,
         \/ calls' = <<>>
         \/ calls' = <<Op("disconnected", 0)>> /\ loopClient = "Disconnect"
  PROVE  BackingInv'
<1>1. /\ UNCHANGED <<clientList, loopClient, loopId, breakFlag>>
      /\ UNCHANGED <<stm, events, posted, dispatching>>
      /\ loopId # Unknown
  BY HookedClient DEF loopVars, stmVars
<1>2. /\ calls' \in Shapes /\ Phase' \in {"idle", "disconnected"}
      /\ Phase' = "disconnected" => loopClient = "Disconnect"
  BY ShapePhase DEF Phase
<1>3. CallInv'
  BY <1>1, <1>2 DEF CallInv
<1>4. FreshInv' /\ AwakeInv'
  BY <1>1, BetweenKeeps
<1>5. ListInv'
  BY <1>1 DEF BackingInv, ListInv
<1>6. \A e : Coming(e)' <=> Coming(e)
  BY <1>1, ComingSame
<1>7. BackedInv'
  BY <1>1, <1>6 DEF BackingInv, BackedInv
<1> QED BY <1>3, <1>4, <1>5, <1>7 DEF BackingInv

\* The gateway disconnects: the client is no longer connected, and the
\* application is told so before the loop goes on.
LEMMA DisconnectReceivedBacking ==
  ASSUME TypeInv, BackingInv, StepDisconnectReceived
  PROVE  BackingInv'
<1>0. client \in ClientRecs
  BY DEF TypeInv, ClientTypes
<1>1. /\ ~dispatching /\ stm # "Invalid" /\ net' = net
      /\ client' = [client EXCEPT !.isconnected = FALSE]
  BY AtPhase DEF StepDisconnectReceived, LoopTurn
<1>2. client'.isconnected = FALSE
  BY <1>0, <1>1 DEF ClientRecs
<1>3. PICK c \in Cyclers :
        /\ LoopStepPending(c)
        /\ \/ c = "Disconnect" /\ disconnectNotify(<<Op("disconnected", 0)>>)
           \/ c # "Disconnect" /\ disconnectNotify(<<>>)
  BY DEF StepDisconnectReceived
<1>4. UNCHANGED loopVars /\ loopClient = c /\ c # Unknown
  BY <1>3 DEF LoopStepPending, Steppable
<1>5. loopId = c
  BY <1>4, HookedClient
<1>6. CASE stm = "Connected"
  <2>1. c # "Disconnect"
    BY <1>5, <1>6 DEF BackingInv, BackedInv, Queued
  <2>2. SendThen("Disconnect", <<>>)
    BY <1>3, <1>6, <2>1 DEF disconnectNotify
  <2>3. UNCHANGED <<clientList, loopClient, loopId, breakFlag>>
    BY <1>4 DEF loopVars
  <2> DEFINE rest == <<>>
  <2>4. rest \in {<<>>, LoopOnly} /\ SendThen("Disconnect", rest)
    BY <2>2
  <2> HIDE DEF rest
  <2> QED BY <1>1, <1>2, <1>6, <2>3, <2>4, DisconnectSent
<1>7. CASE stm # "Connected"
  <2>1. stm # "DisconnectedSleep"
    BY DEF BackingInv, AwakeInv, Awake
  <2>2. /\ UNCHANGED stmVars
        /\ \/ calls' = <<>>
           \/ calls' = <<Op("disconnected", 0)>> /\ loopClient = "Disconnect"
    BY <1>3, <1>4, <1>7, <2>1 DEF disconnectNotify
  <2> QED BY <1>1, <1>2, <1>4, <1>7, <2>2, DropKeeps
<1> QED BY <1>6, <1>7

\* A turn that is the last one of its client, whatever the result.
LEMMA LoopEnds ==
  ASSUME TypeInv, BackingInv, At("loop"),
         NEW c \in Clients, NEW ok \in BOOLEAN, NEW rc \in {0, 1, 2},
         StepDone(c, ok, rc),
         UNCHANGED <<stm, events, dispatching, net>>,
         UNCHANGED posted \/ postEvent("Attached"),
         c = "Connect" /\ ok => net,
         \/ client'.isconnected = client.isconnected
         \/ c = "Disconnect" /\ client'.isconnected = FALSE
         \/ c = "Connect"
  PROVE  BackingInv'
<1>1. StepEnd(c, ok) /\ StepResult(ok, rc) /\ UNCHANGED breakFlag
  BY DEF StepDone, LoopStepDone
<1>2. ~dispatching /\ stm # "Invalid"
  BY AtPhase
<1> QED BY <1>1, <1>2, EndKeeps

\* The loops: each turn goes on, ends its client or loses the connection.
LEMMA StepsBacking ==
  ASSUME TypeInv, BackingInv, LoopSteps
  PROVE  BackingInv'
<1>0. client \in ClientRecs
  BY DEF TypeInv, ClientTypes
<1>c. /\ {"Cgatt", "Yield", "Connect", "Publish", "Register", "Subscribe",
          "Unsubscribe", "Disconnect"} \subseteq Clients
      /\ Cyclers \subseteq Clients
  BY StmAssumption DEF Cyclers
<1>l. LoopTurn => At("loop")
  BY DEF LoopTurn
<1>1. CASE StepWaits
  <2>1. \E c \in Clients : LoopStepPending(c)
    BY <1>1 DEF StepWaits
  <2> QED BY <1>1, <1>l, <2>1, TurnGoesOn DEF StepWaits
<1>2. CASE StepTraffic
  <2>1. \E c \in Clients : LoopStepPending(c)
    BY <1>2, <1>c DEF StepTraffic
  <2>2. client'.isconnected = client.isconnected
    BY <1>0, <1>2 DEF StepTraffic, ClientRecs
  <2> QED BY <1>2, <1>l, <2>1, <2>2, TurnGoesOn DEF StepTraffic
<1>3. CASE StepPingResponse
  <2>1. \E c \in Clients : LoopStepPending(c)
    BY <1>3, <1>c DEF StepPingResponse
  <2>2. client'.isconnected = client.isconnected
    BY <1>0, <1>3 DEF StepPingResponse, ClientRecs
  <2>3. calls' = <<>> /\ UNCHANGED <<stmVars, net>> /\ At("loop")
    BY <1>3, <1>l DEF StepPingResponse, BackingInv, AwakeInv, Awake
  <2> QED BY <2>1, <2>2, <2>3, TurnGoesOn
<1>4. CASE doSubLoop
  <2>1. "Subscribe" \in Clients /\ LoopStepPending("Subscribe")
    BY <1>4, <1>c DEF doSubLoop
  <2>2. client'.isconnected = client.isconnected
    BY <1>0, <1>4 DEF doSubLoop, sendSubPacket, ClientRecs
  <2> QED BY <1>4, <1>l, <2>1, <2>2, TurnGoesOn DEF doSubLoop
<1>5. CASE doPubLoop
  <2>1. "Publish" \in Clients /\ LoopStepPending("Publish")
    BY <1>5, <1>c DEF doPubLoop
  <2>2. client'.isconnected = client.isconnected
    BY <1>0, <1>5 DEF doPubLoop, sendPubPacket, ClientRecs
  <2> QED BY <1>5, <1>l, <2>1, <2>2, TurnGoesOn DEF doPubLoop
<1>6. CASE StepTopicRejected
  <2>1. \E c \in Clients : LoopStepPending(c)
    BY <1>6, <1>c DEF StepTopicRejected
  <2> QED BY <1>6, <1>l, <2>1, TurnGoesOn DEF StepTopicRejected
<1>7. CASE StepRegisterReceived
  <2>1. PICK c \in Clients : LoopStepPending(c)
    BY <1>7, <1>c DEF StepRegisterReceived
  <2>2. client' = [client EXCEPT !.sendbuf = AtOnce]
    BY <1>7 DEF StepRegisterReceived
  <2>3. client'.isconnected = client.isconnected
    BY <1>0, <2>2 DEF ClientRecs
  <2> QED BY <1>7, <1>l, <2>1, <2>3, TurnGoesOn DEF StepRegisterReceived
<1>8. CASE finishAttachLoop
  <2>1. PICK ok \in BOOLEAN :
          /\ StepDone("Cgatt", ok, 0)
          /\ IF ok THEN postEvent("Attached") ELSE UNCHANGED posted
    BY <1>8 DEF finishAttachLoop
  <2> QED BY <1>8, <1>c, <1>l, <2>1, LoopEnds DEF finishAttachLoop
<1>9. CASE finishConLoop
  <2>1. PICK ok \in BOOLEAN : (ok => Receiving) /\ StepDone("Connect", ok, 0)
    BY <1>9 DEF finishConLoop
  <2> QED BY <1>9, <1>c, <1>l, <2>1, LoopEnds DEF finishConLoop, Receiving, stmVars
<1>10. CASE finishPubLoopQoS0
  BY <1>10, <1>c, <1>l, LoopEnds DEF finishPubLoopQoS0, stmVars
<1>11. CASE finishPubLoop
  <2>1. client'.isconnected = client.isconnected
    BY <1>0, <1>11 DEF finishPubLoop, ClientRecs
  <2>2. PICK ok \in BOOLEAN : \E rc \in {0, 1, 2} : StepDone("Publish", ok, rc)
    <3>1. CASE \E rc \in {0, 1, 2} : StepDone("Publish", rc = 0, rc)
      BY <3>1
    <3>2. CASE StepDone("Publish", TRUE, 0) \/ StepDone("Publish", FALSE, 0)
      BY <3>2
    <3> QED BY <1>11, <3>1, <3>2 DEF finishPubLoop
  <2> QED BY <1>11, <1>c, <1>l, <2>1, <2>2, LoopEnds DEF finishPubLoop, stmVars
<1>12. ASSUME NEW c \in Clients \ {"Connect"}, Acknowledged(c) PROVE BackingInv'
  <2>1. PICK ok \in BOOLEAN : StepDone(c, ok, 0)
    BY <1>12 DEF Acknowledged
  <2> QED BY <1>12, <1>l, <2>1, LoopEnds DEF Acknowledged, stmVars
<1>13. CASE finishRegLoop \/ finishSubLoop \/ finishUnsubLoop
  BY <1>c, <1>12, <1>13 DEF finishRegLoop, finishSubLoop, finishUnsubLoop
<1>14. CASE finishYieldLoop
  <2>1. PICK ok \in BOOLEAN : StepDone("Yield", ok, 0)
    BY <1>14 DEF finishYieldLoop
  <2>2. client'.isconnected = client.isconnected
    BY <1>0, <1>14 DEF finishYieldLoop, ClientRecs
  <2> QED BY <1>14, <1>c, <1>l, <2>1, <2>2, LoopEnds DEF finishYieldLoop, stmVars
<1>15. CASE finishDisLoop
  <2>1. client'.isconnected = FALSE
    BY <1>0, <1>15 DEF finishDisLoop, ClientRecs
  <2>2. UNCHANGED <<stm, events, posted, dispatching, net>>
    BY <1>15 DEF finishDisLoop, stmVars
  <2>3. CASE LoopTurn /\ StepDone("Disconnect", TRUE, 0)
    BY <1>c, <1>l, <2>1, <2>2, <2>3, LoopEnds
  <2>4. CASE At("disconnected") /\ StepEnd("Disconnect", TRUE)
             /\ StepResult(TRUE, 0) /\ UNCHANGED breakFlag
    <3>1. ~dispatching /\ stm # "Invalid"
      BY <2>4, AtPhase
    <3> QED BY <1>c, <2>1, <2>2, <2>4, <3>1, EndKeeps
  <2> QED BY <1>15, <2>3, <2>4 DEF finishDisLoop
<1> QED BY <1>1, <1>2, <1>3, <1>4, <1>5, <1>6, <1>7, <1>8, <1>9, <1>10, <1>11,
           <1>13, <1>14, <1>15, DisconnectReceivedBacking DEF LoopSteps

\* What the handlers post brings neither a connection nor its end.
HandlerPosts ==
  UNCHANGED posted \/ \E e \in Recovery \cup {"Initialize"} : postEvent(e)

\* What is coming after a handler: its own event is gone, and a Connect
\* leaves no ConnectedEv behind.
LEMMA HandlerComing ==
  ASSUME TypeInv, BackingInv, TakesHead, HandlerPosts
  PROVE  /\ \A d : Coming(d) /\ Head(events) # d => Coming(d)'
         /\ Coming("ConnectedEv")' => Coming("ConnectedEv")
         /\ Head(events) = "Connect" => ~Coming("ConnectedEv")'
<1>0. /\ events \in Seq(Events) /\ posted \in Seq(Events)
      /\ events # <<>> /\ events' = Tail(events)
  BY PostedAreEvents DEF TypeInv, StmTypes, TakesHead
<1>1. \A d : /\ Has(posted, d) => Has(posted', d)
             /\ d = "ConnectedEv" /\ Has(posted', d) => Has(posted, d)
  <2>1. CASE UNCHANGED posted
    BY <2>1
  <2>2. CASE \E e \in Recovery \cup {"Initialize"} : postEvent(e)
    <3>1. PICK e \in Recovery \cup {"Initialize"} : posted' = Append(posted, e)
      BY <2>2 DEF postEvent
    <3>2. e \in Events /\ e # "ConnectedEv"
      BY DEF Recovery, Events
    <3>3. \A d : HasNone(posted', {d}) <=> HasNone(posted, {d}) /\ d # e
      BY <1>0, <3>1, <3>2, HasNoneAppend
    <3> QED BY <3>2, <3>3, HasOf
  <2> QED BY <2>1, <2>2 DEF HandlerPosts
<1>2. \A d : Has(events, d) /\ Head(events) # d => Has(events', d)
  BY <1>0, HasTail
<1>3. \A d : Has(events', d) => Has(events, d)
  BY <1>0, HasNoneTail, HasOf
<1>4. \A d : Coming(d) /\ Head(events) # d => Coming(d)'
  BY <1>1, <1>2 DEF Coming
<1>5. Coming("ConnectedEv")' => Coming("ConnectedEv")
  BY <1>1, <1>3 DEF Coming
<1>6. ASSUME Head(events) = "Connect" PROVE ~Coming("ConnectedEv")'
  <2>1. HasNone(events', {"ConnectedEv"})
    BY <1>0, <1>6, OrderTail DEF BackingInv, FreshInv
  <2>2. ~HasNone(events, {"Connect"})
    BY <1>0, <1>6, HasNoneTail
  <2>3. HasNone(posted, {"ConnectedEv"})
    BY <2>2, HasOf DEF BackingInv, FreshInv
  <2>4. ~Has(posted, "ConnectedEv") /\ ~Has(events', "ConnectedEv")
    BY <2>1, <2>3, HasOf
  <2> QED BY <1>1, <2>4 DEF Coming
<1> QED BY <1>4, <1>5, <1>6

\* A handler changes neither the call nor the hooked client.
LEMMA HandlerKeeps ==
  ASSUME TypeInv, BackingInv, TakesHead, HandlerPosts,
         UNCHANGED <<loopClient, loopId>>,
         stm' \in Awake,
         stm' = "Invalid" => stm = "Invalid" /\ UNCHANGED <<clientList, pool>>,
         ListInv', BackedInv'
  PROVE  BackingInv'
<1>0. /\ events \in Seq(Events) /\ events # <<>> /\ events' = Tail(events)
      /\ dispatching /\ dispatching' /\ calls' = calls /\ Phase' = Phase
  BY DEF TypeInv, StmTypes, TakesHead, Phase
<1>1. CallInv'
  BY <1>0 DEF BackingInv, CallInv
<1>2. FreshInv'
  <2>1. Order(events')
    BY <1>0, OrderTail DEF BackingInv, FreshInv
  <2>2. ASSUME Has(events', "Connect") PROVE HasNone(posted', {"ConnectedEv"})
    <3>1. Has(events, "Connect")
      BY <1>0, <2>2, HasNoneTail, HasOf
    <3>2. HasNone(posted, {"ConnectedEv"})
      BY <3>1 DEF BackingInv, FreshInv
    <3>3. CASE UNCHANGED posted
      BY <3>2, <3>3
    <3>4. CASE \E e \in Recovery \cup {"Initialize"} : postEvent(e)
      <4>1. PICK e \in Recovery \cup {"Initialize"} : posted' = Append(posted, e)
        BY <3>4 DEF postEvent
      <4>2. e \in Events /\ e # "ConnectedEv" /\ posted \in Seq(Events)
        BY PostedAreEvents DEF Recovery, Events, TypeInv, StmTypes
      <4> QED BY <3>2, <4>1, <4>2, HasNoneAppend
    <3> QED BY <3>3, <3>4 DEF HandlerPosts
  <2> QED BY <1>0, <2>1, <2>2 DEF FreshInv
<1>3. AwakeInv'
  <2>1. HasNone(events', {"Sleep", "Hibernate"})
    BY <1>0, HasNoneTail DEF BackingInv, AwakeInv
  <2> QED BY <1>0, <2>1 DEF BackingInv, AwakeInv
<1> QED BY <1>1, <1>2, <1>3 DEF BackingInv

\* Disconnected is entered: what is left of a CONNECT is broken off.
LEMMA DisconnectedKeeps ==
  ASSUME TypeInv, BackingInv, TakesHead, actionDisconnectedEntry(pool)
  PROVE  BackingInv'
<1>0. /\ clientList \in Seq(Clients) /\ breakFlag \in BOOLEAN
      /\ "Disconnect" \in Clients /\ dispatching /\ loopId # "Connect"
  BY StmAssumption DEF TypeInv, LoopInv, LoopTypeOK, TakesHead, BackingInv, CallInv
<1>1. stm' = "Disconnected" /\ UNCHANGED posted /\ doDisconnect(pool)
  BY DEF actionDisconnectedEntry, Enter
<1>2. CASE client.isconnected /\ clientDisconnect(pool)
  <2>1. clientList' = clientList \o <<"Disconnect">>
        /\ UNCHANGED <<loopClient, loopId, breakFlag>>
    BY <1>2 DEF clientDisconnect, loopDisconnect, RegisterLoopClients
  <2>2. Has(clientList', "Connect") => Has(clientList, "Connect")
    <3>1. <<"Disconnect">> \in Seq(Clients)
      BY <1>0
    <3> QED BY <1>0, <2>1, <3>1, ListConcat, ListOne
  <2>3. ListInv'
    BY <1>0, <1>2, <2>1, <2>2 DEF BackingInv, ListInv
  <2>4. BackedInv'
    BY <1>1 DEF BackedInv
  <2> QED BY <1>1, <2>1, <2>3, <2>4, HandlerKeeps DEF HandlerPosts, Awake
<1>3. CASE finishDisconnect
  <2>1. UNCHANGED <<clientList, loopClient, loopId>>
    BY <1>3 DEF finishDisconnect, loopBreak, loopVars
  <2>2. Has(clientList, "Connect") => breakFlag'
    <3>1. Len(clientList) \in Nat
      BY <1>0
    <3>2. Has(clientList, "Connect") => Len(clientList) > 0
      BY <3>1 DEF Has
    <3> QED BY <1>3, <3>2 DEF finishDisconnect, loopBreak, isBusy
  <2>3. ListInv'
    BY <1>0, <2>1, <2>2 DEF ListInv
  <2>4. BackedInv'
    BY <1>1 DEF BackedInv
  <2> QED BY <1>1, <2>1, <2>3, <2>4, HandlerKeeps DEF HandlerPosts, Awake
<1> QED BY <1>1, <1>2, <1>3 DEF doDisconnect

\* Error is entered from any state; the list stays.
LEMMA ErrorKeeps ==
  ASSUME TypeInv, BackingInv, TakesHead, NEW p, actionErrorEntry(p),
         UNCHANGED <<loopVars, client>>,
         stm \in {"WaitForConnect", "Error", "Initial"} \/ breakFlag
           \/ ~Has(clientList, "Connect")
  PROVE  BackingInv'
<1>1. UNCHANGED <<clientList, loopClient, loopId, breakFlag>>
  BY DEF loopVars
<1>2. stm' = "Error" /\ HandlerPosts
  BY DEF actionErrorEntry, Enter, HandlerPosts, postEvent, Recovery
<1>3. loopId # "Connect"
  BY DEF TakesHead, BackingInv, CallInv
<1>4. ListInv'
  BY <1>1, <1>2, <1>3 DEF BackingInv, ListInv
<1>5. BackedInv'
  BY <1>2 DEF BackedInv
<1> QED BY <1>1, <1>2, <1>4, <1>5, HandlerKeeps DEF Awake

\* A CONNECT is queued for a client that is not connected, when none is left
\* of an earlier attempt and no earlier ConnectedEv will be believed.
LEMMA IpConnectBacking ==
  ASSUME TypeInv, BackingInv, TakesHead, NEW p, IpConnect(p),
         stm \in {"Disconnected", "WaitForAttach"},
         Head(events) = "Connect" \/ ~Coming("ConnectedEv")
  PROVE  BackingInv'
<1>0. /\ clientList \in Seq(Clients) /\ breakFlag \in BOOLEAN
      /\ "Connect" \in Clients /\ loopId # "Connect" /\ client \in ClientRecs
  BY StmAssumption DEF TypeInv, LoopInv, LoopTypeOK, TakesHead, BackingInv,
     CallInv, ClientTypes
<1>1. breakFlag \/ ~Has(clientList, "Connect")
  BY DEF BackingInv, ListInv
<1> DEFINE q == [p EXCEPT !.restarts = 0]
           r == [q EXCEPT !.errno = "IpNotConnected"]
<1>2. \/ /\ mqttConnect(q.cleanSession) /\ net' = TRUE
         /\ Enter("WaitForConnect", "run") /\ UNCHANGED posted
      \/ actionErrorEntry(r) /\ UNCHANGED <<loopVars, client>>
  BY DEF IpConnect
<1> HIDE DEF q, r
<1>3. CASE actionErrorEntry(r) /\ UNCHANGED <<loopVars, client>>
  BY <1>1, <1>3, ErrorKeeps
<1>4. CASE /\ mqttConnect(q.cleanSession) /\ net' = TRUE
           /\ Enter("WaitForConnect", "run") /\ UNCHANGED posted
  <2>1. stm' = "WaitForConnect" /\ HandlerPosts
    BY <1>4 DEF Enter, HandlerPosts
  <2>2. ~Coming("ConnectedEv")'
    BY <2>1, HandlerComing
  <2>3. BackedInv'
    BY <2>1, <2>2 DEF BackedInv
  <2>4. CASE client.isconnected
    <3>1. UNCHANGED <<client, clientList, loopClient, loopId, breakFlag>>
      BY <1>4, <2>4 DEF mqttConnect, loopVars
    <3>2. ListInv'
      BY <1>0, <1>1, <3>1 DEF ListInv
    <3> QED BY <2>1, <2>3, <3>1, <3>2, HandlerKeeps DEF Awake
  <2>5. CASE ~client.isconnected
    <3>1. /\ UNCHANGED <<loopClient, loopId, breakFlag>>
          /\ clientList' = clientList \o <<"Connect">>
      BY <1>4, <2>5 DEF mqttConnect, loopConnect, RegisterLoopClients
    <3> DEFINE b == Packet("CONNECT", q.cleanSession)
    <3>2. client' = [client EXCEPT !.sendbuf = b, !.cleansession = q.cleanSession]
      BY <1>4, <2>5 DEF mqttConnect
    <3> HIDE DEF b
    <3>3. ~client'.isconnected
      BY <1>0, <2>5, <3>2 DEF ClientRecs
    <3>4. ~breakFlag => LastOnly(clientList')
      BY <1>0, <1>1, <3>1, LastAdded
    <3>5. ListInv'
      BY <1>0, <2>1, <3>1, <3>3, <3>4 DEF ListInv
    <3> QED BY <2>1, <2>3, <3>1, <3>5, HandlerKeeps DEF Awake
  <2> QED BY <2>4, <2>5
<1> QED BY <1>2, <1>3, <1>4

\* The handlers of the state machine.
LEMMA HandleBacking ==
  ASSUME TypeInv, BackingInv, HandleEvent
  PROVE  BackingInv'
<1>0. TakesHead
  BY HandleTakes
<1>t. \A e : Take(e) => Head(events) = e
  BY DEF Take
<1>h. /\ stm \in Awake /\ Head(events) \notin {"Sleep", "Hibernate"}
      /\ loopId # "Connect" /\ breakFlag \in BOOLEAN
      /\ clientList \in Seq(Clients) /\ events \in Seq(Events) /\ events # <<>>
  <2>1. events \in Seq(Events) /\ events # <<>>
    BY <1>0 DEF TypeInv, StmTypes, TakesHead
  <2>2. Head(events) \notin {"Sleep", "Hibernate"}
    BY <2>1, HasNoneTail DEF BackingInv, AwakeInv
  <2> QED BY <1>0, <2>1, <2>2 DEF BackingInv, AwakeInv, CallInv, TakesHead,
         TypeInv, LoopInv, LoopTypeOK
<1>b. stm \in {"WaitForConnect", "Error", "Initial"} \/ breakFlag
        \/ ~Has(clientList, "Connect")
  BY DEF BackingInv, ListInv
<1>1. CASE InitialLeave
  <2>1. CASE actionDisconnectedEntry(pool)
    BY <1>0, <2>1, DisconnectedKeeps
  <2>2. CASE /\ actionErrorEntry([pool EXCEPT !.errno = "InitializeError"])
             /\ UNCHANGED <<loopVars, client, net>>
    BY <1>0, <1>b, <2>2, ErrorKeeps
  <2> QED BY <1>1, <2>1, <2>2 DEF InitialLeave
<1>2. CASE DisconnectedConnect
  <2> DEFINE p == [pool EXCEPT !.errno = "Success"]
  <2>1. stm = "Disconnected" /\ Head(events) = "Connect"
    BY <1>2, <1>t DEF DisconnectedConnect
  <2>2. \/ IpConnect(p)
        \/ /\ doModemAttach /\ Enter("WaitForAttach", "run")
           /\ UNCHANGED <<posted, client, net>>
    BY <1>2 DEF DisconnectedConnect
  <2> HIDE DEF p
  <2>3. CASE IpConnect(p)
    BY <1>0, <2>1, <2>3, IpConnectBacking
  <2>4. CASE /\ doModemAttach /\ Enter("WaitForAttach", "run")
             /\ UNCHANGED <<posted, client, net>>
    <3>1. /\ stm' = "WaitForAttach" /\ HandlerPosts
          /\ UNCHANGED <<loopClient, loopId, breakFlag>>
          /\ clientList' = clientList \o <<"Cgatt">>
      BY <2>4 DEF Enter, HandlerPosts, doModemAttach, RegisterLoopClients
    <3>2. <<"Cgatt">> \in Seq(Clients)
      BY StmAssumption
    <3>3. Has(clientList', "Connect") => Has(clientList, "Connect")
      BY <1>h, <3>1, <3>2, ListConcat, ListOne
    <3>4. ListInv'
      BY <1>h, <1>b, <2>1, <3>1, <3>3 DEF ListInv
    <3>5. ~Coming("ConnectedEv")'
      BY <1>0, <2>1, <3>1, HandlerComing
    <3>6. BackedInv'
      BY <1>h, <3>1, <3>5 DEF BackedInv
    <3> QED BY <1>0, <3>1, <3>4, <3>6, HandlerKeeps DEF Awake
  <2> QED BY <2>2, <2>3, <2>4
<1>3. CASE WaitForAttachAttached
  <2>1. stm = "WaitForAttach" /\ IpConnect(pool)
    BY <1>3 DEF WaitForAttachAttached
  <2>2. ~Coming("ConnectedEv")
    BY <2>1 DEF BackingInv, BackedInv
  <2> QED BY <1>0, <2>1, <2>2, IpConnectBacking
<1>4. CASE WaitForAttachTimer \/ WaitForConnectTimer
  <2>1. /\ \E p : actionErrorEntry(p)
        /\ UNCHANGED <<loopVars, client>>
    BY <1>4 DEF WaitForAttachTimer, WaitForConnectTimer
  <2> QED BY <1>0, <1>b, <2>1, ErrorKeeps
<1>5. CASE WaitForConnectConnected
  <2>1. /\ stm = "WaitForConnect" /\ Head(events) = "ConnectedEv"
        /\ stm' = "Connected" /\ HandlerPosts
        /\ UNCHANGED <<loopVars, client, net>>
    BY <1>5, <1>t DEF WaitForConnectConnected, actionConnectedEntry, Enter,
       HandlerPosts
  <2>2. UNCHANGED <<clientList, loopClient, loopId, breakFlag>>
    BY <2>1 DEF loopVars
  <2>3. Coming("ConnectedEv")
    <3>1. ~HasNone(events, {"ConnectedEv"})
      BY <1>h, <2>1, HasNoneTail
    <3> QED BY <3>1, HasOf DEF Coming
  <2>4. Backed /\ clientList = <<>> /\ loopId \in {Unknown, "Connect"}
    BY <2>1, <2>3 DEF BackingInv, BackedInv
  <2>5. loopId = Unknown /\ {"Connect", "Disconnect"} \subseteq Clients
        /\ Unknown \notin Clients
    BY <1>h, <2>4, StmAssumption, LoopAssumption
  <2>6. ListInv'
    BY <1>h, <2>2, <2>4, ListOne DEF ListInv
  <2>7. ~Queued("Connect")' /\ ~Queued("Disconnect")'
    BY <2>2, <2>4, <2>5, ListOne DEF Queued
  <2>8. BackedInv'
    BY <2>1, <2>4, <2>7 DEF BackedInv, Backed
  <2> QED BY <1>0, <2>1, <2>2, <2>6, <2>8, HandlerKeeps DEF Awake
<1>6. CASE ErrorDisconnect \/ ConnectedDisconnect
  <2>1. actionDisconnectedEntry(pool)
    BY <1>6 DEF ErrorDisconnect, ConnectedDisconnect
  <2> QED BY <1>0, <2>1, DisconnectedKeeps
<1>7. CASE ReInitialize
  <2>1. /\ stm = "Error" /\ stm' = "Initial" /\ HandlerPosts
        /\ UNCHANGED <<loopVars, client, net>>
    BY <1>7, <1>h DEF ReInitialize, actionInitialEntry, Enter, HandlerPosts, Awake
  <2>2. UNCHANGED <<clientList, loopClient, loopId, breakFlag>>
    BY <2>1 DEF loopVars
  <2>3. ListInv'
    BY <2>1, <2>2 DEF BackingInv, ListInv
  <2>4. BackedInv'
    BY <2>1 DEF BackedInv
  <2> QED BY <1>0, <2>1, <2>2, <2>3, <2>4, HandlerKeeps DEF Awake
<1>8. ~(ConnectedSleepEvent \/ ConnectedSleepWakeup \/ ConnectedSleepAwake
        \/ ConnectedAwakeLeave \/ Hibernate \/ DisconnectedSleepEvent
        \/ DisconnectedSleepWakeup)
  BY <1>h, <1>t DEF ConnectedSleepEvent, ConnectedSleepWakeup,
     ConnectedSleepAwake, ConnectedAwakeLeave, Hibernate,
     DisconnectedSleepEvent, DisconnectedSleepWakeup, Awake
<1>9. CASE IgnoreEvent
  <2>1. /\ UNCHANGED <<loopVars, stm, posted, pool, client, net>>
        /\ Head(events) \notin Accepts(stm)
    BY <1>9, <1>t DEF IgnoreEvent
  <2>2. UNCHANGED <<clientList, loopClient, loopId, breakFlag>> /\ HandlerPosts
    BY <2>1 DEF loopVars, HandlerPosts
  <2>3. ListInv'
    BY <2>1, <2>2 DEF BackingInv, ListInv
  <2>4. stm = "Connected" => Head(events) # "Disconnect"
    BY <2>1 DEF Accepts
  <2>5. /\ stm = "Connected" /\ Coming("Disconnect") => Coming("Disconnect")'
        /\ Coming("ConnectedEv")' => Coming("ConnectedEv")
    BY <1>0, <2>2, <2>4, HandlerComing
  <2>6. BackedInv'
    BY <2>1, <2>2, <2>5 DEF BackingInv, BackedInv, Backed, Queued
  <2> QED BY <1>0, <1>h, <2>1, <2>2, <2>3, <2>6, HandlerKeeps
<1> QED BY <1>1, <1>2, <1>3, <1>4, <1>5, <1>6, <1>7, <1>8, <1>9 DEF HandleEvent

\* The machine is started with nothing under way.
LEMMA StartBacking ==
  ASSUME TypeInv, BackingInv, startStateMachine
  PROVE  BackingInv'
<1>1. /\ stm = "Invalid" /\ stm' = "Initial" /\ events' = <<"Initialize">>
      /\ dispatching' = TRUE /\ UNCHANGED <<posted, calls, client, net>>
      /\ UNCHANGED <<clientList, loopClient, loopId, breakFlag>>
  BY DEF startStateMachine, loopVars
<1>2. calls = <<>> /\ clientList = <<>> /\ loopId = Unknown
  BY <1>1 DEF BackingInv, AwakeInv
<1>0. {"Connect", "Disconnect"} \subseteq Clients /\ Unknown \notin Clients
  BY StmAssumption, LoopAssumption
<1>3. calls' \in Shapes /\ Phase' = "idle"
  BY <1>1, <1>2, ShapePhase DEF Phase
<1>4. CallInv'
  BY <1>0, <1>1, <1>2, <1>3 DEF CallInv
<1>5. \A S : "Initialize" \notin S => HasNone(events', S)
  BY <1>1, HasNoneOne
<1>6. FreshInv'
  <2>1. HasNone(events', {"Connect"})
    BY <1>5
  <2> QED BY <1>1, <2>1, OrderNone, HasOf DEF FreshInv
<1>7. AwakeInv'
  BY <1>1, <1>5 DEF AwakeInv, Awake
<1>8. ListInv'
  BY <1>0, <1>1, <1>2, ListOne DEF ListInv
<1>9. BackedInv'
  BY <1>1 DEF BackedInv
<1> QED BY <1>4, <1>6, <1>7, <1>8, <1>9 DEF BackingInv

\* A batch ends: what its handlers posted has become the next one.
LEMMA EndBacking ==
  ASSUME TypeInv, BackingInv, DispatchEnd
  PROVE  BackingInv'
<1>1. /\ dispatching /\ events = <<>> /\ events' = posted /\ posted' = <<>>
      /\ dispatching' = FALSE
      /\ UNCHANGED <<stm, calls, pool, client, net>>
      /\ UNCHANGED <<clientList, loopClient, loopId, breakFlag>>
      /\ Phase' = Phase /\ posted \in Seq(PostEvents)
  BY DEF DispatchEnd, loopVars, Phase, TypeInv, StmTypes
<1>2. CallInv'
  BY <1>1 DEF BackingInv, CallInv
<1>3. \A S : S \cap PostEvents = {} => HasNone(events', S)
  BY <1>1 DEF HasNone
<1>4. HasNone(events', {"Connect"}) /\ HasNone(events', {"Sleep", "Hibernate"})
  BY <1>3 DEF PostEvents
<1>5. FreshInv'
  BY <1>1, <1>4, OrderNone, HasOf DEF FreshInv
<1>6. AwakeInv'
  BY <1>1, <1>4 DEF BackingInv, AwakeInv
<1>7. ListInv'
  BY <1>1 DEF BackingInv, ListInv
<1>8. \A e : Coming(e)' <=> Coming(e)
  BY <1>1, ListOne DEF Coming
<1>9. BackedInv'
  BY <1>1, <1>8 DEF BackingInv, BackedInv, Backed, Queued
<1> QED BY <1>2, <1>5, <1>6, <1>7, <1>9 DEF BackingInv

\* Every step keeps the invariant.
LEMMA StepBacking ==
  ASSUME PlainUse, TypeInv, BackingInv, [Next]_vars
  PROVE  BackingInv'
<1>1. CASE TimerExpires
  BY <1>1, StillKeeps DEF TimerExpires
<1>2. CASE UNCHANGED vars
  BY <1>2, StillKeeps DEF vars, stmVars
<1>3. CASE LoopNothing
  BY <1>3, NothingKeeps
<1>4. CASE LoopStarts \/ LoopSteps
  BY <1>4, StartsBacking, StepsBacking
<1>5. CASE Application \/ eventLoop \/ eventLoopAsleep \/ Continue
  BY <1>5, ApplicationBacking, ContinueBacking
<1>6. CASE startStateMachine \/ HandleEvent \/ DispatchEnd
  BY <1>6, StartBacking, HandleBacking, EndBacking
<1> QED BY <1>1, <1>2, <1>3, <1>4, <1>5, <1>6 DEF Next

\* It holds before begin().
LEMMA InitBacking == Init => BackingInv
<1> SUFFICES ASSUME Init PROVE BackingInv
  OBVIOUS
<1>1. /\ clientList = <<>> /\ loopClient = Unknown /\ loopId = Unknown
      /\ stm = "Invalid" /\ events = <<>> /\ posted = <<>>
      /\ dispatching = FALSE /\ calls = <<>>
  BY DEF Init, StmInit, LoopInit
<1>2. ~pool.initialized
  BY DEF Init, StmInit
<1>3. calls \in Shapes /\ Phase = "idle"
  BY <1>1, ShapePhase DEF Phase
<1>4. "Connect" \in Clients /\ Unknown \notin Clients
  BY StmAssumption, LoopAssumption
<1>5. CallInv
  BY <1>1, <1>3, <1>4 DEF CallInv
<1>6. FreshInv /\ AwakeInv
  BY <1>1, <1>2, HasNoneEmpty, OrderNone, HasOf DEF FreshInv, AwakeInv, Awake
<1>7. ListInv /\ BackedInv
  BY <1>1, <1>4, ListOne DEF ListInv, BackedInv
<1> QED BY <1>5, <1>6, <1>7 DEF BackingInv

\* The inductive invariant of such an application, whatever the gateway, the
\* modem and the network do.
THEOREM BackingInvariant ==
  ASSUME PlainUse
  PROVE  Spec => []BackingInv
<1>1. MqttInv /\ BackingInv /\ [Next]_vars => BackingInv'
  BY StepBacking DEF MqttInv
<1> QED BY <1>1, InitBacking, MqttInvariant, PTL DEF Spec

\* isNbiotConnected() tells the truth at rest: in an application that calls
\* the API as the examples do, Connected is then backed by a connected client
\* and a socket, whatever fails.
THEOREM MqttConnected ==
  ASSUME PlainUse
  PROVE  Spec => []ConnectedAtRest
<1>1. BackingInv => ConnectedAtRest
  <2> SUFFICES ASSUME BackingInv, Quiet, stm = "Connected"
               PROVE  client.isconnected /\ net
    BY DEF ConnectedAtRest
  <2>1. ~Coming("Disconnect")
    BY ListOne DEF Quiet, Coming
  <2> QED BY <2>1 DEF BackingInv, BackedInv, Backed
<1> QED BY <1>1, BackingInvariant, PTL

----------------------------------------------------------------------------
(* Every loop sends its own packet                                         *)

\* The clients whose packet is serialised when they are queued.
Carriers == {"Connect", "Register", "Unsubscribe", "Disconnect"}

OnlyOf(q, S) == \A i \in 1..Len(q) : q[i] \in S

\* Nothing but a Timer is behind a Connect in its batch.
ConnectLast(q) == \A i, j \in 1..Len(q) : q[i] = "Connect" /\ i < j => q[j] = "Timer"

\* Only attach loops, which do not use sendbuf, are before a carrier.
AttachFirst(q) ==
  \A i, j \in 1..Len(q) : q[i] \in Carriers /\ j < i => q[j] = "Cgatt"

\* A batch with a Connect is one the application started with nothing
\* hooked; one that is started while a client is hooked disconnects.
SourceInv ==
  /\ ConnectLast(events)
  /\ dispatching /\ Phase # "loop" => HasNone(events, {"Connect"})
  /\ dispatching /\ loopId # Unknown =>
       /\ Phase # "loop" /\ ~client.isconnected
       /\ stm \in {"Connected", "Disconnected"}

\* The application finds the list empty in Connected.
EmptyInv ==
  /\ Phase = "dispatch" => clientList = <<>>
  /\ stm = "Connected" =>
       /\ loopId = Unknown /\ Phase \notin {"loop", "fail"} => clientList = <<>>
       /\ dispatching /\ client.isconnected => clientList = <<>>

\* Outside Connected only the machine's own clients are in the list.
KindInv ==
  ~breakFlag /\ stm # "Connected" =>
    OnlyOf(clientList, {"Cgatt", "Connect", "Disconnect"})

\* A queued DISCONNECT is started before Disconnected can be entered again.
PartingInv ==
  ~breakFlag /\ Has(clientList, "Disconnect") =>
    /\ client.isconnected /\ stm # "Connected"
    /\ loopId = Unknown /\ Phase \notin {"loop", "fail"} => stm = "Disconnected"
    /\ dispatching /\ stm # "Disconnected" =>
         OnlyOf(events, {"Timer"}) /\ (stm = "Initial" => events = <<>>)

CarryInv ==
  ~breakFlag =>
    /\ AttachFirst(clientList)
    /\ \A c \in Carriers : Has(clientList, c) =>
         OwnPacket(c) /\ loopClient \in {Unknown, "Cgatt"}

\* The gateway's answer to a DISCONNECT does not raise the break flag.
AnsweredInv == Phase = "disconnected" => ~breakFlag

SendingInv ==
  SourceInv /\ EmptyInv /\ KindInv /\ PartingInv /\ CarryInv /\ AnsweredInv

\* Reading an event.
LEMMA ConnectLastTail ==
  ASSUME NEW q \in Seq(Events), q # <<>>, ConnectLast(q)
  PROVE  /\ ConnectLast(Tail(q))
         /\ Head(q) = "Connect" => OnlyOf(Tail(q), {"Timer"})
<1>1. /\ Len(q) \in Nat \ {0} /\ Len(Tail(q)) = Len(q) - 1 /\ Head(q) = q[1]
      /\ \A i \in 1..Len(Tail(q)) : i + 1 \in 1..Len(q) /\ Tail(q)[i] = q[i + 1]
      /\ 1 \in 1..Len(q)
  OBVIOUS
<1>2. ASSUME NEW i \in 1..Len(Tail(q)), NEW j \in 1..Len(Tail(q)),
             Tail(q)[i] = "Connect", i < j
      PROVE  Tail(q)[j] = "Timer"
  <2>1. /\ i + 1 \in 1..Len(q) /\ j + 1 \in 1..Len(q) /\ q[i + 1] = "Connect"
        /\ Tail(q)[j] = q[j + 1] /\ i + 1 < j + 1
    BY <1>1, <1>2
  <2> QED BY <2>1 DEF ConnectLast
<1>3. ASSUME Head(q) = "Connect", NEW i \in 1..Len(Tail(q))
      PROVE  Tail(q)[i] \in {"Timer"}
  <2>1. q[1] = "Connect" /\ i + 1 \in 1..Len(q) /\ Tail(q)[i] = q[i + 1] /\ 1 < i + 1
    BY <1>1, <1>3
  <2> QED BY <1>1, <2>1 DEF ConnectLast
<1> QED BY <1>2, <1>3 DEF ConnectLast, OnlyOf

LEMMA OnlyTail ==
  ASSUME NEW q \in Seq(Events), q # <<>>, NEW S, OnlyOf(q, S)
  PROVE  Head(q) \in S /\ OnlyOf(Tail(q), S)
<1>1. /\ Len(q) \in Nat \ {0} /\ Len(Tail(q)) = Len(q) - 1 /\ Head(q) = q[1]
      /\ \A i \in 1..Len(Tail(q)) : i + 1 \in 1..Len(q) /\ Tail(q)[i] = q[i + 1]
      /\ 1 \in 1..Len(q)
  OBVIOUS
<1> QED BY <1>1 DEF OnlyOf

\* A queue without Connect.
LEMMA ConnectLastNone == \A q : HasNone(q, {"Connect"}) => ConnectLast(q)
  BY DEF HasNone, ConnectLast

\* The events dispatch() starts with.
LEMMA ConnectLastDispatch ==
  ASSUME TypeInv, HasNone(events, {"Connect"}),
         NEW es \in Seq(Events), Dispatch(es),
         HasNone(es, {"Connect"}) \/ es = <<"Connect">>
  PROVE  /\ ConnectLast(events')
         /\ HasNone(es, {"Connect"}) => HasNone(events', {"Connect"})
<1> DEFINE ts == IF timer = "due" THEN <<"Timer">> ELSE <<>>
<1>1. events \in Seq(Events) /\ events' = events \o es \o ts
  BY DEF TypeInv, StmTypes, Dispatch
<1>2. /\ ts \in Seq(Events) /\ HasNone(ts, {"Connect"})
      /\ \A i \in 1..Len(ts) : ts[i] = "Timer"
  <2>1. "Timer" \in Events
    BY DEF Events
  <2>2. CASE timer = "due"
    <3>1. ts = <<"Timer">>
      BY <2>2
    <3> QED BY <2>1, <3>1, HasNoneOne
  <2>3. CASE timer # "due"
    <3>1. ts = <<>>
      BY <2>3
    <3> QED BY <3>1, HasNoneEmpty
  <2> QED BY <2>2, <2>3
<1> HIDE DEF ts
<1>3. events \o es \in Seq(Events)
  BY <1>1
<1>4. HasNone(es, {"Connect"}) => HasNone(events', {"Connect"})
  BY <1>1, <1>2, <1>3, HasNoneConcat
<1>5. ASSUME es = <<"Connect">>,
             NEW i \in 1..Len(events'), NEW j \in 1..Len(events'),
             events'[i] = "Connect", i < j
      PROVE  events'[j] = "Timer"
  <2> DEFINE n == Len(events)
             m == Len(ts)
  <2>1. /\ n \in Nat /\ m \in Nat /\ Len(es) = 1
        /\ Len(events') = n + 1 + m
    BY <1>1, <1>2, <1>3, <1>5
  <2>2. \A k \in 1..n : events'[k] = events[k]
    BY <1>1, <1>2, <1>5
  <2>3. \A k \in 1..m : events'[n + 1 + k] = ts[k]
    BY <1>1, <1>2, <1>5
  <2>4. i \notin 1..n
    BY <1>5, <2>2 DEF HasNone
  <2> HIDE DEF n, m
  <2>5. j - (n + 1) \in 1..m /\ n + 1 + (j - (n + 1)) = j
    <3>1. i \in 1..(n + 1 + m) /\ j \in 1..(n + 1 + m) /\ i < j
      BY <1>5, <2>1
    <3> QED BY <2>1, <2>4, <3>1
  <2>6. ts[j - (n + 1)] = "Timer"
    BY <1>2, <2>5 DEF m
  <2> QED BY <2>3, <2>5, <2>6
<1> QED BY <1>4, <1>5, ConnectLastNone DEF ConnectLast

\* The packets that are queued stay the same.
PacketsSame ==
  client'.sendbuf = client.sendbuf /\ pool'.currentTopic = pool.currentTopic

LEMMA PacketSame == PacketsSame => \A c \in Carriers : OwnPacket(c)' <=> OwnPacket(c)
  BY DEF PacketsSame, OwnPacket, Carriers

\* The lists that the loops make.
LEMMA AttachTail ==
  ASSUME NEW q \in Seq(Clients), q # <<>>, AttachFirst(q)
  PROVE  /\ AttachFirst(Tail(q))
         /\ \A c \in Carriers : Has(Tail(q), c) => Head(q) = "Cgatt"
<1>1. /\ Len(q) \in Nat \ {0} /\ Len(Tail(q)) = Len(q) - 1 /\ Head(q) = q[1]
      /\ \A i \in 1..Len(Tail(q)) :
           i + 1 \in 1..Len(q) /\ Tail(q)[i] = q[i + 1] /\ 1 < i + 1
      /\ 1 \in 1..Len(q)
  OBVIOUS
<1>2. ASSUME NEW i \in 1..Len(Tail(q)), NEW j \in 1..Len(Tail(q)),
             Tail(q)[i] \in Carriers, j < i
      PROVE  Tail(q)[j] = "Cgatt"
  <2>1. /\ i + 1 \in 1..Len(q) /\ j + 1 \in 1..Len(q) /\ q[i + 1] \in Carriers
        /\ Tail(q)[j] = q[j + 1] /\ j + 1 < i + 1
    BY <1>1, <1>2
  <2> QED BY <2>1 DEF AttachFirst
<1>3. ASSUME NEW c \in Carriers, NEW i \in 1..Len(Tail(q)), Tail(q)[i] = c
      PROVE  Head(q) = "Cgatt"
  <2>1. i + 1 \in 1..Len(q) /\ q[i + 1] \in Carriers /\ 1 < i + 1
    BY <1>1, <1>3
  <2> QED BY <1>1, <2>1 DEF AttachFirst
<1> QED BY <1>2, <1>3 DEF AttachFirst, Has

\* A client added behind a list of attach loops.
LEMMA AttachAdded ==
  ASSUME NEW q \in Seq(Clients), NEW c \in Clients
  PROVE  /\ OnlyOf(q, {"Cgatt"}) => AttachFirst(q \o <<c>>)
         /\ AttachFirst(q) => AttachFirst(q \o <<"Cgatt">>)
         /\ \A S : OnlyOf(q, S) /\ c \in S => OnlyOf(q \o <<c>>, S)
<1>1. \A d : /\ Len(q) \in Nat /\ Len(q \o <<d>>) = Len(q) + 1
             /\ \A i \in 1..Len(q) : (q \o <<d>>)[i] = q[i]
             /\ (q \o <<d>>)[Len(q) + 1] = d
  OBVIOUS
<1>2. ASSUME OnlyOf(q, {"Cgatt"}) PROVE AttachFirst(q \o <<c>>)
  <2> SUFFICES ASSUME NEW i \in 1..Len(q \o <<c>>), NEW j \in 1..Len(q \o <<c>>),
                      j < i
               PROVE  (q \o <<c>>)[j] = "Cgatt"
    BY DEF AttachFirst
  <2>1. j \in 1..Len(q)
    BY <1>1
  <2> QED BY <1>1, <1>2, <2>1 DEF OnlyOf
<1>3. ASSUME AttachFirst(q) PROVE AttachFirst(q \o <<"Cgatt">>)
  <2> DEFINE r == q \o <<"Cgatt">>
  <2>1. /\ Len(q) \in Nat /\ Len(r) = Len(q) + 1
        /\ \A i \in 1..Len(q) : r[i] = q[i]
        /\ r[Len(q) + 1] = "Cgatt"
    BY <1>1
  <2> HIDE DEF r
  <2> SUFFICES ASSUME NEW i \in 1..Len(r), NEW j \in 1..Len(r),
                      r[i] \in Carriers, j < i
               PROVE  r[j] = "Cgatt"
    BY DEF AttachFirst, r
  <2>2. "Cgatt" \notin Carriers
    BY DEF Carriers
  <2>3. i \in 1..Len(q)
    BY <2>1, <2>2
  <2>4. j \in 1..Len(q)
    BY <2>1, <2>3
  <2> QED BY <1>3, <2>1, <2>3, <2>4 DEF AttachFirst
<1>4. ASSUME NEW S, OnlyOf(q, S), c \in S PROVE OnlyOf(q \o <<c>>, S)
  <2> SUFFICES ASSUME NEW i \in 1..Len(q \o <<c>>) PROVE (q \o <<c>>)[i] \in S
    BY DEF OnlyOf
  <2>1. CASE i \in 1..Len(q)
    BY <1>1, <1>4, <2>1 DEF OnlyOf
  <2>2. CASE i \notin 1..Len(q)
    <3>1. i = Len(q) + 1
      BY <1>1, <2>2
    <3> QED BY <1>1, <1>4, <3>1
  <2> QED BY <2>1, <2>2
<1> QED BY <1>2, <1>3, <1>4

LEMMA ListTails ==
  ASSUME NEW q \in Seq(Clients), q # <<>>, NEW S, OnlyOf(q, S)
  PROVE  OnlyOf(Tail(q), S)
<1>1. /\ Len(Tail(q)) = Len(q) - 1
      /\ \A i \in 1..Len(Tail(q)) : i + 1 \in 1..Len(q) /\ Tail(q)[i] = q[i + 1]
  OBVIOUS
<1> QED BY <1>1 DEF OnlyOf

\* The empty list.
LEMMA NothingListed ==
  ASSUME NEW q, q = <<>>
  PROVE  /\ AttachFirst(q) /\ \A c : ~Has(q, c)
         /\ \A S : OnlyOf(q, S)
  BY DEF AttachFirst, OnlyOf, Has

\* No client at all is hooked when there is no id.
LEMMA NothingHooked ==
  ASSUME TypeInv, loopId = Unknown
  PROVE  loopClient = Unknown
  BY HookedClient

\* A step that leaves everything as it is.
LEMMA StillSends ==
  ASSUME SendingInv, UNCHANGED <<stm, events, posted, dispatching, calls>>,
         UNCHANGED loopVars, UNCHANGED <<pool, client, net>>
  PROVE  SendingInv'
<1>1. UNCHANGED <<clientList, loopClient, loopId, breakFlag>> /\ Phase' = Phase
  BY DEF loopVars, Phase
<1>2. \A c \in Carriers : OwnPacket(c)' <=> OwnPacket(c)
  BY PacketSame DEF PacketsSame
<1>3. SourceInv'
  BY <1>1 DEF SendingInv, SourceInv
<1>4. EmptyInv'
  BY <1>1 DEF SendingInv, EmptyInv
<1>5. KindInv'
  BY <1>1 DEF SendingInv, KindInv
<1>6. PartingInv'
  BY <1>1 DEF SendingInv, PartingInv
<1>7. CarryInv'
  BY <1>1, <1>2 DEF SendingInv, CarryInv
<1>8. AnsweredInv'
  BY <1>1 DEF SendingInv, AnsweredInv
<1> QED BY <1>3, <1>4, <1>5, <1>6, <1>7, <1>8 DEF SendingInv

\* No Connect is there between two calls of dispatch().
LEMMA SourceBetween ==
  ASSUME BackingInv, ~dispatching, ~dispatching', UNCHANGED events
  PROVE  SourceInv'
<1>1. HasNone(events', {"Connect"})
  BY DEF BackingInv, FreshInv
<1>2. ConnectLast(events')
  BY <1>1, ConnectLastNone
<1> QED BY <1>2 DEF SourceInv

\* A call begins, or gives up.
LEMMA PauseSends ==
  ASSUME BackingInv, SendingInv, ~dispatching,
         UNCHANGED <<stm, events, dispatching>>, UNCHANGED loopVars,
         client'.isconnected = client.isconnected,
         PacketsSame \/ clientList = <<>>,
         Phase \notin {"loop", "fail"},
         Phase' \in {"idle", "loop", "publish", "yield"}
  PROVE  SendingInv'
<1>1. UNCHANGED <<clientList, loopClient, loopId, breakFlag>>
  BY DEF loopVars
<1>2. ASSUME NEW c \in Carriers, Has(clientList, c), OwnPacket(c)
      PROVE  OwnPacket(c)'
  <2>1. PacketsSame
    BY <1>2, NothingListed
  <2> QED BY <1>2, <2>1, PacketSame
<1>3. SourceInv'
  BY SourceBetween
<1>4. EmptyInv'
  BY <1>1 DEF SendingInv, EmptyInv
<1>5. KindInv'
  BY <1>1 DEF SendingInv, KindInv
<1>6. PartingInv'
  BY <1>1 DEF SendingInv, PartingInv
<1>7. CarryInv'
  BY <1>1, <1>2 DEF SendingInv, CarryInv
<1>8. AnsweredInv'
  BY DEF AnsweredInv
<1> QED BY <1>3, <1>4, <1>5, <1>6, <1>7, <1>8 DEF SendingInv

\* Clients are added to the empty list of Connected.
LEMMA AddSends ==
  ASSUME TypeInv, BackingInv, ~dispatching, UNCHANGED stmVars,
         NEW cs \in Seq(Clients), ~Has(cs, "Disconnect"), AttachFirst(cs),
         \A c \in Carriers : Has(cs, c) => OwnPacket(c)',
         RegisterLoopClients(cs), clientList = <<>>, loopId = Unknown,
         stm = "Connected", calls' = LoopOnly
  PROVE  SendingInv'
<1>1. /\ UNCHANGED <<loopClient, loopId, breakFlag>> /\ clientList' = cs
      /\ UNCHANGED <<stm, events, posted, dispatching>>
  <2>1. <<>> \o cs = cs
    OBVIOUS
  <2> QED BY <2>1 DEF RegisterLoopClients, stmVars
<1>2. Phase' = "loop"
  BY ShapePhase DEF Phase
<1>3. SourceInv'
  BY <1>1, SourceBetween
<1>4. EmptyInv'
  BY <1>1, <1>2 DEF EmptyInv
<1>5. KindInv' /\ PartingInv'
  BY <1>1 DEF KindInv, PartingInv
<1>6. loopClient' = Unknown
  BY <1>1, NothingHooked
<1>7. CarryInv'
  BY <1>1, <1>6 DEF CarryInv
<1>8. AnsweredInv'
  BY <1>2 DEF AnsweredInv
<1> QED BY <1>3, <1>4, <1>5, <1>7, <1>8 DEF SendingInv

\* A client is started: behind one that uses sendbuf, no packet waits.
LEMMA StartSends ==
  ASSUME TypeInv, BackingInv, SendingInv, At("loop"), UNCHANGED stmVars,
         NEW c, NEW ok \in BOOLEAN, StartResult(c, ok),
         client'.isconnected = client.isconnected,
         PacketsSame \/ c # "Cgatt"
  PROVE  SendingInv'
<1>0. /\ clientList \in Seq(Clients) /\ Unknown \notin Clients /\ c # Unknown
      /\ clientList # <<>> /\ c = Head(clientList) /\ ~breakFlag
  <2>1. clientList \in Seq(Clients) /\ Unknown \notin Clients
    BY LoopAssumption DEF TypeInv, LoopInv, LoopTypeOK
  <2>2. clientList # <<>> /\ c = Head(clientList) /\ ~breakFlag
    BY DEF StartResult, LoopStart, Startable
  <2> QED BY <2>1, <2>2
<1>1. /\ UNCHANGED breakFlag /\ clientList' = Tail(clientList)
      /\ loopClient' = loopId' /\ loopId' \in {c, Unknown}
      /\ UNCHANGED <<stm, events, posted, dispatching>>
      /\ ~dispatching
  BY DEF StartResult, LoopStart, stmVars, At
<1>2. (calls' = <<>> /\ loopId' = c) \/ calls' = <<Op("fail", 0)>> \o Finish
  <2>1. ASSUME ok PROVE loopId' = c
    <3>1. c \in Clients /\ result \in [Clients -> Results]
      BY <1>0 DEF TypeInv, LoopInv, LoopTypeOK
    <3>2. preLoopStep(c, ok) = "Pending"
      BY <2>1 DEF preLoopStep
    <3>3. result'[c] = "Pending"
      BY <3>1, <3>2 DEF StartResult, LoopStart
    <3> QED BY <3>3 DEF StartResult, LoopStart
  <2> QED BY <2>1 DEF StartResult
<1>3. /\ Phase' \in {"idle", "fail"}
      /\ Phase' = "idle" => loopId' # Unknown
  BY <1>0, <1>2, ShapePhase DEF Phase
<1>4. SourceInv'
  BY <1>1, SourceBetween
<1>5. EmptyInv'
  BY <1>1, <1>3 DEF EmptyInv
<1>6. KindInv'
  BY <1>0, <1>1, ListTails DEF SendingInv, KindInv
<1>7. \A d : Has(clientList', d) => Has(clientList, d)
  BY <1>0, <1>1, ListTail
<1>8. PartingInv'
  BY <1>1, <1>3, <1>7 DEF SendingInv, PartingInv
<1>9. CarryInv'
  <2>1. AttachFirst(clientList)
    BY <1>0 DEF SendingInv, CarryInv
  <2>2. /\ AttachFirst(clientList')
        /\ \A d \in Carriers : Has(clientList', d) => c = "Cgatt"
    BY <1>0, <1>1, <2>1, AttachTail
  <2>3. ASSUME NEW d \in Carriers, Has(clientList', d)
        PROVE  OwnPacket(d)' /\ loopClient' \in {Unknown, "Cgatt"}
    <3>1. OwnPacket(d)
      BY <1>0, <1>7, <2>3 DEF SendingInv, CarryInv
    <3>2. c = "Cgatt" /\ PacketsSame
      BY <2>2, <2>3
    <3> QED BY <1>1, <3>1, <3>2, PacketSame
  <2> QED BY <2>2, <2>3 DEF CarryInv
<1>10. AnsweredInv'
  BY <1>3 DEF AnsweredInv
<1> QED BY <1>4, <1>5, <1>6, <1>8, <1>9, <1>10 DEF SendingInv

\* The hooked client goes on or ends: it may use sendbuf, and lose the
\* connection, because no packet is waiting there.
LEMMA HookedSends ==
  ASSUME TypeInv, BackingInv, SendingInv, ~dispatching,
         UNCHANGED <<stm, events, dispatching>>,
         UNCHANGED <<clientList, loopId, breakFlag>>,
         loopClient # Unknown, loopClient' \in {loopClient, Unknown},
         Phase' \in {"idle", "done", "fail", "disconnected"},
         Phase' = "disconnected" => ~breakFlag,
         \/ loopClient # "Cgatt"
         \/ PacketsSame /\ client'.isconnected = client.isconnected
  PROVE  SendingInv'
<1>1. loopId # Unknown
  BY HookedClient
<1>2. SourceInv'
  BY SourceBetween
<1>3. EmptyInv'
  BY <1>1 DEF EmptyInv
<1>4. KindInv'
  BY DEF SendingInv, KindInv
<1>5. ASSUME NEW c \in Carriers, ~breakFlag, Has(clientList, c)
      PROVE  /\ loopClient = "Cgatt" /\ OwnPacket(c) /\ PacketsSame
             /\ client'.isconnected = client.isconnected
  BY <1>5 DEF SendingInv, CarryInv
<1>6. PartingInv'
  <2>1. "Disconnect" \in Carriers
    BY DEF Carriers
  <2> QED BY <1>1, <1>5, <2>1 DEF SendingInv, PartingInv
<1>7. CarryInv'
  <2>1. ASSUME NEW c \in Carriers, ~breakFlag', Has(clientList', c)
        PROVE  OwnPacket(c)' /\ loopClient' \in {Unknown, "Cgatt"}
    BY <1>5, <2>1, PacketSame
  <2> QED BY <2>1 DEF SendingInv, CarryInv
<1>8. AnsweredInv'
  BY DEF AnsweredInv
<1> QED BY <1>2, <1>3, <1>4, <1>6, <1>7, <1>8 DEF SendingInv

\* Everything queued is dropped.
LEMMA ClearedSends ==
  ASSUME BackingInv, ~dispatching, UNCHANGED <<stm, events, dispatching>>,
         clientList' = <<>>, calls' = Finish
  PROVE  SendingInv'
<1>1. Phase' = "dispatch"
  BY ShapePhase DEF Phase
<1>2. /\ AttachFirst(clientList') /\ \A c : ~Has(clientList', c)
      /\ \A S : OnlyOf(clientList', S)
  BY NothingListed
<1>3. SourceInv'
  BY SourceBetween
<1>4. EmptyInv' /\ KindInv' /\ PartingInv' /\ CarryInv'
  BY <1>2 DEF EmptyInv, KindInv, PartingInv, CarryInv
<1>5. AnsweredInv'
  BY <1>1 DEF AnsweredInv
<1> QED BY <1>3, <1>4, <1>5 DEF SendingInv

\* nbiotLoop() has nothing to do, or reports a failure.
LEMMA NothingSends ==
  ASSUME BackingInv, LoopNothing \/ EventLoopFail
  PROVE  SendingInv'
<1>1. CASE LoopNothing
  <2>1. /\ clientList' = <<>> /\ UNCHANGED <<stm, events, posted, dispatching>>
        /\ ~dispatching /\ calls' = Finish
    BY <1>1 DEF LoopNothing, LoopIdle, clear, LoopTurn, At, stmVars
  <2> QED BY <2>1, ClearedSends
<1>2. CASE EventLoopFail
  <2>1. /\ clientList' = <<>> /\ UNCHANGED <<stm, events, dispatching>>
        /\ ~dispatching /\ calls' = Tail(calls) /\ Phase = "fail"
    BY <1>2 DEF EventLoopFail, clear, At, Phase, PhaseOf
  <2>2. calls' = Finish
    BY <2>1, ShapeTail DEF Phase, BackingInv, CallInv
  <2> QED BY <2>1, <2>2, ClearedSends
<1> QED BY <1>1, <1>2

\* A result is applied; after a disconnect what is queued is broken off.
LEMMA DoneSends ==
  ASSUME TypeInv, BackingInv, SendingInv, EventLoopDone
  PROVE  SendingInv'
<1>0. pool \in Pools /\ breakFlag \in BOOLEAN
  BY DEF TypeInv, PoolTypes, LoopInv, LoopTypeOK
<1>1. /\ UNCHANGED <<clientList, loopClient, loopId>>
      /\ UNCHANGED <<stm, events, dispatching, client>>
      /\ ~dispatching /\ calls' = <<>> /\ Phase = "done"
  BY DEF EventLoopDone, At, Phase, PhaseOf, finishDisconnect, loopBreak, loopVars
<1>2. breakFlag => breakFlag'
  BY <1>0 DEF EventLoopDone, finishDisconnect, loopBreak, loopVars
<1>3. pool'.currentTopic = pool.currentTopic
  <2> DEFINE f == IF loopId = "Register" THEN "PUB" ELSE "SUB"
             t == pool.currentTopic
             p == [pool EXCEPT !.currentReg = @ \cup {f},
                               !.registry[t] = pool.currentReg \cup {f},
                               !.hasSubscription = @ \/ loopId = "Subscribe"]
  <2>1. pool' \in {p, pool}
    BY DEF EventLoopDone
  <2>2. p.currentTopic = pool.currentTopic
    BY <1>0 DEF Pools
  <2> QED BY <2>1, <2>2
<1>4. loopId # Unknown
  BY <1>1 DEF BackingInv, CallInv
<1>5. Phase' = "idle"
  BY <1>1, ShapePhase DEF Phase
<1>6. \A c \in Carriers : OwnPacket(c)' <=> OwnPacket(c)
  BY <1>1, <1>3, PacketSame DEF PacketsSame
<1>7. SourceInv'
  BY <1>1, SourceBetween
<1>8. EmptyInv'
  BY <1>1, <1>4, <1>5 DEF EmptyInv
<1>9. KindInv'
  BY <1>1, <1>2 DEF SendingInv, KindInv
<1>10. PartingInv'
  BY <1>1, <1>2, <1>4 DEF SendingInv, PartingInv
<1>11. CarryInv'
  BY <1>1, <1>2, <1>6 DEF SendingInv, CarryInv
<1>12. AnsweredInv'
  BY <1>5 DEF AnsweredInv
<1> QED BY <1>7, <1>8, <1>9, <1>10, <1>11, <1>12 DEF SendingInv

\* A dispatch() that brings no Connect.
LEMMA DispatchSends ==
  ASSUME TypeInv, BackingInv, SendingInv, ~dispatching,
         NEW es \in Seq(Events), Dispatch(es), HasNone(es, {"Connect"}),
         Phase' \in {"idle", "loop", "autopoll"},
         stm # "Connected" => clientList' = <<>>,
         loopId' # Unknown =>
           Phase' # "loop" /\ ~client'.isconnected /\ stm = "Connected",
         loopId' = Unknown /\ Phase' # "loop" => clientList' = <<>>,
         client'.isconnected => clientList' = <<>>,
         ~Has(clientList', "Disconnect"), CarryInv'
  PROVE  SendingInv'
<1>1. /\ dispatching' /\ UNCHANGED stm
  BY DEF Dispatch
<1>2. HasNone(events', {"Connect"})
  BY ConnectLastDispatch DEF BackingInv, FreshInv
<1>3. SourceInv'
  BY <1>1, <1>2, ConnectLastNone DEF SourceInv
<1>4. EmptyInv'
  BY <1>1 DEF EmptyInv
<1>5. KindInv'
  BY <1>1, NothingListed DEF KindInv
<1>6. PartingInv' /\ AnsweredInv'
  BY DEF PartingInv, AnsweredInv
<1> QED BY <1>3, <1>4, <1>5, <1>6 DEF SendingInv

\* connect() sends a Connect, when nothing is hooked.
LEMMA ConnectSends ==
  ASSUME TypeInv, BackingInv, SendingInv, ~dispatching,
         Phase = "idle", loopId = Unknown, stm # "Connected",
         Dispatch(<<"Connect">>), calls' = LoopOnly,
         UNCHANGED loopVars, UNCHANGED client,
         pool'.currentTopic = pool.currentTopic
  PROVE  SendingInv'
<1>1. /\ dispatching' /\ UNCHANGED stm
      /\ UNCHANGED <<clientList, loopClient, loopId, breakFlag>>
  BY DEF Dispatch, loopVars
<1>2. Phase' = "loop"
  BY ShapePhase DEF Phase
<1>3. ConnectLast(events')
  <2> DEFINE es == <<"Connect">>
  <2>1. es \in Seq(Events) /\ Dispatch(es) /\ es = <<"Connect">>
    BY SentEvents
  <2>2. HasNone(events, {"Connect"})
    BY DEF BackingInv, FreshInv
  <2> HIDE DEF es
  <2> QED BY <2>1, <2>2, ConnectLastDispatch
<1>4. SourceInv'
  BY <1>1, <1>2, <1>3 DEF SourceInv
<1>5. EmptyInv'
  BY <1>1, <1>2 DEF EmptyInv
<1>6. KindInv'
  BY <1>1 DEF SendingInv, KindInv
<1>7. PartingInv'
  BY <1>1, <1>2 DEF SendingInv, PartingInv
<1>8. CarryInv'
  BY <1>1, PacketSame DEF SendingInv, CarryInv, PacketsSame
<1>9. AnsweredInv'
  BY <1>2 DEF AnsweredInv
<1> QED BY <1>4, <1>5, <1>6, <1>7, <1>8, <1>9 DEF SendingInv

\* A Disconnect is sent in Connected.
LEMMA DisconnectSends ==
  ASSUME TypeInv, BackingInv, SendingInv, ~dispatching, stm = "Connected",
         NEW rest \in {<<>>, LoopOnly}, SendThen("Disconnect", rest),
         UNCHANGED loopId,
         loopId = Unknown => rest = LoopOnly,
         loopId # Unknown => rest = <<>> /\ ~client'.isconnected,
         client'.isconnected => clientList' = <<>>,
         ~Has(clientList', "Disconnect"), CarryInv'
  PROVE  SendingInv'
<1>1. Dispatch(<<"Disconnect">>) /\ calls' = rest
  BY DEF SendThen
<1>2. /\ rest = LoopOnly => Phase' = "loop"
      /\ rest = <<>> => Phase' = "idle"
  BY <1>1, ShapePhase DEF Phase
<1>3. /\ loopId = Unknown => Phase' = "loop"
      /\ loopId # Unknown => Phase' = "idle"
  BY <1>2
<1> DEFINE es == <<"Disconnect">>
<1>4. es \in Seq(Events) /\ Dispatch(es) /\ HasNone(es, {"Connect"})
  BY <1>1, SentEvents, HasOf
<1> HIDE DEF es
<1>5. Phase' \in {"idle", "loop"} /\ (loopId' # Unknown => Phase' # "loop")
  BY <1>3
<1> QED BY <1>3, <1>4, <1>5, DispatchSends

\* What the application adds in Connected carries its own packet.
LEMMA AddedPackets ==
  /\ \A c \in {"Subscribe", "Unsubscribe", "Yield"} :
       AttachFirst(<<c>>) /\ (\A d \in Carriers : Has(<<c>>, d) => d = c)
  /\ \A p \in {<<>>, <<"Register">>} :
       /\ AttachFirst(p) /\ AttachFirst(p \o <<"Publish", "Yield">>)
       /\ \A d \in Carriers :
            Has(p, d) \/ Has(p \o <<"Publish", "Yield">>, d) =>
              d = "Register" /\ p # <<>>
<1>1. ASSUME NEW c PROVE AttachFirst(<<c>>) /\ \A d : Has(<<c>>, d) => d = c
  BY DEF AttachFirst, Has
<1>2. AttachFirst(<<>>) /\ \A d : ~Has(<<>>, d)
  BY NothingListed
<1>3. <<>> \o <<"Publish", "Yield">> = <<"Publish", "Yield">>
  <2>1. \A s \in Seq(Clients) : <<>> \o s = s
    OBVIOUS
  <2>2. {"Publish", "Yield"} \subseteq Clients
    BY StmAssumption
  <2>3. <<"Publish", "Yield">> \in Seq(Clients)
    BY <2>2
  <2> QED BY <2>1, <2>3
<1>4. /\ AttachFirst(<<"Publish", "Yield">>)
      /\ \A d \in Carriers : ~Has(<<"Publish", "Yield">>, d)
  BY DEF AttachFirst, Has, Carriers
<1>5. /\ AttachFirst(<<"Register">> \o <<"Publish", "Yield">>)
      /\ \A d \in Carriers :
           Has(<<"Register">> \o <<"Publish", "Yield">>, d) => d = "Register"
  <2> DEFINE q == <<"Register">> \o <<"Publish", "Yield">>
  <2>0. ASSUME NEW a \in Clients, NEW b \in Clients, NEW c \in Clients
        PROVE  LET r == <<a>> \o <<b, c>> IN
               Len(r) = 3 /\ r[1] = a /\ r[2] = b /\ r[3] = c
    OBVIOUS
  <2>1. Len(q) = 3 /\ q[1] = "Register" /\ q[2] = "Publish" /\ q[3] = "Yield"
    BY <2>0, StmAssumption
  <2> HIDE DEF q
  <2>2. \A i \in 1..Len(q) : i = 1 \/ i = 2 \/ i = 3
    BY <2>1
  <2>3. \A i \in 1..Len(q) : q[i] \in Carriers => i = 1
    BY <2>1, <2>2 DEF Carriers
  <2>4. \A i, j \in 1..Len(q) : q[i] \in Carriers => ~(j < i)
    BY <2>1, <2>3
  <2>5. AttachFirst(q) /\ \A d \in Carriers : Has(q, d) => d = "Register"
    BY <2>1, <2>3, <2>4 DEF AttachFirst, Has
  <2> QED BY <2>5 DEF q
<1>7. ASSUME NEW p \in {<<>>, <<"Register">>}
      PROVE  /\ AttachFirst(p) /\ AttachFirst(p \o <<"Publish", "Yield">>)
             /\ \A d \in Carriers :
                  Has(p, d) \/ Has(p \o <<"Publish", "Yield">>, d) =>
                    d = "Register" /\ p # <<>>
  <2>1. CASE p = <<>>
    BY <1>2, <1>3, <1>4, <2>1
  <2>2. CASE p = <<"Register">>
    <3>1. p # <<>>
      BY <2>2
    <3> QED BY <1>1, <1>5, <2>2, <3>1
  <2> QED BY <2>1, <2>2
<1> QED BY <1>1, <1>7

\* The calls of the application.
LEMMA ApplicationSends ==
  ASSUME PlainUse, TypeInv, BackingInv, SendingInv,
         Application \/ eventLoop \/ eventLoopAsleep
  PROVE  SendingInv'
<1>0. client \in ClientRecs /\ pool \in Pools
  BY DEF TypeInv, ClientTypes, PoolTypes
<1>m. stm \in Awake
  BY DEF BackingInv, AwakeInv
<1>e. ASSUME NEW f, API(f)
      PROVE  /\ ~dispatching /\ Phase = "idle" /\ loopId = Unknown
             /\ Return = LoopOnly /\ ~isSleeping
             /\ stm = "Connected" => clientList = <<>>
  <2>1. /\ ~dispatching /\ Phase = "idle" /\ loopId = Unknown
        /\ Return = LoopOnly /\ ~isSleeping
    BY <1>e, PlainCall
  <2> QED BY <2>1 DEF SendingInv, EmptyInv
<1>1. ASSUME NEW c \in {0, 1}, connect(c) PROVE SendingInv'
  <2>1. /\ ~dispatching /\ Phase = "idle" /\ loopId = Unknown
        /\ Return = LoopOnly /\ ~isSleeping
    BY <1>1, <1>e DEF connect
  <2>2. /\ Dispatch(<<"Connect">>) /\ calls' = LoopOnly /\ stm # "Connected"
        /\ UNCHANGED loopVars /\ UNCHANGED client
        /\ pool' = [pool EXCEPT !.cleanSession = c]
    BY <1>1, <2>1 DEF connect, SendThen
  <2>3. pool'.currentTopic = pool.currentTopic
    BY <1>0, <2>2 DEF Pools
  <2> QED BY <2>1, <2>2, <2>3, ConnectSends
<1>2. ASSUME NEW t \in Topics, publish(t) PROVE SendingInv'
  <2>1. /\ ~dispatching /\ Phase = "idle"
        /\ Return = LoopOnly /\ ~isSleeping
    BY <1>2, <1>e DEF publish
  <2>2. /\ calls' = <<Op("publish", t)>> \o LoopOnly
        /\ UNCHANGED <<stmVars, loopVars, client, pool>>
    BY <1>2, <2>1 DEF publish
  <2>3. Phase' = "publish"
    BY <2>2, ShapePhase DEF Phase
  <2> QED BY <2>1, <2>2, <2>3, PauseSends DEF stmVars, PacketsSame
<1>3. ASSUME NEW t \in Topics, subscribe(t) PROVE SendingInv'
  <2>1. /\ ~dispatching /\ Phase = "idle" /\ loopId = Unknown
        /\ Return = LoopOnly /\ stm = "Connected" /\ clientList = <<>>
    BY <1>3, <1>e DEF subscribe
  <2>2. /\ calls' = LoopOnly /\ UNCHANGED <<stmVars, client>>
        /\ RegisterLoopClients(<<"Subscribe">>) \/ UNCHANGED loopVars
    BY <1>3, <2>1 DEF subscribe, loopSubscribe
  <2>3. Phase' = "loop"
    BY <2>2, ShapePhase DEF Phase
  <2>4. CASE UNCHANGED loopVars
    BY <2>1, <2>2, <2>3, <2>4, PauseSends DEF stmVars
  <2>5. CASE RegisterLoopClients(<<"Subscribe">>)
    <3> DEFINE cs == <<"Subscribe">>
    <3>1. /\ cs \in Seq(Clients) /\ ~Has(cs, "Disconnect") /\ AttachFirst(cs)
          /\ RegisterLoopClients(cs)
      BY <2>5, AddedClients, AddedPackets
    <3>2. \A d \in Carriers : ~Has(cs, d)
      BY AddedPackets DEF Carriers
    <3> HIDE DEF cs
    <3> QED BY <2>1, <2>2, <3>1, <3>2, AddSends
  <2> QED BY <2>2, <2>4, <2>5
<1>4. ASSUME NEW t \in Topics, unsubscribe(t) PROVE SendingInv'
  <2>1. /\ ~dispatching /\ loopId = Unknown
        /\ Return = LoopOnly /\ stm = "Connected" /\ clientList = <<>>
    BY <1>4, <1>e DEF unsubscribe
  <2>2. /\ calls' = LoopOnly /\ UNCHANGED stmVars
        /\ RegisterLoopClients(<<"Unsubscribe">>)
        /\ client' = [client EXCEPT !.sendbuf = Packet("UNSUBSCRIBE", t)]
    BY <1>4, <2>1 DEF unsubscribe, loopUnsubscribe
  <2>3. client'.sendbuf.type = "UNSUBSCRIBE"
    BY <1>0, <2>2 DEF ClientRecs, Packet
  <2>4. OwnPacket("Unsubscribe")'
    BY <2>3 DEF OwnPacket
  <2> DEFINE cs == <<"Unsubscribe">>
  <2>5. /\ cs \in Seq(Clients) /\ ~Has(cs, "Disconnect") /\ AttachFirst(cs)
        /\ RegisterLoopClients(cs)
        /\ \A d \in Carriers : Has(cs, d) => d = "Unsubscribe"
    BY <2>2, AddedClients, AddedPackets
  <2> HIDE DEF cs
  <2> QED BY <2>1, <2>2, <2>4, <2>5, AddSends
<1>5. CASE disconnect
  <2>1. /\ ~dispatching /\ loopId = Unknown
        /\ Return = LoopOnly /\ ~isSleeping
    BY <1>5, <1>e DEF disconnect
  <2>2. /\ stm = "Connected" /\ SendThen("Disconnect", LoopOnly)
        /\ UNCHANGED <<loopVars, client>> /\ clientList = <<>>
    BY <1>5, <1>e, <2>1 DEF disconnect
  <2>3. clientList' = <<>> /\ UNCHANGED loopId
    BY <2>2 DEF loopVars
  <2>4. CarryInv' /\ ~Has(clientList', "Disconnect")
    BY <2>3, NothingListed DEF CarryInv
  <2> DEFINE rest == LoopOnly
  <2>5. rest \in {<<>>, LoopOnly} /\ SendThen("Disconnect", rest) /\ rest = LoopOnly
    BY <2>2
  <2> HIDE DEF rest
  <2> QED BY <2>1, <2>2, <2>3, <2>4, <2>5, DisconnectSends
<1>6. ASSUME NEW d \in Durations, sleep(d) \/ hibernate(d) PROVE FALSE
  BY <1>6, PlainCall DEF sleep, hibernate
<1>7. ~wakeup
  BY PlainCall DEF wakeup
<1>8. CASE poll
  <2>1. /\ ~dispatching /\ Phase = "idle"
        /\ Return = LoopOnly /\ ~isSleeping
    BY <1>8, <1>e DEF poll
  <2>2. /\ calls' = <<Op("yield", 0)>> \o LoopOnly
        /\ UNCHANGED <<stmVars, loopVars, client, pool>>
    BY <1>8, <2>1 DEF poll
  <2>3. Phase' = "yield"
    BY <2>2, ShapePhase DEF Phase
  <2> QED BY <2>1, <2>2, <2>3, PauseSends DEF stmVars, PacketsSame
<1>9. CASE eventLoop
  <2>1. /\ ~dispatching /\ calls = <<>> /\ calls' = LoopOnly
        /\ UNCHANGED <<stmVars, loopVars, client, pool>>
    BY <1>9 DEF eventLoop, Idle, LoopOnly
  <2>2. Phase' = "loop" /\ Phase = "idle"
    BY <2>1, ShapePhase DEF Phase
  <2> QED BY <2>1, <2>2, PauseSends DEF stmVars, PacketsSame
<1>10. ~eventLoopAsleep
  BY <1>m DEF eventLoopAsleep, Awake
<1> QED BY <1>1, <1>2, <1>3, <1>4, <1>5, <1>6, <1>7, <1>8, <1>9, <1>10
        DEF Application

\* The clients that publish() queues, and its REGISTER.
LEMMA PublishSends ==
  ASSUME TypeInv, BackingInv, SendingInv, PublishBody
  PROVE  SendingInv'
<1>0. client \in ClientRecs /\ pool \in Pools
  BY DEF TypeInv, ClientTypes, PoolTypes
<1>1. ~dispatching /\ calls # <<>> /\ Phase = "publish"
  BY AtPhase DEF PublishBody
<1>2. stm = "Connected" /\ loopId = Unknown /\ Tail(calls) = LoopOnly
  BY <1>1, ShapeTail DEF BackingInv, CallInv, Phase
<1>3. clientList = <<>> /\ loopClient = Unknown
  BY <1>1, <1>2, NothingHooked DEF SendingInv, EmptyInv
<1> DEFINE t     == Head(calls).arg
           known == pool.registry[t] # {}
           p     == [pool EXCEPT !.errno = "Success", !.topicid = NoTopic]
           q     == Selected(t, [p EXCEPT !.registry[t] = IF known THEN @ \cup {"PUB"} ELSE @])
           first == IF known THEN <<>> ELSE <<"Register">>
           sent  == IF known THEN client
                    ELSE [client EXCEPT !.sendbuf = Packet("REGISTER", t)]
<1>4. \/ calls' = Tail(calls) /\ UNCHANGED <<loopVars, stmVars, pool, client>>
      \/ PublishFails(p, "MaxTopicsExceeded") /\ UNCHANGED <<loopVars, client>>
      \/ /\ client' = sent
         /\ \/ /\ RegisterLoopClients(first \o <<"Publish", "Yield">>)
               /\ calls' = Tail(calls) /\ UNCHANGED stmVars /\ pool' = q
            \/ /\ RegisterLoopClients(first) /\ PublishFails(q, "ConnectionError")
               /\ ~client.isconnected
  BY DEF PublishBody
<1>5. first \in {<<>>, <<"Register">>} /\ (first # <<>> => ~known)
  OBVIOUS
<1>6. sent.isconnected = client.isconnected
  BY <1>0 DEF ClientRecs
<1>7. ~known => sent.sendbuf = Packet("REGISTER", t)
  BY <1>0 DEF ClientRecs
<1>8. p.currentTopic = pool.currentTopic /\ q.currentTopic = t
  <2> DEFINE r == [p EXCEPT !.registry[t] = IF known THEN @ \cup {"PUB"} ELSE @]
  <2>1. "currentTopic" \in DOMAIN pool
    BY <1>0 DEF Pools
  <2>2. DOMAIN r = DOMAIN pool /\ p.currentTopic = pool.currentTopic
    BY <1>0 DEF Pools
  <2>3. q = [r EXCEPT !.currentTopic = t, !.topicid = t, !.currentReg = r.registry[t]]
    BY DEF Selected
  <2> HIDE DEF r, p, q
  <2>4. q.currentTopic = t
    BY <2>1, <2>2, <2>3
  <2> QED BY <2>2, <2>4
<1>9. \A r, e : PublishFails(r, e) => SendThen("Disconnect", LoopOnly)
  BY <1>2 DEF PublishFails
<1> HIDE DEF p, q, known, first, sent, t
<1>10. CASE calls' = Tail(calls) /\ UNCHANGED <<loopVars, stmVars, pool, client>>
  <2>1. Phase' = "loop"
    BY <1>2, <1>10, ShapePhase DEF Phase
  <2> QED BY <1>1, <1>10, <2>1, PauseSends DEF stmVars, PacketsSame
<1> DEFINE rest == LoopOnly
<1>r. rest \in {<<>>, LoopOnly} /\ rest = LoopOnly
  OBVIOUS
<1> HIDE DEF rest
<1>11. CASE PublishFails(p, "MaxTopicsExceeded") /\ UNCHANGED <<loopVars, client>>
  <2>1. clientList' = <<>> /\ UNCHANGED loopId
    BY <1>3, <1>11 DEF loopVars
  <2>2. CarryInv' /\ ~Has(clientList', "Disconnect")
    BY <2>1, NothingListed DEF CarryInv
  <2>3. SendThen("Disconnect", rest)
    BY <1>9, <1>11, <1>r
  <2> QED BY <1>1, <1>2, <1>r, <2>1, <2>2, <2>3, DisconnectSends
<1>12. ASSUME ~known, client' = sent, pool' = q
       PROVE  OwnPacket("Register")'
  BY <1>7, <1>8, <1>12 DEF OwnPacket
<1>13. CASE /\ client' = sent /\ pool' = q
            /\ RegisterLoopClients(first \o <<"Publish", "Yield">>)
            /\ calls' = Tail(calls) /\ UNCHANGED stmVars
  <2> DEFINE cs == first \o <<"Publish", "Yield">>
  <2>1. /\ cs \in Seq(Clients) /\ ~Has(cs, "Disconnect") /\ AttachFirst(cs)
        /\ \A d \in Carriers : Has(cs, d) => d = "Register" /\ first # <<>>
    BY <1>5, AddedClients, AddedPackets
  <2>2. RegisterLoopClients(cs)
    BY <1>13
  <2>3. \A d \in Carriers : Has(cs, d) => OwnPacket(d)'
    BY <1>5, <1>12, <1>13, <2>1
  <2> HIDE DEF cs
  <2> QED BY <1>1, <1>2, <1>3, <1>13, <2>1, <2>2, <2>3, AddSends
<1>14. CASE /\ client' = sent /\ RegisterLoopClients(first)
            /\ PublishFails(q, "ConnectionError") /\ ~client.isconnected
  <2>1. /\ UNCHANGED <<loopClient, loopId, breakFlag>> /\ clientList' = first
    <3>1. /\ UNCHANGED <<loopClient, loopId, breakFlag>>
          /\ clientList' = clientList \o first
      BY <1>14 DEF RegisterLoopClients
    <3>2. first \in Seq(Clients)
      <4>1. "Register" \in Clients
        BY StmAssumption
      <4>2. <<>> \in Seq(Clients) /\ <<"Register">> \in Seq(Clients)
        BY <4>1
      <4> QED BY <1>5, <4>2
    <3> QED BY <1>3, <3>1, <3>2
  <2>2. /\ AttachFirst(first)
        /\ \A d \in Carriers : Has(first, d) => d = "Register" /\ first # <<>>
    BY <1>5, AddedPackets
  <2>3. ~client'.isconnected
    BY <1>6, <1>14
  <2>4. pool'.currentTopic = q.currentTopic
    <3>1. pool' = [q EXCEPT !.errno = "ConnectionError"]
      BY <1>14 DEF PublishFails
    <3>2. "currentTopic" \in DOMAIN q
      BY <1>0 DEF q, p, Selected, Pools
    <3> QED BY <3>1, <3>2
  <2>5. ~known => OwnPacket("Register")'
    BY <1>7, <1>8, <1>14, <2>4 DEF OwnPacket
  <2>6. CarryInv'
    BY <1>3, <1>5, <2>1, <2>2, <2>5 DEF CarryInv
  <2>7. ~Has(clientList', "Disconnect")
    BY <2>1, <2>2 DEF Carriers
  <2>8. SendThen("Disconnect", rest)
    BY <1>9, <1>14, <1>r
  <2> QED BY <1>1, <1>2, <1>r, <2>1, <2>3, <2>6, <2>7, <2>8, DisconnectSends
<1> QED BY <1>4, <1>10, <1>11, <1>13, <1>14

\* What is left of a call after its dispatch(), and the end of a turn.
LEMMA ContinueSends ==
  ASSUME PlainUse, TypeInv, BackingInv, SendingInv, Continue
  PROVE  SendingInv'
<1>1. CASE SendStep \/ HibernateBody \/ WakeupBody \/ ReconnectDone \/ pmPing
  <2>1. PICK o \in {"send", "hibernate", "wakeup", "reconnected", "ping"} : At(o)
    BY <1>1 DEF SendStep, HibernateBody, WakeupBody, ReconnectDone, pmPing
  <2>2. o \in Phases
    BY <2>1, AtPhase
  <2> QED BY <2>2 DEF Phases
<1>2. CASE yield
  <2>1. /\ ~dispatching /\ Phase = "yield" /\ calls' = Tail(calls)
        /\ UNCHANGED stmVars /\ RegisterLoopClients(<<"Yield">>)
    BY <1>2, AtPhase DEF yield, loopYield
  <2>2. stm = "Connected" /\ loopId = Unknown /\ calls' = LoopOnly
    BY <2>1, ShapeTail DEF BackingInv, CallInv, Phase
  <2>3. clientList = <<>>
    BY <2>1, <2>2 DEF SendingInv, EmptyInv
  <2> DEFINE cs == <<"Yield">>
  <2>4. /\ cs \in Seq(Clients) /\ ~Has(cs, "Disconnect") /\ AttachFirst(cs)
        /\ RegisterLoopClients(cs)
    BY <2>1, AddedClients, AddedPackets
  <2>5. \A d \in Carriers : ~Has(cs, d)
    BY AddedPackets DEF Carriers
  <2> HIDE DEF cs
  <2> QED BY <2>1, <2>2, <2>3, <2>4, <2>5, AddSends
<1>3. CASE EventLoopDispatch
  <2>1. /\ ~dispatching /\ Phase = "dispatch" /\ calls' = Tail(calls)
        /\ UNCHANGED <<loopVars, client>> /\ Dispatch(<<>>)
    BY <1>3, AtPhase DEF EventLoopDispatch
  <2>2. loopId = Unknown /\ calls' = <<Op("autopoll", 0)>>
    BY <2>1, ShapeTail DEF BackingInv, CallInv, Phase
  <2>3. Phase' = "autopoll"
    BY <2>2, ShapePhase DEF Phase
  <2>4. clientList' = <<>> /\ loopId' = Unknown
    BY <2>1, <2>2 DEF SendingInv, EmptyInv, loopVars
  <2>5. CarryInv' /\ ~Has(clientList', "Disconnect")
    BY <2>4, NothingListed DEF CarryInv
  <2> DEFINE es == <<>>
  <2>6. /\ es \in Seq(Events) /\ Dispatch(es) /\ HasNone(es, {"Connect"})
    BY <2>1, SentEvents, HasNoneEmpty
  <2> HIDE DEF es
  <2> QED BY <2>1, <2>3, <2>4, <2>5, <2>6, DispatchSends
<1>4. CASE EventLoopAutoPoll
  <2>1. /\ ~dispatching /\ Phase = "autopoll" /\ calls' = Tail(calls)
        /\ UNCHANGED <<loopVars, stmVars, client, pool>>
    BY <1>4, AtPhase DEF EventLoopAutoPoll, PlainUse
  <2>2. calls' = <<>>
    BY <2>1, ShapeTail DEF BackingInv, CallInv, Phase
  <2>3. Phase' = "idle"
    BY <2>2, ShapePhase DEF Phase
  <2> QED BY <2>1, <2>3, PauseSends DEF stmVars, PacketsSame
<1> QED BY <1>1, <1>2, <1>3, <1>4, PublishSends, NothingSends, DoneSends DEF Continue

\* The start functions: SUBSCRIBE and PUBLISH are serialised by their own.
LEMMA StartsSends ==
  ASSUME TypeInv, BackingInv, SendingInv, LoopStarts
  PROVE  SendingInv'
<1>0. client \in ClientRecs /\ {"Subscribe", "Publish", "Yield", "Cgatt"} \subseteq Clients
  BY StmAssumption DEF TypeInv, ClientTypes
<1>1. At("loop") /\ UNCHANGED stmVars
  BY DEF LoopStarts, LoopTurn, StartStale, startAttachLoop, startYieldLoop,
     startConLoop, startRegLoop, startUnsubLoop, startDisLoop, startSubLoop,
     startPubLoop, StartWith
<1>2. ASSUME NEW c, StartWith(c),
             client'.isconnected = client.isconnected,
             PacketsSame \/ c # "Cgatt"
      PROVE  SendingInv'
  <2>1. PICK ok \in BOOLEAN : StartResult(c, ok)
    BY <1>2, SendPacketTyped DEF StartWith
  <2> QED BY <1>1, <1>2, <2>1, StartSends
<1>3. CASE StartStale
  <2>1. PICK c : StartResult(c, TRUE)
    BY <1>3 DEF StartStale
  <2>2. UNCHANGED <<pool, client>>
    BY <1>3 DEF StartStale
  <2> QED BY <1>1, <2>1, <2>2, StartSends DEF PacketsSame
<1>4. CASE startAttachLoop
  <2>1. PICK ok \in BOOLEAN : StartResult("Cgatt", ok)
    BY <1>4, OutcomeTyped DEF startAttachLoop
  <2>2. UNCHANGED <<pool, client>>
    BY <1>4 DEF startAttachLoop
  <2> QED BY <1>1, <2>1, <2>2, StartSends DEF PacketsSame
<1>5. CASE startYieldLoop
  <2>1. StartResult("Yield", TRUE) /\ client'.isconnected = client.isconnected
    BY <1>0, <1>5 DEF startYieldLoop, ClientRecs
  <2> QED BY <1>1, <2>1, StartSends
<1>6. CASE startSubLoop
  <2>1. StartWith("Subscribe") /\ client'.isconnected = client.isconnected
    BY <1>0, <1>6 DEF startSubLoop, sendSubPacket, ClientRecs
  <2> QED BY <1>2, <2>1
<1>7. CASE startPubLoop
  <2>1. PICK qos \in {0, 1} : sendPubPacket(qos)
    BY <1>7 DEF startPubLoop
  <2>2. client'.isconnected = client.isconnected
    BY <1>0, <2>1 DEF sendPubPacket, ClientRecs
  <2>3. StartWith("Publish")
    BY <1>7 DEF startPubLoop
  <2> QED BY <1>2, <2>2, <2>3
<1>8. CASE startConLoop \/ startRegLoop \/ startUnsubLoop \/ startDisLoop
  <2>1. /\ \E c : StartWith(c)
        /\ UNCHANGED <<pool, client>>
    BY <1>8 DEF startConLoop, startRegLoop, startUnsubLoop, startDisLoop
  <2> QED BY <1>2, <2>1 DEF PacketsSame
<1> QED BY <1>3, <1>4, <1>5, <1>6, <1>7, <1>8 DEF LoopStarts

\* A turn of the hooked client that is not its last one.
LEMMA TurnSends ==
  ASSUME TypeInv, BackingInv, SendingInv, At("loop"), UNCHANGED stmVars,
         NEW c \in Clients, LoopStepPending(c),
         \/ calls' = <<>>
         \/ calls' = <<Op("disconnected", 0)>>,
         c # "Cgatt" \/ UNCHANGED <<client, pool>>
  PROVE  SendingInv'
<1>1. /\ ~dispatching /\ UNCHANGED loopVars /\ loopClient = c /\ c # Unknown
      /\ ~breakFlag
  BY DEF At, LoopStepPending, Steppable
<1>2. Phase' \in {"idle", "disconnected"}
  BY ShapePhase DEF Phase
<1> QED BY <1>1, <1>2, HookedSends DEF loopVars, stmVars, PacketsSame

\* A turn that is the last one of its client.
LEMMA EndSends ==
  ASSUME TypeInv, BackingInv, SendingInv, ~dispatching,
         NEW c \in Clients, NEW ok, NEW rc \in {0, 1, 2},
         StepEnd(c, ok), StepResult(ok, rc),
         UNCHANGED <<stm, events, dispatching, breakFlag>>,
         c # "Cgatt" \/ UNCHANGED <<client, pool>>
  PROVE  SendingInv'
<1>1. /\ loopClient = c /\ c # Unknown /\ loopClient' = Unknown
      /\ UNCHANGED <<clientList, loopId>>
  BY LoopAssumption DEF StepEnd
<1>2. Phase' \in {"done", "fail"}
  <2>1. ok => calls' = <<Op("done", 0)>>
    BY DEF StepResult
  <2>2. ~ok => calls' = <<Op("fail", rc)>> \o Finish
    BY DEF StepResult
  <2> QED BY <2>1, <2>2, ShapePhase DEF Phase
<1> QED BY <1>1, <1>2, HookedSends DEF PacketsSame

\* The gateway disconnects.
LEMMA DropSends ==
  ASSUME TypeInv, BackingInv, SendingInv, StepDisconnectReceived
  PROVE  SendingInv'
<1>0. client \in ClientRecs
  BY DEF TypeInv, ClientTypes
<1>1. /\ At("loop") /\ UNCHANGED pool
      /\ client' = [client EXCEPT !.isconnected = FALSE]
  BY DEF StepDisconnectReceived, LoopTurn
<1>2. ~client'.isconnected /\ client'.sendbuf = client.sendbuf
  BY <1>0, <1>1 DEF ClientRecs
<1>3. PICK c \in Cyclers :
        /\ LoopStepPending(c)
        /\ \/ c = "Disconnect" /\ disconnectNotify(<<Op("disconnected", 0)>>)
           \/ c # "Disconnect" /\ disconnectNotify(<<>>)
  BY DEF StepDisconnectReceived
<1>4. UNCHANGED loopVars /\ loopClient = c /\ c # Unknown /\ ~breakFlag
  BY <1>3 DEF LoopStepPending, Steppable
<1>5. loopId = c /\ c # "Cgatt" /\ c \in Clients
  BY <1>3, <1>4, HookedClient DEF Cyclers
<1>6. CASE stm = "Connected"
  <2>1. ~Has(clientList, "Disconnect") /\ c # "Disconnect"
    BY <1>5, <1>6 DEF BackingInv, BackedInv, Queued
  <2>2. SendThen("Disconnect", <<>>) /\ ~dispatching
    BY <1>1, <1>3, <1>6, <2>1 DEF disconnectNotify, At
  <2>3. UNCHANGED <<clientList, loopClient, loopId, breakFlag>>
    BY <1>4 DEF loopVars
  <2>4. ASSUME NEW d \in Carriers PROVE ~Has(clientList, d)
    BY <1>4, <1>5 DEF SendingInv, CarryInv
  <2>5. CarryInv'
    BY <2>3, <2>4 DEF SendingInv, CarryInv
  <2> DEFINE rest == <<>>
  <2>6. rest \in {<<>>, LoopOnly} /\ SendThen("Disconnect", rest) /\ rest = <<>>
    BY <2>2
  <2> HIDE DEF rest
  <2> QED BY <1>2, <1>4, <1>5, <1>6, <2>1, <2>2, <2>3, <2>5, <2>6, DisconnectSends
<1>7. CASE stm # "Connected"
  <2>1. stm # "DisconnectedSleep"
    BY DEF BackingInv, AwakeInv, Awake
  <2>2. UNCHANGED stmVars /\ (calls' = <<>> \/ calls' = <<Op("disconnected", 0)>>)
    BY <1>3, <1>7, <2>1 DEF disconnectNotify
  <2> QED BY <1>1, <1>3, <1>5, <2>2, TurnSends
<1> QED BY <1>6, <1>7

\* The loops.
LEMMA StepsSends ==
  ASSUME TypeInv, BackingInv, SendingInv, LoopSteps
  PROVE  SendingInv'
<1>c. /\ {"Cgatt", "Yield", "Connect", "Publish", "Register", "Subscribe",
          "Unsubscribe", "Disconnect"} \subseteq Clients
      /\ \A c \in Cyclers : c \in Clients /\ c # "Cgatt"
  BY StmAssumption DEF Cyclers
<1>l. LoopTurn => At("loop") /\ ~dispatching
  BY DEF LoopTurn, At
<1>t. ASSUME NEW c \in Clients, LoopStepPending(c), LoopTurn, UNCHANGED stmVars,
             calls' = <<>>, c # "Cgatt" \/ UNCHANGED <<client, pool>>
      PROVE  SendingInv'
  BY <1>l, <1>t, TurnSends
<1>e. ASSUME NEW c \in Clients, NEW ok, NEW rc \in {0, 1, 2}, StepDone(c, ok, rc),
             LoopTurn, UNCHANGED <<stm, events, dispatching>>,
             c # "Cgatt" \/ UNCHANGED <<client, pool>>
      PROVE  SendingInv'
  <2>1. StepEnd(c, ok) /\ StepResult(ok, rc) /\ UNCHANGED breakFlag
    BY <1>e DEF StepDone, LoopStepDone
  <2> QED BY <1>e, <1>l, <2>1, EndSends
<1>1. CASE StepWaits
  <2>1. PICK c \in Clients : LoopStepPending(c)
    BY <1>1 DEF StepWaits
  <2> QED BY <1>1, <1>t, <2>1 DEF StepWaits
<1>2. CASE StepTraffic \/ StepTopicRejected \/ StepRegisterReceived
  <2>1. PICK c \in Cyclers : LoopStepPending(c)
    BY <1>2 DEF StepTraffic, StepTopicRejected, StepRegisterReceived
  <2>2. LoopTurn /\ UNCHANGED stmVars /\ calls' = <<>>
    BY <1>2 DEF StepTraffic, StepTopicRejected, StepRegisterReceived
  <2> QED BY <1>c, <1>t, <2>1, <2>2
<1>3. CASE StepPingResponse
  <2>1. PICK c \in Cyclers : LoopStepPending(c)
    BY <1>3 DEF StepPingResponse
  <2>2. LoopTurn /\ UNCHANGED stmVars /\ calls' = <<>>
    BY <1>3 DEF StepPingResponse, BackingInv, AwakeInv, Awake
  <2> QED BY <1>c, <1>t, <2>1, <2>2
<1>4. CASE doSubLoop \/ doPubLoop
  BY <1>4, <1>c, <1>t DEF doSubLoop, doPubLoop
<1>5. CASE finishAttachLoop
  <2>1. PICK ok \in BOOLEAN : StepDone("Cgatt", ok, 0)
    BY <1>5 DEF finishAttachLoop
  <2> QED BY <1>5, <1>c, <1>e, <2>1 DEF finishAttachLoop
<1>6. CASE finishConLoop
  <2>1. PICK ok \in BOOLEAN : StepDone("Connect", ok, 0)
    BY <1>6 DEF finishConLoop
  <2> QED BY <1>6, <1>c, <1>e, <2>1 DEF finishConLoop, stmVars
<1>7. CASE finishPubLoopQoS0 \/ finishPubLoop
  <2>1. LoopTurn /\ UNCHANGED stmVars
    BY <1>7 DEF finishPubLoopQoS0, finishPubLoop
  <2>2. PICK ok \in BOOLEAN : \E rc \in {0, 1, 2} : StepDone("Publish", ok, rc)
    <3>1. CASE \E rc \in {0, 1, 2} : StepDone("Publish", rc = 0, rc)
      BY <3>1
    <3>2. CASE StepDone("Publish", TRUE, 0) \/ StepDone("Publish", FALSE, 0)
      BY <3>2
    <3> QED BY <1>7, <3>1, <3>2 DEF finishPubLoop, finishPubLoopQoS0
  <2> QED BY <1>c, <1>e, <2>1, <2>2 DEF stmVars
<1>8. ASSUME NEW c \in Clients \ {"Cgatt"}, Acknowledged(c) PROVE SendingInv'
  <2>1. PICK ok \in BOOLEAN : StepDone(c, ok, 0)
    BY <1>8 DEF Acknowledged
  <2> QED BY <1>8, <1>e, <2>1 DEF Acknowledged, stmVars
<1>9. CASE finishRegLoop \/ finishSubLoop \/ finishUnsubLoop
  BY <1>c, <1>8, <1>9 DEF finishRegLoop, finishSubLoop, finishUnsubLoop
<1>10. CASE finishYieldLoop
  <2>1. PICK ok \in BOOLEAN : StepDone("Yield", ok, 0)
    BY <1>10 DEF finishYieldLoop
  <2> QED BY <1>10, <1>c, <1>e, <2>1 DEF finishYieldLoop, stmVars
<1>11. CASE finishDisLoop
  <2>1. UNCHANGED <<stm, events, dispatching>>
    BY <1>11 DEF finishDisLoop, stmVars
  <2>2. CASE LoopTurn /\ StepDone("Disconnect", TRUE, 0)
    BY <1>c, <1>e, <2>1, <2>2
  <2>3. CASE At("disconnected") /\ StepEnd("Disconnect", TRUE)
             /\ StepResult(TRUE, 0) /\ UNCHANGED breakFlag
    BY <1>c, <2>1, <2>3, EndSends DEF At
  <2> QED BY <1>11, <2>2, <2>3 DEF finishDisLoop
<1> QED BY <1>1, <1>2, <1>3, <1>4, <1>5, <1>6, <1>7, <1>9, <1>10, <1>11, DropSends
        DEF LoopSteps

\* A handler changes neither the call nor the hooked client.
LEMMA HandlerSends ==
  ASSUME TypeInv, BackingInv, SendingInv, TakesHead,
         UNCHANGED <<loopClient, loopId>>,
         loopId # Unknown =>
           ~client'.isconnected /\ stm' \in {"Connected", "Disconnected"},
         stm' = "Connected" =>
           clientList' = <<>> \/ UNCHANGED <<stm, clientList, client>>,
         KindInv', PartingInv', CarryInv'
  PROVE  SendingInv'
<1>1. /\ events \in Seq(Events) /\ events # <<>> /\ events' = Tail(events)
      /\ dispatching /\ dispatching' /\ Phase' = Phase
  BY DEF TypeInv, StmTypes, TakesHead, Phase
<1>2. SourceInv'
  <2>1. ConnectLast(events')
    BY <1>1, ConnectLastTail DEF SendingInv, SourceInv
  <2>2. Phase' # "loop" => HasNone(events', {"Connect"})
    BY <1>1, HasNoneTail DEF SendingInv, SourceInv
  <2>3. loopId' # Unknown => Phase' # "loop"
    BY <1>1 DEF SendingInv, SourceInv
  <2> QED BY <1>1, <2>1, <2>2, <2>3 DEF SourceInv
<1>3. Phase \in {"idle", "loop", "autopoll"}
  BY <1>1 DEF BackingInv, CallInv
<1>4. EmptyInv'
  BY <1>1, <1>3 DEF SendingInv, EmptyInv
<1>5. AnsweredInv'
  BY <1>1, <1>3 DEF AnsweredInv
<1> QED BY <1>2, <1>4, <1>5 DEF SendingInv

\* A queued DISCONNECT waits in Disconnected: that state is only left for a
\* Connect, and what follows finds nothing but a Timer.
LEMMA PartingNext ==
  ASSUME TypeInv, BackingInv, SendingInv, TakesHead, TimerLast(events),
         ~breakFlag, Has(clientList, "Disconnect"),
         stm # "Disconnected" \/ Head(events) = "Connect"
  PROVE  /\ client.isconnected /\ Phase = "loop" /\ stm # "Initial"
         /\ OnlyOf(events', {"Timer"})
         /\ stm # "Disconnected" => Head(events) = "Timer" /\ events' = <<>>
<1>1. /\ events \in Seq(Events) /\ events # <<>> /\ events' = Tail(events)
      /\ dispatching
  BY DEF TypeInv, StmTypes, TakesHead
<1>2. /\ client.isconnected /\ stm # "Connected"
      /\ loopId = Unknown /\ Phase \notin {"loop", "fail"} => stm = "Disconnected"
      /\ stm # "Disconnected" => /\ OnlyOf(events, {"Timer"})
                                 /\ stm = "Initial" => events = <<>>
  BY <1>1 DEF SendingInv, PartingInv
<1>3. Phase # "fail" /\ (loopId # Unknown => ~client.isconnected)
  BY <1>1 DEF SendingInv, SourceInv, BackingInv, CallInv
<1>4. CASE stm # "Disconnected"
  <2>1. OnlyOf(events, {"Timer"}) /\ stm # "Initial"
    BY <1>1, <1>2, <1>4
  <2>2. Head(events) = "Timer" /\ OnlyOf(events', {"Timer"})
    BY <1>1, <2>1, OnlyTail
  <2>3. events' = <<>>
    BY <1>1, <2>2, TimerLastTail
  <2> QED BY <1>2, <1>3, <1>4, <2>1, <2>2, <2>3
<1>5. CASE stm = "Disconnected"
  <2>1. Head(events) = "Connect"
    BY <1>5
  <2>2. OnlyOf(events', {"Timer"})
    BY <1>1, <2>1, ConnectLastTail DEF SendingInv, SourceInv
  <2>3. ~HasNone(events, {"Connect"})
    BY <1>1, <2>1, HasNoneTail
  <2>4. Phase = "loop"
    BY <1>1, <2>3 DEF SendingInv, SourceInv
  <2> QED BY <1>2, <1>5, <2>2, <2>4
<1> QED BY <1>4, <1>5

\* Nothing is hooked when a connection attempt begins or goes on.
LEMMA AttemptUnhooked ==
  ASSUME TypeInv, SendingInv, TakesHead, stm # "Connected",
         stm # "Disconnected" \/ Head(events) = "Connect"
  PROVE  loopId = Unknown /\ loopClient = Unknown
<1>1. events \in Seq(Events) /\ events # <<>> /\ dispatching
  BY DEF TypeInv, StmTypes, TakesHead
<1>2. Head(events) = "Connect" => ~HasNone(events, {"Connect"})
  BY <1>1, HasNoneTail
<1>3. loopId = Unknown
  BY <1>1, <1>2 DEF SendingInv, SourceInv
<1> QED BY <1>3, NothingHooked

\* Outside Connected a waiting packet is a CONNECT or a DISCONNECT.
LEMMA MachinePackets ==
  ASSUME SendingInv, ~breakFlag, stm # "Connected",
         NEW c \in Carriers, Has(clientList, c),
         client'.sendbuf = client.sendbuf
  PROVE  OwnPacket(c)'
<1>1. OwnPacket(c)
  BY DEF SendingInv, CarryInv
<1>2. OnlyOf(clientList, {"Cgatt", "Connect", "Disconnect"})
  BY DEF SendingInv, KindInv
<1>3. c \in {"Connect", "Disconnect"}
  BY <1>2 DEF Has, OnlyOf, Carriers
<1>4. c = "Connect" => OwnPacket(c)'
  BY <1>1 DEF OwnPacket
<1>5. c = "Disconnect" => OwnPacket(c)'
  BY <1>1 DEF OwnPacket
<1> QED BY <1>3, <1>4, <1>5

\* A handler that leaves the packet alone, and adds an attach loop at most.
LEMMA MovesSends ==
  ASSUME TypeInv, BackingInv, SendingInv, TakesHead, TimerLast(events),
         stm # "Disconnected" \/ Head(events) = "Connect",
         stm # "Connected", stm' \notin {"Connected", "Disconnected"},
         stm' = "Initial" => stm = "Error",
         UNCHANGED <<loopClient, loopId, breakFlag>>,
         client'.isconnected = client.isconnected,
         client'.sendbuf = client.sendbuf,
         UNCHANGED clientList \/ clientList' = clientList \o <<"Cgatt">>
  PROVE  SendingInv'
<1>0. clientList \in Seq(Clients) /\ "Cgatt" \in Clients /\ <<"Cgatt">> \in Seq(Clients)
  <2>1. "Cgatt" \in Clients
    BY StmAssumption
  <2>2. <<"Cgatt">> \in Seq(Clients)
    BY <2>1
  <2> QED BY <2>1, <2>2 DEF TypeInv, LoopInv, LoopTypeOK
<1>1. loopId = Unknown /\ loopClient = Unknown
  BY AttemptUnhooked
<1>2. \A c : c # "Cgatt" /\ Has(clientList', c) => Has(clientList, c)
  <2>1. CASE UNCHANGED clientList
    BY <2>1
  <2>2. CASE clientList' = clientList \o <<"Cgatt">>
    BY <1>0, <2>2, ListConcat, ListOne
  <2> QED BY <2>1, <2>2
<1>3. KindInv'
  <2>1. ~breakFlag => OnlyOf(clientList, {"Cgatt", "Connect", "Disconnect"})
    BY DEF SendingInv, KindInv
  <2>2. OnlyOf(clientList, {"Cgatt", "Connect", "Disconnect"}) =>
          OnlyOf(clientList', {"Cgatt", "Connect", "Disconnect"})
    BY <1>0, AttachAdded
  <2> QED BY <2>1, <2>2 DEF KindInv
<1>4. PartingInv'
  <2>1. ASSUME ~breakFlag', Has(clientList', "Disconnect")
        PROVE  /\ client'.isconnected /\ Phase' = "loop"
               /\ OnlyOf(events', {"Timer"})
               /\ stm' = "Initial" => events' = <<>>
    <3>1. ~breakFlag /\ Has(clientList, "Disconnect")
      BY <1>2, <2>1
    <3>2. Phase' = Phase
      BY DEF TakesHead, Phase
    <3> QED BY <3>1, <3>2, PartingNext
  <2> QED BY <2>1 DEF PartingInv
<1>5. CarryInv'
  <2>1. ~breakFlag => AttachFirst(clientList')
    BY <1>0, AttachAdded DEF SendingInv, CarryInv
  <2>2. ASSUME NEW c \in Carriers, ~breakFlag', Has(clientList', c)
        PROVE  OwnPacket(c)'
    <3>1. Has(clientList, c)
      BY <1>2, <2>2 DEF Carriers
    <3> QED BY <2>2, <3>1, MachinePackets
  <2> QED BY <1>1, <2>1, <2>2 DEF CarryInv
<1> QED BY <1>1, <1>3, <1>4, <1>5, HandlerSends

\* Behind attach loops only, a packet is serialised and its client queued.
LEMMA QueueSends ==
  ASSUME TypeInv, BackingInv, SendingInv, TakesHead,
         loopId = Unknown, ~breakFlag => OnlyOf(clientList, {"Cgatt"}),
         NEW c \in {"Connect", "Disconnect"},
         clientList' = clientList \o <<c>>, OwnPacket(c)',
         UNCHANGED <<loopClient, loopId, breakFlag>>,
         stm' # "Connected",
         c = "Disconnect" => client'.isconnected /\ stm' = "Disconnected"
  PROVE  SendingInv'
<1>0. /\ clientList \in Seq(Clients) /\ c \in Clients /\ <<c>> \in Seq(Clients)
      /\ loopClient = Unknown
  <2>1. c \in Clients
    BY StmAssumption
  <2>2. <<c>> \in Seq(Clients)
    BY <2>1
  <2> QED BY <2>1, <2>2, NothingHooked DEF TypeInv, LoopInv, LoopTypeOK
<1>1. ASSUME ~breakFlag'
      PROVE  /\ AttachFirst(clientList')
             /\ OnlyOf(clientList', {"Cgatt", "Connect", "Disconnect"})
             /\ \A d \in Carriers : Has(clientList', d) => d = c
  <2>1. OnlyOf(clientList, {"Cgatt"})
    BY <1>1
  <2>2. OnlyOf(clientList, {"Cgatt", "Connect", "Disconnect"})
    BY <2>1 DEF OnlyOf
  <2>3. \A d \in Carriers : ~Has(clientList, d)
    BY <2>1 DEF OnlyOf, Has, Carriers
  <2>4. \A d \in Carriers : Has(clientList', d) => d = c
    BY <1>0, <2>3, ListConcat, ListOne
  <2> QED BY <1>0, <2>1, <2>2, <2>4, AttachAdded
<1>2. KindInv'
  BY <1>1 DEF KindInv
<1>3. PartingInv'
  <2>1. "Disconnect" \in Carriers
    BY DEF Carriers
  <2> QED BY <1>1, <2>1 DEF PartingInv
<1>4. CarryInv'
  BY <1>0, <1>1 DEF CarryInv
<1> QED BY <1>2, <1>3, <1>4, HandlerSends

\* Only attach loops are in the list besides the machine's own two.
LEMMA OnlyAttach ==
  ASSUME NEW q, OnlyOf(q, {"Cgatt", "Connect", "Disconnect"}),
         ~Has(q, "Connect"), ~Has(q, "Disconnect")
  PROVE  OnlyOf(q, {"Cgatt"})
  BY DEF OnlyOf, Has

\* Disconnected is entered: a DISCONNECT is queued, or the list broken off.
LEMMA DisconnectedSends ==
  ASSUME TypeInv, BackingInv, SendingInv, TakesHead,
         actionDisconnectedEntry(pool),
         \/ stm = "Connected"
         \/ stm = "Initial"
         \/ stm = "Error" /\ Head(events) = "ErrorDisconnect"
  PROVE  SendingInv'
<1>0. /\ clientList \in Seq(Clients) /\ breakFlag \in BOOLEAN
      /\ client \in ClientRecs
      /\ events \in Seq(Events) /\ events # <<>> /\ dispatching
  BY DEF TypeInv, LoopInv, LoopTypeOK, TakesHead, ClientTypes, StmTypes
<1>1. stm' = "Disconnected" /\ doDisconnect(pool)
  BY DEF actionDisconnectedEntry, Enter
<1>2. CASE client.isconnected /\ clientDisconnect(pool)
  <2> DEFINE b == Packet("DISCONNECT", pool.duration)
  <2>1. /\ clientList' = clientList \o <<"Disconnect">>
        /\ UNCHANGED <<loopClient, loopId, breakFlag>>
        /\ client' = [client EXCEPT !.sendbuf = b]
    BY <1>2 DEF clientDisconnect, loopDisconnect, RegisterLoopClients
  <2>2. b.type = "DISCONNECT"
    BY DEF Packet
  <2> HIDE DEF b
  <2>3. client'.isconnected /\ client'.sendbuf = b
    BY <1>0, <1>2, <2>1 DEF ClientRecs
  <2>4. OwnPacket("Disconnect")'
    BY <2>2, <2>3 DEF OwnPacket
  <2>5. loopId = Unknown
    BY <1>0, <1>2 DEF SendingInv, SourceInv
  <2>6. ASSUME ~breakFlag PROVE OnlyOf(clientList, {"Cgatt"})
    <3>1. CASE stm = "Connected"
      <4>1. clientList = <<>>
        BY <1>0, <1>2, <3>1 DEF SendingInv, EmptyInv
      <4> QED BY <4>1, NothingListed
    <3>2. CASE stm # "Connected"
      <4>1. OnlyOf(clientList, {"Cgatt", "Connect", "Disconnect"})
        BY <2>6, <3>2 DEF SendingInv, KindInv
      <4>2. ~Has(clientList, "Connect")
        BY <1>2, <2>6 DEF BackingInv, ListInv
      <4>3. ASSUME Has(clientList, "Disconnect") PROVE FALSE
        <5>1. OnlyOf(events, {"Timer"}) /\ (stm = "Initial" => events = <<>>)
          BY <1>0, <2>6, <3>2, <4>3 DEF SendingInv, PartingInv
        <5>2. Head(events) = "Timer"
          BY <1>0, <5>1, OnlyTail
        <5> QED BY <1>0, <3>2, <5>1, <5>2
      <4> QED BY <4>1, <4>2, <4>3, OnlyAttach
    <3> QED BY <3>1, <3>2
  <2> QED BY <1>1, <2>1, <2>3, <2>4, <2>5, <2>6, QueueSends
<1>3. CASE ~client.isconnected /\ finishDisconnect /\ UNCHANGED client
  <2>1. UNCHANGED <<clientList, loopClient, loopId>>
    BY <1>3 DEF finishDisconnect, loopBreak, loopVars
  <2>2. ASSUME ~breakFlag' PROVE clientList' = <<>>
    <3>1. Len(clientList) \in Nat
      BY <1>0
    <3>2. ~(Len(clientList) > 0)
      BY <1>0, <1>3, <2>2, <3>1 DEF finishDisconnect, loopBreak, isBusy
    <3>3. Len(clientList) = 0
      BY <3>1, <3>2
    <3> QED BY <1>0, <2>1, <3>3, EmptySeq
  <2>3. KindInv' /\ PartingInv' /\ CarryInv'
    BY <2>2, NothingListed DEF KindInv, PartingInv, CarryInv
  <2> QED BY <1>1, <1>3, <2>1, <2>3, HandlerSends
<1> QED BY <1>1, <1>2, <1>3 DEF doDisconnect

\* A CONNECT is queued for a client that is not connected, behind attach
\* loops only.
LEMMA IpConnectSends ==
  ASSUME TypeInv, BackingInv, SendingInv, TakesHead, TimerLast(events),
         NEW p, IpConnect(p),
         \/ stm = "Disconnected" /\ Head(events) = "Connect"
         \/ stm = "WaitForAttach"
  PROVE  SendingInv'
<1>0. client \in ClientRecs
  BY DEF TypeInv, ClientTypes
<1>1. loopId = Unknown
  BY AttemptUnhooked
<1> DEFINE q == [p EXCEPT !.restarts = 0]
           r == [q EXCEPT !.errno = "IpNotConnected"]
<1>2. \/ mqttConnect(q.cleanSession) /\ Enter("WaitForConnect", "run")
      \/ actionErrorEntry(r) /\ UNCHANGED <<loopVars, client>>
  BY DEF IpConnect
<1> HIDE DEF q, r
<1>3. CASE actionErrorEntry(r) /\ UNCHANGED <<loopVars, client>>
  <2>1. stm' = "Error" /\ UNCHANGED <<clientList, loopClient, loopId, breakFlag>>
    BY <1>3 DEF actionErrorEntry, Enter, loopVars
  <2> QED BY <1>3, <2>1, MovesSends
<1>4. CASE mqttConnect(q.cleanSession) /\ Enter("WaitForConnect", "run")
  <2>1. stm' = "WaitForConnect"
    BY <1>4 DEF Enter
  <2>2. CASE client.isconnected
    <3>1. UNCHANGED <<client, clientList, loopClient, loopId, breakFlag>>
      BY <1>4, <2>2 DEF mqttConnect, loopVars
    <3> QED BY <2>1, <3>1, MovesSends
  <2>3. CASE ~client.isconnected
    <3> DEFINE b == Packet("CONNECT", q.cleanSession)
    <3>1. /\ UNCHANGED <<loopClient, loopId, breakFlag>>
          /\ clientList' = clientList \o <<"Connect">>
          /\ client' = [client EXCEPT !.sendbuf = b, !.cleansession = q.cleanSession]
      BY <1>4, <2>3 DEF mqttConnect, loopConnect, RegisterLoopClients
    <3>2. b.type = "CONNECT"
      BY DEF Packet
    <3> HIDE DEF b
    <3>3. client'.sendbuf = b
      BY <1>0, <3>1 DEF ClientRecs
    <3>4. OwnPacket("Connect")'
      BY <3>2, <3>3 DEF OwnPacket
    <3>5. ASSUME ~breakFlag PROVE OnlyOf(clientList, {"Cgatt"})
      <4>1. OnlyOf(clientList, {"Cgatt", "Connect", "Disconnect"})
        BY <3>5 DEF SendingInv, KindInv
      <4>2. ~Has(clientList, "Connect")
        BY <3>5 DEF BackingInv, ListInv
      <4>3. ~Has(clientList, "Disconnect")
        BY <2>3, <3>5 DEF SendingInv, PartingInv
      <4> QED BY <4>1, <4>2, <4>3, OnlyAttach
    <3> QED BY <1>1, <2>1, <3>1, <3>4, <3>5, QueueSends
  <2> QED BY <2>2, <2>3
<1> QED BY <1>2, <1>3, <1>4

\* An event that is ignored.
LEMMA IgnoreSends ==
  ASSUME TypeInv, BackingInv, SendingInv, TakesHead, IgnoreEvent
  PROVE  SendingInv'
<1>0. /\ events \in Seq(Events) /\ events # <<>> /\ events' = Tail(events)
      /\ dispatching /\ Phase' = Phase
  BY DEF TypeInv, StmTypes, TakesHead, Phase
<1>1. UNCHANGED <<loopVars, stm, pool, client>>
  BY DEF IgnoreEvent
<1>2. UNCHANGED <<clientList, loopClient, loopId, breakFlag>>
  BY <1>1 DEF loopVars
<1>3. KindInv'
  BY <1>1, <1>2 DEF SendingInv, KindInv
<1>4. CarryInv'
  BY <1>1, <1>2, PacketSame DEF SendingInv, CarryInv, PacketsSame
<1>5. PartingInv'
  <2>1. ASSUME ~breakFlag, Has(clientList, "Disconnect"), stm # "Disconnected"
        PROVE  OnlyOf(events', {"Timer"}) /\ stm # "Initial"
    <3>1. OnlyOf(events, {"Timer"}) /\ stm # "Initial"
      BY <1>0, <2>1 DEF SendingInv, PartingInv
    <3> QED BY <1>0, <3>1, OnlyTail
  <2> QED BY <1>0, <1>1, <1>2, <2>1 DEF SendingInv, PartingInv
<1>6. loopId # Unknown => ~client.isconnected /\ stm \in {"Connected", "Disconnected"}
  BY <1>0 DEF SendingInv, SourceInv
<1> QED BY <1>1, <1>2, <1>3, <1>4, <1>5, <1>6, HandlerSends

\* The handlers of the state machine.
LEMMA HandleSends ==
  ASSUME TypeInv, BackingInv, SendingInv, TimerLast(events), HandleEvent
  PROVE  SendingInv'
<1>0. TakesHead
  BY HandleTakes
<1>t. \A e : Take(e) => Head(events) = e
  BY DEF Take
<1>h. stm \in Awake /\ Head(events) \notin {"Sleep", "Hibernate"}
  <2>1. events \in Seq(Events) /\ events # <<>>
    BY <1>0 DEF TypeInv, StmTypes, TakesHead
  <2>2. Head(events) \notin {"Sleep", "Hibernate"}
    BY <2>1, HasNoneTail DEF BackingInv, AwakeInv
  <2> QED BY <2>2 DEF BackingInv, AwakeInv
<1>l. UNCHANGED loopVars => UNCHANGED <<clientList, loopClient, loopId, breakFlag>>
  BY DEF loopVars
<1>e. ASSUME NEW p, actionErrorEntry(p), UNCHANGED <<loopVars, client>>,
             stm \notin {"Connected", "Disconnected"}
      PROVE  SendingInv'
  <2>1. stm' = "Error"
    BY <1>e DEF actionErrorEntry, Enter
  <2> QED BY <1>0, <1>e, <1>l, <2>1, MovesSends
<1>1. CASE InitialLeave
  <2>0. stm = "Initial"
    BY <1>1 DEF InitialLeave
  <2>1. CASE actionDisconnectedEntry(pool)
    BY <1>0, <2>0, <2>1, DisconnectedSends
  <2>2. CASE /\ actionErrorEntry([pool EXCEPT !.errno = "InitializeError"])
             /\ UNCHANGED <<loopVars, client, net>>
    BY <1>e, <2>0, <2>2
  <2> QED BY <1>1, <2>1, <2>2 DEF InitialLeave
<1>2. CASE DisconnectedConnect
  <2> DEFINE p == [pool EXCEPT !.errno = "Success"]
  <2>1. stm = "Disconnected" /\ Head(events) = "Connect"
    BY <1>2, <1>t DEF DisconnectedConnect
  <2>2. \/ IpConnect(p)
        \/ doModemAttach /\ Enter("WaitForAttach", "run") /\ UNCHANGED client
    BY <1>2 DEF DisconnectedConnect
  <2> HIDE DEF p
  <2>3. CASE IpConnect(p)
    BY <1>0, <2>1, <2>3, IpConnectSends
  <2>4. CASE doModemAttach /\ Enter("WaitForAttach", "run") /\ UNCHANGED client
    <3>1. /\ stm' = "WaitForAttach"
          /\ UNCHANGED <<loopClient, loopId, breakFlag>>
          /\ clientList' = clientList \o <<"Cgatt">>
      BY <2>4 DEF Enter, doModemAttach, RegisterLoopClients
    <3> QED BY <1>0, <2>1, <2>4, <3>1, MovesSends
  <2> QED BY <2>2, <2>3, <2>4
<1>3. CASE WaitForAttachAttached
  <2>1. stm = "WaitForAttach" /\ IpConnect(pool)
    BY <1>3 DEF WaitForAttachAttached
  <2> QED BY <1>0, <2>1, IpConnectSends
<1>4. CASE WaitForAttachTimer \/ WaitForConnectTimer
  <2>1. /\ \E p : actionErrorEntry(p)
        /\ UNCHANGED <<loopVars, client>> /\ stm \in {"WaitForAttach", "WaitForConnect"}
    BY <1>4 DEF WaitForAttachTimer, WaitForConnectTimer
  <2> QED BY <1>e, <2>1
<1>5. CASE WaitForConnectConnected
  <2>1. /\ stm = "WaitForConnect" /\ Head(events) = "ConnectedEv"
        /\ stm' = "Connected" /\ UNCHANGED <<loopVars, client>>
    BY <1>5, <1>t DEF WaitForConnectConnected, actionConnectedEntry, Enter
  <2>2. Coming("ConnectedEv")
    <3>1. events \in Seq(Events) /\ events # <<>>
      BY <1>0 DEF TypeInv, StmTypes, TakesHead
    <3>2. ~HasNone(events, {"ConnectedEv"})
      BY <2>1, <3>1, HasNoneTail
    <3> QED BY <3>2, HasOf DEF Coming
  <2>3. clientList' = <<>>
    BY <1>l, <2>1, <2>2 DEF BackingInv, BackedInv
  <2>4. KindInv' /\ PartingInv' /\ CarryInv'
    BY <2>3, NothingListed DEF KindInv, PartingInv, CarryInv
  <2>5. loopId = Unknown
    BY <1>0, <2>1, AttemptUnhooked
  <2> QED BY <1>0, <1>l, <2>1, <2>3, <2>4, <2>5, HandlerSends
<1>6. CASE ErrorDisconnect \/ ConnectedDisconnect
  <2>1. /\ actionDisconnectedEntry(pool)
        /\ \/ stm = "Connected"
           \/ stm = "Error" /\ Head(events) = "ErrorDisconnect"
    BY <1>6, <1>t DEF ErrorDisconnect, ConnectedDisconnect
  <2> QED BY <1>0, <2>1, DisconnectedSends
<1>7. CASE ReInitialize
  <2>1. stm = "Error" /\ stm' = "Initial" /\ UNCHANGED <<loopVars, client>>
    BY <1>7, <1>h DEF ReInitialize, actionInitialEntry, Enter, Awake
  <2> QED BY <1>0, <1>l, <2>1, MovesSends
<1>8. ~(ConnectedSleepEvent \/ ConnectedSleepWakeup \/ ConnectedSleepAwake
        \/ ConnectedAwakeLeave \/ Hibernate \/ DisconnectedSleepEvent
        \/ DisconnectedSleepWakeup)
  BY <1>h, <1>t DEF ConnectedSleepEvent, ConnectedSleepWakeup,
     ConnectedSleepAwake, ConnectedAwakeLeave, Hibernate,
     DisconnectedSleepEvent, DisconnectedSleepWakeup, Awake
<1>9. CASE IgnoreEvent
  BY <1>0, <1>9, IgnoreSends
<1> QED BY <1>1, <1>2, <1>3, <1>4, <1>5, <1>6, <1>7, <1>8, <1>9 DEF HandleEvent

\* The machine is started, and a batch ends.
LEMMA BatchSends ==
  ASSUME TypeInv, BackingInv, SendingInv, startStateMachine \/ DispatchEnd
  PROVE  SendingInv'
<1>1. CASE startStateMachine
  <2>1. /\ stm = "Invalid" /\ stm' = "Initial" /\ events' = <<"Initialize">>
        /\ UNCHANGED <<clientList, loopClient, loopId, breakFlag, calls>>
    BY <1>1 DEF startStateMachine, loopVars
  <2>2. calls = <<>> /\ clientList = <<>> /\ loopId = Unknown
    BY <2>1 DEF BackingInv, AwakeInv
  <2>3. Phase' = "idle"
    BY <2>1, <2>2, ShapePhase DEF Phase
  <2>4. HasNone(events', {"Connect"})
    BY <2>1, HasNoneOne
  <2>5. SourceInv'
    BY <2>1, <2>2, <2>4, ConnectLastNone DEF SourceInv
  <2>6. EmptyInv' /\ KindInv' /\ PartingInv' /\ CarryInv'
    BY <2>1, <2>2, NothingListed DEF EmptyInv, KindInv, PartingInv, CarryInv
  <2>7. AnsweredInv'
    BY <2>3 DEF AnsweredInv
  <2> QED BY <2>5, <2>6, <2>7 DEF SendingInv
<1>2. CASE DispatchEnd
  <2>1. /\ dispatching /\ events' = posted /\ dispatching' = FALSE
        /\ UNCHANGED <<stm, calls, pool, client>>
        /\ UNCHANGED <<clientList, loopClient, loopId, breakFlag>>
        /\ Phase' = Phase /\ posted \in Seq(PostEvents)
    BY <1>2 DEF DispatchEnd, loopVars, Phase, TypeInv, StmTypes
  <2>2. HasNone(events', {"Connect"})
    BY <2>1 DEF HasNone, PostEvents
  <2>3. SourceInv'
    BY <2>1, <2>2, ConnectLastNone DEF SourceInv
  <2>4. EmptyInv'
    BY <2>1 DEF SendingInv, EmptyInv
  <2>5. KindInv'
    BY <2>1 DEF SendingInv, KindInv
  <2>6. PartingInv'
    BY <2>1 DEF SendingInv, PartingInv
  <2>7. CarryInv'
    BY <2>1, PacketSame DEF SendingInv, CarryInv, PacketsSame
  <2>8. AnsweredInv'
    BY <2>1 DEF SendingInv, AnsweredInv
  <2> QED BY <2>3, <2>4, <2>5, <2>6, <2>7, <2>8 DEF SendingInv
<1> QED BY <1>1, <1>2

\* Every step keeps the invariant.
LEMMA StepSends ==
  ASSUME PlainUse, MqttInv, BackingInv, SendingInv, [Next]_vars
  PROVE  SendingInv'
<1>0. TypeInv /\ TimerLast(events)
  BY DEF MqttInv, QueueInv, BatchInv
<1>1. CASE TimerExpires
  BY <1>1, StillSends DEF TimerExpires
<1>2. CASE UNCHANGED vars
  BY <1>2, StillSends DEF vars, stmVars
<1>3. CASE LoopNothing
  BY <1>3, NothingSends
<1>4. CASE LoopStarts \/ LoopSteps
  BY <1>0, <1>4, StartsSends, StepsSends
<1>5. CASE Application \/ eventLoop \/ eventLoopAsleep \/ Continue
  BY <1>0, <1>5, ApplicationSends, ContinueSends
<1>6. CASE startStateMachine \/ HandleEvent \/ DispatchEnd
  BY <1>0, <1>6, BatchSends, HandleSends
<1> QED BY <1>1, <1>2, <1>3, <1>4, <1>5, <1>6 DEF Next

\* It holds before begin().
LEMMA InitSends == Init => SendingInv
<1> SUFFICES ASSUME Init PROVE SendingInv
  OBVIOUS
<1>1. /\ clientList = <<>> /\ stm = "Invalid" /\ events = <<>>
      /\ dispatching = FALSE /\ calls = <<>>
  BY DEF Init, StmInit, LoopInit
<1>2. Phase = "idle"
  BY <1>1, ShapePhase DEF Phase
<1>3. SourceInv
  BY <1>1, HasNoneEmpty, ConnectLastNone DEF SourceInv
<1>4. EmptyInv /\ KindInv /\ PartingInv /\ CarryInv
  BY <1>1, NothingListed DEF EmptyInv, KindInv, PartingInv, CarryInv
<1>5. AnsweredInv
  BY <1>2 DEF AnsweredInv
<1> QED BY <1>3, <1>4, <1>5 DEF SendingInv

\* The second inductive invariant of such an application.
THEOREM SendingInvariant ==
  ASSUME PlainUse
  PROVE  Spec => [](BackingInv /\ SendingInv)
<1>1. MqttInv /\ BackingInv /\ SendingInv /\ [Next]_vars => SendingInv'
  BY StepSends
<1>2. Spec => []BackingInv
  BY BackingInvariant
<1> QED BY <1>1, <1>2, InitSends, MqttInvariant, PTL DEF Spec

\* What a start handler sends is the packet that was serialised for it: in
\* such an application nothing uses sendbuf while a packet waits there.
THEOREM MqttOwnPacket ==
  ASSUME PlainUse
  PROVE  Spec => LoopSendsOwnPacket
<1> DEFINE Starting == startConLoop \/ startRegLoop \/ startUnsubLoop \/ startDisLoop
           Step == Starting => OwnPacket(Head(clientList))
<1>1. TypeInv /\ SendingInv => Step
  <2> SUFFICES ASSUME TypeInv, SendingInv, Starting
               PROVE  OwnPacket(Head(clientList))
    OBVIOUS
  <2>1. PICK c \in Carriers : StartWith(c)
    BY DEF startConLoop, startRegLoop, startUnsubLoop, startDisLoop, Carriers
  <2>2. ~breakFlag /\ clientList # <<>> /\ c = Head(clientList)
    BY <2>1, SendPacketTyped DEF StartWith, StartResult, LoopStart, Startable
  <2>3. Has(clientList, c)
    BY <2>2, ListTail DEF TypeInv, LoopInv, LoopTypeOK
  <2> QED BY <2>1, <2>2, <2>3 DEF SendingInv, CarryInv
<1>2. MqttInv /\ BackingInv /\ SendingInv /\ [Next]_vars => [Step]_vars
  BY <1>1 DEF MqttInv
<1> HIDE DEF Step
<1>3. Spec => [][Step]_vars
  BY <1>2, SendingInvariant, MqttInvariant, PTL DEF Spec
<1> QED BY <1>3 DEF LoopSendsOwnPacket, Step

\* The handlers of the state machine queue clients or raise the break flag:
\* no one of them touches a result.
LEMMA HandleResults == HandleEvent => UNCHANGED result
<1> USE DEF loopVars, RegisterLoopClients, loopBreak
<1>1. \A p : doDisconnect(p) => UNCHANGED result
  BY DEF doDisconnect, clientDisconnect, loopDisconnect, finishDisconnect
<1>2. mqttDisconnect => UNCHANGED result
  BY DEF mqttDisconnect, clientDisconnect, loopDisconnect
<1>3. \A k : mqttConnect(k) => UNCHANGED result
  BY DEF mqttConnect, loopConnect
<1>4. \A p : IpConnect(p) => UNCHANGED result
  BY <1>3 DEF IpConnect
<1>5. \A p : actionDisconnectedEntry(p) => UNCHANGED result
  BY <1>1 DEF actionDisconnectedEntry
<1>6. InitialLeave \/ ErrorDisconnect \/ ConnectedDisconnect
        \/ DisconnectedSleepWakeup => UNCHANGED result
  BY <1>5 DEF InitialLeave, ErrorDisconnect, ConnectedDisconnect,
     DisconnectedSleepWakeup
<1>7. DisconnectedConnect \/ WaitForAttachAttached => UNCHANGED result
  BY <1>4 DEF DisconnectedConnect, WaitForAttachAttached, doModemAttach
<1>8. WaitForAttachTimer \/ WaitForConnectConnected \/ WaitForConnectTimer
        \/ ReInitialize \/ ConnectedSleepAwake \/ ConnectedAwakeLeave
        \/ DisconnectedSleepEvent \/ IgnoreEvent => UNCHANGED result
  BY DEF WaitForAttachTimer, WaitForConnectConnected, WaitForConnectTimer,
     ReInitialize, ConnectedSleepAwake, ConnectedAwakeLeave,
     DisconnectedSleepEvent, IgnoreEvent
<1>9. Hibernate => UNCHANGED result
  BY <1>1 DEF Hibernate, actionDeepSleepEntry
<1>10. ConnectedSleepEvent \/ ConnectedSleepWakeup => UNCHANGED result
  BY <1>2, <1>3 DEF ConnectedSleepEvent, ConnectedSleepWakeup
<1> QED BY <1>6, <1>7, <1>8, <1>9, <1>10 DEF HandleEvent

\* The API functions, and what eventLoop() does around nbiotLoop(), leave the
\* results alone as well: clear() forgets the clients and not what they are.
LEMMA CallResults ==
  Application \/ eventLoop \/ eventLoopAsleep \/ Continue \/ LoopNothing
    => UNCHANGED result
<1> USE DEF loopVars, RegisterLoopClients, loopBreak, clear
<1>1. Application => UNCHANGED result
  BY DEF Application, connect, publish, subscribe, unsubscribe, disconnect,
     wakeup, poll, sleep, hibernate, loopSubscribe, loopUnsubscribe
<1>2. eventLoop \/ eventLoopAsleep \/ LoopNothing => UNCHANGED result
  BY DEF eventLoop, eventLoopAsleep, LoopNothing, LoopIdle
<1>3. PublishBody => UNCHANGED result
  BY DEF PublishBody
<1>4. EventLoopFail \/ EventLoopDone => UNCHANGED result
  BY DEF EventLoopFail, EventLoopDone, finishDisconnect
<1>5. SendStep \/ HibernateBody \/ WakeupBody \/ ReconnectDone \/ yield \/ pmPing
        \/ EventLoopDispatch \/ EventLoopAutoPoll => UNCHANGED result
  BY DEF SendStep, HibernateBody, WakeupBody, ReconnectDone, yield, pmPing,
     EventLoopDispatch, EventLoopAutoPoll, loopYield
<1> QED BY <1>1, <1>2, <1>3, <1>4, <1>5 DEF Continue

\* A client that is started stays Pending, or becomes it.
LEMMA StartResults ==
  ASSUME TypeInv, LoopStarts, NEW d \in Clients, result[d] = "Pending"
  PROVE  result'[d] = "Pending"
<1>1. PICK c, ok : LoopStart(c, ok)
  BY DEF LoopStarts, StartStale, startAttachLoop, startYieldLoop,
     startConLoop, startRegLoop, startUnsubLoop, startDisLoop, startSubLoop,
     startPubLoop, StartWith, StartResult
<1>2. result \in [Clients -> Results]
  BY DEF TypeInv, LoopInv, LoopTypeOK
<1> QED BY <1>1, <1>2 DEF LoopStart, preLoopStep

\* A turn changes the result of the hooked client only, and is taken only if
\* the break flag is down; the second half of a DISCONNECT's last turn runs
\* before anything can be queued that would raise the flag.
LEMMA TurnResults ==
  ASSUME TypeInv, BackingInv, SendingInv, LoopSteps,
         NEW d \in Clients, result[d] = "Pending", result'[d] # "Pending"
  PROVE  loopClient = d /\ ~breakFlag
<1>1. result \in [Clients -> Results]
  BY DEF TypeInv, LoopInv, LoopTypeOK
<1>2. ASSUME NEW c, NEW ok, StepEnd(c, ok) PROVE loopClient = d
  BY <1>1, <1>2 DEF StepEnd
<1>3. ASSUME NEW c, NEW ok, NEW rc, StepDone(c, ok, rc)
      PROVE  loopClient = d /\ ~breakFlag
  BY <1>2, <1>3 DEF StepDone, LoopStepDone, Steppable
<1>4. ASSUME NEW c, LoopStepPending(c) PROVE FALSE
  BY <1>4 DEF LoopStepPending, loopVars
<1>5. \/ \E c, ok, rc : StepDone(c, ok, rc)
      \/ \E c : LoopStepPending(c)
      \/ At("disconnected") /\ StepEnd("Disconnect", TRUE)
  <2>1. CASE StepWaits \/ StepTraffic \/ StepDisconnectReceived
               \/ StepPingResponse \/ doSubLoop \/ doPubLoop
               \/ StepTopicRejected \/ StepRegisterReceived
    <3>1. \E c : LoopStepPending(c)
      BY <2>1 DEF StepWaits, StepTraffic, StepDisconnectReceived,
         StepPingResponse, doSubLoop, doPubLoop, StepTopicRejected,
         StepRegisterReceived
    <3> QED BY <3>1
  <2>2. CASE finishAttachLoop \/ finishConLoop \/ finishPubLoopQoS0
               \/ finishPubLoop \/ finishRegLoop \/ finishSubLoop
               \/ finishUnsubLoop \/ finishYieldLoop
    <3>1. \E c, ok, rc : StepDone(c, ok, rc)
      BY <2>2 DEF finishAttachLoop, finishConLoop, finishPubLoopQoS0,
         finishPubLoop, finishRegLoop, finishSubLoop, finishUnsubLoop,
         finishYieldLoop, Acknowledged
    <3> QED BY <3>1
  <2>3. CASE finishDisLoop
    BY <2>3 DEF finishDisLoop
  <2> QED BY <2>1, <2>2, <2>3 DEF LoopSteps
<1>6. CASE At("disconnected") /\ StepEnd("Disconnect", TRUE)
  <2>1. Phase = "disconnected"
    BY <1>6, AtPhase
  <2>2. ~breakFlag
    BY <2>1 DEF SendingInv, AnsweredInv
  <2> QED BY <1>2, <1>6, <2>2
<1> QED BY <1>3, <1>4, <1>5, <1>6

\* A client leaves Pending only in a turn in which it was hooked, and no
\* break was asked for: nothing but its own loop settles what an operation of
\* such an application came to.
THEOREM MqttPendingEnds ==
  ASSUME PlainUse
  PROVE  Spec => PendingEndsHooked
<1> DEFINE Step == \A c \in Clients :
             result[c] = "Pending" /\ result'[c] # "Pending" =>
               loopClient = c /\ ~breakFlag
<1>1. MqttInv /\ BackingInv /\ SendingInv /\ [Next]_vars => [Step]_loopVars
  <2> SUFFICES ASSUME MqttInv, BackingInv, SendingInv, [Next]_vars,
                      NEW d \in Clients,
                      result[d] = "Pending", result'[d] # "Pending"
               PROVE  loopClient = d /\ ~breakFlag
    OBVIOUS
  <2>1. TypeInv /\ result' # result
    BY DEF MqttInv
  <2>2. ~(startStateMachine \/ TimerExpires \/ DispatchEnd \/ UNCHANGED vars)
    BY <2>1 DEF startStateMachine, TimerExpires, DispatchEnd, vars, loopVars
  <2>3. ~HandleEvent
    BY <2>1, HandleResults
  <2>4. ~(Application \/ eventLoop \/ eventLoopAsleep \/ Continue \/ LoopNothing)
    BY <2>1, CallResults
  <2>5. ~LoopStarts
    BY <2>1, StartResults
  <2>6. LoopSteps
    BY <2>2, <2>3, <2>4, <2>5 DEF Next
  <2> QED BY <2>1, <2>6, TurnResults
<1> HIDE DEF Step
<1>2. Spec => [][Step]_loopVars
  BY <1>1, SendingInvariant, MqttInvariant, PTL DEF Spec
<1> QED BY <1>2 DEF PendingEndsHooked, Step

----------------------------------------------------------------------------
(* A connection that is given up is closed                                 *)

\* The modem opens and closes sockets, and takes every packet, when it is
\* asked to.  The gateway may still drop the connection, and attaching and
\* initialising may fail.
SocketsWork == Faults \cap {"ip", "send", "close"} = {}

\* While the client is connected the socket is open, and no break is asked
\* for that would drop a queued DISCONNECT.
UpInv == modemOn /\ (client.isconnected => net /\ ~breakFlag)

\* A queued DISCONNECT of a connected client is the first of the list: no
\* attach loop is before it, which could fail and clear the list.
FrontInv ==
  client.isconnected /\ (Has(clientList, "Cgatt") \/ Has(clientList, "Disconnect")) =>
    loopClient = "Disconnect" \/ Head(clientList) = "Disconnect"

\* What a turn that is over leaves behind: a failing client is never the
\* one that disconnects, and takes no DISCONNECT with it.
TurnInv ==
  /\ loopClient = "Cgatt" => ~client.isconnected
  /\ loopClient = "Connect" => stm # "Disconnected"
  /\ Phase = "fail" =>
       /\ loopClient = Unknown /\ loopId # "Disconnect"
       /\ client.isconnected => ~Has(clientList, "Disconnect")
  /\ Phase = "done" /\ loopId = "Disconnect" => ~client.isconnected

\* In Disconnected a connected client is about to send its DISCONNECT, and
\* the socket of one that is not is closed or about to be.
GoneInv ==
  stm = "Disconnected" =>
    /\ client.isconnected => Has(clientList, "Disconnect") \/ loopClient = "Disconnect"
    /\ ~client.isconnected /\ net =>
         loopId = "Disconnect" /\ Phase \in {"done", "disconnected"}

ClosingInv == UpInv /\ FrontInv /\ TurnInv /\ GoneInv

\* The client of a DISCONNECT is one of the library.
LEMMA PartsKnown == {"Disconnect", "Connect", "Cgatt"} \subseteq Clients /\ Unknown \notin Clients
  BY StmAssumption, LoopAssumption

\* A socket that is asked to closes.
LEMMA ClosedSocket ==
  ASSUME SocketsWork, closeSocket
  PROVE  ~net'
<1>1. Outcome("close") = {TRUE}
  BY DEF SocketsWork, Outcome
<1>2. CASE net
  <2>1. PICK ok \in Outcome("close") : net' = ~ok
    BY <1>2 DEF closeSocket
  <2> QED BY <1>1, <2>1
<1>3. CASE ~net
  BY <1>3, Zenon DEF closeSocket
<1> QED BY <1>2, <1>3

\* A step that leaves list and connection alone, and does not enter
\* Disconnected.
LEMMA StillCloses ==
  ASSUME ClosingInv, UNCHANGED <<loopVars, net, modemOn>>,
         client'.isconnected = client.isconnected,
         stm' = stm \/ stm' # "Disconnected",
         \/ Phase' = Phase
         \/ Phase \notin {"done", "disconnected"} /\ Phase' \notin {"done", "fail"}
  PROVE  ClosingInv'
<1>1. UNCHANGED <<clientList, loopClient, loopId, breakFlag, net, modemOn>>
  BY DEF loopVars
<1>2. UpInv' /\ FrontInv'
  BY <1>1 DEF ClosingInv, UpInv, FrontInv
<1>3. TurnInv'
  BY <1>1 DEF ClosingInv, TurnInv
<1>4. GoneInv'
  BY <1>1 DEF ClosingInv, GoneInv
<1> QED BY <1>2, <1>3, <1>4 DEF ClosingInv

\* Clients are added in Connected, to an empty list or without a connection.
LEMMA AddCloses ==
  ASSUME ClosingInv, UNCHANGED <<loopClient, loopId, breakFlag, net, modemOn, stm>>,
         client'.isconnected = client.isconnected,
         stm = "Connected", Phase' \notin {"done", "fail"},
         \/ ~client.isconnected
         \/ ~Has(clientList', "Cgatt") /\ ~Has(clientList', "Disconnect")
  PROVE  ClosingInv'
<1>1. UpInv' /\ FrontInv'
  BY DEF ClosingInv, UpInv, FrontInv
<1>2. TurnInv'
  BY DEF ClosingInv, TurnInv
<1>3. GoneInv'
  BY DEF GoneInv
<1> QED BY <1>1, <1>2, <1>3 DEF ClosingInv

\* A client is started; one that needs the connection fails only without it.
LEMMA StartCloses ==
  ASSUME TypeInv, BackingInv, ClosingInv, At("loop"),
         UNCHANGED <<stm, net, modemOn>>,
         client'.isconnected = client.isconnected,
         NEW c, NEW ok \in BOOLEAN, StartResult(c, ok),
         result[c] = "Pending" => ok,
         client.isconnected /\ c # "Cgatt" => ok
  PROVE  ClosingInv'
<1>0. /\ clientList \in Seq(Clients) /\ result \in [Clients -> Results]
      /\ Phase = "loop"
  BY AtPhase DEF TypeInv, LoopInv, LoopTypeOK
<1>1. /\ ~breakFlag /\ loopClient = Unknown /\ clientList # <<>>
      /\ c = Head(clientList) /\ clientList' = Tail(clientList)
      /\ UNCHANGED breakFlag
      /\ result' = [result EXCEPT ![c] = preLoopStep(c, ok)]
      /\ loopClient' = IF result'[c] = "Pending" THEN c ELSE Unknown
      /\ loopId' = IF result'[c] = "Pending" THEN c ELSE Unknown
  BY DEF StartResult, LoopStart, Startable
<1>2. c \in Clients /\ Has(clientList, c)
  <2>1. c \in Clients
    BY <1>0, <1>1
  <2> QED BY <1>0, <1>1, <2>1, ListTail
<1>3. /\ ok => loopClient' = c /\ loopId' = c
      /\ ~ok => loopClient' = Unknown /\ loopId' = Unknown
  <2>1. result'[c] = preLoopStep(c, ok)
    BY <1>0, <1>1, <1>2
  <2> QED BY <1>1, <2>1 DEF preLoopStep
<1>4. /\ ok => Phase' = "idle"
      /\ ~ok => Phase' = "fail"
  <2>1. /\ ok => calls' = <<>>
        /\ ~ok => calls' = <<Op("fail", 0)>> \o Finish
    BY DEF StartResult
  <2> QED BY <2>1, ShapePhase DEF Phase
<1>5. \A d : Has(clientList', d) => Has(clientList, d)
  BY <1>0, <1>1, ListTail
<1>6. ASSUME client.isconnected,
             Has(clientList, "Cgatt") \/ Has(clientList, "Disconnect")
      PROVE  c = "Disconnect" /\ ok
  <2>1. c = "Disconnect"
    BY <1>1, <1>6, PartsKnown DEF ClosingInv, FrontInv
  <2> QED BY <1>6, <2>1
<1>7. UpInv'
  BY <1>1 DEF ClosingInv, UpInv
<1>8. FrontInv'
  BY <1>3, <1>5, <1>6 DEF FrontInv
<1>9. TurnInv'
  <2>1. loopClient' = "Cgatt" => ~client.isconnected
    BY <1>2, <1>3, <1>6, PartsKnown
  <2>2. loopClient' = "Connect" => stm # "Disconnected"
    BY <1>1, <1>2, <1>3, PartsKnown DEF BackingInv, ListInv
  <2>3. ASSUME Phase' = "fail"
        PROVE  loopClient' = Unknown /\ loopId' = Unknown /\ ~client.isconnected
    <3>1. ~ok
      BY <1>4, <2>3
    <3>2. client.isconnected => c = "Cgatt"
      BY <3>1
    <3> QED BY <1>2, <1>3, <1>6, <3>1, <3>2
  <2>4. Phase' # "done"
    BY <1>4
  <2> QED BY <2>1, <2>2, <2>3, <2>4, PartsKnown DEF TurnInv
<1>10. GoneInv'
  <2>1. ASSUME stm = "Disconnected", client.isconnected
        PROVE  loopClient' = "Disconnect"
    <3>1. Has(clientList, "Disconnect")
      BY <1>1, <2>1, PartsKnown DEF ClosingInv, GoneInv
    <3> QED BY <1>3, <1>6, <2>1, <3>1
  <2>2. stm = "Disconnected" /\ ~client.isconnected => ~net
    BY <1>0 DEF ClosingInv, GoneInv
  <2> QED BY <2>1, <2>2 DEF GoneInv
<1> QED BY <1>7, <1>8, <1>9, <1>10 DEF ClosingInv

\* A connected client enters Disconnected with attach loops at most queued.
LEMMA PartsAlone ==
  ASSUME TypeInv, BackingInv, SendingInv, TakesHead, client.isconnected,
         \/ stm = "Connected"
         \/ stm = "Initial"
         \/ stm = "Error" /\ Head(events) = "ErrorDisconnect"
  PROVE  loopId = Unknown /\ (~breakFlag => OnlyOf(clientList, {"Cgatt"}))
<1>0. events \in Seq(Events) /\ events # <<>> /\ dispatching
  BY DEF TypeInv, TakesHead, StmTypes
<1>1. loopId = Unknown
  BY <1>0 DEF SendingInv, SourceInv
<1>2. ASSUME ~breakFlag PROVE OnlyOf(clientList, {"Cgatt"})
  <2>1. CASE stm = "Connected"
    <3>1. clientList = <<>>
      BY <1>0, <2>1 DEF SendingInv, EmptyInv
    <3> QED BY <3>1, NothingListed
  <2>2. CASE stm # "Connected"
    <3>1. OnlyOf(clientList, {"Cgatt", "Connect", "Disconnect"})
      BY <1>2, <2>2 DEF SendingInv, KindInv
    <3>2. ~Has(clientList, "Connect")
      BY <1>2 DEF BackingInv, ListInv
    <3>3. ASSUME Has(clientList, "Disconnect") PROVE FALSE
      <4>1. OnlyOf(events, {"Timer"}) /\ (stm = "Initial" => events = <<>>)
        BY <1>0, <1>2, <2>2, <3>3 DEF SendingInv, PartingInv
      <4>2. Head(events) = "Timer"
        BY <1>0, <4>1, OnlyTail
      <4> QED BY <1>0, <2>2, <4>1, <4>2
    <3> QED BY <3>1, <3>2, <3>3, OnlyAttach
  <2> QED BY <2>1, <2>2
<1> QED BY <1>1, <1>2

\* nbiotLoop() has nothing to do, or clears what was broken off.
LEMMA NothingCloses ==
  ASSUME TypeInv, BackingInv, ClosingInv, LoopNothing
  PROVE  ClosingInv'
<1>1. /\ clientList' = <<>> /\ loopClient' = Unknown /\ loopId' = Unknown
      /\ breakFlag' = FALSE /\ UNCHANGED <<stm, client, net, modemOn>>
      /\ Phase = "loop" /\ calls' = Finish
      /\ breakFlag \/ (loopClient = Unknown /\ clientList = <<>>)
  BY AtPhase DEF LoopNothing, LoopIdle, clear, LoopTurn, stmVars
<1>2. Phase' = "dispatch"
  BY <1>1, ShapePhase DEF Phase
<1>3. \A c : ~Has(<<>>, c)
  BY ListOne
<1>4. UpInv' /\ FrontInv'
  BY <1>1, <1>3 DEF ClosingInv, UpInv, FrontInv
<1>5. TurnInv'
  BY <1>1, <1>2, PartsKnown DEF TurnInv
<1>6. stm = "Disconnected" => ~client.isconnected
  <2>1. breakFlag => ~client.isconnected
    BY DEF ClosingInv, UpInv
  <2> QED BY <1>1, <1>3, <2>1, PartsKnown DEF ClosingInv, GoneInv
<1>7. GoneInv'
  BY <1>1, <1>6 DEF ClosingInv, GoneInv
<1> QED BY <1>4, <1>5, <1>7 DEF ClosingInv

\* A turn that is the last one of its client.
LEMMA EndCloses ==
  ASSUME TypeInv, BackingInv, SendingInv, ClosingInv,
         NEW c \in Clients, NEW ok \in BOOLEAN, NEW rc \in {0, 1, 2},
         StepEnd(c, ok), StepResult(ok, rc),
         UNCHANGED <<breakFlag, stm, net, modemOn>>,
         \/ At("loop") /\ ~breakFlag
         \/ At("disconnected") /\ c = "Disconnect",
         \/ c # "Disconnect" /\ client'.isconnected = client.isconnected
         \/ c = "Disconnect" /\ ok /\ client'.isconnected = FALSE
         \/ c = "Connect" /\ ok /\ net
  PROVE  ClosingInv'
<1>1. /\ loopClient = c /\ c # Unknown /\ loopClient' = Unknown
      /\ loopId' = c /\ UNCHANGED clientList
  <2>1. /\ loopClient = c /\ c # Unknown /\ loopClient' = Unknown
        /\ UNCHANGED <<clientList, loopId>>
    BY PartsKnown DEF StepEnd
  <2> QED BY <2>1, HookedClient
<1>2. /\ ok => Phase' = "done"
      /\ ~ok => Phase' = "fail"
  <2>1. /\ ok => calls' = <<Op("done", 0)>>
        /\ ~ok => calls' = <<Op("fail", rc)>> \o Finish
    BY DEF StepResult
  <2> QED BY <2>1, ShapePhase DEF Phase
<1>3. CASE c = "Disconnect"
  <2>1. ok /\ ~client'.isconnected
    BY <1>3
  <2>2. UpInv' /\ FrontInv'
    BY <2>1 DEF ClosingInv, UpInv, FrontInv
  <2>3. TurnInv'
    BY <1>1, <1>2, <2>1, PartsKnown DEF TurnInv
  <2>4. GoneInv'
    BY <1>1, <1>2, <1>3, <2>1 DEF GoneInv
  <2> QED BY <2>2, <2>3, <2>4 DEF ClosingInv
<1>4. CASE c # "Disconnect" /\ client'.isconnected = client.isconnected
  <2>1. ~breakFlag /\ Phase = "loop"
    BY <1>4, AtPhase
  <2>2. UpInv'
    BY <1>4 DEF ClosingInv, UpInv
  <2>3. FrontInv'
    BY <1>1, <1>4 DEF ClosingInv, FrontInv
  <2>4. ASSUME client.isconnected PROVE ~Has(clientList, "Disconnect")
    <3>1. Has(clientList, "Disconnect") => loopClient \in {Unknown, "Cgatt"}
      BY <2>1 DEF SendingInv, CarryInv, Carriers
    <3>2. c # "Cgatt"
      BY <1>1, <2>4 DEF ClosingInv, TurnInv
    <3> QED BY <1>1, <3>1, <3>2
  <2>5. TurnInv'
    BY <1>1, <1>4, <2>4, PartsKnown DEF TurnInv
  <2>6. GoneInv'
    BY <1>1, <1>4, <2>1 DEF ClosingInv, GoneInv
  <2> QED BY <2>2, <2>3, <2>5, <2>6 DEF ClosingInv
<1>5. CASE c = "Connect" /\ ok /\ net
  <2>1. clientList = <<>> /\ ~breakFlag /\ stm # "Disconnected"
    <3>1. clientList = <<>>
      BY <1>1, <1>5, HookedClient DEF BackingInv, ListInv
    <3> QED BY <1>1, <1>5, <3>1 DEF ClosingInv, TurnInv
  <2>2. UpInv'
    BY <1>5, <2>1 DEF ClosingInv, UpInv
  <2>3. FrontInv'
    BY <1>1, <2>1, ListOne DEF FrontInv
  <2>4. TurnInv'
    BY <1>1, <1>2, <1>5, PartsKnown DEF TurnInv
  <2>5. GoneInv'
    BY <2>1 DEF GoneInv
  <2> QED BY <2>2, <2>3, <2>4, <2>5 DEF ClosingInv
<1> QED BY <1>3, <1>4, <1>5

\* The gateway disconnects, on its own or when it was asked to.
LEMMA DropCloses ==
  ASSUME TypeInv, BackingInv, SendingInv, ClosingInv, StepDisconnectReceived
  PROVE  ClosingInv'
<1>0. client \in ClientRecs
  BY DEF TypeInv, ClientTypes
<1>1. /\ Phase = "loop" /\ UNCHANGED <<net, modemOn>>
      /\ client' = [client EXCEPT !.isconnected = FALSE]
  BY AtPhase DEF StepDisconnectReceived, LoopTurn
<1>2. ~client'.isconnected
  BY <1>0, <1>1 DEF ClientRecs
<1>3. PICK c \in Cyclers :
        /\ LoopStepPending(c)
        /\ \/ c = "Disconnect" /\ disconnectNotify(<<Op("disconnected", 0)>>)
           \/ c # "Disconnect" /\ disconnectNotify(<<>>)
  BY DEF StepDisconnectReceived
<1>4. /\ UNCHANGED <<clientList, loopClient, loopId, breakFlag>>
      /\ loopClient = c /\ loopId = c /\ ~breakFlag /\ c # "Cgatt"
  BY <1>3, HookedClient DEF LoopStepPending, Steppable, loopVars, Cyclers
<1>5. /\ UNCHANGED stm
      /\ c = "Disconnect" => Phase' = "disconnected"
      /\ c # "Disconnect" => Phase' = "idle"
  <2>1. stm # "DisconnectedSleep"
    BY DEF BackingInv, AwakeInv, Awake
  <2>2. /\ UNCHANGED stm
        /\ c = "Disconnect" => calls' = <<Op("disconnected", 0)>>
        /\ c # "Disconnect" => calls' = <<>>
    BY <1>3, <2>1 DEF disconnectNotify, SendThen, Dispatch, stmVars
  <2> QED BY <2>2, ShapePhase DEF Phase
<1>6. UpInv' /\ FrontInv'
  BY <1>1, <1>2 DEF ClosingInv, UpInv, FrontInv
<1>7. TurnInv'
  BY <1>2, <1>4, <1>5 DEF ClosingInv, TurnInv
<1>8. ASSUME stm = "Disconnected", net, c # "Disconnect" PROVE FALSE
  <2>1. Has(clientList, "Disconnect") => loopClient \in {Unknown, "Cgatt"}
    BY <1>4 DEF SendingInv, CarryInv, Carriers
  <2>2. c # Unknown
    BY <1>3 DEF LoopStepPending, Steppable
  <2> QED BY <1>1, <1>4, <1>8, <2>1, <2>2 DEF ClosingInv, GoneInv
<1>9. GoneInv'
  BY <1>1, <1>2, <1>4, <1>5, <1>8 DEF GoneInv
<1> QED BY <1>6, <1>7, <1>9 DEF ClosingInv

\* eventLoop() after a failure: everything is dropped, but no DISCONNECT.
LEMMA FailCloses ==
  ASSUME TypeInv, BackingInv, ClosingInv, EventLoopFail
  PROVE  ClosingInv'
<1>1. Phase = "fail" /\ calls' = Tail(calls)
  BY AtPhase DEF EventLoopFail
<1>2. /\ loopId # "Disconnect" /\ loopClient = Unknown
      /\ client.isconnected => ~Has(clientList, "Disconnect")
  BY <1>1 DEF ClosingInv, TurnInv
<1>3. /\ clientList' = <<>> /\ loopClient' = Unknown /\ loopId' = Unknown
      /\ UNCHANGED <<stm, client, net, breakFlag, modemOn>>
  BY <1>2 DEF EventLoopFail, clear
<1>4. Phase' = "dispatch"
  <2>1. calls' = Finish
    BY <1>1, ShapeTail DEF BackingInv, CallInv, Phase
  <2> QED BY <2>1, ShapePhase DEF Phase
<1>5. \A c : ~Has(<<>>, c)
  BY ListOne
<1>6. UpInv' /\ FrontInv'
  BY <1>3, <1>5 DEF ClosingInv, UpInv, FrontInv
<1>7. TurnInv'
  BY <1>3, <1>4, PartsKnown DEF TurnInv
<1>8. GoneInv'
  BY <1>1, <1>2, <1>3, PartsKnown DEF ClosingInv, GoneInv
<1> QED BY <1>6, <1>7, <1>8 DEF ClosingInv

\* eventLoop() after a loop that succeeded: a disconnect loop is followed by
\* the end of the connection.
LEMMA DoneCloses ==
  ASSUME SocketsWork, TypeInv, BackingInv, ClosingInv, EventLoopDone
  PROVE  ClosingInv'
<1>1. Phase = "done" /\ calls' = <<>> /\ UNCHANGED <<stm, client, modemOn>>
  BY AtPhase DEF EventLoopDone
<1>2. Phase' = "idle"
  BY <1>1, ShapePhase DEF Phase
<1>3. CASE loopId # "Disconnect"
  <2>1. UNCHANGED <<clientList, loopClient, loopId, breakFlag, net>>
    BY <1>3 DEF EventLoopDone, loopVars
  <2>2. UpInv' /\ FrontInv'
    BY <1>1, <2>1 DEF ClosingInv, UpInv, FrontInv
  <2>3. TurnInv'
    BY <1>1, <1>2, <2>1 DEF ClosingInv, TurnInv
  <2>4. GoneInv'
    BY <1>1, <1>3, <2>1 DEF ClosingInv, GoneInv
  <2> QED BY <2>2, <2>3, <2>4 DEF ClosingInv
<1>4. CASE loopId = "Disconnect"
  <2>1. ~client.isconnected
    BY <1>1, <1>4 DEF ClosingInv, TurnInv
  <2>2. finishDisconnect
    BY <1>4 DEF EventLoopDone
  <2>3. UNCHANGED <<clientList, loopClient, loopId>> /\ ~net'
    BY <2>2, ClosedSocket DEF finishDisconnect, loopBreak, loopVars
  <2>4. UpInv' /\ FrontInv'
    BY <1>1, <2>1 DEF ClosingInv, UpInv, FrontInv
  <2>5. TurnInv'
    BY <1>1, <1>2, <2>1, <2>3 DEF ClosingInv, TurnInv
  <2>6. GoneInv'
    BY <1>1, <2>1, <2>3 DEF GoneInv
  <2> QED BY <2>4, <2>5, <2>6 DEF ClosingInv
<1> QED BY <1>3, <1>4

\* What the modem is given, it sends while the socket is open.
LEMMA SendsOut ==
  ASSUME SocketsWork, ClosingInv, NEW ok \in sendPacket, client.isconnected
  PROVE  ok
<1>1. Outcome("send") = {TRUE}
  BY DEF SocketsWork, Outcome
<1>2. net /\ modemOn
  BY DEF ClosingInv, UpInv
<1> QED BY <1>1, <1>2 DEF sendPacket

\* The start functions.
LEMMA StartsClose ==
  ASSUME SocketsWork, TypeInv, BackingInv, ClosingInv, LoopStarts
  PROVE  ClosingInv'
<1>0. client \in ClientRecs
  BY DEF TypeInv, ClientTypes
<1>1. At("loop") /\ UNCHANGED <<stm, net, modemOn>>
  BY DEF LoopStarts, LoopTurn, StartStale, startAttachLoop, startYieldLoop,
     startConLoop, startRegLoop, startUnsubLoop, startDisLoop, startSubLoop,
     startPubLoop, StartWith, stmVars
<1>2. ASSUME NEW c, StartWith(c), client'.isconnected = client.isconnected
      PROVE  ClosingInv'
  <2>1. PICK ok \in sendPacket : StartResult(c, ok)
    BY <1>2 DEF StartWith
  <2>2. ok \in BOOLEAN
    BY SendPacketTyped
  <2>3. client.isconnected => ok
    BY SendsOut
  <2>4. result[c] # "Pending"
    BY <1>2 DEF StartWith
  <2> QED BY <1>1, <1>2, <2>1, <2>2, <2>3, <2>4, StartCloses
<1>3. CASE StartStale
  <2>1. PICK c : StartResult(c, TRUE)
    BY <1>3 DEF StartStale
  <2>2. UNCHANGED client
    BY <1>3 DEF StartStale
  <2> QED BY <1>1, <2>1, <2>2, StartCloses
<1>4. CASE startAttachLoop
  <2>1. PICK ok \in BOOLEAN : StartResult("Cgatt", ok)
    BY <1>4, OutcomeTyped DEF startAttachLoop
  <2>2. UNCHANGED client /\ result["Cgatt"] # "Pending"
    BY <1>4 DEF startAttachLoop
  <2> QED BY <1>1, <2>1, <2>2, StartCloses
<1>5. CASE startYieldLoop
  <2>1. StartResult("Yield", TRUE) /\ client'.isconnected = client.isconnected
    BY <1>0, <1>5 DEF startYieldLoop, ClientRecs
  <2> QED BY <1>1, <2>1, StartCloses
<1>6. CASE startSubLoop
  <2>1. StartWith("Subscribe") /\ client'.isconnected = client.isconnected
    BY <1>0, <1>6 DEF startSubLoop, sendSubPacket, ClientRecs
  <2> QED BY <1>2, <2>1
<1>7. CASE startPubLoop
  <2>1. PICK qos \in {0, 1} : sendPubPacket(qos)
    BY <1>7 DEF startPubLoop
  <2>2. client'.isconnected = client.isconnected
    BY <1>0, <2>1 DEF sendPubPacket, ClientRecs
  <2>3. StartWith("Publish")
    BY <1>7 DEF startPubLoop
  <2> QED BY <1>2, <2>2, <2>3
<1>8. CASE startConLoop \/ startRegLoop \/ startUnsubLoop \/ startDisLoop
  <2>1. /\ \E c : StartWith(c)
        /\ UNCHANGED client
    BY <1>8 DEF startConLoop, startRegLoop, startUnsubLoop, startDisLoop
  <2> QED BY <1>2, <2>1
<1> QED BY <1>3, <1>4, <1>5, <1>6, <1>7, <1>8 DEF LoopStarts

\* The loops.
LEMMA StepsClose ==
  ASSUME TypeInv, BackingInv, SendingInv, ClosingInv, LoopSteps
  PROVE  ClosingInv'
<1>0. client \in ClientRecs
  BY DEF TypeInv, ClientTypes
<1>c. /\ {"Cgatt", "Yield", "Connect", "Publish", "Register", "Subscribe",
          "Unsubscribe", "Disconnect"} \subseteq Clients
  BY StmAssumption
<1>t. ASSUME NEW c, LoopStepPending(c), LoopTurn, UNCHANGED <<stm, net>>,
             calls' = <<>>, client'.isconnected = client.isconnected
      PROVE  ClosingInv'
  <2>1. Phase = "loop" /\ UNCHANGED <<loopVars, modemOn>>
    BY <1>t, AtPhase DEF LoopTurn, LoopStepPending
  <2>2. Phase' = "idle"
    BY <1>t, ShapePhase DEF Phase
  <2> QED BY <1>t, <2>1, <2>2, StillCloses
<1>e. ASSUME NEW c \in Clients, NEW ok \in BOOLEAN, NEW rc \in {0, 1, 2},
             StepDone(c, ok, rc), LoopTurn, UNCHANGED <<stm, net>>,
             \/ c # "Disconnect" /\ client'.isconnected = client.isconnected
             \/ c = "Disconnect" /\ ok /\ client'.isconnected = FALSE
             \/ c = "Connect" /\ ok /\ net
      PROVE  ClosingInv'
  <2>1. /\ StepEnd(c, ok) /\ StepResult(ok, rc) /\ UNCHANGED breakFlag
        /\ ~breakFlag
    BY <1>e DEF StepDone, LoopStepDone, Steppable
  <2>2. At("loop") /\ UNCHANGED modemOn
    BY <1>e DEF LoopTurn
  <2> QED BY <1>e, <2>1, <2>2, EndCloses
<1>1. CASE StepWaits
  <2>1. /\ \E c : LoopStepPending(c)
        /\ LoopTurn /\ UNCHANGED <<stm, net, client>> /\ calls' = <<>>
    BY <1>1 DEF StepWaits, stmVars
  <2> QED BY <1>t, <2>1
<1>2. CASE StepTraffic \/ StepTopicRejected \/ StepRegisterReceived
  <2>1. /\ \E c : LoopStepPending(c)
        /\ LoopTurn /\ UNCHANGED <<stm, net>> /\ calls' = <<>>
    BY <1>2 DEF StepTraffic, StepTopicRejected, StepRegisterReceived, stmVars
  <2>2. client'.isconnected = client.isconnected
    BY <1>0, <1>2 DEF StepTraffic, StepTopicRejected, StepRegisterReceived, ClientRecs
  <2> QED BY <1>t, <2>1, <2>2
<1>3. CASE StepPingResponse
  <2>1. /\ \E c : LoopStepPending(c)
        /\ LoopTurn /\ UNCHANGED <<stm, net>> /\ calls' = <<>>
    BY <1>3 DEF StepPingResponse, BackingInv, AwakeInv, Awake, stmVars
  <2>2. client'.isconnected = client.isconnected
    BY <1>0, <1>3 DEF StepPingResponse, ClientRecs
  <2> QED BY <1>t, <2>1, <2>2
<1>4. CASE doSubLoop \/ doPubLoop
  <2>1. /\ \E c : LoopStepPending(c)
        /\ LoopTurn /\ UNCHANGED <<stm, net>> /\ calls' = <<>>
    BY <1>4 DEF doSubLoop, doPubLoop, stmVars
  <2>2. client'.isconnected = client.isconnected
    BY <1>0, <1>4 DEF doSubLoop, doPubLoop, sendSubPacket, sendPubPacket, ClientRecs
  <2> QED BY <1>t, <2>1, <2>2
<1>5. CASE finishAttachLoop
  <2>1. PICK ok \in BOOLEAN : StepDone("Cgatt", ok, 0)
    BY <1>5 DEF finishAttachLoop
  <2> QED BY <1>5, <1>c, <1>e, <2>1 DEF finishAttachLoop
<1>6. CASE finishConLoop
  <2>1. LoopTurn /\ UNCHANGED <<stm, net>>
    BY <1>6 DEF finishConLoop, stmVars
  <2>2. PICK ok \in BOOLEAN :
          /\ ok => Receiving
          /\ StepDone("Connect", ok, 0)
          /\ client' = [client EXCEPT !.isconnected = @ \/ ok,
                          !.pmPing = @ /\ ~ok,
                          !.sendbuf = IF client.cleansession = 0 /\ client.inflight
                                      THEN Packet("PUBLISH", NoTopic) ELSE @]
    BY <1>6 DEF finishConLoop
  <2>3. client'.isconnected = (client.isconnected \/ ok)
    BY <1>0, <2>2 DEF ClientRecs
  <2>4. \/ client'.isconnected = client.isconnected
        \/ ok /\ net
    <3>1. CASE ok
      BY <2>2, <3>1 DEF Receiving
    <3>2. CASE ~ok
      <4>1. client.isconnected \in BOOLEAN
        BY ClientFields DEF TypeInv, ClientTypes
      <4> QED BY <2>3, <3>2, <4>1
    <3> QED BY <3>1, <3>2
  <2> QED BY <1>c, <1>e, <2>1, <2>2, <2>4
<1>7. CASE finishPubLoopQoS0 \/ finishPubLoop
  <2>1. LoopTurn /\ UNCHANGED <<stm, net>>
    BY <1>7 DEF finishPubLoopQoS0, finishPubLoop, stmVars
  <2>2. PICK ok \in BOOLEAN : \E rc \in {0, 1, 2} : StepDone("Publish", ok, rc)
    <3>1. CASE \E rc \in {0, 1, 2} : StepDone("Publish", rc = 0, rc)
      BY <3>1
    <3>2. CASE StepDone("Publish", TRUE, 0) \/ StepDone("Publish", FALSE, 0)
      BY <3>2
    <3> QED BY <1>7, <3>1, <3>2 DEF finishPubLoop, finishPubLoopQoS0
  <2>3. client'.isconnected = client.isconnected
    BY <1>0, <1>7 DEF finishPubLoopQoS0, finishPubLoop, ClientRecs
  <2> QED BY <1>c, <1>e, <2>1, <2>2, <2>3
<1>8. ASSUME NEW c \in Clients \ {"Disconnect"}, Acknowledged(c) PROVE ClosingInv'
  <2>1. PICK ok \in BOOLEAN : StepDone(c, ok, 0)
    BY <1>8 DEF Acknowledged
  <2> QED BY <1>8, <1>e, <2>1 DEF Acknowledged, stmVars
<1>9. CASE finishRegLoop \/ finishSubLoop \/ finishUnsubLoop
  BY <1>c, <1>8, <1>9 DEF finishRegLoop, finishSubLoop, finishUnsubLoop
<1>10. CASE finishYieldLoop
  <2>1. PICK ok \in BOOLEAN : StepDone("Yield", ok, 0)
    BY <1>10 DEF finishYieldLoop
  <2>2. LoopTurn /\ UNCHANGED <<stm, net>>
    BY <1>10 DEF finishYieldLoop, stmVars
  <2>3. client'.isconnected = client.isconnected
    BY <1>0, <1>10 DEF finishYieldLoop, ClientRecs
  <2> QED BY <1>c, <1>e, <2>1, <2>2, <2>3
<1>11. CASE finishDisLoop
  <2>1. UNCHANGED <<stm, net>>
    BY <1>11 DEF finishDisLoop, stmVars
  <2>2. client'.isconnected = FALSE
    BY <1>0, <1>11 DEF finishDisLoop, ClientRecs
  <2>3. CASE LoopTurn /\ StepDone("Disconnect", TRUE, 0)
    BY <1>c, <1>e, <2>1, <2>2, <2>3
  <2>4. CASE At("disconnected") /\ StepEnd("Disconnect", TRUE)
             /\ StepResult(TRUE, 0) /\ UNCHANGED <<breakFlag, modemOn>>
    BY <1>c, <2>1, <2>2, <2>4, EndCloses
  <2> QED BY <1>11, <2>3, <2>4 DEF finishDisLoop
<1> QED BY <1>1, <1>2, <1>3, <1>4, <1>5, <1>6, <1>7, <1>9, <1>10, <1>11, DropCloses
        DEF LoopSteps

\* A handler neither ends a turn nor enters Disconnected, and adds an attach
\* loop, or a CONNECT of a client that is not connected, at most.
LEMMA MovesClose ==
  ASSUME ClosingInv, TypeInv, TakesHead, stm' # "Disconnected",
         UNCHANGED <<loopClient, loopId, breakFlag, modemOn>>,
         client'.isconnected = client.isconnected,
         UNCHANGED net \/ net',
         \/ UNCHANGED clientList
         \/ ~client.isconnected
         \/ Head(clientList) = "Disconnect" /\ Head(clientList') = "Disconnect",
         Phase \notin {"done", "fail"}
  PROVE  ClosingInv'
<1>1. Phase' = Phase
  BY DEF TakesHead, Phase
<1>2. UpInv' /\ FrontInv'
  BY DEF ClosingInv, UpInv, FrontInv
<1>3. TurnInv'
  BY <1>1 DEF ClosingInv, TurnInv
<1>4. GoneInv'
  BY DEF GoneInv
<1> QED BY <1>2, <1>3, <1>4 DEF ClosingInv

\* No handler runs between a loop's end and what follows it.
LEMMA HandlerPhase ==
  ASSUME BackingInv, TakesHead
  PROVE  Phase \notin {"done", "fail", "disconnected"} /\ loopId # "Connect"
  BY DEF BackingInv, CallInv, TakesHead

\* Disconnected is entered.
LEMMA DisconnectedCloses ==
  ASSUME SocketsWork, TypeInv, BackingInv, SendingInv, ClosingInv, TakesHead,
         actionDisconnectedEntry(pool),
         \/ stm = "Connected"
         \/ stm = "Initial"
         \/ stm = "Error" /\ Head(events) = "ErrorDisconnect"
  PROVE  ClosingInv'
<1>0. clientList \in Seq(Clients) /\ client \in ClientRecs
  BY DEF TypeInv, LoopInv, LoopTypeOK, ClientTypes
<1>1. stm' = "Disconnected" /\ doDisconnect(pool) /\ UNCHANGED modemOn /\ Phase' = Phase
  BY DEF actionDisconnectedEntry, Enter, TakesHead, Phase
<1>2. loopClient # "Connect"
  BY HandlerPhase, HookedClient, PartsKnown
<1>3. CASE client.isconnected /\ clientDisconnect(pool) /\ UNCHANGED net
  <2>1. /\ clientList' = clientList \o <<"Disconnect">>
        /\ UNCHANGED <<loopClient, loopId, breakFlag>>
        /\ client'.isconnected
    BY <1>0, <1>3 DEF clientDisconnect, loopDisconnect, RegisterLoopClients, ClientRecs
  <2>2. loopId = Unknown /\ OnlyOf(clientList, {"Cgatt"})
    BY <1>3, PartsAlone DEF ClosingInv, UpInv
  <2>3. loopClient = Unknown
    BY <2>2, NothingHooked
  <2>4. clientList = <<>>
    <3>1. ASSUME clientList # <<>> PROVE FALSE
      <4>1. 1 \in 1..Len(clientList) /\ Head(clientList) = clientList[1]
        BY <1>0, <3>1
      <4>2. Head(clientList) = "Cgatt" /\ Has(clientList, "Cgatt")
        BY <2>2, <4>1 DEF OnlyOf, Has
      <4> QED BY <1>3, <2>3, <4>2, PartsKnown DEF ClosingInv, FrontInv
    <3> QED BY <3>1
  <2>5. clientList' = <<"Disconnect">>
    <3>1. <<>> \o <<"Disconnect">> = <<"Disconnect">>
      <4>1. \A c \in Clients : <<>> \o <<c>> = <<c>>
        OBVIOUS
      <4> QED BY <4>1, PartsKnown
    <3> QED BY <2>1, <2>4, <3>1
  <2>6. Head(clientList') = "Disconnect" /\ Has(clientList', "Disconnect")
    BY <2>5 DEF Has
  <2>7. UpInv' /\ FrontInv'
    BY <1>1, <1>3, <2>1, <2>6 DEF ClosingInv, UpInv, FrontInv
  <2>8. TurnInv'
    BY <1>1, <2>1, <2>3, HandlerPhase, PartsKnown DEF TurnInv
  <2>9. GoneInv'
    BY <2>1, <2>6 DEF GoneInv
  <2> QED BY <2>7, <2>8, <2>9 DEF ClosingInv
<1>4. CASE ~client.isconnected /\ finishDisconnect /\ UNCHANGED client
  <2>1. UNCHANGED <<clientList, loopClient, loopId>> /\ ~net'
    BY <1>4, ClosedSocket DEF finishDisconnect, loopBreak, loopVars
  <2>2. UpInv' /\ FrontInv'
    BY <1>1, <1>4 DEF ClosingInv, UpInv, FrontInv
  <2>3. TurnInv'
    BY <1>1, <1>2, <1>4, <2>1, HandlerPhase DEF ClosingInv, TurnInv
  <2>4. GoneInv'
    BY <1>4, <2>1 DEF GoneInv
  <2> QED BY <2>2, <2>3, <2>4 DEF ClosingInv
<1> QED BY <1>1, <1>3, <1>4 DEF doDisconnect

\* A connection attempt opens the socket.
LEMMA IpConnectCloses ==
  ASSUME SocketsWork, TypeInv, BackingInv, ClosingInv, TakesHead,
         NEW p, IpConnect(p)
  PROVE  ClosingInv'
<1>0. client \in ClientRecs
  BY DEF TypeInv, ClientTypes
<1>1. /\ net' = TRUE /\ mqttConnect(p.cleanSession)
      /\ stm' = "WaitForConnect" /\ UNCHANGED modemOn
  <2>1. "ip" \notin Faults
    BY DEF SocketsWork
  <2> DEFINE q == [p EXCEPT !.restarts = 0]
  <2>2. /\ net' = TRUE /\ mqttConnect(q.cleanSession)
        /\ Enter("WaitForConnect", "run") /\ UNCHANGED modemOn
    BY <2>1 DEF IpConnect
  <2>3. q.cleanSession = p.cleanSession
    OBVIOUS
  <2> HIDE DEF q
  <2> QED BY <2>2, <2>3 DEF Enter
<1>2. CASE client.isconnected
  <2>1. UNCHANGED <<client, clientList, loopClient, loopId, breakFlag>>
    BY <1>1, <1>2 DEF mqttConnect, loopVars
  <2> QED BY <1>1, <2>1, HandlerPhase, MovesClose
<1>3. CASE ~client.isconnected
  <2>1. /\ UNCHANGED <<loopClient, loopId, breakFlag>>
        /\ client'.isconnected = client.isconnected
    BY <1>0, <1>1, <1>3 DEF mqttConnect, loopConnect, RegisterLoopClients, ClientRecs
  <2> QED BY <1>1, <1>3, <2>1, HandlerPhase, MovesClose
<1> QED BY <1>2, <1>3

\* The handlers of the state machine.
LEMMA HandleCloses ==
  ASSUME SocketsWork, TypeInv, BackingInv, SendingInv, ClosingInv, HandleEvent
  PROVE  ClosingInv'
<1>0. TakesHead
  BY HandleTakes
<1>t. \A e : Take(e) => Head(events) = e
  BY DEF Take
<1>h. stm \in Awake /\ Head(events) \notin {"Sleep", "Hibernate"}
  <2>1. events \in Seq(Events) /\ events # <<>>
    BY <1>0 DEF TypeInv, StmTypes, TakesHead
  <2>2. Head(events) \notin {"Sleep", "Hibernate"}
    BY <2>1, HasNoneTail DEF BackingInv, AwakeInv
  <2> QED BY <2>2 DEF BackingInv, AwakeInv
<1>l. UNCHANGED loopVars => UNCHANGED <<clientList, loopClient, loopId, breakFlag>>
  BY DEF loopVars
<1>e. ASSUME NEW p, actionErrorEntry(p), UNCHANGED <<loopVars, client, net>>
      PROVE  ClosingInv'
  <2>1. stm' = "Error" /\ UNCHANGED modemOn
    BY <1>e DEF actionErrorEntry, Enter
  <2> QED BY <1>0, <1>e, <1>l, <2>1, HandlerPhase, MovesClose
<1>1. CASE InitialLeave
  <2>0. stm = "Initial"
    BY <1>1 DEF InitialLeave
  <2>1. CASE actionDisconnectedEntry(pool)
    BY <1>0, <2>0, <2>1, DisconnectedCloses
  <2>2. CASE /\ actionErrorEntry([pool EXCEPT !.errno = "InitializeError"])
             /\ UNCHANGED <<loopVars, client, net>>
    BY <1>e, <2>2
  <2> QED BY <1>1, <2>1, <2>2 DEF InitialLeave
<1>2. CASE DisconnectedConnect
  <2> DEFINE p == [pool EXCEPT !.errno = "Success"]
  <2>1. stm = "Disconnected" /\ Head(events) = "Connect"
    BY <1>2, <1>t DEF DisconnectedConnect
  <2>2. \/ IpConnect(p)
        \/ /\ doModemAttach /\ Enter("WaitForAttach", "run")
           /\ UNCHANGED <<client, net, modemOn>>
    BY <1>2 DEF DisconnectedConnect
  <2> HIDE DEF p
  <2>3. CASE IpConnect(p)
    BY <1>0, <2>3, IpConnectCloses
  <2>4. CASE /\ doModemAttach /\ Enter("WaitForAttach", "run")
             /\ UNCHANGED <<client, net, modemOn>>
    <3>1. /\ stm' = "WaitForAttach"
          /\ UNCHANGED <<loopClient, loopId, breakFlag>>
          /\ clientList' = clientList \o <<"Cgatt">>
      BY <2>4 DEF Enter, doModemAttach, RegisterLoopClients
    <3>2. ASSUME client.isconnected
          PROVE  Head(clientList) = "Disconnect" /\ Head(clientList') = "Disconnect"
      <4>1. loopClient = Unknown
        BY <1>0, <2>1, AttemptUnhooked
      <4>2. Has(clientList, "Disconnect")
        BY <2>1, <3>2, <4>1, PartsKnown DEF ClosingInv, GoneInv
      <4>3. Head(clientList) = "Disconnect"
        BY <3>2, <4>1, <4>2, PartsKnown DEF ClosingInv, FrontInv
      <4>4. clientList \in Seq(Clients) /\ clientList # <<>>
        BY <4>2, ListOne DEF TypeInv, LoopInv, LoopTypeOK
      <4>5. \A c \in Clients : Head(clientList \o <<c>>) = Head(clientList)
        BY <4>4
      <4> QED BY <3>1, <4>3, <4>5, PartsKnown
    <3> QED BY <1>0, <2>4, <3>1, <3>2, HandlerPhase, MovesClose
  <2> QED BY <2>2, <2>3, <2>4
<1>3. CASE WaitForAttachAttached
  <2>1. IpConnect(pool)
    BY <1>3 DEF WaitForAttachAttached
  <2> QED BY <1>0, <2>1, IpConnectCloses
<1>4. CASE WaitForAttachTimer \/ WaitForConnectTimer
  <2>1. /\ \E p : actionErrorEntry(p)
        /\ UNCHANGED <<loopVars, client, net>>
    BY <1>4 DEF WaitForAttachTimer, WaitForConnectTimer
  <2> QED BY <1>e, <2>1
<1>5. CASE WaitForConnectConnected
  <2>1. stm' = "Connected" /\ UNCHANGED <<loopVars, client, net, modemOn>>
    BY <1>5 DEF WaitForConnectConnected, actionConnectedEntry, Enter
  <2> QED BY <1>0, <1>l, <2>1, HandlerPhase, MovesClose
<1>6. CASE ErrorDisconnect \/ ConnectedDisconnect
  <2>1. /\ actionDisconnectedEntry(pool)
        /\ \/ stm = "Connected"
           \/ stm = "Error" /\ Head(events) = "ErrorDisconnect"
    BY <1>6, <1>t DEF ErrorDisconnect, ConnectedDisconnect
  <2> QED BY <1>0, <2>1, DisconnectedCloses
<1>7. CASE ReInitialize
  <2>1. /\ stm' = "Initial" /\ UNCHANGED <<loopVars, client, net>>
        /\ \E ok : modemOn' = (modemOn \/ ok)
    BY <1>7 DEF ReInitialize, actionInitialEntry, Enter
  <2>2. modemOn' = modemOn
    <3>1. modemOn
      BY DEF ClosingInv, UpInv
    <3>2. modemOn \in BOOLEAN /\ modemOn'
      BY <2>1, <3>1 DEF TypeInv, NetTypes
    <3> QED BY <2>1, <3>1, <3>2
  <2> QED BY <1>0, <1>l, <2>1, <2>2, HandlerPhase, MovesClose
<1>8. ~(ConnectedSleepEvent \/ ConnectedSleepWakeup \/ ConnectedSleepAwake
        \/ ConnectedAwakeLeave \/ Hibernate \/ DisconnectedSleepEvent
        \/ DisconnectedSleepWakeup)
  BY <1>h, <1>t DEF ConnectedSleepEvent, ConnectedSleepWakeup,
     ConnectedSleepAwake, ConnectedAwakeLeave, Hibernate,
     DisconnectedSleepEvent, DisconnectedSleepWakeup, Awake
<1>9. CASE IgnoreEvent
  <2>1. UNCHANGED <<loopVars, stm, client, net, modemOn>> /\ Phase' = Phase
    BY <1>0, <1>9 DEF IgnoreEvent, TakesHead, Phase
  <2> QED BY <2>1, StillCloses
<1> QED BY <1>1, <1>2, <1>3, <1>4, <1>5, <1>6, <1>7, <1>8, <1>9 DEF HandleEvent

\* What the application adds in Connected neither attaches nor disconnects.
LEMMA AddedQuietly ==
  /\ \A c \in {"Subscribe", "Unsubscribe", "Yield"} :
       ~Has(<<c>>, "Cgatt") /\ ~Has(<<c>>, "Disconnect")
  /\ \A p \in {<<>>, <<"Register">>} :
       /\ ~Has(p \o <<"Publish", "Yield">>, "Cgatt")
       /\ ~Has(p \o <<"Publish", "Yield">>, "Disconnect")
<1>1. {"Register", "Publish", "Yield"} \subseteq Clients
  BY StmAssumption
<1>2. ASSUME NEW p \in {<<>>, <<"Register">>}
      PROVE  ~Has(p \o <<"Publish", "Yield">>, "Cgatt")
  <2>1. p \in Seq(Clients) /\ <<"Publish", "Yield">> \in Seq(Clients)
    <3>1. <<>> \in Seq(Clients) /\ \A c \in Clients : <<c>> \in Seq(Clients)
      OBVIOUS
    <3>2. <<"Publish", "Yield">> \in Seq(Clients)
      BY <1>1
    <3> QED BY <1>1, <3>1, <3>2
  <2>2. ~Has(p, "Cgatt")
    BY DEF Has
  <2>3. ~Has(<<"Publish", "Yield">>, "Cgatt")
    BY DEF Has
  <2> QED BY <2>1, <2>2, <2>3, ListConcat
<1> QED BY <1>2, ListOne, AddedClients

\* Clients are added to what a call finds in Connected: nothing.
LEMMA CallAdds ==
  ASSUME ClosingInv, TypeInv, clientList = <<>>, stm = "Connected",
         NEW cs \in Seq(Clients), RegisterLoopClients(cs),
         ~Has(cs, "Cgatt") /\ ~Has(cs, "Disconnect"),
         UNCHANGED <<stm, net, modemOn>>,
         client'.isconnected = client.isconnected, Phase' \notin {"done", "fail"}
  PROVE  ClosingInv'
<1>1. /\ UNCHANGED <<loopClient, loopId, breakFlag>>
      /\ clientList' = clientList \o cs
  BY DEF RegisterLoopClients
<1>2. clientList' = cs
  BY <1>1
<1> QED BY <1>1, <1>2, AddCloses

\* The calls of the application.
LEMMA ApplicationCloses ==
  ASSUME PlainUse, TypeInv, BackingInv, SendingInv, ClosingInv,
         Application \/ eventLoop \/ eventLoopAsleep
  PROVE  ClosingInv'
<1>0. client \in ClientRecs
  BY DEF TypeInv, ClientTypes
<1>m. stm \in Awake
  BY DEF BackingInv, AwakeInv
<1>e. ASSUME NEW f, API(f)
      PROVE  /\ Phase = "idle" /\ Return = LoopOnly /\ ~isSleeping
             /\ stm = "Connected" => clientList = <<>>
  <2>1. Phase = "idle" /\ loopId = Unknown /\ Return = LoopOnly /\ ~isSleeping
    BY <1>e, PlainCall
  <2> QED BY <2>1 DEF SendingInv, EmptyInv
<1>s. ASSUME Phase = "idle", Phase' \in {"idle", "loop", "publish", "yield"},
             UNCHANGED <<loopVars, stm, client, net, modemOn>>
      PROVE  ClosingInv'
  BY <1>s, StillCloses
<1>1. ASSUME NEW c \in {0, 1}, connect(c) PROVE ClosingInv'
  <2>1. Phase = "idle" /\ Return = LoopOnly /\ ~isSleeping
    BY <1>1, <1>e DEF connect
  <2>2. /\ calls' = LoopOnly /\ Dispatch(<<"Connect">>)
        /\ UNCHANGED <<loopVars, client, net, modemOn>>
    BY <1>1, <2>1 DEF connect, SendThen
  <2>3. Phase' = "loop" /\ UNCHANGED stm
    BY <2>2, ShapePhase DEF Phase, Dispatch
  <2> QED BY <1>s, <2>1, <2>2, <2>3
<1>2. ASSUME NEW t \in Topics, publish(t) PROVE ClosingInv'
  <2>1. Phase = "idle" /\ Return = LoopOnly /\ ~isSleeping
    BY <1>2, <1>e DEF publish
  <2>2. /\ calls' = <<Op("publish", t)>> \o LoopOnly
        /\ UNCHANGED <<stmVars, loopVars, client, net, modemOn>>
    BY <1>2, <2>1 DEF publish
  <2>3. Phase' = "publish"
    BY <2>2, ShapePhase DEF Phase
  <2> QED BY <1>s, <2>1, <2>2, <2>3 DEF stmVars
<1>3. ASSUME NEW t \in Topics, subscribe(t) PROVE ClosingInv'
  <2>1. /\ Phase = "idle" /\ Return = LoopOnly
        /\ stm = "Connected" /\ clientList = <<>>
    BY <1>3, <1>e DEF subscribe
  <2>2. /\ calls' = LoopOnly /\ UNCHANGED <<stmVars, client, net, modemOn>>
        /\ RegisterLoopClients(<<"Subscribe">>) \/ UNCHANGED loopVars
    BY <1>3, <2>1 DEF subscribe, loopSubscribe
  <2>3. Phase' = "loop" /\ UNCHANGED stm
    BY <2>2, ShapePhase DEF Phase, stmVars
  <2>4. CASE UNCHANGED loopVars
    BY <1>s, <2>1, <2>2, <2>3, <2>4
  <2>5. CASE RegisterLoopClients(<<"Subscribe">>)
    <3> DEFINE cs == <<"Subscribe">>
    <3>1. /\ cs \in Seq(Clients) /\ ~Has(cs, "Disconnect") /\ ~Has(cs, "Cgatt")
          /\ RegisterLoopClients(cs)
      BY <2>5, AddedClients, AddedQuietly
    <3> HIDE DEF cs
    <3> QED BY <2>1, <2>2, <2>3, <3>1, CallAdds
  <2> QED BY <2>2, <2>4, <2>5
<1>4. ASSUME NEW t \in Topics, unsubscribe(t) PROVE ClosingInv'
  <2>1. /\ Phase = "idle" /\ Return = LoopOnly
        /\ stm = "Connected" /\ clientList = <<>>
    BY <1>4, <1>e DEF unsubscribe
  <2>2. /\ calls' = LoopOnly /\ UNCHANGED <<stmVars, net, modemOn>>
        /\ RegisterLoopClients(<<"Unsubscribe">>)
        /\ client' = [client EXCEPT !.sendbuf = Packet("UNSUBSCRIBE", t)]
    BY <1>4, <2>1 DEF unsubscribe, loopUnsubscribe
  <2>3. Phase' = "loop" /\ UNCHANGED stm
    BY <2>2, ShapePhase DEF Phase, stmVars
  <2>4. client'.isconnected = client.isconnected
    BY <1>0, <2>2 DEF ClientRecs
  <2> DEFINE cs == <<"Unsubscribe">>
  <2>5. /\ cs \in Seq(Clients) /\ ~Has(cs, "Disconnect") /\ ~Has(cs, "Cgatt")
        /\ RegisterLoopClients(cs)
    BY <2>2, AddedClients, AddedQuietly
  <2> HIDE DEF cs
  <2> QED BY <2>1, <2>2, <2>3, <2>4, <2>5, CallAdds
<1>5. CASE disconnect
  <2>1. Phase = "idle" /\ Return = LoopOnly /\ ~isSleeping
    BY <1>5, <1>e DEF disconnect
  <2>2. /\ calls' = LoopOnly /\ Dispatch(<<"Disconnect">>)
        /\ UNCHANGED <<loopVars, client, net, modemOn>>
    BY <1>5, <2>1 DEF disconnect, SendThen
  <2>3. Phase' = "loop" /\ UNCHANGED stm
    BY <2>2, ShapePhase DEF Phase, Dispatch
  <2> QED BY <1>s, <2>1, <2>2, <2>3
<1>6. ASSUME NEW d \in Durations, sleep(d) \/ hibernate(d) PROVE FALSE
  BY <1>6, PlainCall DEF sleep, hibernate
<1>7. ~wakeup
  BY PlainCall DEF wakeup
<1>8. CASE poll
  <2>1. Phase = "idle" /\ Return = LoopOnly /\ ~isSleeping
    BY <1>8, <1>e DEF poll
  <2>2. /\ calls' = <<Op("yield", 0)>> \o LoopOnly
        /\ UNCHANGED <<stmVars, loopVars, client, net, modemOn>>
    BY <1>8, <2>1 DEF poll
  <2>3. Phase' = "yield"
    BY <2>2, ShapePhase DEF Phase
  <2> QED BY <1>s, <2>1, <2>2, <2>3 DEF stmVars
<1>9. CASE eventLoop
  <2>1. /\ calls = <<>> /\ calls' = LoopOnly
        /\ UNCHANGED <<stmVars, loopVars, client, net, modemOn>>
    BY <1>9 DEF eventLoop, Idle, LoopOnly
  <2>2. Phase' = "loop" /\ Phase = "idle"
    BY <2>1, ShapePhase DEF Phase
  <2> QED BY <1>s, <2>1, <2>2 DEF stmVars
<1>10. ~eventLoopAsleep
  BY <1>m DEF eventLoopAsleep, Awake
<1> QED BY <1>1, <1>2, <1>3, <1>4, <1>5, <1>6, <1>7, <1>8, <1>9, <1>10
        DEF Application

\* publish() in Connected.
LEMMA PublishCloses ==
  ASSUME TypeInv, BackingInv, SendingInv, ClosingInv, PublishBody
  PROVE  ClosingInv'
<1>0. client \in ClientRecs
  BY DEF TypeInv, ClientTypes
<1>1. calls # <<>> /\ Phase = "publish"
  BY AtPhase DEF PublishBody
<1>2. stm = "Connected" /\ loopId = Unknown /\ Tail(calls) = LoopOnly
  BY <1>1, ShapeTail DEF BackingInv, CallInv, Phase
<1>3. clientList = <<>>
  BY <1>1, <1>2 DEF SendingInv, EmptyInv
<1> DEFINE t     == Head(calls).arg
           known == pool.registry[t] # {}
           p     == [pool EXCEPT !.errno = "Success", !.topicid = NoTopic]
           q     == Selected(t, [p EXCEPT !.registry[t] = IF known THEN @ \cup {"PUB"} ELSE @])
           first == IF known THEN <<>> ELSE <<"Register">>
           sent  == IF known THEN client
                    ELSE [client EXCEPT !.sendbuf = Packet("REGISTER", t)]
<1>4. \/ calls' = Tail(calls) /\ UNCHANGED <<loopVars, stmVars, pool, client>>
      \/ PublishFails(p, "MaxTopicsExceeded") /\ UNCHANGED <<loopVars, client>>
      \/ /\ client' = sent
         /\ \/ /\ RegisterLoopClients(first \o <<"Publish", "Yield">>)
               /\ calls' = Tail(calls) /\ UNCHANGED stmVars /\ pool' = q
            \/ /\ RegisterLoopClients(first) /\ PublishFails(q, "ConnectionError")
               /\ ~client.isconnected
  BY DEF PublishBody
<1>5. UNCHANGED <<net, modemOn>>
  BY DEF PublishBody
<1>6. first \in {<<>>, <<"Register">>} /\ sent.isconnected = client.isconnected
  BY <1>0 DEF ClientRecs
<1>7. \A r, e : PublishFails(r, e) => calls' = LoopOnly /\ UNCHANGED stm
  BY <1>2 DEF PublishFails, SendThen, Dispatch
<1> HIDE DEF p, q, known, first, sent, t
<1>8. calls' = LoopOnly /\ UNCHANGED stm
  BY <1>2, <1>4, <1>7 DEF stmVars
<1>9. Phase' = "loop"
  BY <1>8, ShapePhase DEF Phase
<1>10. CASE UNCHANGED <<loopVars, client>>
  BY <1>1, <1>5, <1>8, <1>9, <1>10, StillCloses
<1>11. CASE client' = sent /\ RegisterLoopClients(first \o <<"Publish", "Yield">>)
  <2> DEFINE cs == first \o <<"Publish", "Yield">>
  <2>1. /\ cs \in Seq(Clients) /\ ~Has(cs, "Disconnect") /\ ~Has(cs, "Cgatt")
        /\ RegisterLoopClients(cs)
    BY <1>6, <1>11, AddedClients, AddedQuietly
  <2> HIDE DEF cs
  <2> QED BY <1>2, <1>3, <1>5, <1>6, <1>8, <1>9, <1>11, <2>1, CallAdds
<1>12. CASE client' = sent /\ RegisterLoopClients(first) /\ ~client.isconnected
  <2>1. UNCHANGED <<loopClient, loopId, breakFlag>>
    BY <1>12 DEF RegisterLoopClients
  <2> QED BY <1>2, <1>5, <1>6, <1>8, <1>9, <1>12, <2>1, AddCloses
<1> QED BY <1>4, <1>10, <1>11, <1>12

\* What is left of a call after its dispatch(), and the end of a turn.
LEMMA ContinueCloses ==
  ASSUME PlainUse, SocketsWork, TypeInv, BackingInv, SendingInv, ClosingInv, Continue
  PROVE  ClosingInv'
<1>1. CASE SendStep \/ HibernateBody \/ WakeupBody \/ ReconnectDone \/ pmPing
  <2>1. PICK o \in {"send", "hibernate", "wakeup", "reconnected", "ping"} : At(o)
    BY <1>1 DEF SendStep, HibernateBody, WakeupBody, ReconnectDone, pmPing
  <2>2. o \in Phases
    BY <2>1, AtPhase
  <2> QED BY <2>2 DEF Phases
<1>2. CASE yield
  <2>1. /\ Phase = "yield" /\ calls' = Tail(calls) /\ calls # <<>>
        /\ UNCHANGED <<stmVars, client, net, modemOn>>
        /\ RegisterLoopClients(<<"Yield">>)
    BY <1>2, AtPhase DEF yield, loopYield
  <2>2. stm = "Connected" /\ loopId = Unknown /\ calls' = LoopOnly
    BY <2>1, ShapeTail DEF BackingInv, CallInv, Phase
  <2>3. clientList = <<>>
    BY <2>1, <2>2 DEF SendingInv, EmptyInv
  <2>4. Phase' = "loop" /\ UNCHANGED stm
    BY <2>1, <2>2, ShapePhase DEF Phase, stmVars
  <2> DEFINE cs == <<"Yield">>
  <2>5. /\ cs \in Seq(Clients) /\ ~Has(cs, "Disconnect") /\ ~Has(cs, "Cgatt")
        /\ RegisterLoopClients(cs)
    BY <2>1, AddedClients, AddedQuietly
  <2> HIDE DEF cs
  <2> QED BY <2>1, <2>2, <2>3, <2>4, <2>5, CallAdds
<1>3. CASE EventLoopDispatch
  <2>1. /\ Phase = "dispatch" /\ calls' = Tail(calls) /\ calls # <<>>
        /\ UNCHANGED <<loopVars, client, net, modemOn>> /\ Dispatch(<<>>)
    BY <1>3, AtPhase DEF EventLoopDispatch
  <2>2. calls' = <<Op("autopoll", 0)>>
    BY <2>1, ShapeTail DEF BackingInv, CallInv, Phase
  <2>3. Phase' = "autopoll" /\ UNCHANGED stm
    BY <2>1, <2>2, ShapePhase DEF Phase, Dispatch
  <2> QED BY <2>1, <2>3, StillCloses
<1>4. CASE EventLoopAutoPoll
  <2>1. /\ Phase = "autopoll" /\ calls' = Tail(calls) /\ calls # <<>>
        /\ UNCHANGED <<loopVars, stmVars, client, net, modemOn>>
    BY <1>4, AtPhase DEF EventLoopAutoPoll, PlainUse
  <2>2. calls' = <<>>
    BY <2>1, ShapeTail DEF BackingInv, CallInv, Phase
  <2>3. Phase' = "idle" /\ UNCHANGED stm
    BY <2>1, <2>2, ShapePhase DEF Phase, stmVars
  <2> QED BY <2>1, <2>3, StillCloses
<1> QED BY <1>1, <1>2, <1>3, <1>4, PublishCloses, FailCloses, DoneCloses DEF Continue

\* Every step keeps the invariant.
LEMMA StepCloses ==
  ASSUME PlainUse, SocketsWork, MqttInv, BackingInv, SendingInv, ClosingInv, [Next]_vars
  PROVE  ClosingInv'
<1>0. TypeInv
  BY DEF MqttInv
<1>1. CASE TimerExpires \/ DispatchEnd \/ UNCHANGED vars
  <2>1. UNCHANGED <<loopVars, stm, calls, client, net, modemOn>>
    BY <1>1 DEF TimerExpires, DispatchEnd, vars, stmVars
  <2>2. Phase' = Phase
    BY <2>1 DEF Phase
  <2> QED BY <2>1, <2>2, StillCloses
<1>2. CASE startStateMachine
  <2>1. /\ UNCHANGED <<loopVars, calls, client, net, modemOn>> /\ stm' = "Initial"
    BY <1>2 DEF startStateMachine
  <2>2. Phase' = Phase
    BY <2>1 DEF Phase
  <2> QED BY <2>1, <2>2, StillCloses
<1>3. CASE LoopNothing
  BY <1>0, <1>3, NothingCloses
<1>4. CASE LoopStarts \/ LoopSteps
  BY <1>0, <1>4, StartsClose, StepsClose
<1>5. CASE Application \/ eventLoop \/ eventLoopAsleep \/ Continue
  BY <1>0, <1>5, ApplicationCloses, ContinueCloses
<1>6. CASE HandleEvent
  BY <1>0, <1>6, HandleCloses
<1> QED BY <1>1, <1>2, <1>3, <1>4, <1>5, <1>6 DEF Next

\* It holds before begin().
LEMMA InitCloses == Init => ClosingInv
<1> SUFFICES ASSUME Init PROVE ClosingInv
  OBVIOUS
<1>1. /\ clientList = <<>> /\ loopClient = Unknown /\ loopId = Unknown
      /\ stm = "Invalid" /\ calls = <<>> /\ modemOn /\ ~client.isconnected
  BY DEF Init, StmInit, LoopInit
<1>2. Phase = "idle"
  BY <1>1, ShapePhase DEF Phase
<1>3. UpInv /\ FrontInv
  BY <1>1 DEF UpInv, FrontInv
<1>4. TurnInv
  BY <1>1, <1>2, PartsKnown DEF TurnInv
<1>5. GoneInv
  BY <1>1 DEF GoneInv
<1> QED BY <1>3, <1>4, <1>5 DEF ClosingInv

\* The third inductive invariant of such an application.
THEOREM ClosingInvariant ==
  ASSUME PlainUse, SocketsWork
  PROVE  Spec => []ClosingInv
<1>1. MqttInv /\ BackingInv /\ SendingInv /\ ClosingInv /\ [Next]_vars => ClosingInv'
  BY StepCloses
<1>2. Spec => [](BackingInv /\ SendingInv)
  BY SendingInvariant
<1> QED BY <1>1, <1>2, InitCloses, MqttInvariant, PTL DEF Spec

\* doDisconnect() and finishDisconnect() do their work: at rest, Disconnected
\* means no connected client and no open socket, whatever the gateway does and
\* whether or not the modem attaches, provided that its sockets open, send and
\* close when they are asked to.
THEOREM MqttDisconnected ==
  ASSUME PlainUse, SocketsWork
  PROVE  Spec => []DisconnectedAtRest
<1>1. MqttInv /\ ClosingInv => DisconnectedAtRest
  <2> SUFFICES ASSUME TypeInv, ClosingInv, Quiet, stm = "Disconnected"
               PROVE  ~client.isconnected /\ ~net
    BY DEF DisconnectedAtRest, MqttInv
  <2>1. clientList = <<>> /\ loopId = Unknown /\ calls = <<>>
    BY DEF Quiet, Idle, isBusy
  <2>2. loopClient = Unknown /\ Unknown \notin Clients
    BY <2>1, NothingHooked, PartsKnown
  <2>3. ~Has(clientList, "Disconnect")
    BY <2>1, NothingListed
  <2> QED BY <2>1, <2>2, <2>3, PartsKnown DEF ClosingInv, GoneInv
<1> QED BY <1>1, ClosingInvariant, MqttInvariant, PTL
=============================================================================

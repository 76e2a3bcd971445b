---------------------------- MODULE PublishLoop ----------------------------
(***************************************************************************)
(* One QoS 1 publish after the other through the publish loop of the       *)
(* MQTT-SN client (nbiotmqttsnclient.cpp, MQTTSNClient.h), with message    *)
(* ids, retransmissions, the aliased m_loopCtrl and what the application   *)
(* is told at the end (nbiotmqtt.cpp).  The gateway and the datagram link  *)
(* are the environment.                                                    *)
(*                                                                         *)
(* The loop client hands its m_loopCtrl to all three handlers.  It starts  *)
(* as the message id and is overwritten with the remaining time by every   *)
(* step; a retransmission takes it for the message id again.               *)
(***************************************************************************)
EXTENDS Naturals, FiniteSets

CONSTANTS
  MaxPacketId,   \* MAX_PACKET_ID
  MaxRetry,      \* m_maxRetry
  Timeout,       \* m_pubRetryTimeout, in ticks
  MaxPublishes,  \* bound of the model: publishes explored
  Link           \* what may go wrong on the link and in sendPacket()

ASSUME PublishAssumption ==
  /\ MaxPacketId \in Nat \ {0}
  /\ MaxRetry \in Nat
  /\ Timeout \in Nat \ {0}
  /\ MaxPublishes \in Nat
  /\ Link \subseteq {"lose", "duplicate", "late", "send"}

VARIABLES
  next,       \* PacketId::next
  phase,      \* the loop client: "idle", "queued" or "hooked"
  loopCtrl,   \* m_loopCtrl of m_pubLoopClient
  remaining,  \* its timer
  retries,    \* m_pubRetryCount
  inflight,   \* inflightMsgid
  pub,        \* which publish this is
  firstId,    \* the message id it was given
  sent,       \* how often it was transmitted
  air,        \* PUBLISH packets on their way to the gateway
  acks,       \* PUBACK packets on their way back
  accepted,   \* the publishes the gateway has accepted
  end,        \* how the loop ended: "none", "done", "timeout", "rejected", "unsent"
  told        \* return codes the application was notified of since publish()

client == <<next, phase, loopCtrl, remaining, retries, inflight>>
vars == <<client, pub, firstId, sent, air, acks, accepted, end, told>>

ReturnCodes == {0, 2}     \* RC_ACCEPTED, RC_REJECTED_INVALID_TOPIC_ID
Ids == 0 .. (IF MaxPacketId > Timeout THEN MaxPacketId ELSE Timeout)
Publish == [pub : Nat, id : Ids]
Puback == [pub : Nat, id : Ids, rc : ReturnCodes]

Sends == IF "send" \in Link THEN BOOLEAN ELSE {TRUE}

Init ==
  /\ next = 0 /\ phase = "idle" /\ loopCtrl = 0 /\ remaining = 0
  /\ retries = 0 /\ inflight = 0
  /\ pub = 0 /\ firstId = 0 /\ sent = 0
  /\ air = {} /\ acks = {} /\ accepted = {}
  /\ end = "none" /\ told = {}

----------------------------------------------------------------------------
(* The client                                                              *)

\* Mutant: the message id does not wrap around.
getNextUnbounded == next + 1

getNext == (IF next = MaxPacketId THEN 0 ELSE next) + 1

\* publish() and loopPublish().  Unless packets can be late, the link has
\* been drained before.
publish ==
  /\ phase = "idle"
  /\ pub < MaxPublishes
  /\ "late" \in Link \/ (air = {} /\ acks = {})
  /\ next' = getNext
  /\ loopCtrl' = getNext
  /\ firstId' = getNext
  /\ retries' = MaxRetry
  /\ phase' = "queued"
  /\ pub' = pub + 1
  /\ sent' = 0 /\ end' = "none" /\ told' = {}
  /\ UNCHANGED <<remaining, inflight, air, acks, accepted>>

\* sendPubPacket(id): inflightMsgid is set before the packet is sent.
sendPubPacket(id, ok) ==
  /\ inflight' = id
  /\ air' = IF ok THEN air \cup {[pub |-> pub, id |-> id]} ELSE air
  /\ sent' = IF ok THEN sent + 1 ELSE sent

\* A failed start is reported as LI_Unknown: nobody is notified.
startPubLoop ==
  /\ phase = "queued"
  /\ \E ok \in Sends :
       /\ sendPubPacket(loopCtrl, ok)
       /\ phase' = IF ok THEN "hooked" ELSE "idle"
       /\ remaining' = IF ok THEN Timeout ELSE remaining
       /\ end' = IF ok THEN "none" ELSE "unsent"
  /\ UNCHANGED <<next, loopCtrl, retries, pub, firstId, acks, accepted, told>>

Tick ==
  /\ phase = "hooked"
  /\ remaining > 0
  /\ remaining' = remaining - 1
  /\ UNCHANGED <<next, phase, loopCtrl, retries, inflight, pub, firstId, sent,
                 air, acks, accepted, end, told>>

\* Mutant: retransmissions are not counted.
ResendUncounted ==
  /\ UNCHANGED retries
  /\ IF remaining = 0 /\ retries > 0
     THEN \E ok \in Sends :
            sendPubPacket(loopCtrl, ok) /\ remaining' = IF ok THEN Timeout ELSE 0
     ELSE UNCHANGED <<inflight, air, sent, remaining>>

\* The first half of doPubLoop(): retransmit when the time is up.
Resend ==
  IF remaining = 0 /\ retries > 0
  THEN /\ retries' = retries - 1
       /\ \E ok \in Sends :
            sendPubPacket(loopCtrl, ok) /\ remaining' = IF ok THEN Timeout ELSE 0
  ELSE UNCHANGED <<retries, inflight, air, sent, remaining>>

\* pubackNotify() with the loop value as the return code.
Ends(e, rc) == phase' = "idle" /\ end' = e /\ told' = told \cup {rc}

\* doPubLoop() goes on waiting.
PubWaits ==
  /\ phase = "hooked"
  /\ Resend
  /\ remaining' > 0
  /\ loopCtrl' = remaining'
  /\ UNCHANGED <<next, phase, pub, firstId, acks, accepted, end, told>>

\* Mutant: with no time left the loop is not ended.
PubTimeoutStuck ==
  /\ phase = "hooked"
  /\ Resend
  /\ remaining' = 0
  /\ loopCtrl' = 0
  /\ UNCHANGED <<next, phase, pub, firstId, acks, accepted, end, told>>

\* finishPubLoop() with loopTime 0: LC_Fail, and the loop value is 0.
PubTimeout ==
  /\ phase = "hooked"
  /\ Resend
  /\ remaining' = 0
  /\ loopCtrl' = 0
  /\ Ends("timeout", 0)
  /\ UNCHANGED <<next, pub, firstId, acks, accepted>>

\* Mutant: the return code of the PUBACK is not looked at.
finishPubLoopAccepts ==
  /\ phase = "hooked" /\ remaining > 0
  /\ \E a \in acks : acks' = acks \ {a}
  /\ inflight' = 0 /\ loopCtrl' = 0
  /\ Ends("done", 0)
  /\ UNCHANGED <<next, remaining, retries, pub, firstId, sent, air, accepted>>

(***************************************************************************)
(* finishPubLoop() with a PUBACK: its return code counts only if it        *)
(* carries inflightMsgid; any other PUBACK ends the loop as accepted.      *)
(***************************************************************************)
finishPubLoop ==
  /\ phase = "hooked"
  /\ remaining > 0
  /\ \E a \in acks :
       /\ acks' = acks \ {a}
       /\ \/ /\ a.id = inflight
             /\ inflight' = 0
             /\ loopCtrl' = a.rc
             /\ Ends(IF a.rc = 0 THEN "done" ELSE "rejected", a.rc)
          \/ /\ a.id # inflight
             /\ loopCtrl' = 0
             /\ Ends("done", 0)
             /\ UNCHANGED inflight
  /\ UNCHANGED <<next, remaining, retries, pub, firstId, sent, air, accepted>>

\* cycle() in another loop: a PUBACK is passed on if nothing is in flight.
cyclePuback ==
  /\ phase = "idle"
  /\ \E a \in acks :
       /\ acks' = acks \ {a}
       /\ told' = IF inflight = 0 THEN told \cup {a.rc} ELSE told
  /\ UNCHANGED <<client, pub, firstId, sent, air, accepted, end>>

----------------------------------------------------------------------------
(* The environment: gateway and link                                       *)

GatewayAnswers ==
  /\ \E p \in air, rc \in ReturnCodes, again \in BOOLEAN :
       /\ again => "duplicate" \in Link
       /\ air' = IF again THEN air ELSE air \ {p}
       /\ acks' = acks \cup {[pub |-> p.pub, id |-> p.id, rc |-> rc]}
       /\ accepted' = IF rc = 0 THEN accepted \cup {p.pub} ELSE accepted
  /\ UNCHANGED <<client, pub, firstId, sent, end, told>>

LinkLoses ==
  /\ "lose" \in Link
  /\ \/ \E p \in air : air' = air \ {p} /\ UNCHANGED acks
     \/ \E a \in acks : acks' = acks \ {a} /\ UNCHANGED air
  /\ UNCHANGED <<client, pub, firstId, sent, accepted, end, told>>

ClientStep == startPubLoop \/ PubWaits \/ PubTimeout \/ finishPubLoop \/ cyclePuback

Next == publish \/ Tick \/ ClientStep \/ GatewayAnswers \/ LinkLoses

Spec == Init /\ [][Next]_vars

\* Time passes, and the event loop keeps turning.
FairSpec == Spec /\ WF_vars(Tick) /\ WF_vars(ClientStep)

----------------------------------------------------------------------------
(* Properties                                                              *)

\* Type invariant of the publish loop.
TypeOK ==
  /\ next \in 0..MaxPacketId
  /\ phase \in {"idle", "queued", "hooked"}
  /\ loopCtrl \in Ids \cup ReturnCodes
  /\ inflight \in Ids /\ firstId \in Ids
  /\ remaining \in 0..Timeout
  /\ retries \in 0..MaxRetry
  /\ pub \in Nat /\ sent \in Nat
  /\ air \subseteq Publish /\ acks \subseteq Puback
  /\ accepted \subseteq Nat
  /\ end \in {"none", "done", "timeout", "rejected", "unsent"}
  /\ told \subseteq ReturnCodes

\* maxResend is kept: one transmission and at most m_maxRetry more, however
\* steps, ticks and failing sends interleave.
TransmissionBound == sent + retries <= MaxRetry + 1

\* A publish whose loop ended well was accepted by the gateway.
DoneMeansAccepted == end = "done" => pub \in accepted

\* inflightMsgid names the publish that is waiting for its PUBACK, and is
\* cleared when the PUBACK came.
InflightIsCurrent ==
  /\ phase = "hooked" => inflight = firstId
  /\ end \in {"done", "rejected"} => inflight = 0

\* A retransmission repeats the message id of the first transmission.
RetransmitsSamePacket == \A p \in air : p.pub = pub => p.id = firstId

\* A publish comes to its end.
PublishEnds == (phase # "idle") ~> (phase = "idle")

----------------------------------------------------------------------------
(* What the documentation says and the code does not do: see the README    *)

\* The application is notified of RC_ACCEPTED only for accepted publishes.
SuccessMeansAccepted == phase = "idle" /\ 0 \in told => pub \in accepted

\* A QoS 1 publish that was accepted is not reported as failed afterwards.
OneVerdict == [][phase = "idle" /\ phase' = "idle" => told' = told]_vars
=============================================================================

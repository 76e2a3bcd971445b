------------------------- MODULE PublishLoopProofs -------------------------
(***************************************************************************)
(* Proofs about the QoS 1 publish loop, for every id range, retry limit,   *)
(* timeout and number of publishes.                                        *)
(***************************************************************************)
EXTENDS PublishLoop, TLAPS

(***************************************************************************)
(* TransmissionBound is not inductive: startPubLoop() transmits without    *)
(* touching the counter, which is right only because loopPublish() has     *)
(* just filled it.  TypeOK needs to know that m_loopCtrl holds something   *)
(* that passes for a message id as long as the loop client is in use.      *)
(***************************************************************************)
LoopCtrlIsId == phase # "idle" => loopCtrl \in Ids
Fresh == phase = "queued" => sent = 0 /\ retries = MaxRetry

PublishInv == TypeOK /\ TransmissionBound /\ LoopCtrlIsId /\ Fresh

\* Message ids, timer values and 0 are all candidates for m_loopCtrl.
LEMMA IdRanges == 0 \in Ids /\ 1..MaxPacketId \subseteq Ids /\ 0..Timeout \subseteq Ids
  BY PublishAssumption DEF Ids

\* PacketId::getNext() stays within 1..MAX_PACKET_ID.
LEMMA NextId == TypeOK => getNext \in 1..MaxPacketId
  BY PublishAssumption DEF TypeOK, getNext

\* The initial state satisfies the invariant.
LEMMA PublishInitInv == Init => PublishInv
  BY PublishAssumption, IdRanges
  DEF Init, PublishInv, TypeOK, TransmissionBound, LoopCtrlIsId, Fresh, ReturnCodes

\* Two natural numbers with a bounded sum, one less of one and at most one
\* more of the other.
LEMMA Exchange ==
  ASSUME NEW a \in Nat, NEW b \in Nat, NEW m \in Nat, NEW c \in Nat,
         a + b <= m + 1, c = a \/ c = a + 1
  PROVE  c + (b - 1) <= m + 1
  OBVIOUS

\* One transmission keeps the packet sets and the id in flight well formed.
LEMMA SendTypes ==
  ASSUME TypeOK, NEW id \in Ids, NEW ok \in BOOLEAN, sendPubPacket(id, ok)
  PROVE  /\ inflight' \in Ids
         /\ air' \subseteq Publish
         /\ sent' \in Nat /\ (sent' = sent \/ sent' = sent + 1)
  BY DEF TypeOK, sendPubPacket, Publish

\* Resend() pays for every transmission with one of the retries.
LEMMA ResendBound ==
  ASSUME PublishInv, phase = "hooked", Resend
  PROVE  /\ retries' \in 0..MaxRetry
         /\ remaining' \in 0..Timeout
         /\ inflight' \in Ids
         /\ air' \subseteq Publish
         /\ sent' \in Nat
         /\ sent' + retries' <= MaxRetry + 1
<1>1. CASE remaining = 0 /\ retries > 0
  <2>1. PICK ok \in BOOLEAN : /\ sendPubPacket(loopCtrl, ok)
                              /\ remaining' = IF ok THEN Timeout ELSE 0
    BY <1>1 DEF Resend, Sends
  <2>2. retries' = retries - 1
    BY <1>1 DEF Resend
  <2>3. loopCtrl \in Ids /\ TypeOK
    BY DEF PublishInv, LoopCtrlIsId
  <2>4. /\ inflight' \in Ids
        /\ air' \subseteq Publish
        /\ sent' \in Nat /\ (sent' = sent \/ sent' = sent + 1)
    BY <2>1, <2>3, SendTypes
  <2>5. remaining' \in 0..Timeout
    <3>1. remaining' = Timeout \/ remaining' = 0
      BY <2>1
    <3> QED
      BY <3>1, PublishAssumption
  <2>6. retries' \in 0..MaxRetry
    BY <1>1, <2>2, PublishAssumption DEF PublishInv, TypeOK
  <2>7. sent' + retries' <= MaxRetry + 1
    <3>1. sent \in Nat /\ retries \in Nat /\ MaxRetry \in Nat
      BY PublishAssumption DEF PublishInv, TypeOK
    <3>2. sent + retries <= MaxRetry + 1
      BY DEF PublishInv, TransmissionBound
    <3>3. sent' \in Nat /\ (sent' = sent \/ sent' = sent + 1)
      BY <2>4
    <3> QED
      BY <2>2, <3>1, <3>2, <3>3, Exchange
  <2> QED
    BY <2>4, <2>5, <2>6, <2>7
<1>2. CASE ~(remaining = 0 /\ retries > 0)
  BY <1>2 DEF Resend, PublishInv, TypeOK, TransmissionBound
<1> QED
  BY <1>1, <1>2

\* Every step of the client, the gateway and the link keeps the invariant.
LEMMA PublishStepInv == PublishInv /\ [Next]_vars => PublishInv'
<1> SUFFICES ASSUME PublishInv, [Next]_vars PROVE PublishInv'
  OBVIOUS
<1> USE DEF PublishInv, LoopCtrlIsId, Fresh
<1>1. CASE publish
  <2>1. getNext \in 1..MaxPacketId /\ getNext \in Ids
    BY NextId, IdRanges
  <2> QED
    BY <1>1, <2>1, PublishAssumption DEF publish, TypeOK, TransmissionBound
<1>2. CASE startPubLoop
  <2>1. PICK ok \in BOOLEAN :
          /\ sendPubPacket(loopCtrl, ok)
          /\ phase' = IF ok THEN "hooked" ELSE "idle"
          /\ remaining' = IF ok THEN Timeout ELSE remaining
          /\ end' = IF ok THEN "none" ELSE "unsent"
    BY <1>2 DEF startPubLoop, Sends
  <2>2. /\ inflight' \in Ids
        /\ air' \subseteq Publish
        /\ sent' \in Nat /\ (sent' = sent \/ sent' = sent + 1)
    BY <1>2, <2>1, SendTypes DEF startPubLoop
  <2>3. phase' \in {"hooked", "idle"} /\ end' \in {"none", "unsent"}
    BY <2>1
  <2>4. remaining' \in 0..Timeout
    <3>1. remaining' = Timeout \/ remaining' = remaining
      BY <2>1
    <3> QED
      BY <3>1, PublishAssumption DEF TypeOK
  <2>5. TypeOK'
    BY <1>2, <2>2, <2>3, <2>4 DEF startPubLoop, TypeOK
  <2>6. TransmissionBound'
    <3>1. MaxRetry \in Nat /\ sent = 0 /\ retries' = MaxRetry
      BY <1>2, PublishAssumption DEF startPubLoop
    <3>2. sent' = 0 \/ sent' = 1
      BY <2>2, <3>1
    <3> QED
      BY <3>1, <3>2 DEF TransmissionBound
  <2>7. LoopCtrlIsId' /\ Fresh'
    BY <1>2, <2>3 DEF startPubLoop
  <2> QED
    BY <2>5, <2>6, <2>7
<1>3. CASE Tick
  BY <1>3, PublishAssumption DEF Tick, TypeOK, TransmissionBound
<1>4. CASE PubWaits
  <2>1. /\ retries' \in 0..MaxRetry /\ remaining' \in 0..Timeout
        /\ inflight' \in Ids /\ air' \subseteq Publish /\ sent' \in Nat
        /\ sent' + retries' <= MaxRetry + 1
    BY <1>4, ResendBound DEF PubWaits
  <2> QED
    BY <1>4, <2>1, IdRanges DEF PubWaits, TypeOK, TransmissionBound
<1>5. CASE PubTimeout
  <2>1. /\ retries' \in 0..MaxRetry /\ remaining' \in 0..Timeout
        /\ inflight' \in Ids /\ air' \subseteq Publish /\ sent' \in Nat
        /\ sent' + retries' <= MaxRetry + 1
    BY <1>5, ResendBound DEF PubTimeout
  <2> QED
    BY <1>5, <2>1, IdRanges DEF PubTimeout, Ends, TypeOK, TransmissionBound, ReturnCodes
<1>6. CASE finishPubLoop
  <2>1. PICK a \in acks :
          /\ acks' = acks \ {a}
          /\ \/ /\ inflight' = 0 /\ loopCtrl' = a.rc
                /\ Ends(IF a.rc = 0 THEN "done" ELSE "rejected", a.rc)
             \/ /\ loopCtrl' = 0 /\ Ends("done", 0) /\ UNCHANGED inflight
    BY <1>6 DEF finishPubLoop
  <2>2. a.rc \in ReturnCodes
    BY <2>1 DEF TypeOK, Puback
  <2>3. /\ phase' = "idle"
        /\ inflight' \in Ids
        /\ loopCtrl' \in ReturnCodes
        /\ told' \subseteq ReturnCodes
        /\ end' \in {"done", "rejected"}
        /\ acks' \subseteq Puback
    BY <2>1, <2>2, IdRanges DEF Ends, TypeOK, ReturnCodes
  <2>4. TypeOK'
    BY <1>6, <2>3 DEF finishPubLoop, TypeOK
  <2> QED
    BY <1>6, <2>3, <2>4 DEF finishPubLoop, TransmissionBound
<1>7. CASE cyclePuback
  BY <1>7 DEF cyclePuback, client, TypeOK, TransmissionBound, Puback
<1>8. CASE GatewayAnswers
  <2>1. PICK p \in air, rc \in ReturnCodes, again \in BOOLEAN :
          /\ air' = IF again THEN air ELSE air \ {p}
          /\ acks' = acks \cup {[pub |-> p.pub, id |-> p.id, rc |-> rc]}
          /\ accepted' = IF rc = 0 THEN accepted \cup {p.pub} ELSE accepted
    BY <1>8 DEF GatewayAnswers
  <2>2. p \in Publish
    BY DEF TypeOK
  <2>3. [pub |-> p.pub, id |-> p.id, rc |-> rc] \in Puback
    BY <2>2 DEF Puback, Publish
  <2>4. air' \subseteq Publish /\ acks' \subseteq Puback /\ accepted' \subseteq Nat
    BY <2>1, <2>2, <2>3 DEF TypeOK, Publish
  <2> QED
    BY <1>8, <2>4 DEF GatewayAnswers, client, TypeOK, TransmissionBound
<1>9. CASE LinkLoses
  BY <1>9 DEF LinkLoses, client, TypeOK, TransmissionBound
<1>10. CASE UNCHANGED vars
  BY <1>10 DEF vars, client, TypeOK, TransmissionBound
<1> QED
  BY <1>1, <1>2, <1>3, <1>4, <1>5, <1>6, <1>7, <1>8, <1>9, <1>10 DEF Next, ClientStep

\* The invariant holds throughout.
LEMMA PublishInvariant == Spec => []PublishInv
<1>1. Init => PublishInv
  BY PublishInitInv
<1>2. PublishInv /\ [Next]_vars => PublishInv'
  BY PublishStepInv
<1> QED
  BY <1>1, <1>2, PTL DEF Spec

\* The state of the publish loop stays well formed.
THEOREM PublishTypeCorrect == Spec => []TypeOK
<1>1. PublishInv => TypeOK
  BY DEF PublishInv
<1> QED
  BY <1>1, PublishInvariant, PTL

\* A publish is transmitted at most once more often than maxResend allows
\* retransmissions, however ticks, steps and failing sends interleave.
THEOREM TransmissionsBounded == Spec => []TransmissionBound
<1>1. PublishInv => TransmissionBound
  BY DEF PublishInv
<1> QED
  BY <1>1, PublishInvariant, PTL

----------------------------------------------------------------------------
(***************************************************************************)
(* Without retransmissions (maxResend 0) and without packets that outlive  *)
(* their publish, everything on the link belongs to the current publish    *)
(* and carries its message id: m_loopCtrl is never taken for an id again.  *)
(***************************************************************************)
OneShot ==
  /\ \A p \in air : p.pub = pub /\ p.id = firstId
  /\ \A a \in acks : a.id = firstId /\ (a.rc = 0 => pub \in accepted)
  /\ phase = "queued" => loopCtrl = firstId /\ air = {} /\ acks = {}
  /\ phase # "idle" => end = "none"

OneShotInv == PublishInv /\ OneShot /\ InflightIsCurrent /\ DoneMeansAccepted

\* One step, if nothing is retransmitted and nothing is late.
LEMMA OneShotStep ==
  ASSUME MaxRetry = 0, "late" \notin Link, OneShotInv, [Next]_vars
  PROVE  OneShotInv'
<1> USE DEF OneShot, InflightIsCurrent, DoneMeansAccepted
<1>1. PublishInv'
  BY PublishStepInv DEF OneShotInv
<1>2. retries = 0
  BY DEF OneShotInv, PublishInv, TypeOK
<1>3. Resend => UNCHANGED <<retries, inflight, air, sent, remaining>>
  BY <1>2 DEF Resend
<1>4. OneShot /\ InflightIsCurrent /\ DoneMeansAccepted /\ TypeOK
  BY DEF OneShotInv, PublishInv
<1>5. CASE publish
  BY <1>1, <1>4, <1>5 DEF publish, OneShotInv
<1>6. CASE startPubLoop
  <2>1. PICK ok \in BOOLEAN :
          /\ sendPubPacket(loopCtrl, ok)
          /\ phase' = IF ok THEN "hooked" ELSE "idle"
          /\ end' = IF ok THEN "none" ELSE "unsent"
    BY <1>6 DEF startPubLoop, Sends
  <2>2. inflight' = firstId /\ air' \subseteq {[pub |-> pub, id |-> firstId]}
    BY <1>4, <1>6, <2>1 DEF startPubLoop, sendPubPacket
  <2>3. \/ phase' = "hooked" /\ end' = "none"
        \/ phase' = "idle" /\ end' = "unsent"
    BY <2>1
  <2> QED
    BY <1>1, <1>4, <1>6, <2>2, <2>3 DEF startPubLoop, OneShotInv
<1>7. CASE Tick
  BY <1>1, <1>4, <1>7 DEF Tick, OneShotInv
<1>8. CASE PubWaits
  BY <1>1, <1>3, <1>4, <1>8 DEF PubWaits, OneShotInv
<1>9. CASE PubTimeout
  BY <1>1, <1>3, <1>4, <1>9 DEF PubTimeout, Ends, OneShotInv
<1>10. CASE finishPubLoop
  <2>1. PICK a \in acks :
          /\ acks' = acks \ {a}
          /\ inflight' = 0
          /\ Ends(IF a.rc = 0 THEN "done" ELSE "rejected", a.rc)
    BY <1>4, <1>10 DEF finishPubLoop
  <2>2. /\ phase' = "idle"
        /\ end' \in {"done", "rejected"}
        /\ end' = "done" => pub \in accepted
    BY <1>4, <2>1 DEF Ends
  <2> QED
    BY <1>1, <1>4, <1>10, <2>1, <2>2 DEF finishPubLoop, OneShotInv
<1>11. CASE cyclePuback
  BY <1>1, <1>4, <1>11 DEF cyclePuback, client, OneShotInv
<1>12. CASE GatewayAnswers
  <2>1. PICK p \in air, rc \in ReturnCodes, again \in BOOLEAN :
          /\ air' = IF again THEN air ELSE air \ {p}
          /\ acks' = acks \cup {[pub |-> p.pub, id |-> p.id, rc |-> rc]}
          /\ accepted' = IF rc = 0 THEN accepted \cup {p.pub} ELSE accepted
    BY <1>12 DEF GatewayAnswers
  <2>2. air' \subseteq air /\ accepted \subseteq accepted'
    BY <2>1
  <2>3. p.pub = pub /\ p.id = firstId /\ (rc = 0 => pub \in accepted')
    BY <1>4, <2>1
  <2>4. \A a \in acks' : a.id = firstId /\ (a.rc = 0 => pub \in accepted')
    BY <1>4, <2>1, <2>2, <2>3
  <2>5. phase # "queued"
    BY <1>4, <2>1
  <2> QED
    BY <1>1, <1>4, <1>12, <2>2, <2>4, <2>5 DEF GatewayAnswers, client, OneShotInv
<1>13. CASE LinkLoses
  BY <1>1, <1>4, <1>13 DEF LinkLoses, client, OneShotInv
<1>14. CASE UNCHANGED vars
  BY <1>1, <1>4, <1>14 DEF vars, client, OneShotInv
<1> QED
  BY <1>5, <1>6, <1>7, <1>8, <1>9, <1>10, <1>11, <1>12, <1>13, <1>14
  DEF Next, ClientStep

(***************************************************************************)
(* With maxResend 0 and no late packets, a publish loop that ended well    *)
(* means that the gateway accepted this very publish, and inflightMsgid    *)
(* names it for as long as it waits for its PUBACK.                        *)
(***************************************************************************)
THEOREM OneShotPublish ==
  ASSUME MaxRetry = 0, "late" \notin Link
  PROVE  Spec => [](DoneMeansAccepted /\ InflightIsCurrent)
<1>1. Init => OneShotInv
  BY PublishInitInv DEF Init, OneShotInv, OneShot, InflightIsCurrent, DoneMeansAccepted
<1>2. OneShotInv /\ [Next]_vars => OneShotInv'
  BY OneShotStep
<1>3. OneShotInv => DoneMeansAccepted /\ InflightIsCurrent
  BY DEF OneShotInv
<1> QED
  BY <1>1, <1>2, <1>3, PTL DEF Spec
=============================================================================

-------------------------- MODULE NbiotLoopProofs --------------------------
(***************************************************************************)
(* Proofs about the loop controller, for every set of loop clients and a   *)
(* queue of any length.                                                    *)
(***************************************************************************)
EXTENDS NbiotLoop, TLAPS

(***************************************************************************)
(* The inductive invariant: the hooked client is the reported and pending  *)
(* one.  It needs the types, because preLoopStep() chooses the new hooked  *)
(* client by the value stored in "result".                                 *)
(***************************************************************************)
LoopInv == LoopTypeOK /\ HookedIsPending

LEMMA LoopInitInv == LoopInit => LoopInv
<1> SUFFICES ASSUME LoopInit PROVE LoopInv
  OBVIOUS
<1>1. breakFlag \in BOOLEAN
  BY Zenon DEF LoopInit
<1>2. clientList \in Seq(Clients) /\ result \in [Clients -> Results]
  BY DEF LoopInit, Results
<1> QED BY <1>1, <1>2 DEF LoopInit, LoopInv, LoopTypeOK, HookedIsPending

\* Starting the front client: hooked exactly if preLoopStep() says Pending.
LEMMA StartInv ==
  ASSUME LoopInv, NEW c \in Clients, NEW started \in BOOLEAN,
         LoopStart(c, started)
  PROVE  LoopInv'
<1> USE LoopAssumption DEF LoopInv, LoopTypeOK, HookedIsPending, Results
<1>1. result' = [result EXCEPT ![c] = preLoopStep(c, started)]
  BY DEF LoopStart
<1>2. preLoopStep(c, started) \in {"Pending", "Fail"}
  BY DEF preLoopStep
<1>3. clientList' \in Seq(Clients)
  BY DEF LoopStart, Startable
<1>4. result' \in [Clients -> {"Idle", "Pending", "Fail"}]
  BY <1>1, <1>2
<1>5. loopClient' = loopId' /\ loopClient' \in Clients \cup {Unknown}
  BY DEF LoopStart
<1>6. loopClient' # Unknown => result'[loopClient'] = "Pending"
  BY DEF LoopStart
<1>7. breakFlag' \in BOOLEAN
  BY DEF LoopStart
<1> QED BY <1>3, <1>4, <1>5, <1>6, <1>7

\* Ending a step: nothing is hooked any more.
LEMMA StepEndInv ==
  ASSUME LoopInv, NEW c \in Clients, NEW ok \in BOOLEAN,
         StepEnd(c, ok), breakFlag' \in BOOLEAN
  PROVE  LoopInv'
<1>1. result' \in [Clients -> Results]
  BY DEF StepEnd, LoopInv, LoopTypeOK, Results
<1> QED BY <1>1 DEF StepEnd, LoopInv, LoopTypeOK, HookedIsPending

LEMMA LoopStepInv == LoopInv /\ [LoopNext]_loopVars => LoopInv'
<1> SUFFICES ASSUME LoopInv, [LoopNext]_loopVars PROVE LoopInv'
  OBVIOUS
<1>1. ASSUME NEW c \in Clients, RegisterLoopClients(<<c>>) PROVE LoopInv'
  BY <1>1 DEF RegisterLoopClients, LoopInv, LoopTypeOK, HookedIsPending
<1>2. CASE RegisterNull
  BY <1>2 DEF RegisterNull, clear, LoopInv, LoopTypeOK, HookedIsPending
<1>3. CASE loopBreak
  BY <1>3 DEF loopBreak, LoopInv, LoopTypeOK, HookedIsPending
<1>4. ASSUME NEW c \in Clients, NEW started \in BOOLEAN, LoopStart(c, started)
      PROVE  LoopInv'
  BY <1>4, StartInv
<1>5. ASSUME NEW c \in Clients, LoopStepPending(c) PROVE LoopInv'
  BY <1>5 DEF LoopStepPending, loopVars, LoopInv, LoopTypeOK, HookedIsPending
<1>6. ASSUME NEW c \in Clients, NEW ok \in BOOLEAN, LoopStepDone(c, ok)
      PROVE  LoopInv'
  <2>1. StepEnd(c, ok) /\ breakFlag' \in BOOLEAN
    BY <1>6 DEF LoopStepDone, LoopInv, LoopTypeOK
  <2> QED BY <2>1, StepEndInv
<1>7. ASSUME NEW c \in Clients, NEW ok \in BOOLEAN, LoopStepBreaks(c, ok)
      PROVE  LoopInv'
  <2>1. StepEnd(c, ok) /\ breakFlag' \in BOOLEAN
    BY <1>7 DEF LoopStepBreaks
  <2> QED BY <2>1, StepEndInv
<1>8. CASE LoopIdle
  <2>1. breakFlag' \in BOOLEAN
    BY <1>8, Zenon DEF LoopIdle
  <2>2. clear
    BY <1>8 DEF LoopIdle
  <2> QED BY <2>1, <2>2 DEF clear, LoopInv, LoopTypeOK, HookedIsPending
<1>9. CASE UNCHANGED loopVars
  BY <1>9 DEF loopVars, LoopInv, LoopTypeOK, HookedIsPending
<1> QED BY <1>1, <1>2, <1>3, <1>4, <1>5, <1>6, <1>7, <1>8, <1>9 DEF LoopNext

LEMMA LoopInvariant == LoopSpec => []LoopInv
  BY LoopInitInv, LoopStepInv, PTL DEF LoopSpec

\* Every reachable state of the loop controller is well typed.
THEOREM LoopTypeCorrect == LoopSpec => []LoopTypeOK
  BY LoopInvariant, PTL DEF LoopInv

\* The hooked client is the one getLoopId() reports, and it is Pending, so
\* loopStep() always reaches its step handler.
THEOREM HookedClientPending == LoopSpec => []HookedIsPending
  BY LoopInvariant, PTL DEF LoopInv

\* A client leaves Pending only in a turn in which it was hooked: a client
\* that clear() unhooked stays Pending.
THEOREM PendingEndsOnlyHooked == LoopSpec => PendingEndsHooked
<1> DEFINE Step == \A c \in Clients :
             result[c] = "Pending" /\ result'[c] # "Pending" =>
               loopClient = c /\ ~breakFlag
<1>1. LoopInv /\ [LoopNext]_loopVars => [Step]_loopVars
  <2> SUFFICES ASSUME LoopInv, LoopNext, NEW d \in Clients,
                      result[d] = "Pending", result'[d] # "Pending"
               PROVE  loopClient = d /\ ~breakFlag
    OBVIOUS
  <2>1. result \in [Clients -> Results] /\ result' # result
    BY DEF LoopInv, LoopTypeOK
  <2>2. ASSUME NEW c \in Clients, NEW started \in BOOLEAN,
               LoopStart(c, started)
        PROVE  FALSE
    BY <2>1, <2>2 DEF LoopStart, preLoopStep
  <2>3. ASSUME NEW c \in Clients, NEW ok \in BOOLEAN,
               LoopStepDone(c, ok) \/ LoopStepBreaks(c, ok)
        PROVE  loopClient = d /\ ~breakFlag
    BY <2>1, <2>3 DEF LoopStepDone, LoopStepBreaks, StepEnd, Steppable
  <2> QED BY <2>1, <2>2, <2>3 DEF LoopNext, RegisterLoopClients,
             RegisterNull, clear, loopBreak, LoopStepPending, LoopIdle, loopVars
<1> QED BY <1>1, LoopInvariant, PTL DEF LoopSpec, PendingEndsHooked
=============================================================================

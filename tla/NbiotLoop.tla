----------------------------- MODULE NbiotLoop -----------------------------
(***************************************************************************)
(* The cooperative loop controller (nbiotloop.h) together with the loop    *)
(* clients it drives (nbiotloopclient.h).  Every long-running operation of *)
(* the library (attach, CONNECT, PUBLISH, ...) is a loop client.  Clients  *)
(* queue up in m_clientList; one call of nbiotLoop() either starts the     *)
(* front client or lets the hooked client take one step.                   *)
(*                                                                         *)
(* What the start/step/stop handlers of a client do belongs to the modules *)
(* that extend this one; here their outcome is a parameter.                *)
(***************************************************************************)
EXTENDS Naturals, Sequences

CONSTANTS
  Clients,   \* the LoopClient objects, named by their NbiotLoopId
  Unknown,   \* LI_Unknown, and the null m_loopClient
  MaxQueue   \* bound of the model: longest m_clientList explored

ASSUME LoopAssumption == Unknown \notin Clients /\ MaxQueue \in Nat

VARIABLES
  clientList,  \* m_clientList
  loopClient,  \* m_loopClient: the hooked client
  loopId,      \* m_loopId: outlives loopClient until the next nbiotLoop()
  breakFlag,   \* m_breakFlag
  result       \* m_result of every LoopClient

loopVars == <<clientList, loopClient, loopId, breakFlag, result>>

\* LC_Success never survives loopStep(): it becomes LC_Idle.
Results == {"Idle", "Pending", "Fail"}

LoopInit ==
  /\ clientList = <<>>
  /\ loopClient = Unknown
  /\ loopId = Unknown
  /\ breakFlag = FALSE
  /\ result = [c \in Clients |-> "Fail"]

isBusy == Len(clientList) > 0 \/ loopId # Unknown

----------------------------------------------------------------------------
(* Operations                                                              *)

\* registerLoopClient(client), for each client of the sequence cs in turn.
RegisterLoopClients(cs) ==
  /\ clientList' = clientList \o cs
  /\ UNCHANGED <<loopClient, loopId, breakFlag, result>>

\* Mutant: clear() also declares every client idle.
clearResetsResults ==
  /\ clientList' = <<>>
  /\ loopClient' = Unknown
  /\ loopId' = Unknown
  /\ result' = [c \in Clients |-> "Idle"]

\* clear(): the list, the hooked client and the id go; m_result stays.
clear ==
  /\ clientList' = <<>>
  /\ loopClient' = Unknown
  /\ loopId' = Unknown
  /\ UNCHANGED result

\* registerLoopClient(nullptr)
RegisterNull == clear /\ UNCHANGED breakFlag

loopBreak ==
  /\ breakFlag' = (breakFlag \/ Len(clientList) > 0)
  /\ UNCHANGED <<clientList, loopClient, loopId, result>>

(***************************************************************************)
(* nbiotLoop(): a raised break flag clears everything first, so the call   *)
(* then finds nothing to do.  Otherwise the hooked client steps, or the    *)
(* front of the list is started.                                           *)
(***************************************************************************)
Steppable(c) == ~breakFlag /\ loopClient = c /\ c # Unknown
Startable(c) ==
  /\ ~breakFlag
  /\ loopClient = Unknown
  /\ clientList # <<>>
  /\ c = Head(clientList)

\* preLoopStep(): the start handler runs unless m_result is already Pending.
preLoopStep(c, started) ==
  IF result[c] = "Pending" \/ started THEN "Pending" ELSE "Fail"

LoopStart(c, started) ==
  /\ Startable(c)
  /\ result' = [result EXCEPT ![c] = preLoopStep(c, started)]
  /\ clientList' = Tail(clientList)
  /\ loopClient' = IF result'[c] = "Pending" THEN c ELSE Unknown
  /\ loopId' = IF result'[c] = "Pending" THEN c ELSE Unknown
  /\ UNCHANGED breakFlag

\* loopStep(): the step handler wants another turn.
LoopStepPending(c) ==
  /\ Steppable(c)
  /\ result[c] = "Pending"
  /\ UNCHANGED loopVars

\* loopStep(): the step handler is done and the stop handler said ok; or the
\* client was not Pending and only its old result is reported.
StepEnd(c, ok) ==
  /\ loopClient = c
  /\ result' = [result EXCEPT ![c] =
                  IF @ = "Pending" THEN IF ok THEN "Idle" ELSE "Fail" ELSE @]
  /\ loopClient' = Unknown
  /\ UNCHANGED <<clientList, loopId>>

LoopStepDone(c, ok) == Steppable(c) /\ StepEnd(c, ok) /\ UNCHANGED breakFlag

\* The same, when the handler itself called loopBreak(): nbiotLoop() looks at
\* the flag only when it is entered.
LoopStepBreaks(c, ok) ==
  /\ Steppable(c)
  /\ StepEnd(c, ok)
  /\ breakFlag' = (Len(clientList) > 0)

\* Nothing is hooked and nothing is queued, or the break flag cleared it.
LoopIdle ==
  /\ breakFlag \/ (loopClient = Unknown /\ clientList = <<>>)
  /\ clear
  /\ breakFlag' = FALSE

----------------------------------------------------------------------------
(* The controller on its own, used by an arbitrary client program.         *)

LoopNext ==
  \/ \E c \in Clients :
       Len(clientList) < MaxQueue /\ RegisterLoopClients(<<c>>)
  \/ RegisterNull
  \/ loopBreak
  \/ \E c \in Clients, started \in BOOLEAN : LoopStart(c, started)
  \/ \E c \in Clients : LoopStepPending(c)
  \/ \E c \in Clients, ok \in BOOLEAN :
       LoopStepDone(c, ok) \/ LoopStepBreaks(c, ok)
  \/ LoopIdle

LoopSpec == LoopInit /\ [][LoopNext]_loopVars

----------------------------------------------------------------------------
(* Properties                                                              *)

\* Type invariant of the loop controller and its clients.
LoopTypeOK ==
  /\ clientList \in Seq(Clients)
  /\ loopClient \in Clients \cup {Unknown}
  /\ loopId \in Clients \cup {Unknown}
  /\ breakFlag \in BOOLEAN
  /\ result \in [Clients -> Results]

(***************************************************************************)
(* The hooked client is the one getLoopId() reports and is Pending, so     *)
(* loopStep() always reaches its step handler and isBusy() covers the      *)
(* hooked client although it only looks at the list and the id.            *)
(***************************************************************************)
HookedIsPending ==
  loopClient # Unknown => loopId = loopClient /\ result[loopClient] = "Pending"

(***************************************************************************)
(* A client that is reported as failed or finished has really been run:    *)
(* its result leaves Pending only in a step in which it was hooked.  A     *)
(* cleared client therefore keeps Pending until it is hooked again.        *)
(***************************************************************************)
PendingEndsHooked ==
  [][\A c \in Clients :
       result[c] = "Pending" /\ result'[c] # "Pending" =>
         loopClient = c /\ ~breakFlag]_loopVars
=============================================================================

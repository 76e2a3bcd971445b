---------------------------- MODULE MCNbiotMqtt ----------------------------
(* Instances of the library for TLC: each .cfg picks the calls an          *)
(* application makes and the faults it meets.                              *)
EXTENDS NbiotMqtt

(***************************************************************************)
(* The view of the session run.  The m_result of a client is read again    *)
(* only to see whether it is LC_Pending (preLoopStep(), and loopStep() of  *)
(* the hooked client, which is pending: HookedClientPending), so states    *)
(* that differ in LC_Idle and LC_Fail only have the same behaviours.       *)
(***************************************************************************)
PendingView ==
  <<clientList, loopClient, loopId, breakFlag, {c \in Clients : result[c] = "Pending"},
    stmVars, calls, pool, client, net, modemOn>>
=============================================================================

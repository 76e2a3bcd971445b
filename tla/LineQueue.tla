------------------------------ MODULE LineQueue ------------------------------
(***************************************************************************)
(* What the AT dialogue (AtCommands) takes the serial line for: the lines  *)
(* the modem prints come out one by one, whole and in order, to the caller *)
(* of readLine() or to the handler of a filter.  Once something went wrong *)
(* (a byte with an error, a reader that gave up inside a line) lines may   *)
(* be missing and may come in pieces, but a piece is of one line, and      *)
(* lines still do not overtake each other.                                 *)
(***************************************************************************)
EXTENDS Integers, Sequences

CONSTANT Texts

VARIABLES sent, got, disturbed

Init == sent = <<>> /\ got = <<>> /\ disturbed = FALSE

PutLine ==
  /\ \E t \in Texts : sent' = Append(sent, t)
  /\ UNCHANGED <<got, disturbed>>

Disturb == disturbed' = TRUE /\ UNCHANGED <<sent, got>>

\* What is left of a line s that lost some of its bytes.
Pieces(s) ==
  LET Places(m) == {f \in [1 .. m -> DOMAIN s] : \A i, j \in 1 .. m : i < j => f[i] < f[j]}
  IN  UNION {{[i \in 1 .. m |-> s[f[i]]] : f \in Places(m)} : m \in 1 .. Len(s)}

LastLine == IF got = <<>> THEN 0 ELSE got[Len(got)].line

Deliver ==
  /\ disturbed' \in {disturbed, TRUE}
  /\ \E n \in DOMAIN sent : \E t \in Pieces(sent[n]) :
       /\ IF disturbed' THEN n >= LastLine ELSE n = LastLine + 1 /\ t = sent[n]
       /\ got' = Append(got, [line |-> n, text |-> t])
  /\ UNCHANGED sent

Next == PutLine \/ Disturb \/ Deliver

Spec == Init /\ [][Next]_<<sent, got, disturbed>>
=============================================================================

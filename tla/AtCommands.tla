----------------------------- MODULE AtCommands -----------------------------
(***************************************************************************)
(* The AT dialogue (atcommands.cpp) on top of Serial::readLine(): lines,   *)
(* not bytes (SerialLine has the bytes).  A driver function is a list of   *)
(* steps, `task.todo': send a command, read a reply of some kind, flush.   *)
(* Steps of a kind in Guarded are the ones the drivers take only while     *)
(* their local `ok' (or `ret') still holds.  A line that starts with an    *)
(* installed filter never reaches the reader; its handler is called        *)
(* (parse... in ModemDrivers).  Time is a choice: a reader may give up.     *)
(***************************************************************************)
EXTENDS Integers, Sequences, FiniteSets

CONSTANTS
  Late,     \* may the modem answer after the reader has given up
  MaxLines  \* bound: commands and lines left over by a reader that gives up

ASSUME AtAssumption == Late \in BOOLEAN /\ MaxLines \in Nat

VARIABLES
  wired,    \* which callbacks of the serial line are configured
  rx,       \* lines the modem has printed and nobody has read
  tx,       \* commands the modem has not looked at yet
  filters,  \* m_filterList: the prefixes of unsolicited lines
  task      \* the running driver function and its local variables

atVars == <<wired, rx, tx, filters, task>>

\* A line is what it starts with and the numbers in it; `whole': it has as many
\* fields as its handler asks for.
Line(t, n, m) == [tag |-> t, n |-> n, m |-> m, rem |-> 0, whole |-> TRUE]
NoLine == Line("", 0, 0)
OkReply == Line("OK", 0, 0)
ErrReply == Line("ERROR", 0, 0)

\* A prefix is a tag and a number, or a tag for every number (Any).
Any == -1
Filter(t, n) == [tag |-> t, n |-> n]
Filtered(l) == \E f \in filters : f.tag = l.tag /\ f.n \in {l.n, Any}

addUrcFilter(f) == filters' = filters \cup {f}

removeUrcFilter(f) == filters' = filters \ {f}

----------------------------------------------------------------------------
(* Steps                                                                   *)

Send(c, a)   == <<"send", <<c, a>>>>
ReplyOk      == <<"ok", "">>
ReplyAny     == <<"any", "">>
ReplyExact   == <<"exact", "">>
ReplyCopy    == <<"copy", FALSE>>
ReadUntil(t) == <<"until", t>>
Flush        == <<"flush", "">>

Readers == {"ok", "any", "confirm", "exact", "copy", "until", "qiopen", "flush"}

NoTask == [op |-> "none", arg |-> 0, todo |-> <<>>, ok |-> TRUE, resp |-> NoLine,
           val |-> 0, clean |-> TRUE, bytes |-> 0, dgm |-> 0, rb |-> 0, data |-> 0]

Step == Head(task.todo)
Rest == Tail(task.todo)
At(k) == task.todo # <<>> /\ Step[1] = k
Ready(k) == At(k) /\ task.ok

\* The next thing the reader of kind k sees is a line for it.
Sees(k) ==
  /\ At(k) /\ (task.ok \/ k = "flush")
  /\ wired.rx /\ rx # <<>> /\ ~Filtered(Head(rx))
  /\ rx' = Tail(rx)
  /\ UNCHANGED <<wired, tx, filters>>

sendCommand ==
  /\ Ready("send")
  /\ tx' = IF wired.tx THEN Append(tx, Step[2]) ELSE tx
  /\ task' = [task EXCEPT !.todo = Rest, !.ok = wired.tx]
  /\ UNCHANGED <<wired, rx, filters>>

readOk ==
  /\ Sees("ok")
  /\ task' = [task EXCEPT !.todo = Rest, !.resp = Head(rx), !.ok = Head(rx) = OkReply]

\* Mutant: the first line is the answer, whatever follows it.
readAnyUnconfirmed ==
  /\ Sees("any")
  /\ task' = [task EXCEPT !.todo = Rest, !.resp = Head(rx)]

\* REPLY_ANY: one line, and then "OK".
readAny ==
  /\ Sees("any")
  /\ task' = [task EXCEPT !.todo = <<<<"confirm", "">>>> \o Rest, !.resp = Head(rx)]

readConfirm ==
  /\ Sees("confirm")
  /\ LET ok == Head(rx) = OkReply
     IN  task' = [task EXCEPT !.todo = Rest, !.ok = ok, !.resp = IF ok THEN @ ELSE NoLine]

readExact ==
  /\ Sees("exact")
  /\ task' = [task EXCEPT !.todo = Rest, !.resp = Head(rx)]

\* REPLY_COPY: all lines up to OK, ERROR or silence; one line makes it a success.
readCopy ==
  /\ Sees("copy")
  /\ LET last == Head(rx) \in {OkReply, ErrReply}
     IN  task' = [task EXCEPT !.todo = IF last THEN Rest ELSE <<<<"copy", TRUE>>>> \o Rest]

\* REPLY_IGNORE
readIgnore == Sees("flush") /\ task' = task

readUntil ==
  /\ Sees("until")
  /\ task' = IF Head(rx).tag = Step[2]
             THEN [task EXCEPT !.todo = Rest, !.resp = Head(rx)]
             ELSE task

(***************************************************************************)
(* readLine() runs into its timer, or has nothing to read with.  `clean'   *)
(* records that the function did not give up on an answer that was still   *)
(* to come.                                                                *)
(***************************************************************************)
readTimeout ==
  /\ task.todo # <<>> /\ Step[1] \in Readers
  /\ task.ok \/ Step[1] = "flush"
  /\ ~wired.rx \/ Len(rx) + Len(tx) <= (IF Late THEN MaxLines ELSE 0)
  /\ task' = [task EXCEPT !.todo = Rest,
                          !.clean = @ /\ rx = <<>> /\ tx = <<>>,
                          !.ok = CASE Step[1] = "flush" -> @
                                   [] Step[1] = "copy" -> Step[2]
                                   [] OTHER -> FALSE,
                          !.resp = IF Step[1] = "flush" THEN @ ELSE NoLine]
  /\ UNCHANGED <<wired, rx, tx, filters>>

\* What is left out once ok is false; Kinds are the guarded kinds of step.
skipStep(Kinds) ==
  /\ task.todo # <<>> /\ Step[1] \in Kinds /\ ~task.ok
  /\ task' = [task EXCEPT !.todo = Rest]
  /\ UNCHANGED <<wired, rx, tx, filters>>

ReadStep ==
  \/ readOk \/ readAny \/ readConfirm \/ readExact \/ readCopy
  \/ readIgnore \/ readUntil \/ readTimeout

\* A driver function is called, and returns.
Begin(f, a, program, default) ==
  /\ task.op = "none"
  /\ task' = [NoTask EXCEPT !.op = f, !.arg = a, !.todo = program, !.val = default,
                            !.clean = (rx = <<>> /\ tx = <<>>)]
  /\ UNCHANGED <<wired, rx, tx, filters>>

End ==
  /\ task.op # "none" /\ task.todo = <<>>
  /\ task' = NoTask
  /\ UNCHANGED <<wired, rx, tx, filters>>

Returned(f) == task.op = f /\ task.todo = <<>>
=============================================================================

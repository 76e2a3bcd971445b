----------------------------- MODULE SerialLine -----------------------------
(***************************************************************************)
(* Serial: lines out of bytes.  The modem frames every line as CR LF text  *)
(* CR LF.  readLine() may be called in three modes, gives up when its      *)
(* timer runs out, at any byte, and hands lines that start with a filter   *)
(* to the filter's handler.  `sent', `got' and `disturbed' are history;    *)
(* LineQueue says what they may be.                                        *)
(***************************************************************************)
EXTENDS Integers, Sequences, FiniteSets

CONSTANTS
  Texts,     \* the lines the modem prints: sequences of characters
  Prefixes,  \* what addUrcFilter() is called with: sequences of characters
  MaxSent,   \* bound: lines printed
  MaxBad,    \* bound: bytes that arrive with rx_error
  MaxNul     \* bound: NUL bytes on the line

\* The characters of the lines; the control characters frame them.
Letters == UNION {{t[i] : i \in DOMAIN t} : t \in Texts}

ASSUME SerialAssumption ==
  /\ {MaxSent, MaxBad, MaxNul} \subseteq Nat
  /\ Texts \subseteq Seq(Letters) \ {<<>>}
  /\ Letters \cap {"CR", "LF", "NUL"} = {}

VARIABLES
  wired,         \* the functions configured: subset of Functions
  serial_error,
  filterList,    \* m_filterList, in order
  uart,          \* received bytes
  rl,            \* the running readLine() and its locals
  sent, got, disturbed,
  bad, nul       \* how many bytes were bad, how many NUL

vars == <<wired, serial_error, filterList, uart, rl, sent, got, disturbed, bad, nul>>

Functions == {"readStatus", "readByte", "putChar", "writeStatus"}
NoRead == [at |-> "idle", mode |-> "", status |-> "", line |-> <<>>, n |-> 0]
Chars(bytes) == [i \in DOMAIN bytes |-> bytes[i].c]

\* A byte knows the line it belongs to and its place in the frame; a NUL comes
\* behind a line.
Byte(c, id, k) == [c |-> c, id |-> id, k |-> k, err |-> FALSE]
Frame(t, id) ==
  LET f == <<"CR", "LF">> \o t \o <<"CR", "LF">> IN [k \in DOMAIN f |-> Byte(f[k], id, k)]

Init ==
  /\ wired = {} /\ serial_error = "NoError" /\ filterList = <<>>
  /\ uart = <<>> /\ rl = NoRead
  /\ sent = <<>> /\ got = <<>> /\ disturbed = FALSE
  /\ bad = 0 /\ nul = 0

Idle == rl.at = "idle"

\* configSet...(): a function, or nullptr.
configSet(f, given) ==
  /\ Idle
  /\ wired' = IF given THEN wired \cup {f} ELSE wired
  /\ serial_error' = IF given \/ f = "writeStatus" THEN serial_error
                     ELSE IF f = "putChar" THEN "NoWriteFunction" ELSE "NoReadFunction"
  /\ UNCHANGED <<filterList, uart, rl, sent, got, disturbed, bad, nul>>

clearError ==
  /\ Idle /\ serial_error # "NoError" /\ serial_error' = "NoError"
  /\ UNCHANGED <<wired, filterList, uart, rl, sent, got, disturbed, bad, nul>>

\* The filter that is already in the list only gets a new handler.
addUrcFilter(p) ==
  /\ Idle
  /\ filterList' = IF \E i \in DOMAIN filterList : filterList[i] = p THEN filterList
                   ELSE Append(filterList, p)
  /\ UNCHANGED <<wired, serial_error, uart, rl, sent, got, disturbed, bad, nul>>

removeUrcFilter(p) ==
  /\ Idle /\ \E i \in DOMAIN filterList : filterList[i] = p
  /\ filterList' = SelectSeq(filterList, LAMBDA q : q # p)
  /\ UNCHANGED <<wired, serial_error, uart, rl, sent, got, disturbed, bad, nul>>

\* write(): every byte goes to putchar, or none does and the error says so.
write ==
  /\ Idle
  /\ serial_error' = IF "putChar" \in wired THEN serial_error ELSE "NoWriteFunction"
  /\ UNCHANGED <<wired, filterList, uart, rl, sent, got, disturbed, bad, nul>>

----------------------------------------------------------------------------
(* readLine()                                                              *)

readLine(mode) ==
  /\ Idle
  /\ IF {"readStatus", "readByte"} \subseteq wired
     THEN /\ rl' = [at |-> "waitForTx", mode |-> mode, line |-> <<>>, n |-> 0,
                    status |-> IF mode = "Simple" THEN "line_data" ELSE "line_empty"]
          /\ UNCHANGED serial_error
     ELSE serial_error' = "NoReadFunction" /\ UNCHANGED rl
  /\ UNCHANGED <<wired, filterList, uart, sent, got, disturbed, bad, nul>>

\* The transmitter is empty, cannot be asked, or takes too long.
waitForTx ==
  /\ rl.at = "waitForTx"
  /\ rl' = [rl EXCEPT !.at = "reading"]
  /\ UNCHANGED <<wired, serial_error, filterList, uart, sent, got, disturbed, bad, nul>>

\* readRaw(): the next byte; one that came with rx_error is read and dropped.
uartInChar == Head(uart)
readRaw ==
  /\ rl.at = "reading" /\ uart # <<>> /\ uart' = Tail(uart)
  /\ UNCHANGED <<wired, serial_error, filterList, sent, disturbed, bad, nul>>
Received == readRaw /\ ~uartInChar.err
IsText == uartInChar.c \notin {"CR", "LF", "NUL"}

\* indexOf(): the first filter the line starts with.
StartsWith(line, p) == Len(p) <= Len(line) /\ SubSeq(line, 1, Len(p)) = p
Matches(line) == \E i \in DOMAIN filterList : StartsWith(Chars(line), filterList[i])

Delivered(line) == Append(got, [line |-> line[1].id, text |-> Chars(line)])

dropByte ==
  /\ readRaw
  /\ \/ uartInChar.err \/ uartInChar.c \in {"CR", "NUL"}
     \/ IsText /\ rl.status = "line_empty"                          \* before the 1st linefeed
     \/ uartInChar.c = "LF" /\ rl.status = "line_data" /\ rl.n = 0   \* an empty line
  /\ UNCHANGED <<rl, got>>

firstLinefeed ==
  /\ Received /\ uartInChar.c = "LF" /\ rl.status = "line_empty"
  /\ rl' = [rl EXCEPT !.status = "line_data"]
  /\ UNCHANGED got

\* Mutant: data counts from the start, whatever the mode.
pushCharAlways ==
  /\ Received /\ IsText
  /\ rl' = [rl EXCEPT !.line = Append(@, uartInChar), !.n = @ + 1, !.status = "line_data"]
  /\ UNCHANGED got

pushChar ==
  /\ Received /\ IsText /\ rl.status = "line_data"
  /\ rl' = [rl EXCEPT !.line = Append(@, uartInChar), !.n = @ + 1]
  /\ UNCHANGED got

EndsLine == Received /\ uartInChar.c = "LF" /\ rl.status = "line_data" /\ rl.n > 0

\* Mutant: the filtered line is emptied, its length kept.
callHandlerKeepsIndex ==
  /\ EndsLine /\ Matches(rl.line)
  /\ got' = Delivered(rl.line)
  /\ rl' = [rl EXCEPT !.line = <<>>]

\* Mutant: the filtered line is not emptied.
callHandlerKeepsLine ==
  /\ EndsLine /\ Matches(rl.line)
  /\ got' = Delivered(rl.line)
  /\ rl' = rl

\* The line is for a filter: its handler is called, reading goes on.
callHandler ==
  /\ EndsLine /\ Matches(rl.line)
  /\ got' = Delivered(rl.line)
  /\ rl' = [rl EXCEPT !.line = <<>>, !.n = 0]

lineComplete ==
  /\ EndsLine /\ ~Matches(rl.line)
  /\ got' = Delivered(rl.line)
  /\ rl' = [rl EXCEPT !.at = "returned", !.status = "line_complete"]

GiveUp ==
  /\ rl' = [rl EXCEPT !.at = "returned"]
  /\ got' = IF rl.line = <<>> THEN got ELSE Delivered(rl.line)
  /\ disturbed' = (disturbed \/ rl.line # <<>> \/ (uart # <<>> /\ Head(uart).k > 1))
  /\ UNCHANGED <<wired, filterList, uart, sent, bad, nul>>

\* What has been read of a line is returned all the same.
readTimeout == rl.at = "reading" /\ serial_error' = "ReadTimeout" /\ GiveUp

\* The timer runs out in waitForTx(), or after the check that would report it
\* and before the loop's own: no error is set.
readTimeoutUnseen == rl.at \in {"waitForTx", "reading"} /\ UNCHANGED serial_error /\ GiveUp

Return ==
  /\ rl.at = "returned"
  /\ rl' = NoRead
  /\ UNCHANGED <<wired, serial_error, filterList, uart, sent, got, disturbed, bad, nul>>

----------------------------------------------------------------------------
(* External: the modem and the wire                                        *)

modemPrints ==
  /\ Len(sent) < MaxSent
  /\ \E t \in Texts : /\ sent' = Append(sent, t)
                      /\ uart' = uart \o Frame(t, Len(sent'))
  /\ UNCHANGED <<wired, serial_error, filterList, rl, got, disturbed, bad, nul>>

byteSpoilt ==
  /\ bad < MaxBad /\ bad' = bad + 1 /\ disturbed' = TRUE
  /\ \E i \in DOMAIN uart : ~uart[i].err /\ uart' = [uart EXCEPT ![i].err = TRUE]
  /\ UNCHANGED <<wired, serial_error, filterList, rl, sent, got, nul>>

nulByte ==
  /\ nul < MaxNul /\ nul' = nul + 1
  /\ uart' = Append(uart, Byte("NUL", Len(sent), 0))
  /\ UNCHANGED <<wired, serial_error, filterList, rl, sent, got, disturbed, bad>>

ReadStep ==
  \/ waitForTx \/ dropByte \/ firstLinefeed \/ pushChar \/ callHandler \/ lineComplete
  \/ readTimeout \/ readTimeoutUnseen \/ Return

Next ==
  \/ \E f \in Functions, given \in BOOLEAN : configSet(f, given)
  \/ clearError
  \/ \E p \in Prefixes : addUrcFilter(p) \/ removeUrcFilter(p)
  \/ write
  \/ \E mode \in {"Normal", "Simple", "Ignore"} : readLine(mode)
  \/ ReadStep
  \/ modemPrints \/ byteSpoilt \/ nulByte

Spec == Init /\ [][Next]_vars

----------------------------------------------------------------------------
(* Properties                                                              *)

\* The reader is in one of the states of readLine(), and a line is of bytes
\* that carry text.
SerialTypeOK ==
  /\ wired \subseteq Functions
  /\ serial_error \in {"NoError", "ReadTimeout", "NoReadFunction", "NoWriteFunction"}
  /\ rl.status \in {"", "line_empty", "line_data", "line_complete"}
  /\ rl.n = Len(rl.line)
  /\ \A i \in DOMAIN rl.line : rl.line[i].c \notin {"CR", "LF", "NUL"}

(***************************************************************************)
(* A line that readLine() completes in its Normal or Ignore mode is a      *)
(* whole line of the modem, also after a reader that gave up in the middle *)
(* of a line: the rest of that line is skipped and reading starts at the   *)
(* next.                                                                   *)
(***************************************************************************)
WholeAfterResync ==
  (rl.status = "line_complete" /\ rl.mode # "Simple" /\ bad = 0) =>
    Chars(rl.line) = sent[rl.line[1].id]

(***************************************************************************)
(* readLine() and the filters together turn the bytes into the line queue  *)
(* the AT dialogue is written for.  NUL bytes do no harm, and one byte     *)
(* lost to a receive error never joins two lines into one.                 *)
(***************************************************************************)
Lines == INSTANCE LineQueue
LinesInOrder == Lines!Spec
=============================================================================

----------------------- MODULE ModemDriversInvariants -----------------------
(***************************************************************************)
(* The inductive invariants of ModemDrivers that ModemDriversProofs works  *)
(* with: what the functions can be in the middle of, what can be on the    *)
(* wires then, and what the functions know by it.                          *)
(***************************************************************************)
EXTENDS ModemDrivers

----------------------------------------------------------------------------
(* The inductive invariant                                                 *)

Tags == Urcs \cup {"", "OK", "ERROR", "+CFUN:", "+CGATT:", "+QREGSWT:", "imsi", "text", "number",
                   "sent", "row", "+QIOPEN:", "SEND OK", "+QIRD:", "raw", "+NSONMI:", "+QIURC:"}
Lines == {l \in [tag : Tags, n : Int, m : Int, rem : Int, whole : BOOLEAN] :
            /\ l.tag = "raw" => l.n \in Nat
            /\ l.tag = "+NSONMI:" => l.m \in Nat
            /\ l.tag \in {"+NPSMR:", "+CSCON:"} => l.whole}

Names == {"CFUN", "CFUN?", "CGATT", "CGATT?", "QREGSWT", "QREGSWT?", "NRB", "ATE0", "NSONMI",
          "CEDRXS", "CGDCONT", "COPS", "CIMI", "user", "CEREG", "NPSMR", "CSCON", "NSOCR",
          "QIOPEN", "NSOCL", "QICLOSE", "NSOST", "QISENDEX"}
Commands == (Names \X Int) \cup ({"NSORF", "QIRD"} \X (Int \X Int))

\* Steps without an argument.
Simple == {"ok", "any", "confirm", "exact", "flush", "qiopen", "number", "onOff", "afterColon",
           "requireOn", "requireOff", "again", "fail", "qregswt", "turnOff", "imsi", "fits",
           "ceregFilter", "pmFilter", "open", "filter", "bgOpen", "close", "sendOk", "raw",
           "took", "bgTook", "sum", "bcLook", "bcRest", "saraLoop", "saraLook", "saraRest",
           "toolsLoop", "toolsLook", "toolsRest", "bgStart", "bgLoop", "bgLook", "bgRest"}
Steps ==
  ({"send", "force"} \X Commands) \cup ({"ipRead", "row"} \X Int) \cup ({"until"} \X Tags)
  \cup ({"call"} \X {"isModemOn", "checkQRegSwt"}) \cup ({"switch", "assign"} \X {0, 1})
  \cup ({"bcLoop", "copy"} \X BOOLEAN) \cup {Do(k) : k \in Simple}

\* m_bytesAvail is set by the answer to NSORF, m_bytesAvail and the ring by
\* BG96's read(), neither of which is a function of the BC95.
OfDriver(s, d) ==
  /\ s[1] = "row" => d # "BC95"
  /\ s[1] \in {"bgTook", "bgStart", "bgLoop", "bgLook", "bgRest"} => d = "BG96"

\* A function that enters a socket goes on to the filter for it, whatever
\* flush() reads in between; where BC95's read() loop ends is decided anew.
Proper(todo, d) ==
  /\ todo \in Seq(Steps)
  /\ \A i \in 1..Len(todo) :
       /\ OfDriver(todo[i], d)
       /\ todo[i][1] \in {"open", "bgOpen"} =>
            i + 2 = Len(todo) /\ todo[i + 1] = Flush /\ todo[i + 2] = Do("filter")
       /\ i # 1 => todo[i][1] \notin {"bcRest", "bcLoop"}

Ops == {"none", "reboot", "initialize", "attach", "detach", "isAttached", "isModemOn",
        "switchModem", "getDeviceId", "sendAtCommand", "cereg", "pm", "connect", "disconnect",
        "write", "read"}
TaskType ==
  [op : Ops, arg : Nat, todo : Seq(Steps), ok : BOOLEAN, resp : Lines, val : Int,
   clean : BOOLEAN, bytes : Int, dgm : Int, rb : Int, data : Int]

TaskInv ==
  /\ wired \in [rx : BOOLEAN, tx : BOOLEAN]
  /\ task \in TaskType /\ Proper(task.todo, driver)
  /\ task.op = "none" => task.todo = <<>>

\* The line and the modem.
ModemType ==
  [on : BOOLEAN, seek : BOOLEAN, attached : BOOLEAN, qreg : Int, open : SUBSET Sockets,
   inbox : [Sockets -> Nat], urcs : SUBSET Urcs, last : [Urcs -> Int]]
WireInv ==
  /\ driver \in {"BC95", "B656", "B657", "BG96", "tools"}
  /\ rx \in Seq(Lines) /\ tx \in Seq(Commands)
  /\ modem \in ModemType

NetType == [number : Int, host : BOOLEAN, avail : Int,
            nsonmi : [tag : {"", "+NSONMI:", "+QIURC:"}, n : Int]]
NetInv == net \in NetType

\* BC95: what read() is about to take out of the ring is what the last line
\* put there.
AvailInv ==
  /\ ring \in 0..BufSize
  /\ driver = "BC95" /\ ~ShortReads =>
       /\ net.avail \in 0..ring
       /\ At("bcRest") => \/ task.dgm = 0 \/ task.bytes >= task.arg
                          \/ task.dgm = net.avail /\ task.arg <= task.dgm + task.bytes
       /\ At("bcLoop") /\ ~Step[2] => task.dgm = 0

\* A socket has its filter, or connect() is about to install it.
HasFilter == net.nsonmi \in filters /\ net.nsonmi.n \in {net.number, Any}
Installs == task.ok /\ task.todo \in {<<Flush, Do("filter")>>, <<Do("filter")>>}
SocketInv == net.number >= 0 => HasFilter \/ Installs

\* The last report of a kind with all its fields is the last value the modem
\* printed; a value that reached the application has a filter that takes the
\* reports after it.
Latest(lines, last, u) ==
  \A i \in 1..Len(lines) :
    Reports(lines[i], u) /\ (\A j \in 1..Len(lines) : i < j => ~Reports(lines[j], u))
      => lines[i].n = last[u]
StatusInv ==
  /\ status \in [Urcs -> Int]
  /\ \A f \in filters : f.tag \in Urcs => f = Filter(f.tag, Any)
  /\ \A u \in Urcs :
       /\ Latest(rx, modem.last, u)
       /\ status[u] # Unknown => Filter(u, Any) \in filters
       /\ (status[u] # Unknown /\ \A i \in 1..Len(rx) : ~Reports(rx[i], u))
            => status[u] = modem.last[u]

DriverInv == TaskInv /\ WireInv /\ NetInv /\ AvailInv /\ SocketInv /\ StatusInv

----------------------------------------------------------------------------
(* What read() returns                                                     *)

\* The last step of a round of a read() loop, and nothing but the last.
Closes(todo, Ends) == \A i \in 1..Len(todo) : todo[i][1] \in Ends <=> i = Len(todo)
OfKinds(todo, Kinds) == \A i \in 1..Len(todo) : todo[i][1] \in Kinds

\* BG96: only the last step counts bytes.
BgKinds == {"bgStart", "bgLoop", "bgLook", "bgRest", "bgTook", "ipRead", "send", "until", "raw",
            "ok", "flush"}
BgInv ==
  /\ OfKinds(task.todo, BgKinds)
  /\ task.val <= task.data /\ task.val <= task.arg /\ 0 <= task.data

\* BC95: the bytes so far are the ones that came, and no more than wanted.
BcEnds == {"bcLoop", "bcLook", "bcRest"}
BcInv ==
  /\ OfKinds(task.todo, BcEnds \cup {"flush"}) /\ Closes(task.todo, BcEnds)
  /\ IF task.todo = <<>> THEN task.val <= task.data /\ task.val <= task.arg
     ELSE task.data = task.bytes /\ task.bytes <= task.arg

\* The others read with ipRead().
Asks == {"ipRead", "send", "any", "confirm", "row"}
Takes == {"took", "sum"}
Loops == {"saraLoop", "saraLook", "saraRest", "toolsLoop", "toolsLook", "toolsRest"}
SaraEnds == Loops \cup {"sum"}
SaraKinds == Asks \cup Takes \cup Loops \cup {"flush"}
Follows(k, l) ==
  /\ l \notin {"ipRead", "confirm"}
  /\ k \in {"ipRead", "flush"} => l \in Takes \cup Loops
  /\ k = "took" => l \in Loops
  /\ k = "send" => l = "any"
  /\ k \in {"any", "confirm"} => l = "row"
  /\ k = "row" => l = "flush"
Linked(todo) ==
  \A i \in 1..Len(todo) : i + 1 \in 1..Len(todo) => Follows(todo[i][1], todo[i + 1][1])
Sized(todo) ==
  \A i, j \in 1..Len(todo) :
    todo[i][1] = "send" /\ todo[j][1] = "row" => todo[i][2][2][2] <= todo[j][2]
SaraShape(todo) ==
  OfKinds(todo, SaraKinds) /\ Closes(todo, SaraEnds) /\ Linked(todo) /\ Sized(todo)

\* No answer with bytes is on its way but to the step that waits for one.
Silent == tx = <<>> /\ \A i \in 1..Len(rx) : rx[i].tag # "row"
Expects == {"any", "confirm", "row", "flush"}
NoMore(l, n) == l.tag = "row" => l.m <= n
Asked(todo, queue, lines) ==
  \A i \in 1..Len(todo) : todo[i][1] = "row" =>
    /\ \A j \in 1..Len(queue) : queue[j][1] = "NSORF" => queue[j][2][2] <= todo[i][2]
    /\ \A j \in 1..Len(lines) : NoMore(lines[j], todo[i][2])
Answered(todo, l) == \A i \in 1..Len(todo) : todo[i][1] = "row" => NoMore(l, todo[i][2])
RowInv ==
  /\ task.todo # <<>> /\ Step[1] \notin Expects => Silent
  /\ Asked(task.todo, tx, rx)
  /\ task.todo # <<>> /\ Step[1] \in {"confirm", "row"} /\ task.ok => Answered(task.todo, task.resp)

Within(n, t, d) == d # "tools" => n <= t.arg
ToolsLoops == {"toolsLoop", "toolsLook", "toolsRest"}
Bounded(todo, t, d) ==
  \A i \in 1..Len(todo) :
    /\ todo[i][1] \in {"ipRead", "row"} => Within(t.bytes + todo[i][2], t, d)
    /\ todo[i][1] \in ToolsLoops => d = "tools"
Owes(todo) == \E i \in 1..Len(todo) : todo[i][1] \in Takes
BytesInv ==
  /\ task.bytes <= task.data /\ Within(task.bytes, task, driver)
  /\ task.val <= task.data /\ Within(task.val, task, driver)
  /\ Bounded(task.todo, task, driver)
  /\ Owes(task.todo) /\ Step[1] # "ipRead" =>
       task.bytes + task.rb <= task.data /\ Within(task.bytes + task.rb, task, driver)

SaraInv == SaraShape(task.todo) /\ RowInv /\ BytesInv

HonestInv ==
  task.op = "read" /\ task.clean =>
    /\ driver = "BG96" => BgInv
    /\ driver = "BC95" /\ ~ShortReads => BcInv
    /\ driver \in {"B656", "B657", "tools"} => SaraInv

----------------------------------------------------------------------------
(* What the functions report                                               *)

\* The calls whose answer tells something about the modem.
OnOps == {"isModemOn", "switchModem", "initialize"}
Telling(o, a, d) ==
  \/ o \in {"attach", "detach", "isAttached", "isModemOn", "initialize", "connect"}
  \/ o = "switchModem" /\ a = 1
  \/ o = "reboot" /\ d = "BC95"

\* What each reports when it reports success.
Goal ==
  /\ task.op = "attach" => modem.seek
  /\ task.op = "detach" => ~modem.seek /\ ~modem.attached
  /\ task.op = "isAttached" => modem.attached
  /\ task.op \in OnOps => modem.on
  /\ task.op = "reboot" => modem.qreg = 2
  /\ task.op = "connect" => net.number \in modem.open

\* The commands it gives: none of them undoes what it reports.
Allowed(o, c) ==
  /\ o = "attach" => c[1] = "COPS" \/ (c[1] = "CGATT" /\ c[2] = 1)
  /\ o = "detach" => c[1] = "CGATT" /\ c[2] # 1
  /\ o = "isAttached" => c[1] = "CGATT?"
  /\ o = "isModemOn" => c[1] = "CFUN?"
  /\ o = "switchModem" => c[1] = "CFUN?" \/ (c[1] = "CFUN" /\ c[2] = 1)
  /\ o = "initialize" =>
       c[1] \in {"CFUN?", "NSONMI", "CEDRXS", "CGDCONT"} \/ (c[1] = "CFUN" /\ c[2] = 1)
  /\ o = "reboot" => c[1] \in {"QREGSWT?", "NRB"} \/ (c[1] = "QREGSWT" /\ c[2] = 2)
  /\ o = "connect" => c[1] \in {"NSOCR", "QIOPEN"}
Queries == {"CFUN?", "QREGSWT?"}
Asking == {"any", "confirm", "open", "afterColon"}

\* How its steps follow each other.
TellKinds ==
  {"send", "force", "ok", "until", "any", "confirm", "qiopen", "flush", "call", "number", "onOff",
   "afterColon", "requireOn", "assign", "switch", "qregswt", "open", "bgOpen", "filter"}
Sensors == {"number", "onOff", "afterColon"}
Turns == {"switch", "qregswt"}
TagOf(o) == CASE o \in OnOps -> "+CFUN:" [] o = "isAttached" -> "+CGATT:" [] OTHER -> "+QREGSWT:"
Owner(k, o) ==
  /\ k \in TellKinds
  /\ k = "number" => o \in {"isAttached", "reboot"}
  /\ k \in {"onOff", "afterColon"} => o \in OnOps
  /\ k \in {"open", "bgOpen", "qiopen", "filter"} => o = "connect"
  /\ k \in {"force", "qregswt"} => o = "reboot"
  /\ k \in {"switch", "assign"} => o = "switchModem"
  /\ k = "requireOn" => o = "initialize"
  /\ k = "ok" => o # "reboot"
  /\ k = "call" => o \in {"switchModem", "initialize", "reboot"}
\* The step before.
Before(r, s, o) ==
  /\ s[1] \in {"number", "onOff"} => r[1] = "until" /\ r[2] = TagOf(o)
  /\ s[1] \in {"open", "afterColon"} => r[1] \in {"any", "confirm"}
  /\ s[1] = "any" => r[1] = "send" /\ r[2][1] \in {"CFUN?", "NSOCR"}
  /\ s[1] \in Turns \cup {"call"} => r[1] \in {"flush", "call"}
  /\ s[1] = "bgOpen" => r[1] = "qiopen"
\* The steps after.
Ahead(t, i, n, K) == i + n \in 1..Len(t) /\ t[i + n][1] \in K
After(t, i, o) ==
  /\ o \in {"switchModem", "reboot"} =>
       /\ t[i][1] = "send" /\ t[i][2][1] \in Queries => Ahead(t, i, 2, Sensors)
       /\ t[i][1] \in Sensors => Ahead(t, i, 2, Turns)
       /\ t[i][1] = "call" => Ahead(t, i, 1, Turns)
  /\ o = "reboot" /\ t[i][1] = "until" => t[i][2] = "OK" \/ Ahead(t, i, 1, {"number"})
  /\ t[i][1] = "qregswt" => Ahead(t, i, 1, {"force"})
  /\ o = "initialize" /\ t[i][1] = "call" => Ahead(t, i, 1, {"requireOn"})
  /\ o = "switchModem" /\ t[i][1] = "ok" => Ahead(t, i, 1, {"assign"})
\* Where it stands.
Stands(t, i) ==
  /\ t[i][1] = "any" => i <= 2
  /\ t[i][1] = "confirm" => i = 1
  /\ t[i][1] \in {"open", "afterColon"} => i <= 3
  /\ t[i][1] = "switch" => i = Len(t)
  /\ t[i][1] = "assign" => i + 1 = Len(t) /\ t[i + 1][1] = "flush"
  /\ t[i][1] = "force" => i + 2 = Len(t)
\* What it carries.
Carries(s, o) ==
  /\ s[1] = "send" => Allowed(o, s[2]) /\ s[2][1] # "NRB"
  /\ s[1] = "force" => s[2][1] = "NRB"
  /\ s[1] = "call" => s[2] = IF o = "reboot" THEN "checkQRegSwt" ELSE "isModemOn"
  /\ s[1] \in {"switch", "assign"} => s[2] = 1
Told(t, o) ==
  \A i \in 1..Len(t) :
    /\ Owner(t[i][1], o) /\ Carries(t[i], o) /\ After(t, i, o) /\ Stands(t, i)
    /\ i > 1 => Before(t[i - 1], t[i], o)

\* The step that decides is still to come.
Judges(t, i, o) ==
  \/ o \in {"attach", "detach", "switchModem"} /\ t[i][1] = "ok"
  \/ o \in {"switchModem", "reboot"} /\ t[i][1] \in Turns
  \/ o = "initialize" /\ t[i][1] = "requireOn"
  \/ o = "connect" /\ t[i][1] \in {"open", "bgOpen"}
  \/ o = "reboot" /\ t[i][1] = "until" /\ Ahead(t, i, 2, {"force"})
Pending(t, o) == \E i \in 1..Len(t) : Judges(t, i, o)
Judged == {"attach", "detach", "switchModem", "initialize", "connect", "reboot"}
Has(t, K) == \E i \in 1..Len(t) : t[i][1] \in K
\* An "OK" is the answer to an order.
Orders(t, o) ==
  o \in {"attach", "detach"} \/ (o \in {"switchModem", "reboot"} /\ ~Has(t, Turns))

\* What a line says.
Evident(l) ==
  /\ task.op \in OnOps /\ l.tag = "+CFUN:" /\ l.n # 0 => modem.on
  /\ task.op = "isAttached" /\ l.tag = "+CGATT:" /\ l.n = 1 => modem.attached
  /\ task.op = "reboot" /\ l.tag = "+QREGSWT:" /\ l.n = 2 => modem.qreg = 2
  /\ task.op = "connect" /\ l.tag \in {"number", "+QIOPEN:"} => l.n \in modem.open
  /\ task.op = "connect" => l.tag # "+CFUN:"
Value(v) ==
  /\ task.op \in OnOps /\ v = 1 => modem.on
  /\ task.op = "isAttached" /\ v = 1 => modem.attached
  /\ task.op = "reboot" /\ v = 2 => modem.qreg = 2
Own(l) == l.tag \in {"number", "+CFUN:"}
Okay(lines) == \E i \in 1..Len(lines) : lines[i].tag = "OK"
Hushed == tx = <<>> /\ ~Okay(rx)

\* The commands on their way.
WayInv ==
  \A j \in 1..Len(tx) :
    /\ Allowed(task.op, tx[j])
    /\ Orders(task.todo, task.op) => tx[j][1] \notin Queries
    /\ Has(task.todo, Asking) => tx[j][1] \in {"CFUN?", "NSOCR"}
LinesInv == Evident(task.resp) /\ \A i \in 1..Len(rx) : Evident(rx[i])
HeadInv ==
  task.todo # <<>> =>
    /\ Step[1] \in {"number", "onOff"} /\ task.ok => task.resp.tag = TagOf(task.op)
    /\ Step[1] = "bgOpen" /\ task.ok => task.resp.tag = "+QIOPEN:"
    /\ Step[1] \in {"open", "afterColon"} /\ task.ok => Own(task.resp)
    /\ Step[1] \in Turns \cup {"call"} => Hushed
    /\ Step[1] = "send" /\ Has(task.todo, {"any"}) => Hushed
\* An "OK" follows the line it confirms.
Confirms(i) ==
  \/ i > 1 /\ Own(rx[i - 1])
  \/ /\ i = 1 /\ Step[1] \notin {"send", "any"}
     /\ Step[1] = "confirm" => Own(task.resp)
AskInv == Has(task.todo, Asking) => \A i \in 1..Len(rx) : rx[i].tag = "OK" => Confirms(i)
OrderInv ==
  /\ Orders(task.todo, task.op) /\ task.ok
  /\ Okay(rx) \/ \E j \in 1..Len(tx) : tx[j][1] = "NRB"
  => Goal
JudgeInv == task.op \in Judged /\ task.ok /\ ~Pending(task.todo, task.op) => Goal

TellInv ==
  /\ Told(task.todo, task.op) /\ WayInv /\ LinesInv /\ Value(task.val)
  /\ HeadInv /\ AskInv /\ OrderInv /\ JudgeInv
TruthInv == task.clean /\ Telling(task.op, task.arg, driver) => TellInv
=============================================================================

---------------------------- MODULE ModemDrivers ----------------------------
(***************************************************************************)
(* The modem and network drivers of libNbiotCore as AT dialogues: the four *)
(* modems, and "tools" for the older NbiotModemTools and NbiotConnectivity.*)
(* Every function is the list of steps it takes; the steps that are not    *)
(* AT commands are defined below under the name they have in the list.     *)
(* The modem at the other end is external.                                 *)
(***************************************************************************)
EXTENDS AtCommands

CONSTANTS
  Scenarios,   \* pairs of a driver and the set of its functions in use
  Faults,      \* what the modem may do wrong: "refuse", "mute"
  Lens,        \* lengths of datagrams and of reads
  BufSize,     \* size of the ring of BC95 and BG96
  maxSocket,   \* sockets of the modem: the code has 7
  CountMod,    \* 2^w, w the width of m_bytesAvail
  ShortReads   \* may a read have no more than readInterval left

ASSUME DriverAssumption ==
  /\ \A s \in Scenarios : s[1] \in {"BC95", "B656", "B657", "BG96", "tools"}
  /\ Faults \subseteq {"refuse", "mute"}
  /\ Lens \subseteq Nat \ {0} /\ BufSize \in Nat \ {0}
  /\ maxSocket \in Nat \ {0}
  /\ CountMod \in Nat /\ CountMod > BufSize
  /\ ShortReads \in BOOLEAN

VARIABLES
  driver, uses,  \* fixed: the modem of this build, the functions in use
  config,        \* coreConfigError is no longer CoreErrorNoConfig
  net,           \* Network: number, host known, m_bytesAvail, m_nsonmi
  ring,          \* bytes in m_buffer or m_readBuffer
  deviceId,      \* m_deviceId
  status,        \* last +CEREG:, +NPSMR:, +CSCON: handed to the application
  modem          \* external: the modem

drvVars == <<driver, uses, config, net, ring, deviceId, status, modem>>
vars == <<atVars, drvVars>>

Urcs == {"+CEREG:", "+NPSMR:", "+CSCON:"}
Unknown == -1
NoFilter == Filter("", Any)
Sockets == 0 .. maxSocket - 1
NoModem == [on |-> FALSE, seek |-> FALSE, attached |-> FALSE, qreg |-> 1, open |-> {},
            inbox |-> [s \in Sockets |-> 0], urcs |-> {}, last |-> [u \in Urcs |-> Unknown]]

Init ==
  /\ \E s \in Scenarios : driver = s[1] /\ uses = s[2]
  /\ config = FALSE
  /\ wired = [rx |-> FALSE, tx |-> FALSE]
  /\ rx = <<>> /\ tx = <<>> /\ filters = {} /\ task = NoTask
  /\ net = [number |-> -1, host |-> FALSE, avail |-> 0, nsonmi |-> NoFilter]
  /\ ring = 0 /\ deviceId = ""
  /\ status = [u \in Urcs |-> Unknown]
  /\ modem = NoModem

----------------------------------------------------------------------------
(* The functions                                                           *)

Do(s) == <<s, "">>
Call(f) == <<"call", f>>
Ip(n) == <<"ipRead", n>>

checkQRegSwt == <<Send("QREGSWT?", 0), ReadUntil("+QREGSWT:"), Do("number"), Flush>>
setQRegSwt2 == <<Send("QREGSWT", 2), ReadUntil("OK"), Flush>>

rebootBC95 == <<Call("checkQRegSwt"), Do("qregswt"), <<"force", <<"NRB", 0>>>>,
                ReadUntil("OK"), Flush>>
rebootB656 == <<Send("NRB", 0), ReadUntil("OK"), Flush>>
rebootB657 == <<Send("NRB", 0), ReadUntil("OK"), Flush>>
rebootBG96 == <<Send("ATE0", 0), Do("again"), ReplyOk, Do("again"), Call("isModemOn"),
                Do("turnOff"), Flush>>
rebootTools == <<Send("NRB", 0), ReadUntil("OK"), Flush>>

initializeBC95 ==
  <<Send("CFUN", 1), ReadUntil("OK"), Flush, Call("isModemOn"), Do("requireOn"),
    Send("NSONMI", 3), ReadUntil("OK"), Send("CEDRXS", 0), ReadUntil("OK"), Flush>>
initializeB656 ==
  <<Send("CFUN", 1), ReadUntil("OK"), Flush, Call("isModemOn"), Do("requireOn"),
    Send("CGDCONT", 1), ReplyOk, Flush>>
initializeB657 ==
  <<Send("CFUN", 1), ReadUntil("OK"), Flush, Call("isModemOn"), Do("requireOn"),
    Send("CGDCONT", 1), ReplyOk, Flush>>
initializeBG96 ==
  <<Send("CFUN", 1), ReadUntil("OK"), Flush, Call("isModemOn"), Do("requireOn"),
    Send("CGDCONT", 1), ReplyOk, Flush>>
initializeTools ==
  <<Send("CFUN", 1), ReadUntil("OK"), Flush, Call("isModemOn"), Do("requireOn"),
    Send("CGDCONT", 1), ReplyOk, Flush>>

attachBase == <<Send("COPS", 1), ReplyOk, Flush>>
attachBC95 == <<Send("COPS", 0), ReplyOk, Flush>>
attachBG96 == <<Send("CGATT", 1), ReplyOk, Flush>>
attachTools == <<Send("COPS", 1), ReplyOk, Flush>>

detachBase == <<Send("CGATT", 0), ReplyOk, Flush>>
detachTools == <<Send("CGATT", 0), ReplyOk, Flush>>

getAttachState == <<Send("CGATT?", 0), ReadUntil("+CGATT:"), Do("number"), Flush>>
getAttachStateTools == <<Send("CGATT?", 0), ReadUntil("+CGATT:"), Do("number"), Flush>>

isModemOnBase == <<Send("CFUN?", 0), ReadUntil("+CFUN:"), Do("onOff"), Flush>>
isModemOnTools == <<Send("CFUN?", 0), ReplyAny, Do("afterColon"), Flush>>

switchModemBase(s) == <<Call("isModemOn"), <<"switch", s>>>>
switchModemTools(s) == <<Call("isModemOn"), <<"switch", s>>>>

getImsiBase == <<Send("CIMI", 0), ReplyAny, Do("imsi"), Flush>>
getImsiTools == <<Send("CIMI", 0), ReplyAny, Do("imsi"), Flush>>
getDeviceIdBase == IF deviceId = "" THEN getImsiBase ELSE <<>>
getDeviceIdTools == IF deviceId = "" THEN getImsiTools ELSE <<>>

sendAtCommandBase == <<Send("user", 0), ReplyCopy, Do("fits")>>
sendAtCommandTools == <<Send("user", 0), ReplyCopy, Do("fits")>>

setupCeregUrc == <<Send("CEREG", 5), ReadUntil("OK"), Do("ceregFilter")>>
setupPmUrcsBase == <<Do("fail")>>
setupPmUrcsBC95 == <<Send("NPSMR", 1), ReadUntil("OK"), Send("CSCON", 1), ReadUntil("OK"),
                     Do("pmFilter")>>

\* Mutant: a second connect() leaves the filter as it is.
connectNsocrFilterOnce ==
  <<Send("NSOCR", 0), ReplyAny, Do("open"), Flush>> \o
  (IF net.number >= 0 THEN <<>> ELSE <<Do("filter")>>)

\* Network: BC95, the SARA modems and NbiotConnectivity open a socket alike.
connectNsocr == <<Send("NSOCR", 0), ReplyAny, Do("open"), Flush, Do("filter")>>
connectBC95 == connectNsocr
connectB656 == connectNsocr
connectB657 == connectNsocr
connectTools == connectNsocr
connectBG96 == <<Send("QIOPEN", net.number + 1), ReplyOk, <<"qiopen", "">>, Do("bgOpen"),
                 Flush, Do("filter")>>

IfOpen(c) == IF net.number >= 0 THEN <<Send(c, net.number), ReplyOk>> ELSE <<>>
disconnectNsocl == IfOpen("NSOCL") \o <<Do("close"), Flush>>
disconnectB656 == disconnectNsocl
disconnectB657 == disconnectNsocl
disconnectTools == disconnectNsocl
disconnectBG96 == IfOpen("QICLOSE") \o <<Do("close"), Flush>>

writeNsost == IF net.host THEN <<Send("NSOST", net.number), ReplyAny, Flush>>
              ELSE <<Do("fail"), Flush>>
writeB656 == writeNsost
writeB657 == writeNsost
writeTools == writeNsost
writeBG96 == IF net.host THEN <<Send("QISENDEX", net.number), ReplyExact, Do("sendOk"), Flush>>
             ELSE <<Do("fail"), Flush>>

ipAvailable == net.avail % CountMod
readBC95 == <<<<"bcLoop", TRUE>>>>
readSara(n) == <<Ip(n), Do("took"), Do("saraLoop")>>
readB656(n) == readSara(n)
readB657(n) == readSara(n)
readTools == <<Do("toolsLoop")>>
readBG96 == <<Do("bgStart"), Do("bgLoop")>>

\* Which function of which driver answers a call.
Pick(bc95, b656, b657, bg96, tools) ==
  CASE driver = "BC95" -> bc95 [] driver = "B656" -> b656 [] driver = "B657" -> b657
    [] driver = "BG96" -> bg96 [] driver = "tools" -> tools
Old(base, tools) == IF driver = "tools" THEN tools ELSE base

isModemOn == Old(isModemOnBase, isModemOnTools)
switchModem(s) == Old(switchModemBase(s), switchModemTools(s))
connect == Pick(connectBC95, connectB656, connectB657, connectBG96, connectTools)
disconnect == Pick(disconnectNsocl, disconnectB656, disconnectB657, disconnectBG96, disconnectTools)
write == Pick(writeNsost, writeB656, writeB657, writeBG96, writeTools)
read(n) == Pick(readBC95, readB656(n), readB657(n), readBG96, readTools)

----------------------------------------------------------------------------
(* The steps between the AT commands                                       *)

Quiet == UNCHANGED <<wired, rx, tx, filters>>
Internal == Quiet /\ UNCHANGED drvVars
Go == [task EXCEPT !.todo = Rest]
GoTo(steps) == [task EXCEPT !.todo = steps \o Rest]

\* Steps the drivers take only while ok holds.
Guarded == {"send", "ok", "any", "confirm", "exact", "copy", "until", "qiopen", "call",
            "number", "onOff", "afterColon", "requireOn", "imsi", "fits", "ceregFilter",
            "pmFilter", "open", "filter", "bgOpen", "close", "sendOk", "assign", "row", "raw"}

callStep ==
  /\ Ready("call")
  /\ task' = CASE Step[2] = "isModemOn" -> [GoTo(isModemOn) EXCEPT !.val = 0]
               [] Step[2] = "checkQRegSwt" -> [GoTo(checkQRegSwt) EXCEPT !.val = 0]
  /\ Internal

\* What the functions make of a response.
HasColon(l) == l.tag \in Urcs \cup {"+CFUN:", "+NSONMI:"}
responseStep ==
  /\ \/ Ready("number") /\ task' = [Go EXCEPT !.val = task.resp.n]
     \/ Ready("onOff") /\ task' = [Go EXCEPT !.val = IF task.resp.n = 0 THEN 0 ELSE 1]
     \/ /\ Ready("afterColon")
        /\ task' = [Go EXCEPT !.val = IF HasColon(task.resp) /\ task.resp.n = 1 THEN 1 ELSE 0]
     \/ Ready("sendOk") /\ task' = [Go EXCEPT !.ok = task.resp.tag = "SEND OK"]
     \/ \E fits \in BOOLEAN : Ready("fits") /\ task' = [Go EXCEPT !.ok = fits]
  /\ Internal

\* Branches on what has been found out.
branchStep ==
  /\ \/ Ready("requireOn") /\ task' = [Go EXCEPT !.ok = task.val = 1]
     \/ At("requireOff") /\ task' = [Go EXCEPT !.ok = task.val = 0]
     \/ At("again") /\ task' = [Go EXCEPT !.ok = TRUE]
     \/ At("fail") /\ task' = [Go EXCEPT !.ok = FALSE]
     \/ Ready("assign") /\ task' = [Go EXCEPT !.val = Step[2]]
     \/ /\ At("qregswt")
        /\ task' = [(IF task.val = 2 THEN Go ELSE GoTo(setQRegSwt2)) EXCEPT !.ok = TRUE]
     \/ /\ At("turnOff")
        /\ task' = [(IF task.val = 1 THEN GoTo(switchModem(0) \o <<Do("requireOff")>>) ELSE Go)
                      EXCEPT !.ok = TRUE]
     \/ /\ At("switch")
        /\ task' = [(IF task.val = Step[2] THEN Go
                     ELSE GoTo(<<Send("CFUN", Step[2]), ReplyOk, <<"assign", Step[2]>>, Flush>>))
                      EXCEPT !.ok = TRUE]
  /\ Internal

\* sendCommand() whatever happened before.
forceStep ==
  /\ At("force")
  /\ tx' = IF wired.tx THEN Append(tx, Step[2]) ELSE tx
  /\ task' = [Go EXCEPT !.ok = @ /\ wired.tx]
  /\ UNCHANGED <<wired, rx, filters, drvVars>>

imsiStep ==
  /\ Ready("imsi")
  /\ deviceId' = task.resp.tag
  /\ task' = Go
  /\ Quiet /\ UNCHANGED <<driver, uses, config, net, ring, status, modem>>

\* The URC is switched on, now its handler.
filterStep ==
  /\ \/ Ready("ceregFilter") /\ addUrcFilter(Filter("+CEREG:", Any)) /\ UNCHANGED net
     \/ /\ Ready("pmFilter")
        /\ filters' = filters \cup {Filter("+NPSMR:", Any), Filter("+CSCON:", Any)}
        /\ UNCHANGED net
     \/ /\ Ready("filter")
        /\ net' = [net EXCEPT !.nsonmi = IF driver = "BG96" THEN Filter("+QIURC:", Any)
                                         ELSE Filter("+NSONMI:", net.number)]
        /\ addUrcFilter(net'.nsonmi)
  /\ task' = Go
  /\ UNCHANGED <<wired, rx, tx, driver, uses, config, ring, deviceId, status, modem>>

Connected(n) == [net EXCEPT !.number = n, !.host = TRUE]
Disconnected == [net EXCEPT !.number = -1, !.host = FALSE]

\* atoi() of the answer to NSOCR is the socket, 0 for anything that is no number.
openStep ==
  /\ Ready("open")
  /\ LET n == IF task.resp.tag = "number" THEN task.resp.n ELSE 0
         valid == 0 <= n /\ n < maxSocket
     IN  /\ net' = IF valid THEN Connected(n) ELSE Disconnected
         /\ task' = [Go EXCEPT !.ok = valid]
  /\ Quiet /\ UNCHANGED <<driver, uses, config, ring, deviceId, status, modem>>

(***************************************************************************)
(* BG96 waits for Printf("+QIOPEN: %d,0") without the argument: whether    *)
(* the modem's line starts with the text is up to what %d finds.           *)
(***************************************************************************)
qiopenStep ==
  /\ Sees("qiopen")
  /\ \/ Head(rx).tag = "+QIOPEN:" /\ task' = [Go EXCEPT !.resp = Head(rx)]
     \/ task' = task
  /\ UNCHANGED drvVars

bgOpenStep ==
  /\ Ready("bgOpen")
  /\ net' = Connected(task.resp.n)
  /\ task' = Go
  /\ Quiet /\ UNCHANGED <<driver, uses, config, ring, deviceId, status, modem>>

\* What was received and not read stays: ring and m_bytesAvail are not touched.
closeStep ==
  /\ Ready("close")
  /\ net' = [Disconnected EXCEPT !.nsonmi = NoFilter]
  /\ removeUrcFilter(net.nsonmi)
  /\ task' = Go
  /\ UNCHANGED <<wired, rx, tx, driver, uses, config, ring, deviceId, status, modem>>

----------------------------------------------------------------------------
(* Reading datagrams.  task.data counts the bytes of `data' that did come  *)
(* from the modem.                                                         *)

Lesser(a, b) == IF a <= b THEN a ELSE b
Net(t, n, r) ==
  /\ task' = t /\ net' = n /\ ring' = r
  /\ UNCHANGED <<wired, tx, filters, driver, uses, config, deviceId, status, modem>>

ipReadNsorf(n) == <<Send("NSORF", <<net.number, n>>), ReplyAny, <<"row", n>>, Flush>>
ipReadB656(n) == ipReadNsorf(n)
ipReadB657(n) == ipReadNsorf(n)
ipReadTools(n) == ipReadNsorf(n)
ipReadBG96(n) == <<Send("QIRD", <<net.number, n>>), ReadUntil("+QIRD:"), Do("raw"), Flush>>

ipReadStep ==
  /\ At("ipRead")
  /\ LET n == Step[2]
         body == Pick(<<>>, ipReadB656(n), ipReadB657(n), ipReadBG96(n), ipReadTools(n))
     IN  task' = [GoTo(body) EXCEPT !.rb = IF driver = "BG96" THEN 0 ELSE -1]
  /\ Internal

\* The answer to NSORF; more bytes than asked for are not taken.
rowStep ==
  /\ Ready("row")
  /\ LET l == task.resp
         own == l.tag = "row" /\ l.n = net.number
         takes == own /\ 0 < l.m /\ l.m <= Step[2]
     IN  Net([Go EXCEPT !.rb = IF l.tag = "OK" THEN 0 ELSE IF own THEN l.m ELSE @,
                        !.data = IF takes THEN @ + l.m ELSE @],
             [net EXCEPT !.avail = IF takes THEN l.rem ELSE @], ring)
  /\ UNCHANGED rx

\* BG96: the bytes follow the line, read one by one with readRaw(), then "OK".
rawStep ==
  /\ Ready("raw")
  /\ IF task.resp.n > 0 /\ rx # <<>> /\ Head(rx).tag = "raw"
     THEN LET k == Head(rx).n
          IN  /\ Net([GoTo(<<ReplyOk>>) EXCEPT !.rb = k], net, Lesser(ring + k, BufSize))
              /\ rx' = Tail(rx)
     ELSE Net(Go, net, ring) /\ UNCHANGED rx

\* bytes += rb, for the loops that go on
tookStep ==
  /\ \/ At("took") /\ UNCHANGED net
     \/ At("bgTook") /\ net' = [net EXCEPT !.avail = 0]
  /\ task' = [Go EXCEPT !.ok = TRUE, !.bytes = IF task.rb > 0 THEN @ + task.rb ELSE @]
  /\ Quiet /\ UNCHANGED <<driver, uses, config, ring, deviceId, status, modem>>

\* Mutant: what was asked for is taken for what was read.
sumStepAsked ==
  /\ At("sum")
  /\ task' = [Go EXCEPT !.ok = TRUE, !.val = task.arg]
  /\ Internal

\* rc = ipRead(...) + bytes
sumStep ==
  /\ At("sum")
  /\ task' = [Go EXCEPT !.ok = TRUE, !.val = task.rb + task.bytes]
  /\ Internal

\* BC95 takes k bytes out of the ring, one get() and one decrement each.
TakeBC95(t, k) ==
  Net([t EXCEPT !.data = @ + Lesser(k, ring)],
      [net EXCEPT !.avail = (@ - k) % CountMod], ring - Lesser(k, ring))

\* while(time is left and more bytes are wanted); a timeout of no more than
\* readInterval (ShortReads) skips the loop.
moreBytes ==
  /\ \/ /\ At("bcLoop") /\ task.bytes < task.arg
        /\ task' = [GoTo(<<Flush, Do("bcLook")>>) EXCEPT !.dgm = IF Step[2] THEN ipAvailable ELSE @]
     \/ At("saraLoop") /\ task.bytes < task.arg /\ task' = GoTo(<<Flush, Do("saraLook")>>)
     \/ At("toolsLoop") /\ task' = GoTo(<<Do("toolsLook")>>)
     \/ At("bgLoop") /\ ring < task.arg /\ task' = GoTo(<<Flush, Do("bgLook")>>)
  /\ Internal

\* Mutant: the loops wait until they have what was asked for.
timeUpNever ==
  /\ \/ /\ At("bcLoop") /\ task.bytes >= task.arg
        /\ task' = [GoTo(<<Do("bcRest")>>) EXCEPT !.dgm = IF Step[2] THEN ipAvailable ELSE @]
     \/ At("saraLoop") /\ task.bytes >= task.arg /\ task' = GoTo(<<Do("saraRest")>>)
     \/ At("bgLoop") /\ ring >= task.arg /\ task' = GoTo(<<Do("bgRest")>>)
  /\ Internal

timeUp ==
  /\ \/ /\ At("bcLoop") /\ (~Step[2] \/ ShortReads \/ task.bytes >= task.arg)
        /\ task' = [GoTo(<<Do("bcRest")>>) EXCEPT !.dgm = IF Step[2] THEN ipAvailable ELSE @]
     \/ At("saraLoop") /\ task' = GoTo(<<Do("saraRest")>>)
     \/ At("toolsLoop") /\ task' = GoTo(<<Do("toolsRest")>>)
     \/ At("bgLoop") /\ task' = GoTo(<<Do("bgRest")>>)
  /\ Internal

bcLook ==
  /\ At("bcLook")
  /\ LET d == ipAvailable
     IN  IF d = 0 \/ task.arg <= d + task.bytes
         THEN /\ task' = [GoTo(<<IF d = 0 THEN <<"bcLoop", FALSE>> ELSE Do("bcRest")>>)
                           EXCEPT !.dgm = d]
              /\ Internal
         ELSE /\ TakeBC95([GoTo(<<<<"bcLoop", FALSE>>>>) EXCEPT !.dgm = 0, !.bytes = @ + d], d)
              /\ UNCHANGED rx

bcRest ==
  /\ At("bcRest")
  /\ IF 0 < task.dgm /\ task.bytes < task.arg
     THEN TakeBC95([Go EXCEPT !.val = task.arg], task.arg - task.bytes) /\ UNCHANGED rx
     ELSE task' = [Go EXCEPT !.val = task.bytes] /\ Internal

saraLook ==
  /\ At("saraLook")
  /\ LET d == ipAvailable
         next == IF d = 0 THEN <<Do("saraLoop")>>
                 ELSE IF task.arg <= d + task.bytes THEN <<Do("saraRest")>>
                 ELSE <<Ip(d), Do("took"), Do("saraLoop")>>
     IN  task' = [GoTo(next) EXCEPT !.dgm = d]
  /\ Internal

\* A failed ipRead() counts as -1 in the sum.
saraRest ==
  /\ At("saraRest")
  /\ task' = IF 0 < task.dgm /\ task.bytes < task.arg
             THEN GoTo(<<Ip(task.arg - task.bytes), Do("sum")>>)
             ELSE [Go EXCEPT !.val = task.bytes]
  /\ Internal

toolsLook ==
  /\ At("toolsLook")
  /\ LET d == ipAvailable
     IN  task' = IF task.arg <= d + task.bytes \/ (0 < task.bytes /\ 0 < d)
                 THEN GoTo(<<Do("toolsRest")>>)
                 ELSE GoTo(<<Ip(1), Do("took"), Do("toolsLoop")>>)
  /\ Internal

\* All of the datagram is read, however much was asked for.
toolsRest ==
  /\ At("toolsRest")
  /\ task' = IF 0 < ipAvailable THEN GoTo(<<Ip(ipAvailable), Do("sum")>>)
             ELSE [Go EXCEPT !.val = task.bytes]
  /\ Internal

bgStart ==
  /\ At("bgStart")
  /\ task' = [GoTo(IF ipAvailable = 0 THEN <<Ip(task.arg), Do("bgTook")>> ELSE <<>>)
               EXCEPT !.bytes = ring]
  /\ Internal

bgLook ==
  /\ At("bgLook")
  /\ task' = GoTo(IF ipAvailable = 0 THEN <<Do("bgLoop")>>
                  ELSE <<Ip(task.arg - task.bytes), Do("bgTook"), Do("bgLoop")>>)
  /\ Internal

bgRest ==
  /\ At("bgRest")
  /\ LET k == Lesser(ring, task.arg)
     IN  IF 0 < task.bytes THEN Net([Go EXCEPT !.val = k, !.data = k], net, ring - k)
         ELSE Net([Go EXCEPT !.val = -1], net, ring)
  /\ UNCHANGED rx

----------------------------------------------------------------------------
(* Unsolicited lines, handled by whatever reads the line at that moment     *)

Handles(tag) ==
  /\ task.todo # <<>> /\ Step[1] \in Readers /\ (task.ok \/ Step[1] = "flush")
  /\ wired.rx /\ rx # <<>> /\ Head(rx).tag = tag /\ Filtered(Head(rx))
  /\ rx' = Tail(rx)
  /\ UNCHANGED <<wired, tx, filters, task, driver, uses, config, deviceId, modem>>

\* Mutant: the count is that of the modem, also when put() refuses the block.
parseFilterResultBC95Unlimited ==
  /\ driver = "BC95" /\ Handles("+NSONMI:")
  /\ LET k == Head(rx).m
     IN  IF Head(rx).whole /\ Head(rx).n = net.number
         THEN net' = [net EXCEPT !.avail = k] /\ ring' = IF ring + k <= BufSize THEN ring + k ELSE ring
         ELSE UNCHANGED <<net, ring>>
  /\ UNCHANGED status

\* The datagram is in the line, in the third of its fields; what the ring has no
\* room for is lost, and so is a line that has not three fields.
parseFilterResultBC95 ==
  /\ driver = "BC95" /\ Handles("+NSONMI:")
  /\ LET k == Lesser(Head(rx).m, BufSize - ring)
     IN  IF Head(rx).whole /\ Head(rx).n = net.number
         THEN net' = [net EXCEPT !.avail = k] /\ ring' = ring + k
         ELSE UNCHANGED <<net, ring>>
  /\ UNCHANGED status

\* The others are told that a datagram waits in the modem, for any socket.
parseFilterResultSara ==
  /\ driver \in {"B656", "B657", "tools"} /\ Handles("+NSONMI:")
  /\ net' = [net EXCEPT !.avail = Head(rx).m]
  /\ UNCHANGED <<ring, status>>

parseFilterResultBG96 ==
  /\ driver = "BG96" /\ Handles("+QIURC:")
  /\ net' = [net EXCEPT !.avail = 1]
  /\ UNCHANGED <<ring, status>>

\* A report is told if it has all eight fields; any other is taken off the line.
parseCeregUrc ==
  /\ Handles("+CEREG:")
  /\ status' = IF Head(rx).whole THEN [status EXCEPT !["+CEREG:"] = Head(rx).n] ELSE status
  /\ UNCHANGED <<net, ring>>

\* Mutant: the two power reports mixed up.
parseNpsmrUrcMixed ==
  /\ Handles("+NPSMR:")
  /\ status' = [status EXCEPT !["+CSCON:"] = Head(rx).n]
  /\ UNCHANGED <<net, ring>>

parseNpsmrUrc ==
  /\ Handles("+NPSMR:")
  /\ status' = [status EXCEPT !["+NPSMR:"] = Head(rx).n]
  /\ UNCHANGED <<net, ring>>

parseCsconUrc ==
  /\ Handles("+CSCON:")
  /\ status' = [status EXCEPT !["+CSCON:"] = Head(rx).n]
  /\ UNCHANGED <<net, ring>>

----------------------------------------------------------------------------
(* External: the modem                                                     *)

Row(s, k, left) == [tag |-> "row", n |-> s, m |-> k, rem |-> left, whole |-> TRUE]
Short(t, n, m) == [tag |-> t, n |-> n, m |-> m, rem |-> 0, whole |-> FALSE]
Free == Sockets \ modem.open
Lowest(S) == CHOOSE s \in S : \A t \in S : s <= t
Waiting(a) == Lesser(modem.inbox[a[1]], a[2])

\* Commands the modem cannot obey.
Refused(c, a) ==
  \/ c = "NSOCR" /\ Free = {}
  \/ c = "QIOPEN" /\ a \notin Free
  \/ c \in {"NSOCL", "QICLOSE", "NSOST", "QISENDEX"} /\ a \notin modem.open
  \/ c \in {"NSORF", "QIRD"} /\ (a[1] \notin modem.open \/ a[2] < 0)

Answer(c, a) ==
  IF Refused(c, a) THEN <<ErrReply>> ELSE
  CASE c = "CFUN?" -> <<Line("+CFUN:", IF modem.on THEN 1 ELSE 0, 0), OkReply>>
    [] c = "CGATT?" -> <<Line("+CGATT:", IF modem.attached THEN 1 ELSE 0, 0), OkReply>>
    [] c = "QREGSWT?" -> <<Line("+QREGSWT:", modem.qreg, 0), OkReply>>
    [] c = "CIMI" -> <<Line("imsi", 0, 0), OkReply>>
    [] c = "user" -> <<Line("text", 0, 0), OkReply>>
    [] c = "NSOCR" -> <<Line("number", Lowest(Free), 0), OkReply>>
    [] c = "NSOST" -> <<Line("sent", 0, 0), OkReply>>
    [] c = "NSORF" /\ Waiting(a) > 0 ->
         <<Row(a[1], Waiting(a), modem.inbox[a[1]] - Waiting(a)), OkReply>>
    [] c = "QIOPEN" -> <<OkReply, Line("+QIOPEN:", a, 0)>>
    [] c = "QISENDEX" -> <<Line("SEND OK", 0, 0)>>
    [] c = "QIRD" /\ Waiting(a) > 0 ->
         <<Line("+QIRD:", Waiting(a), 0), Line("raw", Waiting(a), 0), OkReply>>
    [] c = "QIRD" /\ Waiting(a) = 0 -> <<Line("+QIRD:", 0, 0), OkReply>>
    [] OTHER -> <<OkReply>>

Obeyed(c, a) ==
  IF Refused(c, a) THEN modem ELSE
  CASE c = "CFUN" -> [modem EXCEPT !.on = (a = 1), !.attached = @ /\ a = 1]
    [] c \in {"COPS"} \/ (c = "CGATT" /\ a = 1) -> [modem EXCEPT !.seek = TRUE]
    [] c = "CGATT" /\ a # 1 -> [modem EXCEPT !.seek = FALSE, !.attached = FALSE]
    [] c = "QREGSWT" -> [modem EXCEPT !.qreg = a]
    [] c = "NRB" -> [NoModem EXCEPT !.qreg = modem.qreg, !.last = modem.last]
    [] c = "CEREG" -> [modem EXCEPT !.urcs = @ \cup {"+CEREG:"}]
    [] c = "NPSMR" -> [modem EXCEPT !.urcs = @ \cup {"+NPSMR:"}]
    [] c = "CSCON" -> [modem EXCEPT !.urcs = @ \cup {"+CSCON:"}]
    [] c = "NSOCR" -> [modem EXCEPT !.open = @ \cup {Lowest(Free)}]
    [] c = "QIOPEN" -> [modem EXCEPT !.open = @ \cup {a}]
    [] c \in {"NSOCL", "QICLOSE"} -> [modem EXCEPT !.open = @ \ {a}, !.inbox[a] = 0]
    [] c \in {"NSORF", "QIRD"} -> [modem EXCEPT !.inbox[a[1]] = @ - Waiting(a)]
    [] OTHER -> modem

TheModem == UNCHANGED <<wired, filters, task, driver, uses, config, net, ring, deviceId, status>>

\* The modem looks at a command: obeys, refuses, or is not heard of again.
modemAnswers ==
  /\ tx # <<>>
  /\ tx' = Tail(tx)
  /\ LET c == Head(tx)[1]
         a == Head(tx)[2]
     IN  \/ rx' = rx \o Answer(c, a) /\ modem' = Obeyed(c, a)
         \/ "refuse" \in Faults /\ rx' = Append(rx, ErrReply) /\ UNCHANGED modem
         \/ "mute" \in Faults /\ UNCHANGED rx /\ modem' \in {modem, Obeyed(c, a)}
  /\ TheModem

modemRegisters ==
  /\ modem.on /\ modem.seek /\ ~modem.attached
  /\ modem' = [modem EXCEPT !.attached = TRUE]
  /\ TheModem /\ UNCHANGED <<rx, tx>>

(***************************************************************************)
(* A datagram arrives.  BC95: it is in the line, may be longer than the    *)
(* ring, and has no third field as long as NSONMI=3 is not obeyed.  The    *)
(* other modems keep it (BufSize bounds what) and announce it.             *)
(***************************************************************************)
modemReceives ==
  /\ Len(rx) < MaxLines
  /\ \E s \in modem.open, k \in Lens \cup {BufSize + 1} :
       /\ driver = "BC95" \/ modem.inbox[s] + k <= BufSize
       /\ modem' = IF driver = "BC95" THEN modem ELSE [modem EXCEPT !.inbox[s] = @ + k]
       /\ \/ rx' = Append(rx, Line(IF driver = "BG96" THEN "+QIURC:" ELSE "+NSONMI:", s, k))
          \/ driver = "BC95" /\ rx' = Append(rx, Short("+NSONMI:", s, k))
  /\ TheModem /\ UNCHANGED tx

\* All fields of +CEREG: after <stat> are optional.  `last' is the last report
\* with all of its fields.
modemReports ==
  /\ Len(rx) < MaxLines
  /\ \E u \in modem.urcs, v \in {0, 1} :
       \/ modem' = [modem EXCEPT !.last[u] = v] /\ rx' = Append(rx, Line(u, v, 0))
       \/ u = "+CEREG:" /\ UNCHANGED modem /\ rx' = Append(rx, Short(u, v, 0))
  /\ TheModem /\ UNCHANGED tx

----------------------------------------------------------------------------
(* The calls of the application and of the MQTT-SN client                   *)

\* The first configuration counts, complete or not; later ones are refused.
nbiotCoreConfig ==
  /\ ~config /\ task.op = "none"
  /\ \E r, t \in BOOLEAN : wired' = [rx |-> r, tx |-> t]
  /\ config' = TRUE
  /\ UNCHANGED <<rx, tx, filters, task, driver, uses, net, ring, deviceId, status, modem>>

\* MaxLines bounds what may be outstanding when a function is called.
Called(f, a, program, default) ==
  /\ f \in uses /\ Len(rx) + Len(tx) <= MaxLines
  /\ Begin(f, a, program, default)
  /\ UNCHANGED drvVars

nbiotModemRestart ==
  Called("reboot", 0, Pick(rebootBC95, rebootB656, rebootB657, rebootBG96, rebootTools), 0)
nbiotModemInit ==
  Called("initialize", 0, Pick(initializeBC95, initializeB656, initializeB657, initializeBG96,
                               initializeTools), 0)
nbiotAttach ==
  Called("attach", 0, Pick(attachBC95, attachBase, attachBase, attachBG96, attachTools), 0)
nbiotDetach == Called("detach", 0, Old(detachBase, detachTools), 0)
isNbiotAttached ==
  Called("isAttached", 0, Old(getAttachState, getAttachStateTools), -1)
isNbiotModemOn == Called("isModemOn", 0, isModemOn, 0)
nbiotSwitchModem == \E s \in {0, 1} : Called("switchModem", s, switchModem(s), 0)
getNbiotDeviceId == Called("getDeviceId", 0, Old(getDeviceIdBase, getDeviceIdTools), 0)
sendAtCommand == Called("sendAtCommand", 0, Old(sendAtCommandBase, sendAtCommandTools), 0)
installCeregHandler == driver # "tools" /\ Called("cereg", 0, setupCeregUrc, 0)
installPmHandler ==
  /\ driver # "tools"
  /\ Called("pm", 0, IF driver = "BC95" THEN setupPmUrcsBC95 ELSE setupPmUrcsBase, 0)
connectHost == Called("connect", 0, connect, 0)
disconnectHost == Called("disconnect", 0, disconnect, 0)
writeHost == Called("write", 0, write, 0)
\* With a socket or without.  Bound: NbiotConnectivity, which asks the modem in
\* every turn of its loop, reads only if what the modem prints is read.
readHost ==
  /\ driver # "tools" \/ wired.rx
  /\ \E n \in Lens : Called("read", n, read(n), -1)

ApiCall ==
  \/ nbiotModemRestart \/ nbiotModemInit \/ nbiotAttach \/ nbiotDetach \/ isNbiotAttached
  \/ isNbiotModemOn \/ nbiotSwitchModem \/ getNbiotDeviceId \/ sendAtCommand
  \/ installCeregHandler \/ installPmHandler
  \/ connectHost \/ disconnectHost \/ writeHost \/ readHost

AtStep == (sendCommand \/ ReadStep \/ skipStep(Guarded) \/ End) /\ UNCHANGED drvVars

ReadLoop ==
  \/ ipReadStep \/ rowStep \/ rawStep \/ tookStep \/ sumStep \/ moreBytes
  \/ bcLook \/ bcRest \/ saraLook \/ saraRest \/ toolsLook \/ toolsRest
  \/ bgStart \/ bgLook \/ bgRest

HandleUrc ==
  \/ parseFilterResultBC95 \/ parseFilterResultSara \/ parseFilterResultBG96
  \/ parseCeregUrc \/ parseNpsmrUrc \/ parseCsconUrc

DriverStep ==
  \/ AtStep \/ callStep \/ responseStep \/ branchStep \/ forceStep \/ imsiStep
  \/ filterStep \/ openStep \/ qiopenStep \/ bgOpenStep \/ closeStep
  \/ ReadLoop \/ timeUp \/ HandleUrc

Next ==
  \/ nbiotCoreConfig \/ ApiCall \/ DriverStep
  \/ modemAnswers \/ modemRegisters \/ modemReceives \/ modemReports

(***************************************************************************)
(* The thread runs, and every wait of it is bounded by a Timer.  The modem *)
(* gets round to every command, if only to ignore it.                      *)
(***************************************************************************)
Fairness ==
  /\ WF_vars(DriverStep) /\ WF_vars(modemAnswers)
  /\ SF_vars(readTimeout /\ UNCHANGED drvVars)
  /\ SF_vars(timeUp)

Spec == Init /\ [][Next]_vars /\ Fairness
----------------------------------------------------------------------------
(* Properties                                                              *)

(***************************************************************************)
(* BC95: m_bytesAvail never promises more than the ring holds, and no ring *)
(* holds more than it can, over partial reads, datagrams larger than the   *)
(* ring and reconnects, as long as read() has more than readInterval       *)
(* (ShortReads is false).                                                  *)
(***************************************************************************)
AvailWithinRing ==
  /\ ring \in 0 .. BufSize
  /\ (driver = "BC95" /\ ~ShortReads) => net.avail <= ring

(***************************************************************************)
(* A driver function that reports success tells the truth about the modem, *)
(* whatever refusals, silences and unsolicited lines came between: after   *)
(* initialize() the radio is on, after attach() the modem looks for a      *)
(* network, after detach() it is detached, isAttached() and isModemOn()    *)
(* say yes only of such a modem, so does switchModem(MODEM_ON), and        *)
(* connect() has a socket the modem knows.  (`clean': nothing the          *)
(* functions gave up waiting for was still to come, see AtCommands.)       *)
(***************************************************************************)
TruthfulReport ==
  (task.op # "none" /\ task.todo = <<>> /\ task.clean) =>
    CASE task.op = "initialize" -> task.ok => modem.on
      [] task.op = "attach" -> task.ok => modem.seek
      [] task.op = "detach" -> task.ok => ~modem.attached
      [] task.op = "isAttached" -> task.val = 1 => modem.attached
      [] task.op = "isModemOn" -> task.val = 1 => modem.on
      [] task.op = "switchModem" -> (task.arg = 1 /\ task.val = 1) => modem.on
      [] task.op = "reboot" -> task.ok => (driver = "BC95" => modem.qreg = 2)
      [] task.op = "connect" -> task.ok => net.number \in modem.open
      [] OTHER -> TRUE

(***************************************************************************)
(* Between calls, while a Network has a socket, the filter for the         *)
(* datagrams of exactly this socket is installed, also after connect() was *)
(* called again or disconnect() failed: no datagram is taken for an answer.*)
(***************************************************************************)
FilterFollowsSocket ==
  (task.op = "none" /\ net.number >= 0) =>
    /\ net.nsonmi \in filters
    /\ net.nsonmi.n \in {net.number, Any}

(***************************************************************************)
(* read() never returns a byte it did not get from the modem and, except   *)
(* in NbiotConnectivity, never more bytes than it was asked for.           *)
(***************************************************************************)
ReadHonest ==
  (Returned("read") /\ task.clean /\ ~ShortReads) =>
    /\ task.val <= task.data
    /\ driver # "tools" => task.val <= task.arg

\* Every call returns, also when the modem is silent, floods the line or the
\* line is not configured: all waits are bounded by timers.
OperationEnds == task.op # "none" ~> task.op = "none"

(***************************************************************************)
(* Once a status URC has reached the application, the application has the  *)
(* value of the last report the modem printed with all its fields, as soon *)
(* as the lines are read: whichever function reads the line, none is lost  *)
(* to it, none comes out of order, and a +CEREG: line that is short of     *)
(* fields changes nothing.                                                 *)
(***************************************************************************)
Reports(l, u) == l.tag = u /\ l.whole
StatusFollowsModem ==
  \A u \in Urcs :
    (status[u] # Unknown /\ \A i \in DOMAIN rx : ~Reports(rx[i], u)) => status[u] = modem.last[u]

(***************************************************************************)
(* What the format quoted in parseCeregUrc leads one to expect: a report   *)
(* with none of the optional fields is told as well.  Not so, see README.  *)
(***************************************************************************)
EveryReportIsTold == [][parseCeregUrc => status'["+CEREG:"] = Head(rx).n]_vars
=============================================================================

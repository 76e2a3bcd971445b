------------------------- MODULE ModemDriversProofs -------------------------
(***************************************************************************)
(* Proofs about ModemDrivers, for any use of the functions, any faults of  *)
(* the modem, any ring and any counter that can hold it: one lemma per     *)
(* step of the driver functions and per action of the modem for each of    *)
(* the three inductive invariants DriverInv, HonestInv and TruthInv, and   *)
(* the theorems that follow from them.                                     *)
(***************************************************************************)
EXTENDS ModemDriversInvariants, SequenceTheorems, WellFoundedInduction, TLAPS

----------------------------------------------------------------------------
(* Programs                                                                *)

\* What a step of a kind carries.
LEMMA StepIs ==
  ASSUME NEW s \in Steps
  PROVE  /\ s[1] \in {"send", "force"} => s[2] \in Commands
         /\ s[1] \in {"ipRead", "row"} => s[2] \in Int
         /\ s[1] = "until" => s[2] \in Tags
         /\ s[1] = "call" => s[2] \in {"isModemOn", "checkQRegSwt"}
         /\ s[1] \in {"switch", "assign"} => s[2] \in {0, 1}
         /\ s[1] \in {"bcLoop", "copy"} => s[2] \in BOOLEAN
         /\ s[1] = "flush" => s = Flush
         /\ s[1] = "filter" => s = Do("filter")
<1>1. s[1] \in {"send", "force", "ipRead", "row", "until", "call", "switch", "assign", "bcLoop",
                "copy"} => s \notin {Do(k) : k \in Simple}
  <2>1. \A k \in Simple : Do(k)[1] = k
    BY DEF Do
  <2>2. s \in {Do(k) : k \in Simple} => s[1] \in Simple
    BY <2>1
  <2> QED BY <2>2 DEF Simple
<1>2. s[1] \in {"send", "force"} => s[2] \in Commands
  BY <1>1 DEF Steps
<1>3. s[1] \in {"ipRead", "row"} => s[2] \in Int
  BY <1>1 DEF Steps
<1>4. s[1] = "until" => s[2] \in Tags
  BY <1>1 DEF Steps
<1>5. /\ s[1] = "call" => s[2] \in {"isModemOn", "checkQRegSwt"}
      /\ s[1] \in {"switch", "assign"} => s[2] \in {0, 1}
      /\ s[1] \in {"bcLoop", "copy"} => s[2] \in BOOLEAN
  BY <1>1 DEF Steps
<1>6. s[1] \in {"flush", "filter"} => s \in {Do(k) : k \in Simple}
  BY DEF Steps
<1>7. s \in {Do(k) : k \in Simple} => s = Do(s[1])
  <2>1. \A k \in Simple : Do(k)[1] = k
    BY DEF Do
  <2> QED BY <2>1
<1> QED BY <1>2, <1>3, <1>4, <1>5, <1>6, <1>7 DEF Flush, Do

\* The steps the modules AtCommands and ModemDrivers write are Steps.
LEMMA StepsAre ==
  /\ \A k \in Simple : Do(k) \in Steps
  /\ Flush \in Steps /\ ReplyOk \in Steps /\ ReplyAny \in Steps /\ ReplyExact \in Steps
  /\ ReplyCopy \in Steps
  /\ \A t \in Tags : ReadUntil(t) \in Steps
  /\ \A n \in Int : Ip(n) \in Steps /\ <<"row", n>> \in Steps
  /\ \A c \in Names, a \in Int : Send(c, a) \in Steps
  /\ \A c \in {"NSORF", "QIRD"}, k \in Int, n \in Int : Send(c, <<k, n>>) \in Steps
<1>1. \A k \in Simple : Do(k) \in Steps
  BY DEF Steps
<1>2. Flush \in Steps /\ ReplyOk \in Steps /\ ReplyAny \in Steps /\ ReplyExact \in Steps
  BY DEF Steps, Flush, ReplyOk, ReplyAny, ReplyExact, Simple, Do
<1>3. ReplyCopy \in Steps /\ \A t \in Tags : ReadUntil(t) \in Steps
  BY DEF Steps, ReplyCopy, ReadUntil
<1>4. \A n \in Int : Ip(n) \in Steps /\ <<"row", n>> \in Steps
  BY DEF Steps, Ip
<1>5. \A c \in Names, a \in Int : Send(c, a) \in Steps
  BY DEF Steps, Send, Commands
<1>6. \A c \in {"NSORF", "QIRD"}, k \in Int, n \in Int : Send(c, <<k, n>>) \in Steps
  BY DEF Steps, Send, Commands
<1> QED BY <1>1, <1>2, <1>3, <1>4, <1>5, <1>6

\* What may be put in front of the steps that are left.
Front(p, d) ==
  /\ p \in Seq(Steps)
  /\ \A i \in 1..Len(p) : /\ OfDriver(p[i], d) /\ p[i][1] \notin {"open", "bgOpen"}
                          /\ i # 1 => p[i][1] \notin {"bcRest", "bcLoop"}

\* What is left of a proper program is proper.
LEMMA RestProper ==
  ASSUME NEW t, NEW d, Proper(t, d), t # <<>>
  PROVE  /\ Proper(Tail(t), d) /\ t \in Seq(Steps) /\ Head(t) \in Steps /\ OfDriver(Head(t), d)
         /\ Tail(t) # <<>> => Head(Tail(t))[1] \notin {"bcRest", "bcLoop"}
         /\ Head(t)[1] \in {"open", "bgOpen"} => Tail(t) = <<Flush, Do("filter")>>
<1> DEFINE v == Tail(t)
<1>1. t \in Seq(Steps) /\ Len(t) \in Nat /\ Len(t) >= 1 /\ Head(t) = t[1] /\ Head(t) \in Steps
      /\ 1 \in 1..Len(t)
  BY DEF Proper
<1>2. v \in Seq(Steps) /\ Len(v) = Len(t) - 1 /\ \A i \in 1..Len(v) : v[i] = t[i + 1]
  BY <1>1
<1>3. v # <<>> => Head(v) = v[1] /\ 1 \in 1..Len(v) /\ 2 \in 1..Len(t)
  BY <1>1, <1>2
<1> HIDE DEF v
<1>4. \A i \in 1..Len(v) : i + 1 \in 1..Len(t) /\ i + 1 # 1
  BY <1>1, <1>2
<1>5. \A i \in 1..Len(v) :
        /\ OfDriver(v[i], d)
        /\ v[i][1] \notin {"bcRest", "bcLoop"}
  BY <1>2, <1>4 DEF Proper
<1>6. \A i \in 1..Len(v) : v[i][1] \in {"open", "bgOpen"} =>
            i + 2 = Len(v) /\ v[i + 1] = Flush /\ v[i + 2] = Do("filter")
  <2>1. SUFFICES ASSUME NEW i \in 1..Len(v), v[i][1] \in {"open", "bgOpen"}
                 PROVE  i + 2 = Len(v) /\ v[i + 1] = Flush /\ v[i + 2] = Do("filter")
    OBVIOUS
  <2>2. t[i + 1][1] \in {"open", "bgOpen"} /\ i + 1 \in 1..Len(t)
    BY <1>2, <1>4, <2>1
  <2>3. (i + 1) + 2 = Len(t) /\ t[(i + 1) + 1] = Flush /\ t[(i + 1) + 2] = Do("filter")
    BY <2>2 DEF Proper
  <2>4. i + 1 \in 1..Len(v) /\ i + 2 \in 1..Len(v) /\ i + 2 = Len(v)
    BY <1>1, <1>2, <2>3
  <2> QED BY <1>2, <2>3, <2>4
<1>7. Proper(v, d)
  BY <1>2, <1>5, <1>6 DEF Proper
<1>8. ASSUME Head(t)[1] \in {"open", "bgOpen"}
      PROVE  v = <<Flush, Do("filter")>>
  <2>0. 1 + 2 = Len(t) /\ t[1 + 1] = Flush /\ t[1 + 2] = Do("filter")
    BY <1>1, <1>8 DEF Proper
  <2>1. Len(t) = 3 /\ t[2] = Flush /\ t[3] = Do("filter")
    BY <2>0
  <2>2. Len(v) = 2 /\ v[1] = Flush /\ v[2] = Do("filter")
    BY <1>2, <2>1
  <2> QED BY <1>2, <2>2
<1> QED BY <1>1, <1>3, <1>5, <1>7, <1>8 DEF Proper, v

\* A proper program stays proper with a Front put before what is left.
LEMMA PushProper ==
  ASSUME NEW t, NEW d, Proper(t, d), t # <<>>, NEW p, Front(p, d)
  PROVE  /\ Proper(p \o Tail(t), d)
         /\ p # <<>> => p \o Tail(t) # <<>> /\ Head(p \o Tail(t)) = p[1]
<1> DEFINE v == Tail(t)
           w == p \o v
           m == Len(p)
           n == Len(v)
<1>1. Proper(v, d) /\ v \in Seq(Steps) /\ p \in Seq(Steps)
      /\ (v # <<>> => Head(v)[1] \notin {"bcRest", "bcLoop"})
  BY RestProper DEF Proper, Front
<1> HIDE DEF v
<1>2. /\ w \in Seq(Steps) /\ Len(w) = Len(p) + Len(v)
      /\ \A i \in 1..Len(p) + Len(v) : w[i] = IF i <= Len(p) THEN p[i] ELSE v[i - Len(p)]
  <2>1. p \in Seq(Steps) /\ v \in Seq(Steps)
    BY <1>1
  <2> QED BY <2>1, ConcatProperties, Zenon
<1>3. m \in Nat /\ n \in Nat /\ (p # <<>> => m >= 1)
  BY <1>1
<1> HIDE DEF w
<1>4. \A i \in 1..Len(w) : \/ i \in 1..m /\ w[i] = p[i]
                           \/ i - m \in 1..n /\ w[i] = v[i - m]
  BY <1>2, <1>3
<1>5. \A i \in 1..n : v[i][1] \notin {"bcRest", "bcLoop"}
  <2>1. SUFFICES ASSUME NEW i \in 1..n PROVE v[i][1] \notin {"bcRest", "bcLoop"}
    OBVIOUS
  <2>2. CASE i = 1
    <3>1. v # <<>> /\ v[1] = Head(v)
      BY <1>1, <2>1, <2>2
    <3> QED BY <1>1, <2>2, <3>1
  <2>3. CASE i # 1
    BY <1>1, <2>3 DEF Proper
  <2> QED BY <2>2, <2>3
<1>6. \A i \in 1..Len(w) : OfDriver(w[i], d) /\ (i # 1 => w[i][1] \notin {"bcRest", "bcLoop"})
  BY <1>1, <1>4, <1>5 DEF Proper, Front
<1>7. \A i \in 1..Len(w) : w[i][1] \in {"open", "bgOpen"} =>
            i + 2 = Len(w) /\ w[i + 1] = Flush /\ w[i + 2] = Do("filter")
  <2>1. SUFFICES ASSUME NEW i \in 1..Len(w), w[i][1] \in {"open", "bgOpen"}
                 PROVE  i + 2 = Len(w) /\ w[i + 1] = Flush /\ w[i + 2] = Do("filter")
    OBVIOUS
  <2>2. i - m \in 1..n /\ w[i] = v[i - m]
    BY <1>4, <2>1 DEF Front
  <2>3. (i - m) + 2 = n /\ v[(i - m) + 1] = Flush /\ v[(i - m) + 2] = Do("filter")
    BY <1>1, <2>1, <2>2 DEF Proper
  <2>4. /\ i + 1 \in 1..m + n /\ ~(i + 1 <= m) /\ (i + 1) - m = (i - m) + 1
        /\ i + 2 \in 1..m + n /\ ~(i + 2 <= m) /\ (i + 2) - m = (i - m) + 2
        /\ i + 2 = Len(w)
    BY <1>2, <1>3, <2>1, <2>2, <2>3
  <2> QED BY <1>2, <2>3, <2>4
<1>8. Proper(w, d)
  BY <1>2, <1>6, <1>7 DEF Proper
<1>9. p # <<>> => w # <<>> /\ Head(w) = p[1]
  <2>1. SUFFICES ASSUME p # <<>> PROVE w # <<>> /\ Head(w) = p[1]
    OBVIOUS
  <2>2. 1 \in 1..m + n /\ 1 <= m /\ Len(w) # 0
    BY <1>2, <1>3, <2>1
  <2>3. w[1] = p[1]
    BY <1>2, <2>2
  <2>4. w # <<>>
    BY <2>2
  <2> QED BY <1>2, <2>3, <2>4
<1> QED BY <1>8, <1>9 DEF w, v

\* Steps that may stand anywhere.
Special == {"row", "bgTook", "bgStart", "bgLoop", "bgLook", "bgRest", "open", "bgOpen", "bcRest",
            "bcLoop"}
Calm == {s \in Steps : s[1] \notin Special}

\* A program of calm steps is proper for every driver.
LEMMA CalmProper ==
  ASSUME NEW p \in Seq(Calm), NEW d
  PROVE  Front(p, d) /\ Proper(p, d)
<1>1. p \in Seq(Steps) /\ \A i \in 1..Len(p) : p[i][1] \notin Special
  <2>1. \A i \in 1..Len(p) : p[i] \in Calm
    OBVIOUS
  <2>2. \A s \in Calm : s \in Steps /\ s[1] \notin Special
    BY DEF Calm
  <2> QED BY <2>1, <2>2
<1> QED BY <1>1 DEF Front, Proper, OfDriver, Special

\* Which steps are calm.
LEMMA CalmSteps ==
  /\ \A k \in Simple : k \notin Special => Do(k) \in Calm
  /\ Flush \in Calm /\ ReplyOk \in Calm /\ ReplyAny \in Calm /\ ReplyExact \in Calm
  /\ ReplyCopy \in Calm /\ <<"confirm", "">> \in Calm /\ <<"copy", TRUE>> \in Calm
  /\ <<"qiopen", "">> \in Calm
  /\ \A t \in Tags : ReadUntil(t) \in Calm
  /\ \A n \in Int : Ip(n) \in Calm
  /\ \A c \in Names, a \in Int : Send(c, a) \in Calm /\ <<"force", <<c, a>>>> \in Calm
  /\ \A c \in {"NSORF", "QIRD"}, k \in Int, n \in Int : Send(c, <<k, n>>) \in Calm
  /\ \A f \in {"isModemOn", "checkQRegSwt"} : Call(f) \in Calm
  /\ \A v \in {0, 1} : <<"switch", v>> \in Calm /\ <<"assign", v>> \in Calm
<1>1. \A k \in Simple : k \notin Special => Do(k) \in Calm
  <2>1. \A k \in Simple : Do(k)[1] = k
    BY DEF Do
  <2> QED BY <2>1, StepsAre DEF Calm
<1>2. /\ Flush = Do("flush") /\ ReplyOk = Do("ok") /\ ReplyAny = Do("any")
      /\ ReplyExact = Do("exact") /\ <<"confirm", "">> = Do("confirm")
      /\ <<"qiopen", "">> = Do("qiopen")
  BY DEF Flush, ReplyOk, ReplyAny, ReplyExact, Do
<1>3. \A k \in {"flush", "ok", "any", "exact", "confirm", "qiopen"} : Do(k) \in Calm
  BY <1>1 DEF Simple, Special
<1>4. ReplyCopy \in Calm /\ <<"copy", TRUE>> \in Calm
  <2>1. <<"copy", TRUE>> \in Steps /\ <<"copy", TRUE>>[1] = "copy"
    BY DEF Steps
  <2>2. ReplyCopy \in Steps /\ ReplyCopy[1] = "copy"
    BY StepsAre DEF ReplyCopy
  <2> QED BY <2>1, <2>2 DEF Calm, Special
<1>5. \A t \in Tags : ReadUntil(t) \in Calm
  <2>1. \A t \in Tags : ReadUntil(t) \in Steps /\ ReadUntil(t)[1] = "until"
    BY StepsAre DEF ReadUntil
  <2> QED BY <2>1 DEF Calm, Special
<1>6. \A n \in Int : Ip(n) \in Calm
  <2>1. \A n \in Int : Ip(n) \in Steps /\ Ip(n)[1] = "ipRead"
    BY StepsAre DEF Ip
  <2> QED BY <2>1 DEF Calm, Special
<1>7. \A c \in Names, a \in Int : Send(c, a) \in Calm
  <2>1. \A c \in Names, a \in Int : Send(c, a) \in Steps /\ Send(c, a)[1] = "send"
    BY StepsAre DEF Send
  <2> QED BY <2>1 DEF Calm, Special
<1>8. \A c \in Names, a \in Int : <<"force", <<c, a>>>> \in Calm
  <2>1. \A c \in Names, a \in Int :
          <<"force", <<c, a>>>> \in Steps /\ <<"force", <<c, a>>>>[1] = "force"
    BY DEF Steps, Commands
  <2> QED BY <2>1 DEF Calm, Special
<1>9. \A c \in {"NSORF", "QIRD"}, k \in Int, n \in Int : Send(c, <<k, n>>) \in Calm
  <2>1. \A c \in {"NSORF", "QIRD"}, k \in Int, n \in Int :
          Send(c, <<k, n>>) \in Steps /\ Send(c, <<k, n>>)[1] = "send"
    BY StepsAre DEF Send
  <2> QED BY <2>1 DEF Calm, Special
<1>10. \A f \in {"isModemOn", "checkQRegSwt"} : Call(f) \in Calm
  <2>1. \A f \in {"isModemOn", "checkQRegSwt"} : Call(f) \in Steps /\ Call(f)[1] = "call"
    BY DEF Call, Steps
  <2> QED BY <2>1 DEF Calm, Special
<1>11. \A v \in {0, 1} : <<"switch", v>> \in Calm /\ <<"assign", v>> \in Calm
  <2>1. \A v \in {0, 1} : <<"switch", v>> \in Steps /\ <<"assign", v>> \in Steps
    BY DEF Steps
  <2>2. \A v \in {0, 1} : <<"switch", v>>[1] = "switch" /\ <<"assign", v>>[1] = "assign"
    OBVIOUS
  <2> QED BY <2>1, <2>2 DEF Calm, Special
<1> QED BY <1>1, <1>2, <1>3, <1>4, <1>5, <1>6, <1>7, <1>8, <1>9, <1>10, <1>11

\* The steps the drivers' functions are written with.
LEMMA Vocabulary ==
  /\ \A k \in {"number", "onOff", "afterColon", "requireOn", "requireOff", "again", "fail",
               "qregswt", "turnOff", "imsi", "fits", "ceregFilter", "pmFilter", "filter", "close",
               "sendOk", "raw", "took", "sum", "bcLook", "saraLoop", "saraLook", "saraRest",
               "toolsLoop", "toolsLook", "toolsRest"} : Do(k) \in Calm
  /\ \A t \in {"OK", "+QREGSWT:", "+CGATT:", "+CFUN:", "+QIRD:"} : ReadUntil(t) \in Calm
  /\ \A c \in Names, a \in Int : Send(c, a) \in Calm
  /\ \A n \in Int : Ip(n) \in Calm
  /\ Flush \in Calm /\ ReplyOk \in Calm /\ ReplyAny \in Calm /\ ReplyExact \in Calm
  /\ ReplyCopy \in Calm
  /\ \A f \in {"isModemOn", "checkQRegSwt"} : Call(f) \in Calm
<1>1. \A k \in {"number", "onOff", "afterColon", "requireOn", "requireOff", "again", "fail",
                "qregswt", "turnOff", "imsi", "fits", "ceregFilter", "pmFilter", "filter", "close",
                "sendOk", "raw", "took", "sum", "bcLook", "saraLoop", "saraLook", "saraRest",
                "toolsLoop", "toolsLook", "toolsRest"} : k \in Simple /\ k \notin Special
  BY DEF Simple, Special
<1>2. \A t \in {"OK", "+QREGSWT:", "+CGATT:", "+CFUN:", "+QIRD:"} : t \in Tags
  BY DEF Tags
<1> QED BY <1>1, <1>2, CalmSteps

\* The functions that open no socket and read no datagram.
LEMMA CalmPrograms ==
  /\ checkQRegSwt \in Seq(Calm) /\ setQRegSwt2 \in Seq(Calm)
  /\ rebootBC95 \in Seq(Calm) /\ rebootB656 \in Seq(Calm) /\ rebootB657 \in Seq(Calm)
  /\ rebootBG96 \in Seq(Calm) /\ rebootTools \in Seq(Calm)
  /\ initializeBC95 \in Seq(Calm) /\ initializeB656 \in Seq(Calm) /\ initializeB657 \in Seq(Calm)
  /\ initializeBG96 \in Seq(Calm) /\ initializeTools \in Seq(Calm)
  /\ attachBase \in Seq(Calm) /\ attachBC95 \in Seq(Calm) /\ attachBG96 \in Seq(Calm)
  /\ attachTools \in Seq(Calm) /\ detachBase \in Seq(Calm) /\ detachTools \in Seq(Calm)
  /\ getAttachState \in Seq(Calm) /\ getAttachStateTools \in Seq(Calm)
  /\ isModemOnBase \in Seq(Calm) /\ isModemOnTools \in Seq(Calm)
  /\ \A s \in {0, 1} : switchModemBase(s) \in Seq(Calm) /\ switchModemTools(s) \in Seq(Calm)
  /\ getDeviceIdBase \in Seq(Calm) /\ getDeviceIdTools \in Seq(Calm)
  /\ sendAtCommandBase \in Seq(Calm) /\ sendAtCommandTools \in Seq(Calm)
  /\ setupCeregUrc \in Seq(Calm) /\ setupPmUrcsBase \in Seq(Calm) /\ setupPmUrcsBC95 \in Seq(Calm)
<1>1. {"CFUN", "CFUN?", "CGATT", "CGATT?", "QREGSWT", "QREGSWT?", "NRB", "ATE0", "NSONMI",
       "CEDRXS", "CGDCONT", "COPS", "CIMI", "user", "CEREG", "NPSMR", "CSCON"} \subseteq Names
  BY DEF Names
<1>2. checkQRegSwt \in Seq(Calm) /\ setQRegSwt2 \in Seq(Calm)
  BY <1>1, Vocabulary DEF checkQRegSwt, setQRegSwt2
<1>3. rebootBC95 \in Seq(Calm)
  <2>1. <<"force", <<"NRB", 0>>>> \in Calm
    <3>1. "NRB" \in Names /\ 0 \in Int
      BY <1>1
    <3> QED BY <3>1, CalmSteps, Zenon
  <2> QED BY <2>1, Vocabulary DEF rebootBC95
<1>4. rebootB656 \in Seq(Calm) /\ rebootB657 \in Seq(Calm) /\ rebootTools \in Seq(Calm)
  BY <1>1, Vocabulary DEF rebootB656, rebootB657, rebootTools
<1>5. rebootBG96 \in Seq(Calm)
  BY <1>1, Vocabulary DEF rebootBG96
<1>6. initializeBC95 \in Seq(Calm)
  BY <1>1, Vocabulary DEF initializeBC95
<1>7. initializeB656 \in Seq(Calm) /\ initializeB657 \in Seq(Calm)
  BY <1>1, Vocabulary DEF initializeB656, initializeB657
<1>8. initializeBG96 \in Seq(Calm) /\ initializeTools \in Seq(Calm)
  BY <1>1, Vocabulary DEF initializeBG96, initializeTools
<1>9. attachBase \in Seq(Calm) /\ attachBC95 \in Seq(Calm) /\ attachBG96 \in Seq(Calm)
      /\ attachTools \in Seq(Calm) /\ detachBase \in Seq(Calm) /\ detachTools \in Seq(Calm)
  BY <1>1, Vocabulary DEF attachBase, attachBC95, attachBG96, attachTools, detachBase,
     detachTools
<1>10. getAttachState \in Seq(Calm) /\ getAttachStateTools \in Seq(Calm)
       /\ isModemOnBase \in Seq(Calm) /\ isModemOnTools \in Seq(Calm)
  BY <1>1, Vocabulary DEF getAttachState, getAttachStateTools, isModemOnBase,
     isModemOnTools
<1>11. \A s \in {0, 1} : switchModemBase(s) \in Seq(Calm) /\ switchModemTools(s) \in Seq(Calm)
  <2>1. \A s \in {0, 1} : Call("isModemOn") \in Calm /\ <<"switch", s>> \in Calm
    BY CalmSteps
  <2> QED BY <2>1 DEF switchModemBase, switchModemTools
<1>12. getDeviceIdBase \in Seq(Calm) /\ getDeviceIdTools \in Seq(Calm)
  <2>1. getImsiBase \in Seq(Calm) /\ getImsiTools \in Seq(Calm)
    BY <1>1, Vocabulary DEF getImsiBase, getImsiTools
  <2>2. <<>> \in Seq(Calm)
    OBVIOUS
  <2> QED BY <2>1, <2>2 DEF getDeviceIdBase, getDeviceIdTools
<1>13. sendAtCommandBase \in Seq(Calm) /\ sendAtCommandTools \in Seq(Calm)
  BY <1>1, Vocabulary DEF sendAtCommandBase, sendAtCommandTools
<1>14. setupCeregUrc \in Seq(Calm) /\ setupPmUrcsBase \in Seq(Calm) /\ setupPmUrcsBC95 \in Seq(Calm)
  BY <1>1, Vocabulary DEF setupCeregUrc, setupPmUrcsBase, setupPmUrcsBC95
<1> QED BY <1>2, <1>3, <1>4, <1>5, <1>6, <1>7, <1>8, <1>9, <1>10, <1>11, <1>12, <1>13, <1>14

\* The functions of the Network classes.
LEMMA NetPrograms ==
  ASSUME NEW d \in {"BC95", "B656", "B657", "BG96", "tools"}, net.number \in Int
  PROVE  /\ Proper(connectNsocr, d) /\ Proper(connectBG96, d)
         /\ disconnectNsocl \in Seq(Calm) /\ disconnectBG96 \in Seq(Calm)
         /\ writeNsost \in Seq(Calm) /\ writeBG96 \in Seq(Calm)
         /\ Proper(readBC95, d) /\ readTools \in Seq(Calm)
         /\ \A n \in Int : readSara(n) \in Seq(Calm)
         /\ Proper(readBG96, "BG96")
         /\ Head(readBC95) = <<"bcLoop", TRUE>> /\ readBC95 # <<>>
<1>1. {"NSOCR", "QIOPEN", "NSOCL", "QICLOSE", "NSOST", "QISENDEX"} \subseteq Names
  BY DEF Names
<1>2. Proper(connectNsocr, d)
  <2>1. Send("NSOCR", 0) \in Calm /\ ReplyAny \in Calm /\ Flush \in Calm /\ Do("filter") \in Calm
    BY <1>1, Vocabulary
  <2>2. Do("open") \in Steps
    BY StepsAre DEF Simple
  <2>3. /\ Send("NSOCR", 0)[1] = "send" /\ ReplyAny[1] = "any" /\ Flush[1] = "flush"
        /\ Do("filter")[1] = "filter" /\ Do("open")[1] = "open"
    BY DEF Send, ReplyAny, Flush, Do
  <2>4. connectNsocr = <<Send("NSOCR", 0), ReplyAny, Do("open"), Flush, Do("filter")>>
    BY DEF connectNsocr
  <2>5. /\ Send("NSOCR", 0) \in Steps /\ ReplyAny \in Steps /\ Flush \in Steps
        /\ Do("filter") \in Steps
    BY <2>1 DEF Calm
  <2> QED BY <2>2, <2>3, <2>4, <2>5 DEF Proper, OfDriver
<1>3. Proper(connectBG96, d)
  <2> DEFINE a == net.number + 1
  <2>1. /\ Send("QIOPEN", a) \in Steps /\ ReplyOk \in Steps /\ Flush \in Steps
        /\ <<"qiopen", "">> \in Steps /\ Do("filter") \in Steps /\ Do("bgOpen") \in Steps
    <3>1. a \in Int
      OBVIOUS
    <3>2. Send("QIOPEN", a) \in Steps
      BY <1>1, <3>1, StepsAre
    <3>3. <<"qiopen", "">> = Do("qiopen")
      BY DEF Do
    <3> QED BY <3>2, <3>3, StepsAre DEF Simple
  <2>2. /\ Send("QIOPEN", a)[1] = "send" /\ ReplyOk[1] = "ok" /\ Flush[1] = "flush"
        /\ <<"qiopen", "">>[1] = "qiopen" /\ Do("filter")[1] = "filter"
        /\ Do("bgOpen")[1] = "bgOpen"
    BY DEF Send, ReplyOk, Flush, Do
  <2>3. connectBG96 = <<Send("QIOPEN", a), ReplyOk, <<"qiopen", "">>, Do("bgOpen"), Flush,
                        Do("filter")>>
    BY DEF connectBG96
  <2> HIDE DEF a
  <2> DEFINE s == Send("QIOPEN", a)
             q == <<"qiopen", "">>
  <2>4. /\ s \in Steps /\ q \in Steps /\ s[1] = "send" /\ q[1] = "qiopen"
        /\ connectBG96 = <<s, ReplyOk, q, Do("bgOpen"), Flush, Do("filter")>>
    BY <2>1, <2>2, <2>3
  <2> HIDE DEF s, q
  <2>5. /\ connectBG96 \in Seq(Steps) /\ Len(connectBG96) = 6 /\ connectBG96[1][1] = "send"
        /\ connectBG96[2][1] = "ok" /\ connectBG96[3][1] = "qiopen"
        /\ connectBG96[4][1] = "bgOpen" /\ connectBG96[5] = Flush
        /\ connectBG96[6] = Do("filter")
    <3>1. connectBG96 \in Seq(Steps)
      <4>1. ReplyOk \in Steps /\ Flush \in Steps /\ Do("filter") \in Steps /\ Do("bgOpen") \in Steps
        BY <2>1
      <4> QED BY <2>4, <4>1
    <3>2. /\ Len(connectBG96) = 6 /\ connectBG96[1] = s /\ connectBG96[2] = ReplyOk
          /\ connectBG96[3] = q /\ connectBG96[4] = Do("bgOpen") /\ connectBG96[5] = Flush
          /\ connectBG96[6] = Do("filter")
      BY <2>4
    <3> QED BY <2>2, <2>4, <3>1, <3>2
  <2>6. \A i \in 1..6 : i \in {1, 2, 3, 4, 5, 6}
    OBVIOUS
  <2> QED BY <2>2, <2>5, <2>6 DEF Proper, OfDriver
<1>4. disconnectNsocl \in Seq(Calm) /\ disconnectBG96 \in Seq(Calm)
  <2>1. <<Do("close"), Flush>> \in Seq(Calm)
    BY Vocabulary
  <2>2. \A c \in {"NSOCL", "QICLOSE"} : IfOpen(c) \in Seq(Calm)
    BY <1>1, Vocabulary DEF IfOpen
  <2>3. \A p, q \in Seq(Calm) : p \o q \in Seq(Calm)
    OBVIOUS
  <2> QED BY <2>1, <2>2, <2>3 DEF disconnectNsocl, disconnectBG96
<1>5. writeNsost \in Seq(Calm) /\ writeBG96 \in Seq(Calm)
  <2>1. /\ <<Do("fail"), Flush>> \in Seq(Calm)
        /\ <<Send("NSOST", net.number), ReplyAny, Flush>> \in Seq(Calm)
        /\ <<Send("QISENDEX", net.number), ReplyExact, Do("sendOk"), Flush>> \in Seq(Calm)
    BY <1>1, Vocabulary
  <2> QED BY <2>1 DEF writeNsost, writeBG96
<1>6. readTools \in Seq(Calm) /\ \A n \in Int : readSara(n) \in Seq(Calm)
  BY Vocabulary DEF readTools, readSara
<1>7. Proper(readBC95, d) /\ Head(readBC95) = <<"bcLoop", TRUE>> /\ readBC95 # <<>>
  <2> DEFINE s == <<"bcLoop", TRUE>>
  <2>1. s \in Steps /\ s[1] = "bcLoop"
    BY DEF Steps
  <2>2. readBC95 = <<s>>
    BY DEF readBC95
  <2> HIDE DEF s
  <2>3. Proper(readBC95, d) /\ Head(readBC95) = s /\ readBC95 # <<>>
    BY <2>1, <2>2 DEF Proper, OfDriver
  <2> QED BY <2>3 DEF s
<1>8. Proper(readBG96, "BG96")
  <2>1. Do("bgStart") \in Steps /\ Do("bgLoop") \in Steps
    BY StepsAre DEF Simple
  <2>2. Do("bgStart")[1] = "bgStart" /\ Do("bgLoop")[1] = "bgLoop"
    BY DEF Do
  <2> QED BY <2>1, <2>2 DEF readBG96, Proper, OfDriver
<1> QED BY <1>2, <1>3, <1>4, <1>5, <1>6, <1>7, <1>8

\* What ipRead() puts in front, and the loops around it.
LEMMA ReadFronts ==
  ASSUME NEW d, net.number \in Int, NEW n \in Int
  PROVE  /\ d # "BC95" => Front(ipReadNsorf(n), d)
         /\ ipReadBG96(n) \in Seq(Calm)
         /\ Front(<<Flush, Do("bcLook")>>, d) /\ Front(<<Do("bcRest")>>, d)
         /\ Front(<<<<"bcLoop", FALSE>>>>, d)
         /\ d = "BG96" => /\ Front(<<Ip(n), Do("bgTook")>>, d) /\ Front(<<Do("bgLoop")>>, d)
                          /\ Front(<<Do("bgRest")>>, d)
                          /\ Front(<<Ip(n), Do("bgTook"), Do("bgLoop")>>, d)
                          /\ Front(<<Flush, Do("bgLook")>>, d)
<1>1. Send("NSORF", <<net.number, n>>) \in Steps /\ Send("NSORF", <<net.number, n>>)[1] = "send"
      /\ <<"row", n>> \in Steps /\ Ip(n) \in Steps /\ Ip(n)[1] = "ipRead"
  BY StepsAre DEF Send, Ip
<1>2. Send("QIRD", <<net.number, n>>) \in Calm
  BY CalmSteps, Zenon
<1>3. /\ \A k \in {"bcLook", "bcRest", "bgTook", "bgLoop", "bgLook", "bgRest"} : Do(k) \in Steps /\ Do(k)[1] = k
      /\ Flush \in Steps /\ Flush[1] = "flush" /\ ReplyAny \in Steps /\ ReplyAny[1] = "any"
  BY StepsAre DEF Simple, Do, Flush, ReplyAny
<1>4. d # "BC95" => Front(ipReadNsorf(n), d)
  <2> DEFINE c == Send("NSORF", <<net.number, n>>)
             r == <<"row", n>>
  <2>1. c \in Steps /\ c[1] = "send" /\ r \in Steps /\ r[1] = "row"
    BY <1>1
  <2>2. ipReadNsorf(n) = <<c, ReplyAny, r, Flush>>
    BY DEF ipReadNsorf
  <2> HIDE DEF c, r
  <2> QED BY <1>3, <2>1, <2>2 DEF Front, OfDriver
<1>5. ipReadBG96(n) \in Seq(Calm)
  <2>1. ReadUntil("+QIRD:") \in Calm /\ Do("raw") \in Calm /\ Flush \in Calm
    BY Vocabulary
  <2> QED BY <1>2, <2>1 DEF ipReadBG96
<1>6. Front(<<Flush, Do("bcLook")>>, d) /\ Front(<<Do("bcRest")>>, d)
  BY <1>3 DEF Front, OfDriver
<1>7. Front(<<<<"bcLoop", FALSE>>>>, d)
  <2> DEFINE s == <<"bcLoop", FALSE>>
  <2>1. s \in Steps /\ s[1] = "bcLoop"
    BY DEF Steps
  <2> HIDE DEF s
  <2>2. Front(<<s>>, d)
    BY <2>1 DEF Front, OfDriver
  <2> QED BY <2>2 DEF s
<1>8. d = "BG96" => /\ Front(<<Ip(n), Do("bgTook")>>, d) /\ Front(<<Do("bgLoop")>>, d)
                    /\ Front(<<Do("bgRest")>>, d)
                    /\ Front(<<Ip(n), Do("bgTook"), Do("bgLoop")>>, d)
                    /\ Front(<<Flush, Do("bgLook")>>, d)
  BY <1>1, <1>3 DEF Front, OfDriver
<1> QED BY <1>4, <1>5, <1>6, <1>7, <1>8

----------------------------------------------------------------------------
(* What the steps have in common                                           *)

\* The function goes on with what is left, or with more in front of it.
Continues ==
  /\ task.todo # <<>> /\ task' \in TaskType /\ task'.op = task.op
  /\ \/ task'.todo = Rest
     \/ \E p : Front(p, driver) /\ task'.todo = p \o Rest

\* TaskInv is kept when a function goes on.
LEMMA ContinuesTask ==
  ASSUME TaskInv, Continues, UNCHANGED <<wired, driver>>
  PROVE  TaskInv'
<1>1. Proper(task.todo, driver) /\ task.todo # <<>> /\ Rest = Tail(task.todo)
  BY DEF TaskInv, Continues, Rest
<1>2. Proper(task'.todo, driver)
  <2>1. CASE task'.todo = Rest
    BY <1>1, <2>1, RestProper
  <2>2. CASE \E p : Front(p, driver) /\ task'.todo = p \o Rest
    BY <1>1, <2>2, PushProper
  <2> QED BY <2>1, <2>2 DEF Continues
<1>3. task.op # "none" /\ task'.op = task.op /\ task' \in TaskType
  BY <1>1 DEF TaskInv, Continues
<1>4. Proper(task.todo, driver)'
  BY <1>2
<1> QED BY <1>3, <1>4 DEF TaskInv

\* Neither the step that installs a filter, nor one that leads to a place
\* where BC95's read() leaves its loop.
Walks ==
  /\ Continues
  /\ Step[1] # "filter"
  /\ Step[1] = "flush" => task'.todo = Rest /\ task'.ok = task.ok
  /\ task'.todo # <<>> => Head(task'.todo)[1] \notin {"bcRest", "bcLoop"}

\* A step is taken and the rest is left.
LEMMA WalksOn ==
  ASSUME TaskInv, task.todo # <<>>, Step[1] # "filter", task' \in TaskType,
         task'.op = task.op, task'.todo = Rest, Step[1] = "flush" => task'.ok = task.ok
  PROVE  Walks
<1>1. Rest # <<>> => Head(Rest)[1] \notin {"bcRest", "bcLoop"}
  BY RestProper DEF TaskInv, Rest
<1> QED BY <1>1 DEF Walks, Continues

\* A step is taken, and others come before the rest.
LEMMA WalksTo ==
  ASSUME TaskInv, task.todo # <<>>, Step[1] \notin {"filter", "flush"}, task' \in TaskType,
         task'.op = task.op, NEW p, Front(p, driver), p # <<>>,
         p[1][1] \notin {"bcRest", "bcLoop"}, task'.todo = p \o Rest
  PROVE  Walks
<1>1. Head(p \o Rest) = p[1]
  BY PushProper DEF TaskInv, Rest
<1> QED BY <1>1 DEF Walks, Continues

\* Away from the ends of BC95's read() loop.
LEMMA CountChanged ==
  ASSUME DriverInv, Continues, UNCHANGED <<wired, driver>>, net' \in NetType,
         task'.todo # <<>> => Head(task'.todo)[1] \notin {"bcRest", "bcLoop"},
         ring' \in 0..BufSize, driver = "BC95" /\ ~ShortReads => net'.avail \in 0..ring'
  PROVE  (TaskInv /\ NetInv /\ AvailInv)'
<1>1. TaskInv'
  BY ContinuesTask DEF DriverInv
<1>2. NetInv'
  BY DEF NetInv
<1>3. AvailInv'
  <2>1. ~At("bcRest")' /\ ~At("bcLoop")'
    BY DEF At, Step
  <2> QED BY <2>1 DEF AvailInv
<1> QED BY <1>1, <1>2, <1>3

\* The same when BC95's count does not change.
LEMMA CountKept ==
  ASSUME DriverInv, Continues, UNCHANGED <<wired, driver>>, net' \in NetType,
         task'.todo # <<>> => Head(task'.todo)[1] \notin {"bcRest", "bcLoop"},
         driver = "BC95" => net'.avail = net.avail /\ ring' >= ring, ring' \in 0..BufSize
  PROVE  (TaskInv /\ NetInv /\ AvailInv)'
<1>1. ASSUME driver = "BC95", ~ShortReads PROVE net'.avail \in 0..ring'
  <2>1. net.avail \in 0..ring /\ ring \in 0..BufSize /\ net'.avail = net.avail /\ ring' >= ring
    BY <1>1 DEF DriverInv, AvailInv
  <2> QED BY <2>1, DriverAssumption
<1> QED BY <1>1, CountChanged

\* The socket and its filter stay, and BC95's count.
SameNet ==
  /\ net' \in NetType /\ net'.number = net.number /\ net'.nsonmi = net.nsonmi
  /\ driver = "BC95" => net'.avail = net.avail

\* A walking step keeps socket, filter and count.
LEMMA WalksKeep ==
  ASSUME DriverInv, Walks, SameNet, UNCHANGED <<wired, driver>>, filters \subseteq filters',
         ring' \in 0..BufSize, driver = "BC95" => ring' >= ring
  PROVE  (TaskInv /\ NetInv /\ AvailInv /\ SocketInv)'
<1>1. (TaskInv /\ NetInv /\ AvailInv)'
  BY CountKept DEF Walks, SameNet
<1>4. SocketInv'
  <2>1. SUFFICES ASSUME net.number >= 0, ~HasFilter PROVE Installs'
    BY DEF SocketInv, HasFilter, SameNet
  <2>2. Installs
    BY <2>1 DEF DriverInv, SocketInv
  <2>3. Step[1] = "flush" /\ task'.todo = Rest /\ task'.ok /\ task.todo = <<Flush, Do("filter")>>
    <3>0. Flush[1] = "flush" /\ Do("filter")[1] = "filter"
      BY DEF Flush, Do
    <3>1. CASE task.todo = <<Do("filter")>>
      <4>1. Head(<<Do("filter")>>) = Do("filter")
        OBVIOUS
      <4> QED BY <3>0, <3>1, <4>1 DEF Walks, Step
    <3>2. CASE task.todo = <<Flush, Do("filter")>>
      <4>1. Head(<<Flush, Do("filter")>>) = Flush
        OBVIOUS
      <4>2. Step[1] = "flush"
        BY <3>0, <3>2, <4>1 DEF Step
      <4>3. task.ok /\ task'.ok = task.ok /\ task'.todo = Rest
        BY <2>2, <4>2, Zenon DEF Walks, Installs
      <4> QED BY <3>2, <4>2, <4>3
    <3> QED BY <2>2, <3>1, <3>2 DEF Installs
  <2>4. Rest = <<Do("filter")>>
    BY <2>3 DEF Rest
  <2> QED BY <2>3, <2>4 DEF Installs
<1> QED BY <1>1, <1>4

\* The same when nothing but the function moves.
LEMMA WalksAlone ==
  ASSUME DriverInv, Walks, UNCHANGED <<wired, driver, filters, net, ring>>
  PROVE  (TaskInv /\ NetInv /\ AvailInv /\ SocketInv)'
<1>1. SameNet
  BY DEF SameNet, DriverInv, NetInv
<1>2. ring' \in 0..BufSize /\ ring' >= ring
  BY DriverAssumption DEF DriverInv, AvailInv
<1> QED BY <1>1, <1>2, WalksKeep

\* The function waits.
LEMMA WaitsAlone ==
  ASSUME DriverInv, UNCHANGED <<task, wired, driver, filters, net, ring>>
  PROVE  (TaskInv /\ NetInv /\ AvailInv /\ SocketInv)'
  BY DEF DriverInv, TaskInv, NetInv, AvailInv, SocketInv, HasFilter, Installs, At, Step

\* A line is taken that tells the application no status.
LEMMA LinesTaken ==
  ASSUME DriverInv, UNCHANGED <<driver, filters, status, modem>>, tx' \in Seq(Commands),
         \/ rx' = rx
         \/ /\ rx # <<>> /\ rx' = Tail(rx)
            /\ ~Filtered(Head(rx)) \/ \A u \in Urcs : ~Reports(Head(rx), u)
  PROVE  (WireInv /\ StatusInv)'
<1>1. rx \in Seq(Lines) /\ modem \in ModemType /\ driver \in {"BC95", "B656", "B657", "BG96", "tools"}
  BY DEF DriverInv, WireInv
<1>2. CASE rx' = rx
  BY <1>1, <1>2 DEF DriverInv, WireInv, StatusInv
<1>3. CASE rx # <<>> /\ rx' = Tail(rx) /\ (~Filtered(Head(rx)) \/ \A u \in Urcs : ~Reports(Head(rx), u))
  <2>1. /\ rx' \in Seq(Lines) /\ Len(rx) \in Nat /\ Len(rx') = Len(rx) - 1 /\ Head(rx) = rx[1]
        /\ \A i \in 1..Len(rx') : rx'[i] = rx[i + 1] /\ i + 1 \in 1..Len(rx)
        /\ \A i \in 1..Len(rx) : i = 1 \/ i - 1 \in 1..Len(rx')
    BY <1>1, <1>3
  <2>2. WireInv'
    BY <1>1, <2>1 DEF WireInv
  <2>3. ASSUME NEW u \in Urcs PROVE Latest(rx', modem.last, u)
    <3>1. Latest(rx, modem.last, u)
      BY DEF DriverInv, StatusInv
    <3>2. SUFFICES ASSUME NEW i \in 1..Len(rx'), Reports(rx'[i], u),
                          \A j \in 1..Len(rx') : i < j => ~Reports(rx'[j], u)
                   PROVE  rx'[i].n = modem.last[u]
      BY DEF Latest
    <3>3. ASSUME NEW j \in 1..Len(rx), i + 1 < j PROVE ~Reports(rx[j], u)
      <4>1. j - 1 \in 1..Len(rx') /\ i < j - 1 /\ (j - 1) + 1 = j
        BY <2>1, <3>2, <3>3
      <4>2. rx'[j - 1] = rx[(j - 1) + 1]
        BY <2>1, <4>1
      <4> QED BY <3>2, <4>1, <4>2
    <3> QED BY <2>1, <3>1, <3>2, <3>3 DEF Latest
  <2>4. ASSUME NEW u \in Urcs, status[u] # Unknown, \A i \in 1..Len(rx') : ~Reports(rx'[i], u)
        PROVE  status[u] = modem.last[u]
    <3>1. Filter(u, Any) \in filters
      BY <2>4 DEF DriverInv, StatusInv
    <3>2. ~Reports(Head(rx), u)
      BY <1>3, <3>1 DEF Filtered, Filter, Reports
    <3>3. ASSUME NEW i \in 1..Len(rx) PROVE ~Reports(rx[i], u)
      <4>1. CASE i = 1
        BY <2>1, <3>2, <4>1
      <4>2. CASE i # 1
        <5>1. i - 1 \in 1..Len(rx') /\ (i - 1) + 1 = i
          BY <2>1, <4>2
        <5> QED BY <2>1, <2>4, <5>1
      <4> QED BY <4>1, <4>2
    <3> QED BY <2>4, <3>3 DEF DriverInv, StatusInv
  <2>5. StatusInv'
    BY <2>3, <2>4 DEF DriverInv, StatusInv
  <2> QED BY <2>2, <2>5
<1> QED BY <1>2, <1>3

\* Filters are installed, or the filter of a socket is removed.
LEMMA FiltersChanged ==
  ASSUME DriverInv, UNCHANGED <<driver, rx, tx, status, modem>>,
         \A f \in filters' : f \in filters \/ f.tag \notin Urcs \/ f = Filter(f.tag, Any),
         \A f \in filters : f \in filters' \/ f.tag \notin Urcs
  PROVE  (WireInv /\ StatusInv)'
<1>1. \A u \in Urcs : Filter(u, Any).tag = u
  BY DEF Filter
<1> QED BY <1>1 DEF DriverInv, WireInv, StatusInv

Spoken == {l \in Lines : \A u \in Urcs : ~Reports(l, u)}

\* The modem prints lines that are no status reports.
LEMMA LinesAdded ==
  ASSUME DriverInv, UNCHANGED <<driver, filters, status>>, tx' \in Seq(Commands),
         modem' \in ModemType, modem'.last = modem.last,
         NEW s \in Seq(Spoken), rx' = rx \o s
  PROVE  (WireInv /\ StatusInv)'
<1>1. rx \in Seq(Lines) /\ driver \in {"BC95", "B656", "B657", "BG96", "tools"}
  BY DEF DriverInv, WireInv
<1>2. s \in Seq(Lines) /\ \A i \in 1..Len(s) : \A u \in Urcs : ~Reports(s[i], u)
  BY DEF Spoken
<1>3. /\ rx' \in Seq(Lines) /\ Len(rx') = Len(rx) + Len(s)
      /\ \A i \in 1..Len(rx) + Len(s) : rx'[i] = IF i <= Len(rx) THEN rx[i] ELSE s[i - Len(rx)]
  BY <1>1, <1>2, ConcatProperties, Zenon
<1>4. \A i \in 1..Len(rx') : \/ i \in 1..Len(rx) /\ rx'[i] = rx[i]
                             \/ \A u \in Urcs : ~Reports(rx'[i], u)
  <2>1. Len(rx) \in Nat /\ Len(s) \in Nat
    BY <1>1, <1>2
  <2>2. SUFFICES ASSUME NEW i \in 1..Len(rx'), ~(i \in 1..Len(rx))
                 PROVE  \A u \in Urcs : ~Reports(rx'[i], u)
    BY <1>3, <2>1
  <2>3. i - Len(rx) \in 1..Len(s) /\ ~(i <= Len(rx)) /\ i \in 1..Len(rx) + Len(s)
    BY <1>3, <2>1, <2>2
  <2>4. rx'[i] = s[i - Len(rx)]
    BY <1>3, <2>3
  <2> QED BY <1>2, <2>3, <2>4
<1>5. \A i \in 1..Len(rx) : i \in 1..Len(rx') /\ rx'[i] = rx[i]
  <2>1. Len(rx) \in Nat /\ Len(s) \in Nat
    BY <1>1, <1>2
  <2>2. \A i \in 1..Len(rx) : i \in 1..Len(rx) + Len(s) /\ i <= Len(rx)
    BY <2>1
  <2> QED BY <1>3, <2>2
<1>6. WireInv'
  BY <1>1, <1>3 DEF WireInv
<1>7. ASSUME NEW u \in Urcs PROVE Latest(rx', modem'.last, u)
  <2>1. Latest(rx, modem.last, u)
    BY DEF DriverInv, StatusInv
  <2> QED BY <1>4, <1>5, <2>1 DEF Latest
<1>8. ASSUME NEW u \in Urcs, status[u] # Unknown, \A i \in 1..Len(rx') : ~Reports(rx'[i], u)
      PROVE  status[u] = modem'.last[u]
  BY <1>5, <1>8 DEF DriverInv, StatusInv
<1>9. StatusInv'
  BY <1>7, <1>8 DEF DriverInv, StatusInv
<1> QED BY <1>6, <1>9

----------------------------------------------------------------------------
(* The AT dialogue                                                         *)

\* The lines of the modem are Lines.
LEMMA LinesAre ==
  ASSUME NEW g \in Tags, NEW n \in Int, NEW m \in Int,
         g = "raw" => n \in Nat, g = "+NSONMI:" => m \in Nat
  PROVE  Line(g, n, m) \in Lines /\ Line(g, n, m).tag = g
<1> DEFINE l == [tag |-> g, n |-> n, m |-> m, rem |-> 0, whole |-> TRUE]
<1>1. l \in [tag : Tags, n : Int, m : Int, rem : Int, whole : BOOLEAN]
  OBVIOUS
<1>2. l.tag = g /\ l.n = n /\ l.m = m /\ l.whole
  OBVIOUS
<1> HIDE DEF l
<1>3. l \in Lines
  BY <1>1, <1>2 DEF Lines
<1> QED BY <1>2, <1>3 DEF Line, l

\* So are the ones that are short of fields.
LEMMA ShortAre ==
  ASSUME NEW g \in Tags \ {"+NPSMR:", "+CSCON:"}, NEW n \in Int, NEW m \in Int,
         g = "raw" => n \in Nat, g = "+NSONMI:" => m \in Nat
  PROVE  Short(g, n, m) \in Lines /\ Short(g, n, m).tag = g /\ ~Short(g, n, m).whole
<1> DEFINE l == [tag |-> g, n |-> n, m |-> m, rem |-> 0, whole |-> FALSE]
<1>1. l \in [tag : Tags, n : Int, m : Int, rem : Int, whole : BOOLEAN]
  OBVIOUS
<1>2. l.tag = g /\ l.n = n /\ l.m = m /\ ~l.whole
  OBVIOUS
<1> HIDE DEF l
<1>3. l \in Lines
  BY <1>1, <1>2 DEF Lines
<1> QED BY <1>2, <1>3 DEF Short, l

LEMMA Replies == NoLine \in Lines /\ OkReply \in Lines /\ ErrReply \in Lines
<1>1. "" \in Tags /\ "OK" \in Tags /\ "ERROR" \in Tags
  BY DEF Tags
<1>2. Line("", 0, 0) \in Lines /\ Line("OK", 0, 0) \in Lines /\ Line("ERROR", 0, 0) \in Lines
  <2>1. 0 \in Int /\ "" # "raw" /\ "OK" # "raw" /\ "ERROR" # "raw" /\ "" # "+NSONMI:"
        /\ "OK" # "+NSONMI:" /\ "ERROR" # "+NSONMI:"
    OBVIOUS
  <2> QED BY <1>1, <2>1, LinesAre
<1> QED BY <1>2 DEF NoLine, OkReply, ErrReply

\* The local variables of a function.
LEMMA TaskFields ==
  ASSUME NEW t \in TaskType
  PROVE  /\ t.op \in Ops /\ t.arg \in Nat /\ t.todo \in Seq(Steps) /\ t.ok \in BOOLEAN
         /\ t.resp \in Lines /\ t.val \in Int /\ t.clean \in BOOLEAN /\ t.bytes \in Int
         /\ t.dgm \in Int /\ t.rb \in Int /\ t.data \in Int
  BY DEF TaskType

\* A change of one variable of the function.
LEMMA TaskUpdate ==
  ASSUME NEW t \in TaskType
  PROVE  /\ \A v \in Seq(Steps) :
              LET w == [t EXCEPT !.todo = v]
              IN  w \in TaskType /\ w.op = t.op /\ w.todo = v /\ w.ok = t.ok
         /\ \A v \in BOOLEAN :
              LET w == [t EXCEPT !.ok = v]
              IN  w \in TaskType /\ w.op = t.op /\ w.todo = t.todo /\ w.ok = v
         /\ \A v \in Lines :
              LET w == [t EXCEPT !.resp = v]
              IN  w \in TaskType /\ w.op = t.op /\ w.todo = t.todo /\ w.ok = t.ok
         /\ \A v \in BOOLEAN :
              LET w == [t EXCEPT !.clean = v]
              IN  w \in TaskType /\ w.op = t.op /\ w.todo = t.todo /\ w.ok = t.ok
         /\ \A v \in Int :
              LET w == [t EXCEPT !.val = v]
              IN  w \in TaskType /\ w.op = t.op /\ w.todo = t.todo /\ w.ok = t.ok
         /\ \A v \in Int :
              LET w == [t EXCEPT !.bytes = v]
              IN  w \in TaskType /\ w.op = t.op /\ w.todo = t.todo /\ w.ok = t.ok
         /\ \A v \in Int :
              LET w == [t EXCEPT !.dgm = v]
              IN  w \in TaskType /\ w.op = t.op /\ w.todo = t.todo /\ w.ok = t.ok
         /\ \A v \in Int :
              LET w == [t EXCEPT !.rb = v]
              IN  w \in TaskType /\ w.op = t.op /\ w.todo = t.todo /\ w.ok = t.ok
         /\ \A v \in Int :
              LET w == [t EXCEPT !.data = v]
              IN  w \in TaskType /\ w.op = t.op /\ w.todo = t.todo /\ w.ok = t.ok
  BY DEF TaskType

\* One update each, in the form the proofs below meet it.
LEMMA UpdateVal ==
  ASSUME NEW t \in TaskType, NEW v \in Int
  PROVE  /\ [t EXCEPT !.val = v] \in TaskType /\ [t EXCEPT !.val = v].op = t.op
         /\ [t EXCEPT !.val = v].todo = t.todo
  BY DEF TaskType

LEMMA UpdateDgm ==
  ASSUME NEW t \in TaskType, NEW v \in Int
  PROVE  /\ [t EXCEPT !.dgm = v] \in TaskType /\ [t EXCEPT !.dgm = v].op = t.op
         /\ [t EXCEPT !.dgm = v].todo = t.todo /\ [t EXCEPT !.dgm = v].dgm = v
  BY DEF TaskType

LEMMA UpdateOk ==
  ASSUME NEW t \in TaskType, NEW v \in BOOLEAN
  PROVE  /\ [t EXCEPT !.ok = v] \in TaskType /\ [t EXCEPT !.ok = v].op = t.op
         /\ [t EXCEPT !.ok = v].todo = t.todo
  BY DEF TaskType

\* The state a step of a function starts from.
LEMMA InFunction ==
  ASSUME DriverInv, task.todo # <<>>
  PROVE  /\ task \in TaskType /\ TaskInv /\ Proper(task.todo, driver) /\ Step \in Steps
         /\ Rest \in Seq(Steps) /\ Rest = Tail(task.todo) /\ OfDriver(Step, driver)
         /\ wired \in [rx : BOOLEAN, tx : BOOLEAN]
         /\ driver \in {"BC95", "B656", "B657", "BG96", "tools"}
         /\ net \in NetType /\ ring \in 0..BufSize
         /\ rx \in Seq(Lines) /\ tx \in Seq(Commands)
         /\ rx # <<>> => Head(rx) \in Lines
<1>1. task \in TaskType /\ TaskInv /\ Proper(task.todo, driver)
      /\ wired \in [rx : BOOLEAN, tx : BOOLEAN]
  BY DEF DriverInv, TaskInv
<1>2. Step \in Steps /\ Rest \in Seq(Steps) /\ Rest = Tail(task.todo) /\ OfDriver(Step, driver)
  <2>1. Proper(Tail(task.todo), driver) /\ Head(task.todo) \in Steps
        /\ OfDriver(Head(task.todo), driver)
    BY <1>1, RestProper
  <2> QED BY <2>1 DEF Step, Rest, Proper
<1>3. rx \in Seq(Lines) /\ tx \in Seq(Commands) /\ (rx # <<>> => Head(rx) \in Lines)
      /\ driver \in {"BC95", "B656", "B657", "BG96", "tools"}
  BY DEF DriverInv, WireInv
<1> QED BY <1>1, <1>2, <1>3 DEF DriverInv, NetInv, AvailInv

\* sendCommand()
LEMMA SendPreserves ==
  ASSUME DriverInv, sendCommand, UNCHANGED drvVars
  PROVE  DriverInv'
<1>0. task.todo # <<>> /\ Step[1] = "send"
  BY DEF sendCommand, Ready, At
<1>1. Step[2] \in Commands
  BY <1>0, InFunction, StepIs
<1>2. wired.tx \in BOOLEAN
  BY <1>0, InFunction
<1>3. task' \in TaskType /\ task'.op = task.op /\ task'.todo = Rest
  <2> DEFINE t == [task EXCEPT !.todo = Rest]
  <2>1. t \in TaskType /\ t.op = task.op /\ t.todo = Rest
    BY <1>0, InFunction, TaskUpdate
  <2>2. task' = [t EXCEPT !.ok = wired.tx]
    BY DEF sendCommand
  <2> HIDE DEF t
  <2> QED BY <1>2, <2>1, <2>2, TaskUpdate
<1>4. Walks
  BY <1>0, <1>3, InFunction, WalksOn
<1>5. tx' \in Seq(Commands)
  BY <1>0, <1>1, InFunction DEF sendCommand
<1>6. (TaskInv /\ NetInv /\ AvailInv /\ SocketInv)'
  BY <1>4, WalksAlone DEF sendCommand, drvVars
<1>7. (WireInv /\ StatusInv)'
  BY <1>5, LinesTaken DEF sendCommand, drvVars
<1> QED BY <1>6, <1>7 DEF DriverInv

\* A walking step, or one that waits, that may take a line.
LEMMA StepPreserves ==
  ASSUME DriverInv, Walks \/ UNCHANGED task,
         UNCHANGED <<wired, driver, filters, net, ring, status, modem>>, tx' \in Seq(Commands),
         \/ rx' = rx
         \/ /\ rx # <<>> /\ rx' = Tail(rx)
            /\ ~Filtered(Head(rx)) \/ Head(rx).tag \notin Urcs
  PROVE  DriverInv'
<1>1. (TaskInv /\ NetInv /\ AvailInv /\ SocketInv)'
  BY WalksAlone, WaitsAlone
<1>2. (WireInv /\ StatusInv)'
  BY LinesTaken DEF Reports
<1> QED BY <1>1, <1>2 DEF DriverInv

\* readResponse() of every kind, readUntil() and the flush.
LEMMA ReadPreserves ==
  ASSUME DriverInv, ReadStep, UNCHANGED drvVars
  PROVE  DriverInv'
<1>1. ASSUME NEW k, Sees(k), Walks \/ UNCHANGED task PROVE DriverInv'
  <2>1. tx \in Seq(Commands)
    BY DEF DriverInv, WireInv
  <2>2. UNCHANGED <<wired, driver, filters, net, ring, status, modem, tx>>
    BY <1>1 DEF Sees, drvVars
  <2>3. rx # <<>> /\ rx' = Tail(rx) /\ ~Filtered(Head(rx))
    BY <1>1 DEF Sees
  <2> QED BY <1>1, <2>1, <2>2, <2>3, StepPreserves
<1> DEFINE t == [task EXCEPT !.todo = Rest]
<1>2. ASSUME NEW k, Sees(k)
      PROVE  /\ task.todo # <<>> /\ Step[1] = k /\ Head(rx) \in Lines
             /\ t \in TaskType /\ t.op = task.op /\ t.todo = Rest
             /\ t.resp = task.resp /\ t.ok = task.ok
  <2>1. task.todo # <<>> /\ Step[1] = k /\ rx # <<>>
    BY <1>2 DEF Sees, At
  <2>2. task \in TaskType /\ Head(rx) \in Lines /\ Rest \in Seq(Steps)
    BY <2>1, InFunction
  <2> QED BY <2>1, <2>2 DEF TaskType
<1> HIDE DEF t
<1>3. NoLine \in Lines
  BY Replies
<1>4. ASSUME NEW k, Sees(k), k # "filter", k # "flush", task' \in TaskType, task'.op = task.op,
             task'.todo = Rest
      PROVE  DriverInv'
  <2>1. Walks
    BY <1>2, <1>4, InFunction, WalksOn
  <2> QED BY <1>1, <1>4, <2>1
<1>5. ASSUME NEW k, Sees(k), k # "filter", k # "flush", task' \in TaskType, task'.op = task.op,
             NEW s \in Calm, task'.todo = <<s>> \o Rest
      PROVE  DriverInv'
  <2>0. <<s>> \in Seq(Calm) /\ <<s>> # <<>> /\ <<s>>[1] = s
    BY <1>5
  <2>1. Front(<<s>>, driver)
    BY <2>0, CalmProper
  <2>2. s[1] \notin {"bcRest", "bcLoop"}
    BY <1>5 DEF Calm, Special
  <2>3. Walks
    BY <1>2, <1>5, <2>0, <2>1, <2>2, InFunction, WalksTo
  <2> QED BY <1>1, <1>5, <2>3
<1>6. CASE readOk
  <2>0. Sees("ok") /\ task' = [[t EXCEPT !.resp = Head(rx)] EXCEPT !.ok = (Head(rx) = OkReply)]
    BY <1>6 DEF readOk, t
  <2> DEFINE u == [t EXCEPT !.resp = Head(rx)]
  <2>1. u \in TaskType /\ u.op = task.op /\ u.todo = Rest
    BY <1>2, <2>0, TaskUpdate
  <2>2. (Head(rx) = OkReply) \in BOOLEAN
    OBVIOUS
  <2> HIDE DEF u
  <2>3. task' = [u EXCEPT !.ok = (Head(rx) = OkReply)]
    BY <2>0 DEF u
  <2>4. task' \in TaskType /\ task'.op = task.op /\ task'.todo = Rest
    BY <2>1, <2>2, <2>3, TaskUpdate
  <2> QED BY <1>4, <2>0, <2>4
<1>7. CASE readAny
  <2>0. Sees("any") /\ task' = [[task EXCEPT !.todo = <<<<"confirm", "">>>> \o Rest] EXCEPT !.resp = Head(rx)]
    BY <1>7 DEF readAny
  <2> DEFINE c == <<"confirm", "">>
             v == <<c>> \o Rest
  <2>1. c \in Calm
    BY CalmSteps, Zenon
  <2>2. c \in Steps
    BY <2>1 DEF Calm
  <2>3. v \in Seq(Steps)
    <3> HIDE DEF c
    <3> QED BY <1>2, <2>0, <2>2, InFunction
  <2>4. task' = [[task EXCEPT !.todo = v] EXCEPT !.resp = Head(rx)]
    BY <2>0
  <2> HIDE DEF c, v
  <2>5. task' \in TaskType /\ task'.op = task.op /\ task'.todo = v
    <3> DEFINE u == [task EXCEPT !.todo = v]
    <3>1. u \in TaskType /\ u.op = task.op /\ u.todo = v
      BY <1>2, <2>0, <2>3, InFunction, TaskUpdate
    <3> HIDE DEF u
    <3>2. task' = [u EXCEPT !.resp = Head(rx)]
      BY <2>4 DEF u
    <3>3. Head(rx) \in Lines
      BY <1>2, <2>0
    <3> QED BY <3>1, <3>2, <3>3, TaskUpdate
  <2> QED BY <1>5, <2>0, <2>1, <2>5 DEF v
<1>8. CASE readConfirm
  <2> DEFINE ok == Head(rx) = OkReply
             u == [t EXCEPT !.ok = ok]
             r == IF ok THEN task.resp ELSE NoLine
  <2>0. Sees("confirm") /\ task' = [u EXCEPT !.resp = r]
    <3>1. u.resp = task.resp
      BY <1>2, <1>8 DEF readConfirm, TaskType
    <3> QED BY <1>8, <3>1 DEF readConfirm, t
  <2>1. u \in TaskType /\ u.op = task.op /\ u.todo = Rest
    <3>1. ok \in BOOLEAN
      OBVIOUS
    <3> HIDE DEF ok
    <3> QED BY <1>2, <2>0, <3>1, TaskUpdate
  <2>2. r \in Lines
    BY <1>2, <1>3, <2>0, InFunction, TaskFields
  <2> HIDE DEF u, r
  <2>3. task' \in TaskType /\ task'.op = task.op /\ task'.todo = Rest
    BY <2>0, <2>1, <2>2, TaskUpdate
  <2> QED BY <1>4, <2>0, <2>3
<1>9. CASE readExact
  <2>1. task' \in TaskType /\ task'.op = task.op /\ task'.todo = Rest
    <3>1. Sees("exact") /\ task' = [t EXCEPT !.resp = Head(rx)]
      BY <1>9 DEF readExact, t
    <3> QED BY <1>2, <3>1, TaskUpdate
  <2> QED BY <1>4, <1>9, <2>1 DEF readExact
<1>10. CASE readCopy
  <2> DEFINE c == <<"copy", TRUE>>
             v == <<c>> \o Rest
  <2>0. Sees("copy") /\ (task' = t \/ task' = [task EXCEPT !.todo = v])
    BY <1>10 DEF readCopy, t
  <2>1. c \in Calm
    BY CalmSteps, Zenon
  <2>2. c \in Steps
    BY <2>1 DEF Calm
  <2>3. v \in Seq(Steps)
    <3> HIDE DEF c
    <3> QED BY <1>2, <2>0, <2>2, InFunction
  <2>4. CASE task' = t
    BY <1>2, <1>4, <2>0, <2>4
  <2>5. CASE task' = [task EXCEPT !.todo = v]
    <3> HIDE DEF c, v
    <3>1. task' \in TaskType /\ task'.op = task.op /\ task'.todo = v
      BY <1>2, <2>0, <2>3, <2>5, InFunction, TaskUpdate
    <3> QED BY <1>5, <2>0, <2>1, <3>1 DEF v
  <2> QED BY <2>0, <2>4, <2>5
<1>11. CASE readIgnore
  BY <1>1, <1>11 DEF readIgnore
<1>12. CASE readUntil
  <2>1. CASE task' = task
    BY <1>1, <1>12, <2>1 DEF readUntil
  <2>2. CASE task' = [t EXCEPT !.resp = Head(rx)]
    <3>0. Head(rx) \in Lines /\ t \in TaskType /\ t.op = task.op /\ t.todo = Rest
      BY <1>2, <1>12 DEF readUntil
    <3>1. task' \in TaskType /\ task'.op = task.op /\ task'.todo = Rest
      BY <2>2, <3>0, TaskUpdate
    <3> QED BY <1>4, <1>12, <3>1 DEF readUntil
  <2> QED BY <1>12, <2>1, <2>2 DEF readUntil, t
<1>13. CASE readTimeout
  <2>1. task.todo # <<>> /\ Step[1] \in Readers /\ UNCHANGED <<rx, tx>>
    BY <1>13 DEF readTimeout
  <2>2. task \in TaskType /\ Rest \in Seq(Steps) /\ Step \in Steps /\ tx \in Seq(Commands) /\ TaskInv
    BY <2>1, InFunction
  <2> DEFINE b == task.clean /\ rx = <<>> /\ tx = <<>>
             o == CASE Step[1] = "flush" -> task.ok [] Step[1] = "copy" -> Step[2] [] OTHER -> FALSE
             r == IF Step[1] = "flush" THEN task.resp ELSE NoLine
             t1 == [t EXCEPT !.clean = b]
             t2 == [t1 EXCEPT !.ok = o]
  <2>3. t \in TaskType /\ t.op = task.op /\ t.todo = Rest /\ t.clean = task.clean /\ t.ok = task.ok
        /\ t.resp = task.resp
    BY <2>2 DEF TaskType, t
  <2>4. b \in BOOLEAN /\ r \in Lines
    BY <1>3, <2>2, TaskFields
  <2>5. o \in BOOLEAN
    <3>1. Step[1] = "copy" => Step[2] \in BOOLEAN
      BY <2>2, StepIs, Zenon
    <3>2. task.ok \in BOOLEAN
      BY <2>2, TaskFields
    <3> QED BY <3>1, <3>2
  <2>6. t1 \in TaskType /\ t1.op = task.op /\ t1.todo = Rest /\ t1.ok = task.ok /\ t1.resp = task.resp
    <3> HIDE DEF b
    <3> QED BY <2>3, <2>4 DEF TaskType
  <2>7. t2 \in TaskType /\ t2.op = task.op /\ t2.todo = Rest /\ t2.ok = o /\ t2.resp = task.resp
    <3> HIDE DEF t1, o
    <3> QED BY <2>5, <2>6 DEF TaskType
  <2>8. task' = [t2 EXCEPT !.resp = r]
    <3>1. task' = [task EXCEPT !.todo = Rest, !.clean = b, !.ok = o, !.resp = r]
      BY <1>13 DEF readTimeout
    <3> QED BY <3>1 DEF t
  <2> HIDE DEF t1, t2, r, b
  <2>9. task' \in TaskType /\ task'.op = task.op /\ task'.todo = Rest /\ task'.ok = o
    BY <2>4, <2>7, <2>8 DEF TaskType
  <2>10. Step[1] = "flush" => task'.ok = task.ok
    BY <2>9
  <2>11. Step[1] # "filter"
    BY <2>1 DEF Readers
  <2>12. Walks
    BY <2>1, <2>2, <2>9, <2>10, <2>11, WalksOn
  <2> QED BY <1>13, <2>1, <2>2, <2>12, StepPreserves DEF readTimeout, drvVars
<1> QED BY <1>6, <1>7, <1>8, <1>9, <1>10, <1>11, <1>12, <1>13 DEF ReadStep

\* What is left out once ok is false.
LEMMA SkipPreserves ==
  ASSUME DriverInv, skipStep(Guarded), UNCHANGED drvVars
  PROVE  DriverInv'
<1>1. task.todo # <<>> /\ Step[1] \in Guarded /\ ~task.ok
  BY DEF skipStep
<1>2. task \in TaskType /\ Rest \in Seq(Steps) /\ tx \in Seq(Commands) /\ TaskInv /\ NetInv
  BY <1>1, InFunction DEF NetInv
<1>3. task' \in TaskType /\ task'.op = task.op /\ task'.todo = Rest /\ task'.ok = task.ok
  BY <1>2, TaskUpdate DEF skipStep
<1>4. CASE Step[1] # "filter"
  <2>1. Walks
    BY <1>1, <1>2, <1>3, <1>4, WalksOn
  <2> QED BY <1>2, <2>1, StepPreserves DEF skipStep, drvVars
<1>5. CASE Step[1] = "filter"
  <2>1. Continues
    BY <1>1, <1>3 DEF Continues
  <2>2. TaskInv'
    BY <1>2, <2>1, ContinuesTask DEF skipStep, drvVars
  <2>3. ~At("bcRest")' /\ ~At("bcLoop")'
    <3>1. Rest # <<>> => Head(Rest)[1] \notin {"bcRest", "bcLoop"}
      BY <1>1, <1>2, RestProper DEF TaskInv, Rest
    <3> QED BY <1>3, <3>1 DEF At, Step
  <2>4. AvailInv' /\ NetInv'
    BY <1>2, <2>3 DEF DriverInv, AvailInv, NetInv, drvVars
  <2>5. SocketInv'
    BY <1>1 DEF DriverInv, SocketInv, Installs, HasFilter, skipStep, drvVars
  <2>6. (WireInv /\ StatusInv)'
    BY <1>2, LinesTaken DEF skipStep, drvVars
  <2> QED BY <2>2, <2>4, <2>5, <2>6 DEF DriverInv
<1> QED BY <1>4, <1>5

\* The function returns.
LEMMA EndPreserves ==
  ASSUME DriverInv, End, UNCHANGED drvVars
  PROVE  DriverInv'
<1>1. tx \in Seq(Commands) /\ driver \in {"BC95", "B656", "B657", "BG96", "tools"}
      /\ wired \in [rx : BOOLEAN, tx : BOOLEAN]
  BY DEF DriverInv, WireInv, TaskInv
<1>2. NoTask \in TaskType /\ NoTask.todo = <<>>
  <2>1. NoLine \in Lines
    BY Replies
  <2>2. "none" \in Ops /\ <<>> \in Seq(Steps)
    BY DEF Ops
  <2> HIDE DEF NoLine
  <2> QED BY <2>1, <2>2 DEF NoTask, TaskType
<1>3. Proper(<<>>, driver)
  BY DEF Proper
<1>4. TaskInv'
  BY <1>1, <1>2, <1>3 DEF TaskInv, End, drvVars
<1>5. NetInv' /\ AvailInv'
  BY <1>2 DEF DriverInv, NetInv, AvailInv, At, End, drvVars
<1>6. SocketInv'
  <2>1. ~Installs
    BY DEF Installs, End
  <2> QED BY <2>1 DEF DriverInv, SocketInv, HasFilter, End, drvVars
<1>7. (WireInv /\ StatusInv)'
  BY <1>1, LinesTaken DEF End, drvVars
<1> QED BY <1>4, <1>5, <1>6, <1>7 DEF DriverInv

----------------------------------------------------------------------------
(* The steps between the AT commands                                       *)

\* The function after a step, and after a step that goes somewhere.
LEMMA GoType ==
  ASSUME DriverInv, task.todo # <<>>
  PROVE  /\ Go \in TaskType /\ Go.op = task.op /\ Go.todo = Rest /\ Go.ok = task.ok
         /\ Go.bytes = task.bytes /\ Go.data = task.data /\ Go.rb = task.rb /\ Go.dgm = task.dgm
         /\ Go.arg = task.arg
         /\ \A p \in Seq(Steps) :
              /\ GoTo(p) \in TaskType /\ GoTo(p).op = task.op /\ GoTo(p).todo = p \o Rest
              /\ GoTo(p).dgm = task.dgm /\ GoTo(p).bytes = task.bytes /\ GoTo(p).arg = task.arg
              /\ GoTo(p).data = task.data
<1>1. task \in TaskType /\ Rest \in Seq(Steps)
  BY InFunction
<1>2. \A p \in Seq(Steps) : p \o Rest \in Seq(Steps)
  BY <1>1
<1> QED BY <1>1, <1>2 DEF Go, GoTo, TaskType

\* A response is put into a variable of the function.
Notes ==
  \/ \E v \in Int : task' = [Go EXCEPT !.val = v]
  \/ \E b \in BOOLEAN : task' = [Go EXCEPT !.ok = b]

\* Such a response leaves the program as it is.
LEMMA NotesType ==
  ASSUME DriverInv, task.todo # <<>>, Notes
  PROVE  task' \in TaskType /\ task'.op = task.op /\ task'.todo = Rest
<1>1. Go \in TaskType /\ Go.op = task.op /\ Go.todo = Rest
  BY GoType
<1>2. CASE \E v \in Int : task' = [Go EXCEPT !.val = v]
  <2>1. PICK v \in Int : task' = [Go EXCEPT !.val = v]
    BY <1>2
  <2> QED BY <1>1, <2>1, UpdateVal
<1>3. CASE \E b \in BOOLEAN : task' = [Go EXCEPT !.ok = b]
  <2>1. PICK b \in BOOLEAN : task' = [Go EXCEPT !.ok = b]
    BY <1>3
  <2> QED BY <1>1, <2>1, UpdateOk
<1> QED BY <1>2, <1>3 DEF Notes

\* An internal step to the rest of the program.
LEMMA GoesOn ==
  ASSUME DriverInv, task.todo # <<>>, Step[1] \notin {"filter", "flush"}, Internal,
         task' \in TaskType, task'.op = task.op, task'.todo = Rest
  PROVE  DriverInv'
<1>1. Walks
  BY InFunction, WalksOn
<1>2. tx' \in Seq(Commands)
  BY InFunction DEF Internal, Quiet
<1> QED BY <1>1, <1>2, StepPreserves DEF Internal, Quiet, drvVars

\* An internal step to calm steps before the rest.
LEMMA GoesTo ==
  ASSUME DriverInv, task.todo # <<>>, Step[1] \notin {"filter", "flush"}, Internal,
         task' \in TaskType, task'.op = task.op, NEW p \in Seq(Calm), task'.todo = p \o Rest
  PROVE  DriverInv'
<1>1. CASE p = <<>>
  <2>1. p \o Rest = Rest
    BY <1>1, InFunction
  <2> QED BY <2>1, GoesOn
<1>2. CASE p # <<>>
  <2>1. Front(p, driver)
    BY CalmProper
  <2>2. p[1][1] \notin {"bcRest", "bcLoop"}
    <3>1. p[1] \in Calm
      BY <1>2
    <3> QED BY <3>1 DEF Calm, Special
  <2>3. Walks
    BY <1>2, <2>1, <2>2, InFunction, WalksTo
  <2>4. tx' \in Seq(Commands)
    BY InFunction DEF Internal, Quiet
  <2> QED BY <2>3, <2>4, StepPreserves DEF Internal, Quiet, drvVars
<1> QED BY <1>1, <1>2

LEMMA CalmIsSteps == \A p \in Seq(Calm) : p \in Seq(Steps)
<1>1. Calm \subseteq Steps
  BY DEF Calm
<1> QED BY <1>1

\* A function of the driver calls isModemOn() or checkQRegSwt().
LEMMA CallPreserves ==
  ASSUME DriverInv, callStep
  PROVE  DriverInv'
<1>1. task.todo # <<>> /\ Step[1] = "call" /\ Internal
  BY DEF callStep, Ready, At
<1>2. PICK p \in Seq(Calm) : task' = [GoTo(p) EXCEPT !.val = 0]
  <2>1. Step[2] \in {"isModemOn", "checkQRegSwt"}
    BY <1>1, InFunction, StepIs, Zenon
  <2>2. isModemOn \in Seq(Calm) /\ checkQRegSwt \in Seq(Calm)
    BY CalmPrograms DEF isModemOn, Old
  <2>3. Step[2] = "isModemOn" => task' = [GoTo(isModemOn) EXCEPT !.val = 0]
    BY DEF callStep
  <2>4. Step[2] = "checkQRegSwt" => task' = [GoTo(checkQRegSwt) EXCEPT !.val = 0]
    BY DEF callStep
  <2> QED BY <2>1, <2>2, <2>3, <2>4
<1>3. GoTo(p) \in TaskType /\ GoTo(p).op = task.op /\ GoTo(p).todo = p \o Rest
  BY <1>1, <1>2, CalmIsSteps, GoType
<1>4. task' \in TaskType /\ task'.op = task.op /\ task'.todo = p \o Rest
  <2>1. 0 \in Int
    OBVIOUS
  <2> QED BY <1>2, <1>3, <2>1, UpdateVal
<1> QED BY <1>1, <1>2, <1>4, GoesTo

\* What the functions make of a response.
LEMMA ResponsePreserves ==
  ASSUME DriverInv, responseStep
  PROVE  DriverInv'
<1>1. task.todo # <<>> /\ Step[1] \notin {"filter", "flush"} /\ Internal
  BY DEF responseStep, Ready, At
<1>3. task.resp \in Lines /\ task.resp.n \in Int
  BY <1>1, InFunction, TaskFields DEF Lines
<1>4. Notes
  <2>1. (IF task.resp.n = 0 THEN 0 ELSE 1) \in Int
        /\ (IF HasColon(task.resp) /\ task.resp.n = 1 THEN 1 ELSE 0) \in Int
    OBVIOUS
  <2>2. (task.resp.tag = "SEND OK") \in BOOLEAN
    OBVIOUS
  <2> QED BY <1>3, <2>1, <2>2, Zenon DEF responseStep, Notes
<1>5. task' \in TaskType /\ task'.op = task.op /\ task'.todo = Rest
  BY <1>1, <1>4, NotesType
<1> QED BY <1>1, <1>5, GoesOn

\* The branches on what has been found out.
LEMMA BranchPreserves ==
  ASSUME DriverInv, branchStep
  PROVE  DriverInv'
<1>1. task.todo # <<>> /\ Step[1] \notin {"filter", "flush"} /\ Internal
  BY DEF branchStep, Ready, At
<1>3. Step \in Steps
  BY <1>1, InFunction
<1>4. ASSUME Notes PROVE DriverInv'
  <2>1. task' \in TaskType /\ task'.op = task.op /\ task'.todo = Rest
    BY <1>1, <1>4, NotesType
  <2> QED BY <1>1, <2>1, GoesOn
<1>5. ASSUME NEW p \in Seq(Calm), task' = [GoTo(p) EXCEPT !.ok = TRUE]
      PROVE  DriverInv'
  <2>1. GoTo(p) \in TaskType /\ GoTo(p).op = task.op /\ GoTo(p).todo = p \o Rest
    BY <1>1, <1>5, CalmIsSteps, GoType
  <2>2. task' \in TaskType /\ task'.op = task.op /\ task'.todo = p \o Rest
    BY <1>5, <2>1, TaskUpdate
  <2> QED BY <1>1, <1>5, <2>2, GoesTo
<1>6. CASE Ready("requireOn") /\ task' = [Go EXCEPT !.ok = task.val = 1]
  <2>1. (task.val = 1) \in BOOLEAN
    OBVIOUS
  <2> QED BY <1>4, <1>6, <2>1, Zenon DEF Notes
<1>7. CASE At("requireOff") /\ task' = [Go EXCEPT !.ok = task.val = 0]
  <2>1. (task.val = 0) \in BOOLEAN
    OBVIOUS
  <2> QED BY <1>4, <1>7, <2>1, Zenon DEF Notes
<1>8. CASE At("again") /\ task' = [Go EXCEPT !.ok = TRUE]
  BY <1>4, <1>8, Zenon DEF Notes
<1>9. CASE At("fail") /\ task' = [Go EXCEPT !.ok = FALSE]
  BY <1>4, <1>9, Zenon DEF Notes
<1>10. CASE Ready("assign") /\ task' = [Go EXCEPT !.val = Step[2]]
  <2>1. Step[2] \in {0, 1}
    BY <1>3, <1>10, StepIs, Zenon DEF Ready, At
  <2>2. Step[2] \in Int
    BY <2>1
  <2> QED BY <1>4, <1>10, <2>2, Zenon DEF Notes
<1>11. CASE /\ At("qregswt")
            /\ task' = [(IF task.val = 2 THEN Go ELSE GoTo(setQRegSwt2)) EXCEPT !.ok = TRUE]
  <2>1. CASE task.val = 2
    <3>1. task' = [Go EXCEPT !.ok = TRUE]
      BY <1>11, <2>1
    <3> QED BY <1>4, <3>1, Zenon DEF Notes
  <2>2. CASE task.val # 2
    <3>1. task' = [GoTo(setQRegSwt2) EXCEPT !.ok = TRUE]
      BY <1>11, <2>2
    <3> QED BY <1>5, <3>1, CalmPrograms
  <2> QED BY <2>1, <2>2
<1>12. CASE /\ At("turnOff")
            /\ task' = [(IF task.val = 1 THEN GoTo(switchModem(0) \o <<Do("requireOff")>>) ELSE Go)
                          EXCEPT !.ok = TRUE]
  <2>1. CASE task.val # 1
    <3>1. task' = [Go EXCEPT !.ok = TRUE]
      BY <1>12, <2>1
    <3> QED BY <1>4, <3>1, Zenon DEF Notes
  <2>2. CASE task.val = 1
    <3> DEFINE p == switchModem(0) \o <<Do("requireOff")>>
    <3>1. task' = [GoTo(p) EXCEPT !.ok = TRUE]
      BY <1>12, <2>2
    <3>2. switchModem(0) \in Seq(Calm)
      BY CalmPrograms DEF switchModem, Old
    <3>3. Do("requireOff") \in Calm
      BY Vocabulary
    <3>4. p \in Seq(Calm)
      BY <3>2, <3>3
    <3> HIDE DEF p
    <3> QED BY <1>5, <3>1, <3>4
  <2> QED BY <2>1, <2>2
<1>13. CASE /\ At("switch")
            /\ task' = [(IF task.val = Step[2] THEN Go
                         ELSE GoTo(<<Send("CFUN", Step[2]), ReplyOk, <<"assign", Step[2]>>, Flush>>))
                          EXCEPT !.ok = TRUE]
  <2>1. CASE task.val = Step[2]
    <3>1. task' = [Go EXCEPT !.ok = TRUE]
      BY <1>13, <2>1
    <3> QED BY <1>4, <3>1, Zenon DEF Notes
  <2>2. CASE task.val # Step[2]
    <3> DEFINE a == <<"assign", Step[2]>>
               p == <<Send("CFUN", Step[2]), ReplyOk, a, Flush>>
    <3>1. task' = [GoTo(p) EXCEPT !.ok = TRUE]
      BY <1>13, <2>2
    <3>2. Step[2] \in {0, 1}
      BY <1>3, <1>13, StepIs, Zenon DEF At
    <3>3. a \in Calm
      BY <3>2, CalmSteps, Zenon
    <3>4. Send("CFUN", Step[2]) \in Calm
      BY <3>2, Vocabulary DEF Names
    <3> HIDE DEF a
    <3>5. p \in Seq(Calm)
      BY <3>3, <3>4, Vocabulary
    <3> HIDE DEF p
    <3> QED BY <1>5, <3>1, <3>5
  <2> QED BY <2>1, <2>2
<1> QED BY <1>6, <1>7, <1>8, <1>9, <1>10, <1>11, <1>12, <1>13 DEF branchStep

\* sendCommand() whatever happened before.
LEMMA ForcePreserves ==
  ASSUME DriverInv, forceStep
  PROVE  DriverInv'
<1>1. task.todo # <<>> /\ Step[1] = "force"
  BY DEF forceStep, At
<1>2. Step[2] \in Commands
  BY <1>1, InFunction, StepIs
<1>3. Go \in TaskType /\ Go.op = task.op /\ Go.todo = Rest
  BY <1>1, GoType
<1>4. task' \in TaskType /\ task'.op = task.op /\ task'.todo = Rest
  <2>1. (Go.ok /\ wired.tx) \in BOOLEAN
    OBVIOUS
  <2>2. task' = [Go EXCEPT !.ok = Go.ok /\ wired.tx]
    BY DEF forceStep
  <2> DEFINE b == Go.ok /\ wired.tx
  <2>3. b \in BOOLEAN /\ task' = [Go EXCEPT !.ok = b]
    BY <2>1, <2>2
  <2> HIDE DEF b
  <2> QED BY <1>3, <2>3, UpdateOk
<1>5. Walks
  BY <1>1, <1>4, InFunction, WalksOn
<1>6. tx' \in Seq(Commands)
  BY <1>1, <1>2, InFunction DEF forceStep
<1> QED BY <1>5, <1>6, StepPreserves DEF forceStep, drvVars

\* The device id is read.
LEMMA ImsiPreserves ==
  ASSUME DriverInv, imsiStep
  PROVE  DriverInv'
<1>1. task.todo # <<>> /\ Step[1] = "imsi"
  BY DEF imsiStep, Ready, At
<1>2. task' \in TaskType /\ task'.op = task.op /\ task'.todo = Rest
  BY <1>1, GoType DEF imsiStep
<1>3. Walks
  BY <1>1, <1>2, InFunction, WalksOn
<1>4. tx' \in Seq(Commands)
  BY <1>1, InFunction DEF imsiStep, Quiet
<1> QED BY <1>3, <1>4, StepPreserves DEF imsiStep, Quiet

\* BG96 waits for its socket.
LEMMA QiopenPreserves ==
  ASSUME DriverInv, qiopenStep
  PROVE  DriverInv'
<1>1. task.todo # <<>> /\ Step[1] = "qiopen" /\ rx # <<>> /\ rx' = Tail(rx) /\ ~Filtered(Head(rx))
      /\ UNCHANGED <<wired, tx, filters>>
  BY DEF qiopenStep, Sees, At
<1>2. Walks \/ UNCHANGED task
  <2>1. CASE task' = [Go EXCEPT !.resp = Head(rx)]
    <3>1. Go \in TaskType /\ Go.op = task.op /\ Go.todo = Rest
      BY <1>1, GoType
    <3>2. Head(rx) \in Lines
      BY <1>1, InFunction
    <3>3. task' \in TaskType /\ task'.op = task.op /\ task'.todo = Rest
      BY <2>1, <3>1, <3>2, TaskUpdate
    <3> QED BY <1>1, <3>3, InFunction, WalksOn
  <2> QED BY <2>1 DEF qiopenStep
<1>3. tx' \in Seq(Commands)
  BY <1>1, InFunction
<1> QED BY <1>1, <1>2, <1>3, StepPreserves DEF qiopenStep, drvVars

----------------------------------------------------------------------------
(* Sockets and filters                                                     *)

\* The variables of a Network.
LEMMA NetFields ==
  ASSUME NEW n \in NetType
  PROVE  /\ n.number \in Int /\ n.host \in BOOLEAN /\ n.avail \in Int
         /\ n.nsonmi \in [tag : {"", "+NSONMI:", "+QIURC:"}, n : Int]
  BY DEF NetType

\* A filter is installed: the socket has it from now on.
LEMMA FilterPreserves ==
  ASSUME DriverInv, filterStep
  PROVE  DriverInv'
<1>1. task.todo # <<>> /\ task.ok /\ task' = Go /\ UNCHANGED <<wired, rx, tx, driver, ring, status, modem>>
  BY DEF filterStep, Ready, At
<1>2. task' \in TaskType /\ task'.op = task.op /\ task'.todo = Rest
  BY <1>1, GoType
<1>3. net \in NetType /\ ring \in 0..BufSize /\ TaskInv
  BY <1>1, InFunction
<1>4. ring' \in 0..BufSize /\ ring' >= ring
  BY <1>1, <1>3, DriverAssumption
<1>5. ASSUME NEW S, filters' = filters \cup S, \A f \in S : f = Filter(f.tag, Any),
             UNCHANGED net, Step[1] # "filter", Step[1] # "flush"
      PROVE  DriverInv'
  <2>1. Walks
    BY <1>1, <1>2, <1>3, <1>5, WalksOn
  <2>2. SameNet /\ filters \subseteq filters'
    BY <1>3, <1>5 DEF SameNet
  <2>3. (TaskInv /\ NetInv /\ AvailInv /\ SocketInv)'
    BY <1>1, <1>4, <2>1, <2>2, WalksKeep
  <2>4. (WireInv /\ StatusInv)'
    BY <1>1, <1>5, FiltersChanged
  <2> QED BY <2>3, <2>4 DEF DriverInv
<1>6. CASE Ready("ceregFilter") /\ addUrcFilter(Filter("+CEREG:", Any)) /\ UNCHANGED net
  <2>1. \A f \in {Filter("+CEREG:", Any)} : f = Filter(f.tag, Any)
    BY DEF Filter
  <2> DEFINE S == {Filter("+CEREG:", Any)}
  <2>2. /\ filters' = filters \cup S /\ UNCHANGED net /\ Step[1] # "filter" /\ Step[1] # "flush"
        /\ \A f \in S : f = Filter(f.tag, Any)
    BY <1>6, <2>1 DEF Ready, At, addUrcFilter
  <2> HIDE DEF S
  <2> QED BY <1>5, <2>2
<1>7. CASE /\ Ready("pmFilter")
           /\ filters' = filters \cup {Filter("+NPSMR:", Any), Filter("+CSCON:", Any)}
           /\ UNCHANGED net
  <2>1. \A f \in {Filter("+NPSMR:", Any), Filter("+CSCON:", Any)} : f = Filter(f.tag, Any)
    BY DEF Filter
  <2> DEFINE S == {Filter("+NPSMR:", Any), Filter("+CSCON:", Any)}
  <2>2. /\ filters' = filters \cup S /\ UNCHANGED net /\ Step[1] # "filter" /\ Step[1] # "flush"
        /\ \A f \in S : f = Filter(f.tag, Any)
    BY <1>7, <2>1 DEF Ready, At
  <2> HIDE DEF S
  <2> QED BY <1>5, <2>2
<1>8. CASE /\ Ready("filter")
           /\ net' = [net EXCEPT !.nsonmi = IF driver = "BG96" THEN Filter("+QIURC:", Any)
                                            ELSE Filter("+NSONMI:", net.number)]
           /\ addUrcFilter(net'.nsonmi)
  <2> DEFINE f == IF driver = "BG96" THEN Filter("+QIURC:", Any) ELSE Filter("+NSONMI:", net.number)
  <2>1. /\ f \in [tag : {"", "+NSONMI:", "+QIURC:"}, n : Int] /\ f.tag \notin Urcs
        /\ f.n \in {net.number, Any}
    <3> HIDE DEF f
    <3>1. net.number \in Int
      BY <1>3, NetFields
    <3>2. CASE driver = "BG96"
      <4>1. f = [tag |-> "+QIURC:", n |-> Any]
        BY <3>2 DEF Filter, f
      <4>2. Any \in Int
        BY DEF Any
      <4> QED BY <4>1, <4>2 DEF Urcs
    <3>3. CASE driver # "BG96"
      <4>1. f = [tag |-> "+NSONMI:", n |-> net.number]
        BY <3>3 DEF Filter, f
      <4> QED BY <3>1, <4>1 DEF Urcs
    <3> QED BY <3>2, <3>3
  <2>2. net' = [net EXCEPT !.nsonmi = f]
    BY <1>8
  <2> HIDE DEF f
  <2>3. net' \in NetType /\ net'.nsonmi = f /\ net'.avail = net.avail /\ net'.number = net.number
    BY <1>3, <2>1, <2>2 DEF NetType
  <2>4. filters' = filters \cup {f}
    BY <1>8, <2>3 DEF addUrcFilter
  <2>5. Continues
    BY <1>1, <1>2 DEF Continues
  <2>6. Rest # <<>> => Head(Rest)[1] \notin {"bcRest", "bcLoop"}
    BY <1>1, <1>3, RestProper DEF TaskInv, Rest
  <2>7. (TaskInv /\ NetInv /\ AvailInv)'
    BY <1>1, <1>2, <1>4, <2>3, <2>5, <2>6, CountKept
  <2>8. SocketInv'
    BY <2>1, <2>3, <2>4 DEF SocketInv, HasFilter
  <2>9. (WireInv /\ StatusInv)'
    BY <1>1, <2>1, <2>4, FiltersChanged
  <2> QED BY <2>7, <2>8, <2>9 DEF DriverInv
<1> QED BY <1>6, <1>7, <1>8 DEF filterStep

\* A socket is entered: flush() and the filter come next.
LEMMA OpenPreserves ==
  ASSUME DriverInv, openStep
  PROVE  DriverInv'
<1>1. task.todo # <<>> /\ Step[1] = "open" /\ UNCHANGED <<wired, rx, tx, filters, driver, ring, status, modem>>
  BY DEF openStep, Ready, At, Quiet
<1> DEFINE n == IF task.resp.tag = "number" THEN task.resp.n ELSE 0
           valid == 0 <= n /\ n < maxSocket
<1>2. net' = (IF valid THEN Connected(n) ELSE Disconnected) /\ task' = [Go EXCEPT !.ok = valid]
  BY DEF openStep
<1>3. /\ net \in NetType /\ ring \in 0..BufSize /\ TaskInv /\ task \in TaskType
      /\ tx \in Seq(Commands) /\ Go \in TaskType /\ Go.op = task.op /\ Go.todo = Rest
  BY <1>1, InFunction, GoType
<1>4. n \in Int
  BY <1>3, TaskFields DEF Lines
<1> HIDE DEF n
<1>5. valid \in BOOLEAN
  OBVIOUS
<1>6. /\ net' \in NetType /\ net'.avail = net.avail
      /\ net'.number >= 0 => valid
  <2>1. CASE valid
    <3>1. net' = [net EXCEPT !.number = n, !.host = TRUE]
      BY <1>2, <2>1 DEF Connected
    <3> QED BY <1>3, <1>4, <2>1, <3>1 DEF NetType
  <2>2. CASE ~valid
    <3>1. net' = [net EXCEPT !.number = -1, !.host = FALSE]
      BY <1>2, <2>2 DEF Disconnected
    <3> DEFINE m == -1
    <3>2. m \in Int /\ ~(m >= 0) /\ net' = [net EXCEPT !.number = m, !.host = FALSE]
      BY <3>1
    <3> HIDE DEF m
    <3> QED BY <1>3, <3>2 DEF NetType
  <2> QED BY <2>1, <2>2
<1> HIDE DEF valid
<1>7. task' \in TaskType /\ task'.op = task.op /\ task'.todo = Rest /\ task'.ok = valid
  BY <1>2, <1>3, <1>5, TaskUpdate
<1>8. Rest = <<Flush, Do("filter")>>
  BY <1>1, <1>3, RestProper DEF TaskInv, Step, Rest
<1>9. Continues
  BY <1>1, <1>7 DEF Continues
<1>10. Rest # <<>> => Head(Rest)[1] \notin {"bcRest", "bcLoop"}
  BY <1>1, <1>3, RestProper DEF TaskInv, Rest
<1>11. ring' \in 0..BufSize /\ ring' >= ring
  BY <1>1, <1>3, DriverAssumption
<1>12. (TaskInv /\ NetInv /\ AvailInv)'
  BY <1>1, <1>6, <1>7, <1>9, <1>10, <1>11, CountKept
<1>13. SocketInv'
  BY <1>6, <1>7, <1>8 DEF SocketInv, Installs
<1>14. (WireInv /\ StatusInv)'
  BY <1>1, <1>3, LinesTaken
<1> QED BY <1>12, <1>13, <1>14 DEF DriverInv

\* The same for BG96.
LEMMA BgOpenPreserves ==
  ASSUME DriverInv, bgOpenStep
  PROVE  DriverInv'
<1>1. task.todo # <<>> /\ Step[1] = "bgOpen" /\ task.ok
      /\ UNCHANGED <<wired, rx, tx, filters, driver, ring, status, modem>>
  BY DEF bgOpenStep, Ready, At, Quiet
<1>3. /\ net \in NetType /\ ring \in 0..BufSize /\ TaskInv /\ task \in TaskType
      /\ tx \in Seq(Commands) /\ Go \in TaskType /\ Go.op = task.op /\ Go.todo = Rest
      /\ Go.ok = task.ok
  BY <1>1, InFunction, GoType
<1>4. task.resp.n \in Int
  BY <1>3, TaskFields DEF Lines
<1>6. net' \in NetType /\ net'.avail = net.avail
  <2>1. net' = [net EXCEPT !.number = task.resp.n, !.host = TRUE]
    BY DEF Connected, bgOpenStep
  <2> QED BY <1>3, <1>4, <2>1 DEF NetType
<1>7. task' \in TaskType /\ task'.op = task.op /\ task'.todo = Rest /\ task'.ok
  BY <1>1, <1>3 DEF bgOpenStep
<1>8. Rest = <<Flush, Do("filter")>>
  BY <1>1, <1>3, RestProper DEF TaskInv, Step, Rest
<1>9. Continues
  BY <1>1, <1>7 DEF Continues
<1>10. Rest # <<>> => Head(Rest)[1] \notin {"bcRest", "bcLoop"}
  BY <1>1, <1>3, RestProper DEF TaskInv, Rest
<1>11. ring' \in 0..BufSize /\ ring' >= ring
  BY <1>1, <1>3, DriverAssumption
<1>12. (TaskInv /\ NetInv /\ AvailInv)'
  BY <1>1, <1>6, <1>7, <1>9, <1>10, <1>11, CountKept
<1>13. SocketInv'
  BY <1>7, <1>8 DEF SocketInv, Installs
<1>14. (WireInv /\ StatusInv)'
  BY <1>1, <1>3, LinesTaken
<1> QED BY <1>12, <1>13, <1>14 DEF DriverInv

\* The socket and its filter go together.
LEMMA ClosePreserves ==
  ASSUME DriverInv, closeStep
  PROVE  DriverInv'
<1>1. task.todo # <<>> /\ Step[1] = "close" /\ UNCHANGED <<wired, rx, tx, driver, ring, status, modem>>
  BY DEF closeStep, Ready, At
<1>3. /\ net \in NetType /\ ring \in 0..BufSize /\ TaskInv /\ task \in TaskType
      /\ tx \in Seq(Commands) /\ Go \in TaskType /\ Go.op = task.op /\ Go.todo = Rest
      /\ Go.ok = task.ok
  BY <1>1, InFunction, GoType
<1>6. net' \in NetType /\ net'.avail = net.avail /\ net'.number = -1
  <2>1. NoFilter \in [tag : {"", "+NSONMI:", "+QIURC:"}, n : Int]
    BY DEF NoFilter, Filter, Any
  <2>2. net' = [net EXCEPT !.number = -1, !.host = FALSE, !.nsonmi = NoFilter]
    BY DEF Disconnected, closeStep
  <2> DEFINE m == -1
  <2>3. m \in Int /\ net' = [net EXCEPT !.number = m, !.host = FALSE, !.nsonmi = NoFilter]
    BY <2>2
  <2> HIDE DEF NoFilter, m
  <2>4. net' \in NetType /\ net'.avail = net.avail /\ net'.number = m
    BY <1>3, <2>1, <2>3 DEF NetType
  <2> QED BY <2>4 DEF m
<1>7. task' \in TaskType /\ task'.op = task.op /\ task'.todo = Rest
  BY <1>1, <1>3 DEF closeStep
<1>9. Continues
  BY <1>1, <1>7 DEF Continues
<1>10. Rest # <<>> => Head(Rest)[1] \notin {"bcRest", "bcLoop"}
  BY <1>1, <1>3, RestProper DEF TaskInv, Rest
<1>11. ring' \in 0..BufSize /\ ring' >= ring
  BY <1>1, <1>3, DriverAssumption
<1>12. (TaskInv /\ NetInv /\ AvailInv)'
  BY <1>1, <1>6, <1>7, <1>9, <1>10, <1>11, CountKept
<1>13. SocketInv'
  BY <1>6 DEF SocketInv
<1>14. (WireInv /\ StatusInv)'
  <2>1. net.nsonmi.tag \notin Urcs
    BY <1>3, NetFields DEF Urcs
  <2> QED BY <1>1, <2>1, FiltersChanged DEF closeStep, removeUrcFilter
<1> QED BY <1>12, <1>13, <1>14 DEF DriverInv

----------------------------------------------------------------------------
(* Reading datagrams                                                       *)

\* The counter has room for all the ring can hold.
LEMMA Counts ==
  /\ \A n \in Int : n % CountMod \in Nat
  /\ \A n \in Nat : n <= BufSize => n % CountMod = n
<1>1. CountMod \in Nat /\ CountMod > 0 /\ CountMod > BufSize /\ BufSize \in Nat
  BY DriverAssumption
<1>2. \A n, m \in Int : m > 0 => n % m \in Nat
  OBVIOUS
<1>3. \A n, m \in Int : 0 <= n /\ n < m => n % m = n
  OBVIOUS
<1>4. \A n \in Nat : n <= BufSize => 0 <= n /\ n < CountMod
  BY <1>1
<1> QED BY <1>1, <1>2, <1>3, <1>4

\* What ipAvailable() returns; for BC95 it is m_bytesAvail itself.
LEMMA Available ==
  ASSUME DriverInv
  PROVE  /\ ipAvailable \in Nat
         /\ driver = "BC95" /\ ~ShortReads => ipAvailable = net.avail
<1>1. net.avail \in Int
  BY NetFields DEF DriverInv, NetInv
<1>2. ASSUME driver = "BC95", ~ShortReads PROVE net.avail \in Nat /\ net.avail <= BufSize
  <2>1. net.avail \in 0..ring /\ ring \in 0..BufSize
    BY <1>2 DEF DriverInv, AvailInv
  <2> QED BY <2>1, DriverAssumption
<1> QED BY <1>1, <1>2, Counts DEF ipAvailable

\* The ring takes what fits, and gives what it has.
LEMMA RingBounds ==
  ASSUME NEW r \in 0..BufSize
  PROVE  /\ \A k \in Nat : Lesser(r + k, BufSize) \in 0..BufSize /\ Lesser(r + k, BufSize) >= r
         /\ \A k \in Nat : Lesser(r, k) \in 0..r /\ r - Lesser(r, k) \in 0..BufSize
         /\ \A k \in Int : k >= 0 => Lesser(k, r) \in 0..r /\ r - Lesser(k, r) \in 0..BufSize
         /\ \A k \in Nat : Lesser(k, BufSize - r) \in 0..BufSize - r
  BY DriverAssumption DEF Lesser

\* An internal step to other steps before the rest.
LEMMA GoesToFront ==
  ASSUME DriverInv, task.todo # <<>>, Step[1] \notin {"filter", "flush"}, Internal,
         task' \in TaskType, task'.op = task.op, NEW p, Front(p, driver), p # <<>>,
         p[1][1] \notin {"bcRest", "bcLoop"}, task'.todo = p \o Rest
  PROVE  DriverInv'
<1>1. Walks
  BY InFunction, WalksTo
<1>2. tx' \in Seq(Commands)
  BY InFunction DEF Internal, Quiet
<1> QED BY <1>1, <1>2, StepPreserves DEF Internal, Quiet, drvVars

\* ipRead()
LEMMA IpReadPreserves ==
  ASSUME DriverInv, ipReadStep
  PROVE  DriverInv'
<1>1. task.todo # <<>> /\ Step[1] = "ipRead" /\ Internal
  BY DEF ipReadStep, At
<1>2. Step[2] \in Int /\ driver \in {"BC95", "B656", "B657", "BG96", "tools"} /\ net.number \in Int
  BY <1>1, InFunction, StepIs, NetFields
<1> DEFINE r == IF driver = "BG96" THEN 0 ELSE -1
<1>3. r \in Int
  OBVIOUS
<1>4. \/ driver = "BC95" /\ task' = [GoTo(<<>>) EXCEPT !.rb = r]
      \/ driver = "BG96" /\ task' = [GoTo(ipReadBG96(Step[2])) EXCEPT !.rb = r]
      \/ driver # "BC95" /\ task' = [GoTo(ipReadNsorf(Step[2])) EXCEPT !.rb = r]
  BY <1>2 DEF ipReadStep, Pick, ipReadB656, ipReadB657, ipReadTools
<1> HIDE DEF r
<1>5. ASSUME NEW p \in Seq(Steps), task' = [GoTo(p) EXCEPT !.rb = r]
      PROVE  task' \in TaskType /\ task'.op = task.op /\ task'.todo = p \o Rest
  <2>1. GoTo(p) \in TaskType /\ GoTo(p).op = task.op /\ GoTo(p).todo = p \o Rest
    BY <1>1, <1>5, GoType
  <2> QED BY <1>3, <1>5, <2>1, TaskUpdate
<1>6. CASE driver = "BC95" /\ task' = [GoTo(<<>>) EXCEPT !.rb = r]
  <2>1. <<>> \in Seq(Calm) /\ <<>> \in Seq(Steps)
    OBVIOUS
  <2> QED BY <1>1, <1>5, <1>6, <2>1, GoesTo
<1>7. CASE driver = "BG96" /\ task' = [GoTo(ipReadBG96(Step[2])) EXCEPT !.rb = r]
  <2>1. ipReadBG96(Step[2]) \in Seq(Calm)
    BY <1>2, ReadFronts
  <2> QED BY <1>1, <1>5, <1>7, <2>1, CalmIsSteps, GoesTo
<1>8. CASE driver # "BC95" /\ task' = [GoTo(ipReadNsorf(Step[2])) EXCEPT !.rb = r]
  <2> DEFINE p == ipReadNsorf(Step[2])
  <2>1. Front(p, driver)
    BY <1>2, <1>8, ReadFronts
  <2>2. p # <<>> /\ p[1][1] = "send"
    <3>1. p # <<>> /\ p[1] = Send("NSORF", <<net.number, Step[2]>>)
      BY DEF ipReadNsorf
    <3> QED BY <3>1 DEF Send
  <2>3. p \in Seq(Steps)
    BY <2>1 DEF Front
  <2> HIDE DEF p
  <2>4. task' \in TaskType /\ task'.op = task.op /\ task'.todo = p \o Rest
    BY <1>5, <1>8, <2>3 DEF p
  <2> QED BY <1>1, <2>1, <2>2, <2>4, GoesToFront
<1> QED BY <1>4, <1>6, <1>7, <1>8

\* A step that may change the count (not BC95's) or the ring.
LEMMA NetStepPreserves ==
  ASSUME DriverInv, Walks, SameNet, UNCHANGED <<wired, driver, filters, status, modem, tx>>,
         ring' \in 0..BufSize, driver = "BC95" => ring' >= ring,
         \/ rx' = rx
         \/ rx # <<>> /\ rx' = Tail(rx) /\ Head(rx).tag \notin Urcs
  PROVE  DriverInv'
<1>1. (TaskInv /\ NetInv /\ AvailInv /\ SocketInv)'
  BY WalksKeep
<1>2. tx' \in Seq(Commands)
  BY DEF DriverInv, WireInv
<1>3. (WireInv /\ StatusInv)'
  BY <1>2, LinesTaken DEF Reports
<1> QED BY <1>1, <1>3 DEF DriverInv

\* Only BC95's count matters.
LEMMA AvailUpdate ==
  ASSUME net \in NetType, NEW k \in Int, driver # "BC95", net' = [net EXCEPT !.avail = k]
  PROVE  SameNet
  BY DEF SameNet, NetType

\* The answer to NSORF.
LEMMA RowPreserves ==
  ASSUME DriverInv, rowStep
  PROVE  DriverInv'
<1>1. task.todo # <<>> /\ Step[1] = "row"
  BY DEF rowStep, Ready, At
<1>2. /\ net \in NetType /\ ring \in 0..BufSize /\ TaskInv /\ task.resp \in Lines /\ driver # "BC95"
      /\ Go \in TaskType /\ Go.op = task.op /\ Go.todo = Rest
  BY <1>1, InFunction, TaskFields, GoType DEF OfDriver
<1> DEFINE l == task.resp
           own == l.tag = "row" /\ l.n = net.number
           takes == own /\ 0 < l.m /\ l.m <= Step[2]
           a == IF l.tag = "OK" THEN 0 ELSE IF own THEN l.m ELSE Go.rb
           b == IF takes THEN Go.data + l.m ELSE Go.data
           k == IF takes THEN l.rem ELSE net.avail
<1>3. l.m \in Int /\ l.rem \in Int
  BY <1>2 DEF Lines
<1>4. a \in Int /\ b \in Int /\ k \in Int
  <2>1. Go.rb \in Int /\ Go.data \in Int /\ net.avail \in Int
    BY <1>2, TaskFields, NetFields
  <2> QED BY <1>3, <2>1
<1>5. Net([[Go EXCEPT !.rb = a] EXCEPT !.data = b], [net EXCEPT !.avail = k], ring) /\ UNCHANGED rx
  <2>1. [Go EXCEPT !.rb = a].data = Go.data
    BY <1>2 DEF TaskType
  <2> QED BY <2>1 DEF rowStep
<1> HIDE DEF a, b, k
<1>6. task' \in TaskType /\ task'.op = task.op /\ task'.todo = Rest
  <2> DEFINE t == [Go EXCEPT !.rb = a]
  <2>1. t \in TaskType /\ t.op = task.op /\ t.todo = Rest
    BY <1>2, <1>4, TaskUpdate
  <2>2. task' = [t EXCEPT !.data = b]
    BY <1>5 DEF Net
  <2> HIDE DEF t
  <2> QED BY <1>4, <2>1, <2>2, TaskUpdate
<1>7. Walks
  BY <1>1, <1>2, <1>6, WalksOn
<1>8. SameNet
  BY <1>2, <1>4, <1>5, AvailUpdate DEF Net
<1> QED BY <1>2, <1>5, <1>7, <1>8, NetStepPreserves DEF Net

\* BG96's raw bytes go into the ring, which keeps its size.
LEMMA RawPreserves ==
  ASSUME DriverInv, rawStep
  PROVE  DriverInv'
<1>1. task.todo # <<>> /\ Step[1] = "raw"
  BY DEF rawStep, Ready, At
<1>2. /\ net \in NetType /\ ring \in 0..BufSize /\ TaskInv /\ rx \in Seq(Lines)
      /\ Go \in TaskType /\ Go.op = task.op /\ Go.todo = Rest
  BY <1>1, InFunction, GoType
<1>3. CASE Net(Go, net, ring) /\ UNCHANGED rx
  <2>1. Walks
    BY <1>1, <1>2, <1>3, WalksOn DEF Net
  <2>2. SameNet /\ ring' \in 0..BufSize /\ ring' >= ring
    BY <1>2, <1>3, DriverAssumption DEF SameNet, Net
  <2> QED BY <1>3, <2>1, <2>2, NetStepPreserves DEF Net
<1>4. CASE /\ rx # <<>> /\ Head(rx).tag = "raw" /\ rx' = Tail(rx)
           /\ Net([GoTo(<<ReplyOk>>) EXCEPT !.rb = Head(rx).n], net, Lesser(ring + Head(rx).n, BufSize))
  <2> DEFINE k == Head(rx).n
             p == <<ReplyOk>>
  <2>1. k \in Nat /\ Head(rx).tag \notin Urcs
    <3>1. Head(rx) \in Lines
      BY <1>2, <1>4
    <3> QED BY <1>4, <3>1 DEF Lines, Urcs
  <2>2. p \in Seq(Calm) /\ p # <<>> /\ p[1] = ReplyOk
    BY Vocabulary
  <2>3. Front(p, driver) /\ p \in Seq(Steps) /\ p[1][1] = "ok"
    BY <2>2, CalmProper, CalmIsSteps DEF ReplyOk
  <2>4. task' = [GoTo(p) EXCEPT !.rb = k] /\ net' = net /\ ring' = Lesser(ring + k, BufSize)
    BY <1>4 DEF Net
  <2> HIDE DEF k, p
  <2>5. GoTo(p) \in TaskType /\ GoTo(p).op = task.op /\ GoTo(p).todo = p \o Rest
    BY <1>1, <2>3, GoType
  <2>6. task' \in TaskType /\ task'.op = task.op /\ task'.todo = p \o Rest
    <3>1. k \in Int
      BY <2>1
    <3> QED BY <2>4, <2>5, <3>1, TaskUpdate
  <2>7. Walks
    BY <1>1, <1>2, <2>2, <2>3, <2>6, WalksTo
  <2>8. SameNet /\ ring' \in 0..BufSize /\ ring' >= ring
    BY <1>2, <2>1, <2>4, RingBounds DEF SameNet
  <2> QED BY <1>4, <2>1, <2>7, <2>8, NetStepPreserves DEF Net
<1> QED BY <1>3, <1>4 DEF rawStep

\* bytes += rb
LEMMA TookPreserves ==
  ASSUME DriverInv, tookStep
  PROVE  DriverInv'
<1>1. task.todo # <<>> /\ Step[1] \in {"took", "bgTook"}
  BY DEF tookStep, At
<1>2. /\ net \in NetType /\ ring \in 0..BufSize /\ TaskInv /\ OfDriver(Step, driver)
      /\ Go \in TaskType /\ Go.op = task.op /\ Go.todo = Rest /\ task.rb \in Int
  BY <1>1, InFunction, GoType, TaskFields
<1>3. task' \in TaskType /\ task'.op = task.op /\ task'.todo = Rest
  <2> DEFINE t == [Go EXCEPT !.ok = TRUE]
             b == IF task.rb > 0 THEN Go.bytes + task.rb ELSE Go.bytes
  <2>1. t \in TaskType /\ t.op = task.op /\ t.todo = Rest
    BY <1>2, UpdateOk
  <2>2. b \in Int
    BY <1>2, TaskFields
  <2>3. task' = [t EXCEPT !.bytes = b]
    <3>1. t.bytes = Go.bytes
      BY <1>2 DEF TaskType
    <3> QED BY <3>1 DEF tookStep
  <2> HIDE DEF t, b
  <2> QED BY <2>1, <2>2, <2>3, TaskUpdate
<1>4. Walks
  BY <1>1, <1>2, <1>3, WalksOn
<1>5. SameNet
  <2>1. CASE At("took") /\ UNCHANGED net
    BY <1>2, <2>1 DEF SameNet
  <2>2. CASE At("bgTook") /\ net' = [net EXCEPT !.avail = 0]
    <3>1. driver # "BC95" /\ 0 \in Int
      BY <1>2, <2>2 DEF At, OfDriver
    <3> QED BY <1>2, <2>2, <3>1, AvailUpdate
  <2> QED BY <2>1, <2>2 DEF tookStep
<1>6. ring' \in 0..BufSize /\ ring' >= ring
  BY <1>2, DriverAssumption DEF tookStep
<1> QED BY <1>4, <1>5, <1>6, NetStepPreserves DEF tookStep, Quiet

\* rc = ipRead(...) + bytes
LEMMA SumPreserves ==
  ASSUME DriverInv, sumStep
  PROVE  DriverInv'
<1>1. task.todo # <<>> /\ Step[1] = "sum" /\ Internal
  BY DEF sumStep, At
<1>2. Go \in TaskType /\ Go.op = task.op /\ Go.todo = Rest /\ task \in TaskType
  BY <1>1, InFunction, GoType
<1>3. task' \in TaskType /\ task'.op = task.op /\ task'.todo = Rest
  <2> DEFINE t == [Go EXCEPT !.ok = TRUE]
             b == task.rb + task.bytes
  <2>1. t \in TaskType /\ t.op = task.op /\ t.todo = Rest
    BY <1>2, UpdateOk
  <2>2. b \in Int
    BY <1>2, TaskFields
  <2>3. task' = [t EXCEPT !.val = b]
    BY DEF sumStep
  <2> HIDE DEF t, b
  <2> QED BY <2>1, <2>2, <2>3, UpdateVal
<1> QED BY <1>1, <1>3, GoesOn

\* A flush is not an end of the loop.
LEMMA FlushFirst ==
  ASSUME NEW s
  PROVE  <<Flush, s>> # <<>> /\ <<Flush, s>>[1][1] = "flush"
  BY DEF Flush

\* The loop goes on.
LEMMA MoreBytesPreserves ==
  ASSUME DriverInv, moreBytes
  PROVE  DriverInv'
<1>1. task.todo # <<>> /\ Step[1] \notin {"filter", "flush"} /\ Internal
  BY DEF moreBytes, At
<1>2. /\ Step \in Steps /\ OfDriver(Step, driver) /\ task \in TaskType /\ net.number \in Int
  BY <1>1, InFunction, NetFields
<1>3. CASE /\ At("bcLoop")
           /\ task' = [GoTo(<<Flush, Do("bcLook")>>) EXCEPT !.dgm = IF Step[2] THEN ipAvailable ELSE @]
  <2> DEFINE p == <<Flush, Do("bcLook")>>
             d == IF Step[2] THEN ipAvailable ELSE task.dgm
  <2>1. Front(p, driver) /\ p # <<>> /\ p[1][1] = "flush"
    <3>1. 0 \in Int
      OBVIOUS
    <3> QED BY <1>2, <3>1, ReadFronts, FlushFirst
  <2>2. d \in Int
    BY <1>2, Available, TaskFields
  <2>3. p \in Seq(Steps)
    BY <2>1 DEF Front
  <2>4. GoTo(p) \in TaskType /\ GoTo(p).op = task.op /\ GoTo(p).todo = p \o Rest /\ GoTo(p).dgm = task.dgm
    BY <1>1, <2>3, GoType
  <2>5. task' = [GoTo(p) EXCEPT !.dgm = d]
    BY <1>3, <2>4
  <2> HIDE DEF p, d
  <2>6. task' \in TaskType /\ task'.op = task.op /\ task'.todo = p \o Rest
    BY <2>2, <2>4, <2>5, TaskUpdate
  <2> QED BY <1>1, <2>1, <2>6, GoesToFront
<1>4. CASE At("saraLoop") /\ task' = GoTo(<<Flush, Do("saraLook")>>)
  <2> DEFINE p == <<Flush, Do("saraLook")>>
  <2>1. p \in Seq(Calm)
    BY Vocabulary
  <2>2. task' = GoTo(p)
    BY <1>4
  <2> HIDE DEF p
  <2> QED BY <1>1, <2>1, <2>2, CalmIsSteps, GoType, GoesTo
<1>5. CASE At("toolsLoop") /\ task' = GoTo(<<Do("toolsLook")>>)
  <2> DEFINE p == <<Do("toolsLook")>>
  <2>1. p \in Seq(Calm)
    BY Vocabulary
  <2>2. task' = GoTo(p)
    BY <1>5
  <2> HIDE DEF p
  <2> QED BY <1>1, <2>1, <2>2, CalmIsSteps, GoType, GoesTo
<1>6. CASE At("bgLoop") /\ task' = GoTo(<<Flush, Do("bgLook")>>)
  <2> DEFINE p == <<Flush, Do("bgLook")>>
  <2>1. driver = "BG96" /\ 0 \in Int
    BY <1>2, <1>6 DEF At, OfDriver
  <2>2. Front(p, driver) /\ p # <<>> /\ p[1][1] = "flush"
    BY <1>2, <2>1, ReadFronts, FlushFirst
  <2>3. p \in Seq(Steps) /\ task' = GoTo(p)
    BY <1>6, <2>2 DEF Front
  <2> HIDE DEF p
  <2> QED BY <1>1, <2>2, <2>3, GoType, GoesToFront
<1> QED BY <1>3, <1>4, <1>5, <1>6 DEF moreBytes

\* The step after the loop.
LEMMA EndPrograms ==
  /\ <<Do("saraRest")>> \in Seq(Calm) /\ <<Do("toolsRest")>> \in Seq(Calm)
  /\ <<Do("saraLoop")>> \in Seq(Calm)
  /\ \A n \in Int : <<Ip(n), Do("took"), Do("saraLoop")>> \in Seq(Calm)
  /\ \A n \in Int : <<Ip(n), Do("took"), Do("toolsLoop")>> \in Seq(Calm)
  /\ \A n \in Int : <<Ip(n), Do("sum")>> \in Seq(Calm)
  BY Vocabulary

\* BC95's read() leaves its loop, or goes on with it.
LEMMA BcTask ==
  ASSUME DriverInv, task.todo # <<>>, UNCHANGED <<wired, driver>>, task' \in TaskType,
         task'.op = task.op, NEW s, Front(<<s>>, driver), task'.todo = <<s>> \o Rest
  PROVE  TaskInv' /\ Step' = s /\ task'.todo # <<>>
<1>1. TaskInv /\ Rest = Tail(task.todo) /\ Proper(task.todo, driver)
  BY InFunction
<1>2. Continues
  BY DEF Continues
<1>3. <<s>> # <<>> /\ <<s>>[1] = s
  OBVIOUS
<1>4. task'.todo # <<>> /\ Head(task'.todo) = s
  BY <1>1, <1>3, PushProper
<1> QED BY <1>1, <1>2, <1>4, ContinuesTask DEF Step

\* Away from connect(), the socket keeps its filter.
LEMMA SocketAway ==
  ASSUME DriverInv, task.todo # <<>>, Step[1] \notin {"filter", "flush"}, UNCHANGED filters,
         net'.number = net.number, net'.nsonmi = net.nsonmi
  PROVE  SocketInv'
<1>1. ~Installs
  <2>1. Flush[1] = "flush" /\ Do("filter")[1] = "filter"
    BY DEF Flush, Do
  <2>2. Head(<<Flush, Do("filter")>>) = Flush /\ Head(<<Do("filter")>>) = Do("filter")
    OBVIOUS
  <2> QED BY <2>1, <2>2 DEF Installs, Step
<1> QED BY <1>1 DEF DriverInv, SocketInv, HasFilter

\* The loop ends.
LEMMA TimeUpPreserves ==
  ASSUME DriverInv, timeUp
  PROVE  DriverInv'
<1>1. task.todo # <<>> /\ Step[1] \notin {"filter", "flush"} /\ Internal
  BY DEF timeUp, At
<1>2. /\ Step \in Steps /\ OfDriver(Step, driver) /\ task \in TaskType /\ net.number \in Int
      /\ net \in NetType /\ tx \in Seq(Commands) /\ ring \in 0..BufSize
  BY <1>1, InFunction, NetFields
<1>3. CASE /\ At("bcLoop") /\ (~Step[2] \/ ShortReads \/ task.bytes >= task.arg)
           /\ task' = [GoTo(<<Do("bcRest")>>) EXCEPT !.dgm = IF Step[2] THEN ipAvailable ELSE @]
  <2> DEFINE s == Do("bcRest")
             p == <<s>>
             d == IF Step[2] THEN ipAvailable ELSE task.dgm
  <2>1. Front(p, driver)
    <3>1. 0 \in Int
      OBVIOUS
    <3> QED BY <1>2, <3>1, ReadFronts
  <2>2. d \in Int
    BY <1>2, Available, TaskFields
  <2>3. p \in Seq(Steps)
    BY <2>1 DEF Front
  <2>4. GoTo(p) \in TaskType /\ GoTo(p).op = task.op /\ GoTo(p).todo = p \o Rest
        /\ GoTo(p).dgm = task.dgm /\ GoTo(p).bytes = task.bytes /\ GoTo(p).arg = task.arg
    BY <1>1, <2>3, GoType
  <2>5. task' = [GoTo(p) EXCEPT !.dgm = d]
    BY <1>3, <2>4
  <2>6. s[1] = "bcRest"
    BY DEF Do
  <2> HIDE DEF s, d
  <2>7. task' \in TaskType /\ task'.op = task.op /\ task'.todo = p \o Rest /\ task'.dgm = d
        /\ task'.bytes = task.bytes /\ task'.arg = task.arg
    <3> HIDE DEF p
    <3> QED BY <2>2, <2>4, <2>5 DEF TaskType
  <2>8. TaskInv' /\ Step' = s
    BY <1>1, <2>1, <2>7, BcTask DEF Internal, Quiet, drvVars
  <2>9. ASSUME driver = "BC95", ~ShortReads PROVE task'.dgm = 0 \/ task'.bytes >= task'.arg
    <3>1. ~Step[2] => task.dgm = 0
      BY <1>3, <2>9 DEF DriverInv, AvailInv
    <3> QED BY <1>3, <2>7, <2>9, <3>1 DEF d
  <2>10. ~At("bcLoop")'
    BY <2>6, <2>8 DEF At
  <2>11. UNCHANGED <<driver, net, ring, filters, rx, tx, status, modem>>
    BY <1>1 DEF Internal, Quiet, drvVars
  <2>12. AvailInv' /\ NetInv'
    BY <1>2, <2>9, <2>10, <2>11 DEF DriverInv, AvailInv, NetInv
  <2>13. SocketInv'
    BY <1>1, <2>11, SocketAway
  <2>14. (WireInv /\ StatusInv)'
    BY <1>2, <2>11, LinesTaken
  <2> QED BY <2>8, <2>12, <2>13, <2>14 DEF DriverInv
<1>4. CASE At("saraLoop") /\ task' = GoTo(<<Do("saraRest")>>)
  <2> DEFINE p == <<Do("saraRest")>>
  <2>1. p \in Seq(Calm) /\ task' = GoTo(p)
    BY <1>4, EndPrograms
  <2> HIDE DEF p
  <2> QED BY <1>1, <2>1, CalmIsSteps, GoType, GoesTo
<1>5. CASE At("toolsLoop") /\ task' = GoTo(<<Do("toolsRest")>>)
  <2> DEFINE p == <<Do("toolsRest")>>
  <2>1. p \in Seq(Calm) /\ task' = GoTo(p)
    BY <1>5, EndPrograms
  <2> HIDE DEF p
  <2> QED BY <1>1, <2>1, CalmIsSteps, GoType, GoesTo
<1>6. CASE At("bgLoop") /\ task' = GoTo(<<Do("bgRest")>>)
  <2> DEFINE p == <<Do("bgRest")>>
  <2>1. driver = "BG96" /\ 0 \in Int
    BY <1>2, <1>6 DEF At, OfDriver
  <2>2. p # <<>> /\ p[1][1] = "bgRest"
    BY DEF Do
  <2>3. Front(p, driver)
    BY <1>2, <2>1, ReadFronts
  <2>4. p \in Seq(Steps) /\ task' = GoTo(p)
    BY <1>6, <2>3 DEF Front
  <2> HIDE DEF p
  <2> QED BY <1>1, <2>2, <2>3, <2>4, GoType, GoesToFront
<1> QED BY <1>3, <1>4, <1>5, <1>6 DEF timeUp

\* An update of the count.
LEMMA NetCount ==
  ASSUME net \in NetType, NEW k \in Int, net' = [net EXCEPT !.avail = k]
  PROVE  /\ net' \in NetType /\ net'.avail = k /\ net'.number = net.number
         /\ net'.nsonmi = net.nsonmi
  BY DEF NetType

\* The look of BC95's read() at the ring: all that is there is not enough.
LEMMA BcTakes ==
  ASSUME DriverInv, At("bcLook"), NEW l, Front(<<l>>, driver), l[1] = "bcLoop",
         TakeBC95([GoTo(<<l>>) EXCEPT !.dgm = 0, !.bytes = @ + ipAvailable], ipAvailable),
         UNCHANGED rx
  PROVE  DriverInv'
<1>1. task.todo # <<>> /\ Step[1] \notin {"filter", "flush"}
  BY DEF At
<1>2. task \in TaskType /\ net \in NetType /\ tx \in Seq(Commands) /\ ring \in 0..BufSize
  BY <1>1, InFunction
<1> DEFINE d == ipAvailable
           p == <<l>>
           g == GoTo(p)
           t1 == [g EXCEPT !.dgm = 0]
           t2 == [t1 EXCEPT !.bytes = g.bytes + d]
           c == (net.avail - d) % CountMod
           r == ring - Lesser(d, ring)
<1>3. d \in Nat /\ (driver = "BC95" /\ ~ShortReads => d = net.avail)
  BY Available
<1>4. g \in TaskType /\ g.op = task.op /\ g.todo = p \o Rest
  BY <1>1, GoType DEF Front
<1>5. /\ task' = [t2 EXCEPT !.data = t2.data + Lesser(d, ring)]
      /\ net' = [net EXCEPT !.avail = c] /\ ring' = r
      /\ UNCHANGED <<wired, tx, filters, driver, status, modem>>
  <2>1. t1.bytes = g.bytes
    BY <1>4 DEF TaskType
  <2> QED BY <2>1 DEF TakeBC95, Net
<1> HIDE DEF d
<1>6. Lesser(d, ring) \in 0..ring /\ r \in 0..BufSize
  BY <1>2, <1>3, RingBounds
<1>7. net.avail \in Int /\ c \in Nat
  <2>1. net.avail \in Int
    BY <1>2, NetFields
  <2>2. net.avail - d \in Int
    BY <1>3, <2>1
  <2> QED BY <2>1, <2>2, Counts
<1>8. driver = "BC95" /\ ~ShortReads => c = 0
  <2>1. 0 % CountMod = 0
    BY Counts, DriverAssumption
  <2>2. d = net.avail => net.avail - d = 0
    BY <1>7
  <2> QED BY <1>3, <2>1, <2>2
<1> HIDE DEF c, r, g
<1>9. t1 \in TaskType /\ t1.op = task.op /\ t1.todo = p \o Rest /\ t1.dgm = 0
  <2>1. 0 \in Int
    OBVIOUS
  <2> HIDE DEF p
  <2> QED BY <1>4, <2>1, UpdateDgm
<1>10. t2 \in TaskType /\ t2.op = task.op /\ t2.todo = p \o Rest /\ t2.dgm = 0
  <2>1. g.bytes + d \in Int
    BY <1>3, <1>4, TaskFields
  <2> HIDE DEF t1, p
  <2> QED BY <1>9, <2>1 DEF TaskType
<1> HIDE DEF t2
<1>11. task' \in TaskType /\ task'.op = task.op /\ task'.todo = p \o Rest /\ task'.dgm = 0
  <2> DEFINE b == t2.data + Lesser(d, ring)
  <2>1. b \in Int
    BY <1>2, <1>6, <1>10, TaskFields
  <2>2. task' = [t2 EXCEPT !.data = b]
    BY <1>5
  <2> HIDE DEF b, p
  <2> QED BY <1>10, <2>1, <2>2 DEF TaskType
<1>12. TaskInv' /\ Step' = l
  BY <1>1, <1>5, <1>11, BcTask
<1>13. net' \in NetType /\ net'.avail = c /\ net'.number = net.number /\ net'.nsonmi = net.nsonmi
  <2>1. c \in Int
    BY <1>7
  <2> QED BY <1>2, <1>5, <2>1, NetCount
<1>14. ~At("bcRest")'
  BY <1>12 DEF At
<1>15. NetInv' /\ AvailInv'
  <2>1. c = 0 => c \in 0..r
    BY <1>6
  <2> QED BY <1>5, <1>6, <1>8, <1>11, <1>13, <1>14, <2>1 DEF NetInv, AvailInv
<1>16. SocketInv'
  BY <1>1, <1>5, <1>13, SocketAway
<1>17. (WireInv /\ StatusInv)'
  BY <1>2, <1>5, LinesTaken
<1> QED BY <1>12, <1>15, <1>16, <1>17 DEF DriverInv

\* BC95's read() looks at the ring.
LEMMA BcLookPreserves ==
  ASSUME DriverInv, bcLook
  PROVE  DriverInv'
<1>1. task.todo # <<>> /\ Step[1] \notin {"filter", "flush"} /\ At("bcLook")
  BY DEF bcLook, At
<1>2. /\ task \in TaskType /\ net.number \in Int /\ net \in NetType /\ tx \in Seq(Commands)
      /\ ring \in 0..BufSize
  BY <1>1, InFunction, NetFields
<1> DEFINE d == ipAvailable
           l == <<"bcLoop", FALSE>>
           s == IF d = 0 THEN l ELSE Do("bcRest")
           p == <<s>>
<1>3. Front(<<l>>, driver) /\ Front(<<Do("bcRest")>>, driver)
  <2>1. 0 \in Int
    OBVIOUS
  <2> QED BY <1>2, <2>1, ReadFronts, Zenon
<1>4. l[1] = "bcLoop" /\ Do("bcRest")[1] = "bcRest"
  BY DEF Do
<1>5. d \in Nat /\ (driver = "BC95" /\ ~ShortReads => d = net.avail)
  BY Available
<1>6. \/ /\ d = 0 \/ task.arg <= d + task.bytes
         /\ task' = [GoTo(p) EXCEPT !.dgm = d] /\ Internal
      \/ /\ TakeBC95([GoTo(<<l>>) EXCEPT !.dgm = 0, !.bytes = @ + d], d)
         /\ UNCHANGED rx
  BY DEF bcLook
<1>7. CASE /\ TakeBC95([GoTo(<<l>>) EXCEPT !.dgm = 0, !.bytes = @ + d], d)
           /\ UNCHANGED rx
  <2> HIDE DEF l
  <2> QED BY <1>1, <1>3, <1>4, <1>7, BcTakes
<1> HIDE DEF d, l
<1>8. CASE /\ d = 0 \/ task.arg <= d + task.bytes
           /\ task' = [GoTo(p) EXCEPT !.dgm = d] /\ Internal
  <2>1. Front(p, driver) /\ (d = 0 => s[1] = "bcLoop") /\ (d # 0 => s[1] = "bcRest")
    BY <1>3, <1>4
  <2> HIDE DEF s
  <2>2. p \in Seq(Steps)
    BY <2>1 DEF Front
  <2>3. GoTo(p) \in TaskType /\ GoTo(p).op = task.op /\ GoTo(p).todo = p \o Rest
        /\ GoTo(p).bytes = task.bytes /\ GoTo(p).arg = task.arg
    BY <1>1, <2>2, GoType
  <2>4. task' \in TaskType /\ task'.op = task.op /\ task'.todo = p \o Rest /\ task'.dgm = d
        /\ task'.bytes = task.bytes /\ task'.arg = task.arg
    <3>1. d \in Int /\ task' = [GoTo(p) EXCEPT !.dgm = d]
      BY <1>5, <1>8
    <3> HIDE DEF p
    <3> QED BY <2>3, <3>1 DEF TaskType
  <2>5. UNCHANGED <<wired, driver, net, ring, filters, rx, tx, status, modem>>
    BY <1>8 DEF Internal, Quiet, drvVars
  <2>6. TaskInv' /\ Step' = s
    BY <1>1, <2>1, <2>4, <2>5, BcTask
  <2>7. At("bcRest")' => d # 0 /\ task.arg <= d + task.bytes
    BY <1>8, <2>1, <2>6 DEF At
  <2>8. At("bcLoop")' => d = 0
    BY <2>1, <2>6 DEF At
  <2>9. AvailInv' /\ NetInv'
    BY <1>2, <1>5, <2>4, <2>5, <2>7, <2>8 DEF DriverInv, AvailInv, NetInv
  <2>10. SocketInv'
    BY <1>1, <2>5, SocketAway
  <2>11. (WireInv /\ StatusInv)'
    BY <1>2, <2>5, LinesTaken
  <2> QED BY <2>6, <2>9, <2>10, <2>11 DEF DriverInv
<1> QED BY <1>6, <1>7, <1>8

\* BC95 takes the rest: no more than the last line put there.
LEMMA BcRestPreserves ==
  ASSUME DriverInv, bcRest
  PROVE  DriverInv'
<1>1. task.todo # <<>> /\ Step[1] \notin {"filter", "flush"} /\ At("bcRest")
  BY DEF bcRest, At
<1>2. /\ task \in TaskType /\ net \in NetType /\ tx \in Seq(Commands) /\ ring \in 0..BufSize
      /\ TaskInv /\ Go \in TaskType /\ Go.op = task.op /\ Go.todo = Rest /\ Go.data = task.data
  BY <1>1, InFunction, GoType
<1>3. task.arg \in Nat /\ task.bytes \in Int /\ task.data \in Int /\ net.avail \in Int
      /\ task.dgm \in Int
  BY <1>2, TaskFields, NetFields
<1>4. CASE task' = [Go EXCEPT !.val = task.bytes] /\ Internal
  <2>1. task' \in TaskType /\ task'.op = task.op /\ task'.todo = Rest
    BY <1>2, <1>3, <1>4, UpdateVal
  <2> QED BY <1>1, <1>4, <2>1, GoesOn
<1>5. CASE /\ 0 < task.dgm /\ task.bytes < task.arg /\ UNCHANGED rx
           /\ TakeBC95([Go EXCEPT !.val = task.arg], task.arg - task.bytes)
  <2> DEFINE k == task.arg - task.bytes
             t == [Go EXCEPT !.val = task.arg]
             c == (net.avail - k) % CountMod
             r == ring - Lesser(k, ring)
  <2>1. /\ task' = [t EXCEPT !.data = t.data + Lesser(k, ring)]
        /\ net' = [net EXCEPT !.avail = c] /\ ring' = r
        /\ UNCHANGED <<wired, tx, filters, driver, status, modem>>
    BY <1>5 DEF TakeBC95, Net
  <2>2. k \in Int /\ k > 0
    BY <1>3, <1>5
  <2>3. Lesser(k, ring) \in 0..ring /\ r \in 0..BufSize
    BY <1>2, <2>2, RingBounds
  <2>4. c \in Nat
    <3>1. net.avail - k \in Int
      BY <1>3, <2>2
    <3> QED BY <3>1, Counts
  <2>5. ASSUME driver = "BC95", ~ShortReads PROVE c \in 0..r
    <3>1. task.dgm = net.avail /\ task.arg <= task.dgm + task.bytes /\ net.avail \in 0..ring
      BY <1>1, <1>3, <1>5, <2>5 DEF DriverInv, AvailInv
    <3>2. k <= net.avail /\ k <= ring /\ net.avail - k \in Nat /\ net.avail - k <= BufSize
      BY <1>2, <1>3, <2>2, <3>1, DriverAssumption
    <3>3. c = net.avail - k
      BY <3>2, Counts
    <3>4. Lesser(k, ring) = k
      BY <3>2 DEF Lesser
    <3> QED BY <1>2, <2>2, <3>1, <3>2, <3>3, <3>4
  <2> HIDE DEF k, c, r
  <2>6. t \in TaskType /\ t.op = task.op /\ t.todo = Rest
    <3>1. task.arg \in Int
      BY <1>3
    <3> QED BY <1>2, <3>1, UpdateVal
  <2> HIDE DEF t
  <2>7. task' \in TaskType /\ task'.op = task.op /\ task'.todo = Rest
    <3> DEFINE b == t.data + Lesser(k, ring)
    <3>1. b \in Int
      BY <1>2, <2>3, <2>6, TaskFields
    <3>2. task' = [t EXCEPT !.data = b]
      BY <2>1
    <3> HIDE DEF b
    <3> QED BY <2>6, <3>1, <3>2, TaskUpdate
  <2>8. net' \in NetType /\ net'.avail = c /\ net'.number = net.number /\ net'.nsonmi = net.nsonmi
    <3>1. c \in Int
      BY <2>4
    <3> QED BY <1>2, <2>1, <3>1, NetCount
  <2>9. Continues
    BY <1>1, <2>7 DEF Continues
  <2>10. Rest # <<>> => Head(Rest)[1] \notin {"bcRest", "bcLoop"}
    BY <1>1, <1>2, RestProper DEF TaskInv, Rest
  <2>11. (TaskInv /\ NetInv /\ AvailInv)'
    BY <2>1, <2>3, <2>5, <2>7, <2>8, <2>9, <2>10, CountChanged
  <2>12. SocketInv'
    BY <1>1, <2>1, <2>8, SocketAway
  <2>13. (WireInv /\ StatusInv)'
    BY <1>2, <1>5, <2>1, LinesTaken
  <2> QED BY <2>11, <2>12, <2>13 DEF DriverInv
<1> QED BY <1>4, <1>5 DEF bcRest

\* The SARA modems look at the count, and read the rest.
LEMMA SaraPreserves ==
  ASSUME DriverInv, saraLook \/ saraRest
  PROVE  DriverInv'
<1>1. task.todo # <<>> /\ Step[1] \notin {"filter", "flush"} /\ Internal
  BY DEF saraLook, saraRest, At
<1>2. /\ task \in TaskType /\ ipAvailable \in Int /\ task.arg \in Int /\ task.bytes \in Int
      /\ Go \in TaskType /\ Go.op = task.op /\ Go.todo = Rest
  <2>1. task \in TaskType
    BY <1>1, InFunction
  <2> QED BY <1>1, <2>1, TaskFields, Available, GoType
<1>3. CASE saraLook
  <2> DEFINE d == ipAvailable
             p == IF d = 0 THEN <<Do("saraLoop")>>
                  ELSE IF task.arg <= d + task.bytes THEN <<Do("saraRest")>>
                  ELSE <<Ip(d), Do("took"), Do("saraLoop")>>
  <2>1. p \in Seq(Calm)
    BY <1>2, EndPrograms
  <2>2. task' = [GoTo(p) EXCEPT !.dgm = d]
    BY <1>3 DEF saraLook
  <2> HIDE DEF p, d
  <2>3. GoTo(p) \in TaskType /\ GoTo(p).op = task.op /\ GoTo(p).todo = p \o Rest
    BY <1>1, <2>1, CalmIsSteps, GoType
  <2>4. task' \in TaskType /\ task'.op = task.op /\ task'.todo = p \o Rest
    BY <1>2, <2>2, <2>3, UpdateDgm DEF d
  <2> QED BY <1>1, <2>1, <2>4, GoesTo
<1>4. CASE saraRest
  <2>1. CASE task' = [Go EXCEPT !.val = task.bytes]
    <3>1. task' \in TaskType /\ task'.op = task.op /\ task'.todo = Rest
      BY <1>2, <2>1, UpdateVal
    <3> QED BY <1>1, <3>1, GoesOn
  <2>2. CASE task' = GoTo(<<Ip(task.arg - task.bytes), Do("sum")>>)
    <3> DEFINE p == <<Ip(task.arg - task.bytes), Do("sum")>>
    <3>1. task.arg - task.bytes \in Int
      BY <1>2
    <3>2. p \in Seq(Calm) /\ task' = GoTo(p)
      BY <2>2, <3>1, EndPrograms
    <3> HIDE DEF p
    <3> QED BY <1>1, <3>2, CalmIsSteps, GoType, GoesTo
  <2> QED BY <1>4, <2>1, <2>2 DEF saraRest
<1> QED BY <1>3, <1>4

\* NbiotConnectivity does.
LEMMA ToolsPreserves ==
  ASSUME DriverInv, toolsLook \/ toolsRest
  PROVE  DriverInv'
<1>1. task.todo # <<>> /\ Step[1] \notin {"filter", "flush"} /\ Internal
  BY DEF toolsLook, toolsRest, At
<1>2. /\ task \in TaskType /\ ipAvailable \in Int /\ task.bytes \in Int
      /\ Go \in TaskType /\ Go.op = task.op /\ Go.todo = Rest
  <2>1. task \in TaskType
    BY <1>1, InFunction
  <2> QED BY <1>1, <2>1, TaskFields, Available, GoType
<1>3. ASSUME NEW p \in Seq(Calm), task' = GoTo(p) PROVE DriverInv'
  BY <1>1, <1>3, CalmIsSteps, GoType, GoesTo
<1>4. CASE toolsLook
  <2>1. <<Do("toolsRest")>> \in Seq(Calm) /\ <<Ip(1), Do("took"), Do("toolsLoop")>> \in Seq(Calm)
    BY EndPrograms
  <2>2. \/ task' = GoTo(<<Do("toolsRest")>>)
        \/ task' = GoTo(<<Ip(1), Do("took"), Do("toolsLoop")>>)
    BY <1>4 DEF toolsLook
  <2> QED BY <1>3, <2>1, <2>2
<1>5. CASE toolsRest
  <2>1. CASE task' = [Go EXCEPT !.val = task.bytes]
    <3>1. task' \in TaskType /\ task'.op = task.op /\ task'.todo = Rest
      BY <1>2, <2>1, UpdateVal
    <3> QED BY <1>1, <3>1, GoesOn
  <2>2. CASE task' = GoTo(<<Ip(ipAvailable), Do("sum")>>)
    <3>1. <<Ip(ipAvailable), Do("sum")>> \in Seq(Calm)
      BY <1>2, EndPrograms
    <3> QED BY <1>3, <2>2, <3>1
  <2> QED BY <1>5, <2>1, <2>2 DEF toolsRest
<1> QED BY <1>4, <1>5

\* BG96 starts, and looks at the count.
LEMMA BgPreserves ==
  ASSUME DriverInv, bgStart \/ bgLook
  PROVE  DriverInv'
<1>1. task.todo # <<>> /\ Step[1] \in {"bgStart", "bgLook"} /\ Internal
  BY DEF bgStart, bgLook, At
<1>2. /\ task \in TaskType /\ net.number \in Int /\ driver = "BG96"
      /\ task.arg \in Int /\ task.bytes \in Int /\ ring \in Int
  <2>1. task \in TaskType /\ net \in NetType /\ OfDriver(Step, driver) /\ ring \in 0..BufSize
    BY <1>1, InFunction
  <2>2. driver = "BG96"
    BY <1>1, <2>1, Zenon DEF OfDriver
  <2>3. net.number \in Int
    BY <2>1, NetFields
  <2>4. task.arg \in Nat /\ task.bytes \in Int
    BY <2>1, TaskFields
  <2>5. ring \in Int
    BY <2>1, DriverAssumption
  <2> QED BY <2>1, <2>2, <2>3, <2>4, <2>5
<1>3. CASE bgStart
  <2> DEFINE p == <<Ip(task.arg), Do("bgTook")>>
  <2>1. \/ task' = [GoTo(<<>>) EXCEPT !.bytes = ring]
        \/ task' = [GoTo(p) EXCEPT !.bytes = ring]
    BY <1>3 DEF bgStart
  <2>2. Front(p, driver)
    BY <1>2, ReadFronts
  <2>3. p # <<>> /\ p[1][1] = "ipRead"
    BY DEF Ip
  <2> HIDE DEF p
  <2>4. p \in Seq(Steps) /\ <<>> \in Seq(Calm) /\ <<>> \in Seq(Steps)
    BY <2>2 DEF Front
  <2>5. ASSUME NEW q \in Seq(Steps), task' = [GoTo(q) EXCEPT !.bytes = ring]
        PROVE  task' \in TaskType /\ task'.op = task.op /\ task'.todo = q \o Rest
    <3>1. GoTo(q) \in TaskType /\ GoTo(q).op = task.op /\ GoTo(q).todo = q \o Rest
      BY <1>1, <2>5, GoType
    <3> QED BY <1>2, <2>5, <3>1, TaskUpdate
  <2>6. CASE task' = [GoTo(<<>>) EXCEPT !.bytes = ring]
    BY <1>1, <2>4, <2>5, <2>6, GoesTo
  <2>7. CASE task' = [GoTo(p) EXCEPT !.bytes = ring]
    BY <1>1, <2>2, <2>3, <2>4, <2>5, <2>7, GoesToFront
  <2> QED BY <2>1, <2>6, <2>7
<1>4. CASE bgLook
  <2> DEFINE p == <<Do("bgLoop")>>
             q == <<Ip(task.arg - task.bytes), Do("bgTook"), Do("bgLoop")>>
  <2>1. task' = GoTo(p) \/ task' = GoTo(q)
    BY <1>4 DEF bgLook
  <2>2. Front(p, driver) /\ Front(q, driver)
    <3>1. task.arg - task.bytes \in Int
      BY <1>2
    <3> QED BY <1>2, <3>1, ReadFronts
  <2>3. p # <<>> /\ p[1][1] = "bgLoop" /\ q # <<>> /\ q[1][1] = "ipRead"
    BY DEF Do, Ip
  <2> HIDE DEF p, q
  <2>4. p \in Seq(Steps) /\ q \in Seq(Steps)
    BY <2>2 DEF Front
  <2> QED BY <1>1, <2>1, <2>2, <2>3, <2>4, GoType, GoesToFront
<1> QED BY <1>3, <1>4

\* BG96 takes what it wants out of the ring.
LEMMA BgRestPreserves ==
  ASSUME DriverInv, bgRest
  PROVE  DriverInv'
<1>1. task.todo # <<>> /\ Step[1] = "bgRest" /\ UNCHANGED rx
  BY DEF bgRest, At
<1>2. /\ task \in TaskType /\ net \in NetType /\ driver = "BG96" /\ ring \in 0..BufSize /\ TaskInv
      /\ Go \in TaskType /\ Go.op = task.op /\ Go.todo = Rest
  BY <1>1, InFunction, GoType DEF OfDriver
<1> DEFINE k == Lesser(ring, task.arg)
<1>3. k \in Int /\ ring - k \in 0..BufSize
  <2>1. task.arg \in Nat
    BY <1>2, TaskFields
  <2>2. k \in 0..ring /\ ring - k \in 0..BufSize
    BY <1>2, <2>1, RingBounds
  <2> QED BY <1>2, <2>2
<1>4. \/ Net([[Go EXCEPT !.val = k] EXCEPT !.data = k], net, ring - k)
      \/ Net([Go EXCEPT !.val = -1], net, ring)
  BY DEF bgRest
<1> HIDE DEF k
<1>5. task' \in TaskType /\ task'.op = task.op /\ task'.todo = Rest
  <2>1. CASE task' = [Go EXCEPT !.val = -1]
    <3> DEFINE m == -1
    <3>1. m \in Int /\ task' = [Go EXCEPT !.val = m]
      BY <2>1
    <3> HIDE DEF m
    <3> QED BY <1>2, <3>1, UpdateVal
  <2>2. CASE task' = [[Go EXCEPT !.val = k] EXCEPT !.data = k]
    <3> DEFINE t == [Go EXCEPT !.val = k]
    <3>1. t \in TaskType /\ t.op = task.op /\ t.todo = Rest /\ task' = [t EXCEPT !.data = k]
      BY <1>2, <1>3, <2>2, UpdateVal
    <3> HIDE DEF t
    <3> QED BY <1>3, <3>1, TaskUpdate
  <2> QED BY <1>4, <2>1, <2>2 DEF Net
<1>6. Walks
  BY <1>1, <1>2, <1>5, WalksOn
<1>7. SameNet /\ ring' \in 0..BufSize
  BY <1>2, <1>3, <1>4 DEF SameNet, Net
<1>8. UNCHANGED <<wired, driver, filters, status, modem, tx>>
  BY <1>4 DEF Net
<1> QED BY <1>1, <1>2, <1>6, <1>7, <1>8, NetStepPreserves

\* All steps of the read() loops.
LEMMA ReadLoopPreserves ==
  ASSUME DriverInv, ReadLoop
  PROVE  DriverInv'
<1>1. CASE ipReadStep
  BY <1>1, IpReadPreserves
<1>2. CASE rowStep
  BY <1>2, RowPreserves
<1>3. CASE rawStep
  BY <1>3, RawPreserves
<1>4. CASE tookStep
  BY <1>4, TookPreserves
<1>5. CASE sumStep
  BY <1>5, SumPreserves
<1>6. CASE moreBytes
  BY <1>6, MoreBytesPreserves
<1>7. CASE bcLook
  BY <1>7, BcLookPreserves
<1>8. CASE bcRest
  BY <1>8, BcRestPreserves
<1>9. CASE saraLook \/ saraRest
  BY <1>9, SaraPreserves
<1>10. CASE toolsLook \/ toolsRest
  BY <1>10, ToolsPreserves
<1>11. CASE bgStart \/ bgLook
  BY <1>11, BgPreserves
<1>12. CASE bgRest
  BY <1>12, BgRestPreserves
<1> QED BY <1>1, <1>2, <1>3, <1>4, <1>5, <1>6, <1>7, <1>8, <1>9, <1>10, <1>11, <1>12 DEF ReadLoop

----------------------------------------------------------------------------
(* Unsolicited lines                                                       *)

\* A handler of an unsolicited line keeps the function and the socket.
LEMMA HandlerKeeps ==
  ASSUME DriverInv, NEW tag, Handles(tag), net' \in NetType, net'.number = net.number,
         net'.nsonmi = net.nsonmi, ring' \in 0..BufSize,
         driver = "BC95" /\ ~ShortReads => net'.avail \in 0..ring'
  PROVE  (TaskInv /\ NetInv /\ AvailInv /\ SocketInv)'
<1>1. UNCHANGED <<task, wired, driver, filters>> /\ Step[1] \in Readers /\ task.todo # <<>>
  BY DEF Handles
<1>2. ~At("bcRest")' /\ ~At("bcLoop")'
  BY <1>1 DEF At, Step, Readers
<1>3. TaskInv'
  BY <1>1 DEF DriverInv, TaskInv
<1>4. AvailInv' /\ NetInv'
  BY <1>1, <1>2 DEF AvailInv, NetInv
<1>5. SocketInv'
  BY <1>1 DEF DriverInv, SocketInv, HasFilter, Installs
<1> QED BY <1>3, <1>4, <1>5

\* The handlers of datagrams.
LEMMA DatagramPreserves ==
  ASSUME DriverInv,
         parseFilterResultBC95 \/ parseFilterResultSara \/ parseFilterResultBG96
  PROVE  DriverInv'
<1>1. net \in NetType /\ ring \in 0..BufSize /\ rx \in Seq(Lines) /\ tx \in Seq(Commands)
  BY DEF DriverInv, NetInv, AvailInv, WireInv
<1>2. ASSUME NEW tag, Handles(tag), tag \notin Urcs, UNCHANGED status, net' \in NetType,
             net'.number = net.number, net'.nsonmi = net.nsonmi, ring' \in 0..BufSize,
             driver = "BC95" /\ ~ShortReads => net'.avail \in 0..ring'
      PROVE  DriverInv'
  <2>1. (TaskInv /\ NetInv /\ AvailInv /\ SocketInv)'
    BY <1>2, HandlerKeeps
  <2>2. /\ rx # <<>> /\ rx' = Tail(rx) /\ Head(rx).tag \notin Urcs
        /\ UNCHANGED <<driver, filters, status, modem, tx>>
    BY <1>2 DEF Handles
  <2>3. (WireInv /\ StatusInv)'
    BY <1>1, <2>2, LinesTaken DEF Reports
  <2> QED BY <2>1, <2>3 DEF DriverInv
<1>3. "+NSONMI:" \notin Urcs /\ "+QIURC:" \notin Urcs
  BY DEF Urcs
<1>4. CASE parseFilterResultBC95
  <2> DEFINE k == Lesser(Head(rx).m, BufSize - ring)
  <2>1. Handles("+NSONMI:") /\ UNCHANGED status
    BY <1>4 DEF parseFilterResultBC95
  <2>2. Head(rx).m \in Nat
    <3>1. rx # <<>> /\ Head(rx).tag = "+NSONMI:"
      BY <2>1 DEF Handles
    <3>2. Head(rx) \in Lines
      BY <1>1, <3>1
    <3> QED BY <3>1, <3>2 DEF Lines
  <2>3. k \in 0..BufSize - ring
    BY <1>1, <2>2, RingBounds
  <2>4. k \in Int /\ ring + k \in 0..BufSize /\ k \in 0..ring + k
    BY <1>1, <2>3, DriverAssumption
  <2>5. CASE net' = [net EXCEPT !.avail = k] /\ ring' = ring + k
    <3> HIDE DEF k
    <3>1. net' \in NetType /\ net'.avail = k /\ net'.number = net.number /\ net'.nsonmi = net.nsonmi
      BY <1>1, <2>4, <2>5, NetCount
    <3> QED BY <1>2, <1>3, <2>1, <2>4, <2>5, <3>1
  <2>6. CASE UNCHANGED <<net, ring>>
    <3>1. driver = "BC95" /\ ~ShortReads => net'.avail \in 0..ring'
      BY <2>6 DEF DriverInv, AvailInv
    <3> QED BY <1>1, <1>2, <1>3, <2>1, <2>6, <3>1
  <2> QED BY <1>4, <2>5, <2>6 DEF parseFilterResultBC95
<1>5. CASE parseFilterResultSara
  <2>1. Handles("+NSONMI:") /\ UNCHANGED <<ring, status>> /\ driver # "BC95"
        /\ net' = [net EXCEPT !.avail = Head(rx).m]
    BY <1>5 DEF parseFilterResultSara
  <2>2. Head(rx).m \in Int
    <3>1. rx # <<>>
      BY <2>1 DEF Handles
    <3>2. Head(rx) \in Lines
      BY <1>1, <3>1
    <3> QED BY <3>2 DEF Lines
  <2>3. net' \in NetType /\ net'.number = net.number /\ net'.nsonmi = net.nsonmi
    BY <1>1, <2>1, <2>2, NetCount
  <2> QED BY <1>1, <1>2, <1>3, <2>1, <2>3
<1>6. CASE parseFilterResultBG96
  <2>1. Handles("+QIURC:") /\ UNCHANGED <<ring, status>> /\ driver # "BC95"
        /\ net' = [net EXCEPT !.avail = 1] /\ 1 \in Int
    BY <1>6 DEF parseFilterResultBG96
  <2>2. net' \in NetType /\ net'.number = net.number /\ net'.nsonmi = net.nsonmi
    BY <1>1, <2>1, NetCount
  <2> QED BY <1>1, <1>2, <1>3, <2>1, <2>2
<1> QED BY <1>4, <1>5, <1>6

\* A status report reaches the application.
LEMMA ReportPreserves ==
  ASSUME DriverInv, NEW u \in Urcs, Handles(u), Head(rx).whole, UNCHANGED <<net, ring>>,
         status' = [status EXCEPT ![u] = Head(rx).n]
  PROVE  DriverInv'
<1>1. /\ rx # <<>> /\ rx' = Tail(rx) /\ Head(rx).tag = u /\ Filtered(Head(rx))
      /\ UNCHANGED <<driver, filters, modem, tx, wired, task>>
  BY DEF Handles
<1>0. Reports(Head(rx), u) /\ \A w \in Urcs : w # u => ~Reports(Head(rx), w)
  BY <1>1 DEF Reports
<1>2. /\ rx \in Seq(Lines) /\ tx \in Seq(Commands) /\ modem \in ModemType
      /\ driver \in {"BC95", "B656", "B657", "BG96", "tools"} /\ status \in [Urcs -> Int]
  BY DEF DriverInv, WireInv, StatusInv
<1>3. (TaskInv /\ NetInv /\ AvailInv /\ SocketInv)'
  BY <1>1, WaitsAlone
<1>4. /\ rx' \in Seq(Lines) /\ Len(rx) \in Nat /\ Len(rx') = Len(rx) - 1 /\ Head(rx) = rx[1]
      /\ 1 \in 1..Len(rx)
      /\ \A i \in 1..Len(rx') : rx'[i] = rx[i + 1] /\ i + 1 \in 1..Len(rx)
      /\ \A i \in 1..Len(rx) : i = 1 \/ i - 1 \in 1..Len(rx')
  BY <1>1, <1>2
<1>5. Head(rx).n \in Int
  <2>1. Head(rx) \in Lines
    BY <1>1, <1>2
  <2> QED BY <2>1 DEF Lines
<1>6. status' \in [Urcs -> Int] /\ status'[u] = Head(rx).n
      /\ \A w \in Urcs : w # u => status'[w] = status[w]
  BY <1>2, <1>5
<1>7. \A i \in 1..Len(rx) : i = 1 \/ (i - 1 \in 1..Len(rx') /\ rx'[i - 1] = rx[i])
  <2>1. SUFFICES ASSUME NEW i \in 1..Len(rx), i # 1
                 PROVE  i - 1 \in 1..Len(rx') /\ rx'[i - 1] = rx[i]
    OBVIOUS
  <2>2. i - 1 \in 1..Len(rx') /\ (i - 1) + 1 = i
    BY <1>4, <2>1
  <2> QED BY <1>4, <2>2
<1>8. ASSUME NEW w \in Urcs PROVE Latest(rx', modem'.last, w)
  <2>1. Latest(rx, modem.last, w)
    BY DEF DriverInv, StatusInv
  <2>2. SUFFICES ASSUME NEW i \in 1..Len(rx'), Reports(rx'[i], w),
                        \A j \in 1..Len(rx') : i < j => ~Reports(rx'[j], w)
                 PROVE  rx'[i].n = modem.last[w]
    BY <1>1 DEF Latest
  <2>3. ASSUME NEW j \in 1..Len(rx), i + 1 < j PROVE ~Reports(rx[j], w)
    <3>1. j # 1 /\ i < j - 1
      BY <2>2, <2>3, <1>4
    <3> QED BY <1>7, <2>2, <3>1
  <2> QED BY <1>4, <2>1, <2>2, <2>3 DEF Latest
<1>9. Filter(u, Any) \in filters
  <2>1. PICK f \in filters : f.tag = u
    BY <1>1 DEF Filtered
  <2> QED BY <2>1 DEF DriverInv, StatusInv
<1>10. ASSUME NEW w \in Urcs, status'[w] # Unknown, \A i \in 1..Len(rx') : ~Reports(rx'[i], w)
       PROVE  status'[w] = modem.last[w]
  <2>1. CASE w = u
    <3>1. \A j \in 1..Len(rx) : 1 < j => ~Reports(rx[j], u)
      BY <1>7, <1>10, <2>1
    <3>2. Latest(rx, modem.last, u)
      BY DEF DriverInv, StatusInv
    <3>3. rx[1].n = modem.last[u]
      BY <1>0, <1>4, <3>1, <3>2 DEF Latest
    <3> QED BY <1>4, <1>6, <2>1, <3>3
  <2>2. CASE w # u
    <3>1. \A i \in 1..Len(rx) : ~Reports(rx[i], w)
      BY <1>0, <1>4, <1>7, <1>10, <2>2
    <3> QED BY <1>6, <1>10, <2>2, <3>1 DEF DriverInv, StatusInv
  <2> QED BY <2>1, <2>2
<1>11. \A w \in Urcs : status'[w] # Unknown => Filter(w, Any) \in filters
  BY <1>6, <1>9 DEF DriverInv, StatusInv
<1>12. StatusInv'
  BY <1>1, <1>6, <1>8, <1>10, <1>11 DEF DriverInv, StatusInv
<1>13. WireInv'
  BY <1>1, <1>2, <1>4 DEF WireInv
<1> QED BY <1>3, <1>12, <1>13 DEF DriverInv

\* A report that is short of fields does not.
LEMMA ShortPreserves ==
  ASSUME DriverInv, NEW u \in Urcs, Handles(u), ~Head(rx).whole, UNCHANGED <<net, ring, status>>
  PROVE  DriverInv'
<1>1. /\ rx # <<>> /\ rx' = Tail(rx)
      /\ UNCHANGED <<driver, filters, status, modem, tx, wired, task>>
  BY DEF Handles
<1>2. \A w \in Urcs : ~Reports(Head(rx), w)
  BY DEF Reports
<1>3. tx' \in Seq(Commands)
  BY <1>1 DEF DriverInv, WireInv
<1>4. (WireInv /\ StatusInv)'
  BY <1>1, <1>2, <1>3, LinesTaken
<1>5. (TaskInv /\ NetInv /\ AvailInv /\ SocketInv)'
  BY <1>1, WaitsAlone
<1> QED BY <1>4, <1>5 DEF DriverInv

\* All handlers.
LEMMA HandleUrcPreserves ==
  ASSUME DriverInv, HandleUrc
  PROVE  DriverInv'
<1>1. CASE parseFilterResultBC95 \/ parseFilterResultSara \/ parseFilterResultBG96
  BY <1>1, DatagramPreserves
<1>2. {"+CEREG:", "+NPSMR:", "+CSCON:"} \subseteq Urcs
  BY DEF Urcs
<1>3. CASE parseCeregUrc
  <2>1. /\ Handles("+CEREG:") /\ UNCHANGED <<net, ring>>
        /\ Head(rx).whole => status' = [status EXCEPT !["+CEREG:"] = Head(rx).n]
        /\ ~Head(rx).whole => UNCHANGED status
    BY <1>3 DEF parseCeregUrc
  <2>2. CASE Head(rx).whole
    BY <1>2, <2>1, <2>2, ReportPreserves
  <2>3. CASE ~Head(rx).whole
    BY <1>2, <2>1, <2>3, ShortPreserves
  <2> QED BY <2>2, <2>3
<1>4. ASSUME NEW u \in {"+NPSMR:", "+CSCON:"}, Handles(u) PROVE Head(rx).whole
  <2>1. rx # <<>> /\ Head(rx).tag = u /\ rx \in Seq(Lines)
    BY <1>4 DEF Handles, DriverInv, WireInv
  <2>2. Head(rx) \in Lines
    BY <2>1
  <2> QED BY <1>4, <2>1, <2>2 DEF Lines
<1>5. CASE parseNpsmrUrc
  <2>1. /\ Handles("+NPSMR:") /\ UNCHANGED <<net, ring>>
        /\ status' = [status EXCEPT !["+NPSMR:"] = Head(rx).n]
    BY <1>5 DEF parseNpsmrUrc
  <2> QED BY <1>2, <1>4, <2>1, ReportPreserves
<1>6. CASE parseCsconUrc
  <2>1. /\ Handles("+CSCON:") /\ UNCHANGED <<net, ring>>
        /\ status' = [status EXCEPT !["+CSCON:"] = Head(rx).n]
    BY <1>6 DEF parseCsconUrc
  <2> QED BY <1>2, <1>4, <2>1, ReportPreserves
<1> QED BY <1>1, <1>3, <1>5, <1>6 DEF HandleUrc

\* All steps of the driver functions.
LEMMA DriverStepPreserves ==
  ASSUME DriverInv, DriverStep
  PROVE  DriverInv'
<1>1. CASE AtStep
  <2>1. UNCHANGED drvVars /\ (sendCommand \/ ReadStep \/ skipStep(Guarded) \/ End)
    BY <1>1 DEF AtStep
  <2> QED BY <2>1, SendPreserves, ReadPreserves, SkipPreserves, EndPreserves
<1>2. CASE callStep \/ responseStep \/ branchStep \/ forceStep \/ imsiStep
  BY <1>2, CallPreserves, ResponsePreserves, BranchPreserves, ForcePreserves, ImsiPreserves
<1>3. CASE filterStep \/ openStep \/ qiopenStep \/ bgOpenStep \/ closeStep
  BY <1>3, FilterPreserves, OpenPreserves, QiopenPreserves, BgOpenPreserves, ClosePreserves
<1>4. CASE ReadLoop \/ timeUp \/ HandleUrc
  BY <1>4, ReadLoopPreserves, TimeUpPreserves, HandleUrcPreserves
<1> QED BY <1>1, <1>2, <1>3, <1>4 DEF DriverStep

----------------------------------------------------------------------------
(* The calls                                                               *)

\* The idle thread.
LEMMA NoTaskType ==
  /\ NoTask \in TaskType /\ NoTask.dgm = 0 /\ NoTask.bytes = 0 /\ NoTask.todo = <<>>
  /\ NoTask.op = "none"
<1>1. <<>> \in Seq(Steps) /\ NoLine \in Lines
  BY Replies
<1> QED BY <1>1 DEF NoTask, TaskType, Ops

\* The application calls a function with a proper program.
LEMMA CalledPreserves ==
  ASSUME DriverInv, NEW f \in Ops, f # "none", NEW a \in Nat, NEW p, Proper(p, driver),
         NEW v \in Int, Called(f, a, p, v)
  PROVE  DriverInv'
<1>1. /\ task.op = "none" /\ UNCHANGED <<wired, rx, tx, filters>> /\ UNCHANGED drvVars
      /\ task' = [NoTask EXCEPT !.op = f, !.arg = a, !.todo = p, !.val = v,
                                !.clean = (rx = <<>> /\ tx = <<>>)]
  BY DEF Called, Begin
<1>2. p \in Seq(Steps) /\ (rx = <<>> /\ tx = <<>>) \in BOOLEAN
  BY DEF Proper
<1>3. task' \in TaskType /\ task'.todo = p /\ task'.dgm = 0 /\ task'.op = f
  <2> DEFINE b == (rx = <<>> /\ tx = <<>>)
  <2>1. b \in BOOLEAN
    BY <1>2
  <2>2. task' = [NoTask EXCEPT !.op = f, !.arg = a, !.todo = p, !.val = v, !.clean = b]
    BY <1>1
  <2> HIDE DEF b
  <2> QED BY <1>2, <2>1, <2>2, NoTaskType DEF TaskType
<1>4. TaskInv'
  BY <1>1, <1>3 DEF DriverInv, TaskInv, drvVars
<1>5. NetInv' /\ AvailInv'
  BY <1>1, <1>3 DEF DriverInv, NetInv, AvailInv, At, drvVars
<1>6. SocketInv'
  <2>1. task.todo = <<>>
    BY <1>1 DEF DriverInv, TaskInv
  <2>2. ~Installs
    BY <2>1 DEF Installs
  <2>3. net.number >= 0 => HasFilter
    BY <2>2 DEF DriverInv, SocketInv
  <2>4. UNCHANGED <<net, filters>>
    BY <1>1 DEF drvVars
  <2> QED BY <2>3, <2>4 DEF SocketInv, HasFilter
<1>7. (WireInv /\ StatusInv)'
  <2>1. tx' \in Seq(Commands)
    BY <1>1 DEF DriverInv, WireInv
  <2>2. UNCHANGED <<driver, filters, status, modem>> /\ rx' = rx
    BY <1>1 DEF drvVars
  <2> QED BY <2>1, <2>2, LinesTaken
<1> QED BY <1>4, <1>5, <1>6, <1>7 DEF DriverInv

\* All programs the application can call are proper.
LEMMA Programs ==
  ASSUME DriverInv
  PROVE  /\ Proper(Pick(rebootBC95, rebootB656, rebootB657, rebootBG96, rebootTools), driver)
         /\ Proper(Pick(initializeBC95, initializeB656, initializeB657, initializeBG96,
                        initializeTools), driver)
         /\ Proper(Pick(attachBC95, attachBase, attachBase, attachBG96, attachTools), driver)
         /\ Proper(Old(detachBase, detachTools), driver)
         /\ Proper(Old(getAttachState, getAttachStateTools), driver)
         /\ Proper(isModemOn, driver)
         /\ \A s \in {0, 1} : Proper(switchModem(s), driver)
         /\ Proper(Old(getDeviceIdBase, getDeviceIdTools), driver)
         /\ Proper(Old(sendAtCommandBase, sendAtCommandTools), driver)
         /\ Proper(setupCeregUrc, driver)
         /\ Proper(IF driver = "BC95" THEN setupPmUrcsBC95 ELSE setupPmUrcsBase, driver)
         /\ Proper(connect, driver) /\ Proper(disconnect, driver) /\ Proper(write, driver)
         /\ \A n \in Int : Proper(read(n), driver)
<1>1. driver \in {"BC95", "B656", "B657", "BG96", "tools"} /\ net.number \in Int
  BY NetFields DEF DriverInv, WireInv, NetInv
<1>2. \A p \in Seq(Calm) : Proper(p, driver)
  BY CalmProper
<1>3. \A p, q, r, s, t :
        Pick(p, q, r, s, t) \in {p, q, r, s, t} /\ (driver = "BG96" => Pick(p, q, r, s, t) = s)
                                /\ (driver # "BG96" => Pick(p, q, r, s, t) \in {p, q, r, t})
  BY <1>1 DEF Pick
<1>4. \A p, q : Old(p, q) \in {p, q}
  BY DEF Old
<1>0. \A p, q, r, s, t \in Seq(Calm) : Proper(Pick(p, q, r, s, t), driver)
  BY <1>2, <1>3
<1>5. Proper(Pick(rebootBC95, rebootB656, rebootB657, rebootBG96, rebootTools), driver)
  BY <1>0, CalmPrograms
<1>6. Proper(Pick(initializeBC95, initializeB656, initializeB657, initializeBG96,
                  initializeTools), driver)
  BY <1>0, CalmPrograms
<1>7. Proper(Pick(attachBC95, attachBase, attachBase, attachBG96, attachTools), driver)
  BY <1>0, CalmPrograms
<1>8. /\ Proper(Old(detachBase, detachTools), driver)
      /\ Proper(Old(getAttachState, getAttachStateTools), driver)
      /\ Proper(Old(getDeviceIdBase, getDeviceIdTools), driver)
      /\ Proper(Old(sendAtCommandBase, sendAtCommandTools), driver)
  BY <1>2, <1>4, CalmPrograms
<1>9. Proper(isModemOn, driver) /\ \A s \in {0, 1} : Proper(switchModem(s), driver)
  BY <1>2, <1>4, CalmPrograms DEF isModemOn, switchModem
<1>10. /\ Proper(setupCeregUrc, driver)
       /\ Proper(IF driver = "BC95" THEN setupPmUrcsBC95 ELSE setupPmUrcsBase, driver)
  BY <1>2, CalmPrograms
<1>11. Proper(connectNsocr, driver) /\ Proper(connectBG96, driver) /\ Proper(readBC95, driver)
  BY <1>1, NetPrograms
<1>12. /\ disconnectNsocl \in Seq(Calm) /\ disconnectBG96 \in Seq(Calm)
       /\ writeNsost \in Seq(Calm) /\ writeBG96 \in Seq(Calm)
       /\ readTools \in Seq(Calm) /\ \A n \in Int : readSara(n) \in Seq(Calm)
  BY <1>1, NetPrograms
<1>13. Proper(connect, driver)
  BY <1>3, <1>11 DEF connect, connectBC95, connectB656, connectB657, connectTools
<1>14. Proper(disconnect, driver)
  BY <1>12, <1>0 DEF disconnect, disconnectB656, disconnectB657, disconnectTools
<1>15. Proper(write, driver)
  BY <1>12, <1>0 DEF write, writeB656, writeB657, writeTools
<1>16. ASSUME NEW n \in Int PROVE Proper(read(n), driver)
  <2>1. CASE driver = "BG96"
    <3>1. Proper(readBG96, "BG96")
      BY <1>1, NetPrograms
    <3> QED BY <1>3, <2>1, <3>1 DEF read
  <2>2. CASE driver # "BG96"
    <3>1. Proper(readSara(n), driver) /\ Proper(readTools, driver)
      BY <1>2, <1>12
    <3> QED BY <1>3, <1>11, <2>2, <3>1 DEF read, readB656, readB657
  <2> QED BY <2>1, <2>2
<1> QED BY <1>5, <1>6, <1>7, <1>8, <1>9, <1>10, <1>13, <1>14, <1>15, <1>16

\* All calls.
LEMMA ApiCallPreserves ==
  ASSUME DriverInv, ApiCall
  PROVE  DriverInv'
<1> DEFINE m == -1
<1>1. m \in Int /\ 0 \in Int /\ 0 \in Nat /\ 1 \in Nat
  OBVIOUS
<1>2. {"reboot", "initialize", "attach", "detach", "isAttached", "isModemOn", "switchModem",
       "getDeviceId", "sendAtCommand", "cereg", "pm", "connect", "disconnect", "write", "read"}
        \subseteq Ops \ {"none"}
  BY DEF Ops
<1>3. CASE nbiotModemRestart
  BY <1>1, <1>2, <1>3, Programs, CalledPreserves DEF nbiotModemRestart
<1>4. CASE nbiotModemInit
  BY <1>1, <1>2, <1>4, Programs, CalledPreserves DEF nbiotModemInit
<1>5. CASE nbiotAttach
  BY <1>1, <1>2, <1>5, Programs, CalledPreserves DEF nbiotAttach
<1>6. CASE nbiotDetach
  BY <1>1, <1>2, <1>6, Programs, CalledPreserves DEF nbiotDetach
<1>7. CASE isNbiotAttached
  BY <1>1, <1>2, <1>7, Programs, CalledPreserves DEF isNbiotAttached
<1>8. CASE isNbiotModemOn
  BY <1>1, <1>2, <1>8, Programs, CalledPreserves DEF isNbiotModemOn
<1>9. CASE nbiotSwitchModem
  <2>1. PICK s \in {0, 1} : Called("switchModem", s, switchModem(s), 0)
    BY <1>9 DEF nbiotSwitchModem
  <2>2. s \in Nat
    BY <2>1
  <2> QED BY <1>1, <1>2, <2>1, <2>2, Programs, CalledPreserves
<1>10. CASE getNbiotDeviceId
  BY <1>1, <1>2, <1>10, Programs, CalledPreserves DEF getNbiotDeviceId
<1>11. CASE sendAtCommand
  BY <1>1, <1>2, <1>11, Programs, CalledPreserves DEF sendAtCommand
<1>12. CASE installCeregHandler
  BY <1>1, <1>2, <1>12, Programs, CalledPreserves DEF installCeregHandler
<1>13. CASE installPmHandler
  BY <1>1, <1>2, <1>13, Programs, CalledPreserves DEF installPmHandler
<1>14. CASE connectHost
  BY <1>1, <1>2, <1>14, Programs, CalledPreserves DEF connectHost
<1>15. CASE disconnectHost
  BY <1>1, <1>2, <1>15, Programs, CalledPreserves DEF disconnectHost
<1>16. CASE writeHost
  BY <1>1, <1>2, <1>16, Programs, CalledPreserves DEF writeHost
<1>17. CASE readHost
  <2>1. PICK n \in Lens : Called("read", n, read(n), m)
    BY <1>17 DEF readHost
  <2>2. n \in Nat /\ n \in Int
    BY <2>1, DriverAssumption
  <2> QED BY <1>1, <1>2, <2>1, <2>2, Programs, CalledPreserves
<1> QED BY <1>3, <1>4, <1>5, <1>6, <1>7, <1>8, <1>9, <1>10, <1>11, <1>12, <1>13, <1>14, <1>15,
          <1>16, <1>17 DEF ApiCall

\* nbiotCoreConfig()
LEMMA ConfigPreserves ==
  ASSUME DriverInv, nbiotCoreConfig
  PROVE  DriverInv'
<1>1. /\ wired' \in [rx : BOOLEAN, tx : BOOLEAN]
      /\ UNCHANGED <<rx, tx, filters, task, driver, net, ring, status, modem>>
  BY DEF nbiotCoreConfig
<1>2. TaskInv'
  BY <1>1 DEF DriverInv, TaskInv
<1>3. (NetInv /\ AvailInv)'
  BY <1>1 DEF DriverInv, NetInv, AvailInv, At, Step
<1>4. SocketInv'
  BY <1>1 DEF DriverInv, SocketInv, HasFilter, Installs
<1>5. (WireInv /\ StatusInv)'
  BY <1>1, LinesTaken DEF DriverInv, WireInv
<1> QED BY <1>2, <1>3, <1>4, <1>5 DEF DriverInv

----------------------------------------------------------------------------
(* The modem                                                               *)

\* The modem has a lowest free socket.
LEMMA LowestIs ==
  ASSUME NEW S \in SUBSET Sockets, S # {}
  PROVE  Lowest(S) \in S
<1>1. S \subseteq Nat
  BY DriverAssumption DEF Sockets
<1>2. \E s \in S : \A t \in S : s <= t
  <2> DEFINE R == OpToRel(<, Nat)
  <2>1. IsWellFoundedOn(R, Nat)
    BY NatLessThanWellFounded
  <2>2. \A t, s \in Nat : <<t, s>> \in R <=> t < s
    BY DEF OpToRel
  <2> HIDE DEF R
  <2>3. PICK s \in S : \A t \in S : ~(<<t, s>> \in R)
    BY <1>1, <2>1, WFMin, Zenon
  <2>4. \A t \in S : ~(t < s)
    BY <1>1, <2>2, <2>3, Zenon
  <2> QED BY <1>1, <2>3, <2>4
<1> QED BY <1>2 DEF Lowest

\* What a command carries.
LEMMA CommandIs ==
  ASSUME NEW w \in Commands
  PROVE  /\ w[1] \in {"NSORF", "QIRD"} => w[2] \in Int \X Int
         /\ w[1] \notin {"NSORF", "QIRD"} => w[2] \in Int
  BY DEF Commands, Names

\* The variables of the modem.
LEMMA ModemFields ==
  ASSUME NEW w \in ModemType
  PROVE  /\ w.on \in BOOLEAN /\ w.seek \in BOOLEAN /\ w.attached \in BOOLEAN /\ w.qreg \in Int
         /\ w.open \in SUBSET Sockets /\ w.inbox \in [Sockets -> Nat] /\ w.urcs \in SUBSET Urcs
         /\ w.last \in [Urcs -> Int]
  BY DEF ModemType

\* Lines of the modem that are no status reports.
LEMMA SpokenAre ==
  ASSUME NEW g \in Tags \ Urcs, NEW n \in Int, NEW m \in Int,
         g = "raw" => n \in Nat, g = "+NSONMI:" => m \in Nat
  PROVE  Line(g, n, m) \in Spoken
<1>1. Line(g, n, m) \in Lines /\ Line(g, n, m).tag = g
  BY LinesAre
<1> QED BY <1>1 DEF Spoken, Reports

\* The answer to NSORF is one.
LEMMA RowIs ==
  ASSUME NEW s \in Int, NEW k \in Int, NEW r \in Int
  PROVE  Row(s, k, r) \in Spoken
<1>1. /\ "row" \in Tags /\ "row" \notin Urcs
      /\ "row" \notin {"raw", "+NSONMI:", "+NPSMR:", "+CSCON:"}
  BY DEF Tags, Urcs
<1> DEFINE l == [tag |-> "row", n |-> s, m |-> k, rem |-> r, whole |-> TRUE]
<1>2. l \in [tag : Tags, n : Int, m : Int, rem : Int, whole : BOOLEAN] /\ l.tag = "row"
  BY <1>1
<1> HIDE DEF l
<1>3. l \in Lines
  BY <1>1, <1>2 DEF Lines
<1> QED BY <1>1, <1>2, <1>3 DEF Spoken, Reports, Row, l

\* What the modem reads out of its inbox.
LEMMA WaitingIs ==
  ASSUME modem \in ModemType, NEW c \in {"NSORF", "QIRD"}, NEW a \in Int \X Int, ~Refused(c, a)
  PROVE  /\ a[1] \in Sockets /\ a[1] \in Int /\ modem.inbox[a[1]] \in Nat /\ Waiting(a) \in Nat
         /\ modem.inbox[a[1]] - Waiting(a) \in Nat
<1>1. a[1] \in modem.open /\ ~(a[2] < 0)
  BY DEF Refused
<1>2. a[2] \in Nat
  BY <1>1
<1>3. a[1] \in Sockets /\ modem.inbox[a[1]] \in Nat
  BY <1>1, ModemFields
<1> QED BY <1>2, <1>3 DEF Waiting, Lesser

\* Answers of one, two and three lines.
LEMMA SpokenOne == \A l \in Spoken : <<l>> \in Seq(Spoken)
  OBVIOUS
LEMMA SpokenTwo == \A l, k \in Spoken : <<l, k>> \in Seq(Spoken)
  OBVIOUS
LEMMA SpokenThree == \A l, k, j \in Spoken : <<l, k, j>> \in Seq(Spoken)
  OBVIOUS

\* No answer of the modem is a status report.
LEMMA AnswerType ==
  ASSUME modem \in ModemType, NEW c, NEW a, <<c, a>> \in Commands
  PROVE  Answer(c, a) \in Seq(Spoken)
<1> DEFINE Plain == {"OK", "ERROR", "+CFUN:", "+CGATT:", "+QREGSWT:", "imsi", "text", "number",
                     "sent", "+QIOPEN:", "SEND OK", "+QIRD:"}
<1>1. Plain \subseteq Tags \ Urcs /\ "raw" \in Tags \ Urcs
      /\ "raw" \notin Plain /\ "+NSONMI:" \notin Plain
  BY DEF Tags, Urcs
<1> HIDE DEF Plain
<1>2. ASSUME NEW g \in Plain, NEW n \in Int PROVE Line(g, n, 0) \in Spoken
  BY <1>1, <1>2, SpokenAre
<1>3. OkReply \in Spoken /\ ErrReply \in Spoken
  <2>1. "OK" \in Plain /\ "ERROR" \in Plain
    BY DEF Plain
  <2> QED BY <1>2, <2>1 DEF OkReply, ErrReply
<1>4. /\ c \in {"NSORF", "QIRD"} => a \in Int \X Int
      /\ c \notin {"NSORF", "QIRD"} => a \in Int
  BY CommandIs
<1>5. CASE Refused(c, a)
  <2>1. Answer(c, a) = <<ErrReply>>
    BY <1>5 DEF Answer
  <2> QED BY <1>3, <2>1, SpokenOne
<1>6. CASE ~Refused(c, a) /\ c \in {"CFUN?", "CGATT?", "QREGSWT?", "CIMI", "user", "NSOST"}
  <2>1. \E g \in {"+CFUN:", "+CGATT:", "+QREGSWT:", "imsi", "text", "sent"},
           n \in {0, 1, modem.qreg} : Answer(c, a) = <<Line(g, n, 0), OkReply>>
    BY <1>6 DEF Answer
  <2>2. PICK g \in {"+CFUN:", "+CGATT:", "+QREGSWT:", "imsi", "text", "sent"},
             n \in {0, 1, modem.qreg} : Answer(c, a) = <<Line(g, n, 0), OkReply>>
    BY <2>1
  <2>3. g \in Plain
    BY <2>2 DEF Plain
  <2>4. n \in Int
    BY <2>2, ModemFields
  <2> QED BY <1>2, <1>3, <2>2, <2>3, <2>4, SpokenTwo
<1>7. CASE ~Refused(c, a) /\ c = "NSOCR"
  <2>1. Free # {} /\ Free \in SUBSET Sockets
    BY <1>7 DEF Refused, Free
  <2>2. Lowest(Free) \in Int
    <3>1. Lowest(Free) \in Sockets
      BY <2>1, LowestIs
    <3> QED BY <3>1, DriverAssumption DEF Sockets
  <2>3. Answer(c, a) = <<Line("number", Lowest(Free), 0), OkReply>>
    BY <1>7 DEF Answer
  <2>4. "number" \in Plain
    BY DEF Plain
  <2> QED BY <1>2, <1>3, <2>2, <2>3, <2>4, SpokenTwo
<1>8. CASE ~Refused(c, a) /\ c \in {"NSORF", "QIRD"}
  <2>1. a[1] \in Int /\ Waiting(a) \in Nat /\ modem.inbox[a[1]] - Waiting(a) \in Nat
    BY <1>4, <1>8, WaitingIs
  <2>2. \/ Answer(c, a) = <<Row(a[1], Waiting(a), modem.inbox[a[1]] - Waiting(a)), OkReply>>
        \/ Answer(c, a) = <<Line("+QIRD:", Waiting(a), 0), Line("raw", Waiting(a), 0), OkReply>>
        \/ Answer(c, a) = <<Line("+QIRD:", 0, 0), OkReply>>
        \/ Answer(c, a) = <<OkReply>>
    <3>1. CASE c = "NSORF" /\ Waiting(a) > 0
      BY <1>8, <3>1, Zenon DEF Answer
    <3>2. CASE c = "NSORF" /\ ~(Waiting(a) > 0)
      BY <1>8, <3>2, Zenon DEF Answer
    <3>3. CASE c = "QIRD" /\ Waiting(a) > 0 /\ Waiting(a) # 0
      BY <1>8, <3>3, Zenon DEF Answer
    <3>4. CASE c = "QIRD" /\ ~(Waiting(a) > 0) /\ Waiting(a) = 0
      BY <1>8, <3>4, Zenon DEF Answer
    <3>5. Waiting(a) > 0 <=> Waiting(a) # 0
      BY <2>1
    <3> QED BY <1>8, <3>1, <3>2, <3>3, <3>4, <3>5, Zenon
  <2>3. Row(a[1], Waiting(a), modem.inbox[a[1]] - Waiting(a)) \in Spoken
    BY <2>1, RowIs
  <2>4. "+QIRD:" \in Plain
    BY DEF Plain
  <2>5. Line("+QIRD:", Waiting(a), 0) \in Spoken /\ Line("+QIRD:", 0, 0) \in Spoken
    BY <1>2, <2>1, <2>4
  <2>6. Line("raw", Waiting(a), 0) \in Spoken
    BY <1>1, <2>1, SpokenAre
  <2> QED BY <1>3, <2>2, <2>3, <2>5, <2>6, SpokenOne, SpokenTwo, SpokenThree
<1>9. CASE ~Refused(c, a) /\ c = "QIOPEN"
  <2>1. Answer(c, a) = <<OkReply, Line("+QIOPEN:", a, 0)>>
    BY <1>9 DEF Answer
  <2>2. "+QIOPEN:" \in Plain /\ a \in Int
    BY <1>4, <1>9 DEF Plain
  <2> QED BY <1>2, <1>3, <2>1, <2>2, SpokenTwo
<1>10. CASE ~Refused(c, a) /\ c = "QISENDEX"
  <2>1. Answer(c, a) = <<Line("SEND OK", 0, 0)>>
    BY <1>10 DEF Answer
  <2> DEFINE g == "SEND OK"
  <2>2. g \in Plain /\ Answer(c, a) = <<Line(g, 0, 0)>>
    BY <2>1 DEF Plain
  <2> HIDE DEF g
  <2> QED BY <1>2, <2>2, SpokenOne
<1>11. CASE /\ ~Refused(c, a)
            /\ c \notin {"CFUN?", "CGATT?", "QREGSWT?", "CIMI", "user", "NSOST", "NSOCR",
                         "NSORF", "QIRD", "QIOPEN", "QISENDEX"}
  <2>1. Answer(c, a) = <<OkReply>>
    BY <1>11 DEF Answer
  <2> QED BY <1>3, <2>1, SpokenOne
<1> QED BY <1>5, <1>6, <1>7, <1>8, <1>9, <1>10, <1>11

\* No command changes the last status the modem printed.
LEMMA ObeyedType ==
  ASSUME modem \in ModemType, NEW c, NEW a, <<c, a>> \in Commands
  PROVE  Obeyed(c, a) \in ModemType /\ Obeyed(c, a).last = modem.last
<1>1. /\ c \in {"NSORF", "QIRD"} => a \in Int \X Int
      /\ c \notin {"NSORF", "QIRD"} => a \in Int
  BY CommandIs
<1> DEFINE M == Obeyed(c, a)
<1>2. CASE Refused(c, a)
  BY <1>2 DEF Obeyed
<1>3. CASE ~Refused(c, a) /\ c = "CFUN"
  <2> DEFINE on == (a = 1)
             att == modem.attached /\ a = 1
  <2>1. on \in BOOLEAN /\ att \in BOOLEAN
    OBVIOUS
  <2>2. M = [modem EXCEPT !.on = on, !.attached = att]
    BY <1>3 DEF Obeyed
  <2> HIDE DEF on, att, M
  <2>3. M \in ModemType /\ M.last = modem.last
    BY <2>1, <2>2 DEF ModemType
  <2> QED BY <2>3 DEF M
<1>4. CASE ~Refused(c, a) /\ c \in {"COPS", "CGATT"}
  <2>1. \/ M = [modem EXCEPT !.seek = TRUE]
        \/ M = [modem EXCEPT !.seek = FALSE, !.attached = FALSE]
    BY <1>4 DEF Obeyed
  <2> HIDE DEF M
  <2>2. M \in ModemType /\ M.last = modem.last
    BY <2>1 DEF ModemType
  <2> QED BY <2>2 DEF M
<1>5. CASE ~Refused(c, a) /\ c = "QREGSWT"
  <2>1. M = [modem EXCEPT !.qreg = a] /\ a \in Int
    BY <1>1, <1>5 DEF Obeyed
  <2> HIDE DEF M
  <2>2. M \in ModemType /\ M.last = modem.last
    BY <2>1 DEF ModemType
  <2> QED BY <2>2 DEF M
<1>6. CASE ~Refused(c, a) /\ c = "NRB"
  <2>1. M = [NoModem EXCEPT !.qreg = modem.qreg, !.last = modem.last]
    BY <1>6 DEF Obeyed
  <2> HIDE DEF M
  <2>2. modem.qreg \in Int /\ modem.last \in [Urcs -> Int]
    BY ModemFields
  <2>3. M \in ModemType /\ M.last = modem.last
    BY <2>1, <2>2 DEF ModemType, NoModem
  <2> QED BY <2>3 DEF M
<1>7. CASE ~Refused(c, a) /\ c \in {"CEREG", "NPSMR", "CSCON"}
  <2>1. \E u \in {"+CEREG:", "+NPSMR:", "+CSCON:"} :
           M = [modem EXCEPT !.urcs = modem.urcs \cup {u}]
    BY <1>7 DEF Obeyed
  <2> HIDE DEF M
  <2>2. PICK u \in Urcs : M = [modem EXCEPT !.urcs = modem.urcs \cup {u}]
    BY <2>1 DEF Urcs
  <2>3. M \in ModemType /\ M.last = modem.last
    BY <2>2 DEF ModemType
  <2> QED BY <2>3 DEF M
<1>8. CASE ~Refused(c, a) /\ c \in {"NSOCR", "QIOPEN"}
  <2>1. \E s \in Sockets : M = [modem EXCEPT !.open = modem.open \cup {s}]
    <3>1. CASE c = "NSOCR"
      <4>1. Free # {} /\ Free \in SUBSET Sockets
        BY <1>8, <3>1 DEF Refused, Free
      <4>2. Lowest(Free) \in Sockets
        BY <4>1, LowestIs
      <4> QED BY <1>8, <3>1, <4>2 DEF Obeyed
    <3>2. CASE c = "QIOPEN"
      <4>1. a \in Sockets
        BY <1>8, <3>2 DEF Refused, Free
      <4> QED BY <1>8, <3>2, <4>1 DEF Obeyed
    <3> QED BY <1>8, <3>1, <3>2
  <2> HIDE DEF M
  <2>2. PICK s \in Sockets : M = [modem EXCEPT !.open = modem.open \cup {s}]
    BY <2>1
  <2>3. M \in ModemType /\ M.last = modem.last
    BY <2>2 DEF ModemType
  <2> QED BY <2>3 DEF M
<1>9. CASE ~Refused(c, a) /\ c \in {"NSOCL", "QICLOSE"}
  <2>1. M = [modem EXCEPT !.open = modem.open \ {a}, !.inbox[a] = 0]
    BY <1>9 DEF Obeyed
  <2>2. a \in Sockets
    BY <1>9, ModemFields DEF Refused
  <2> HIDE DEF M
  <2>3. M \in ModemType /\ M.last = modem.last
    BY <2>1, <2>2 DEF ModemType
  <2> QED BY <2>3 DEF M
<1>10. CASE ~Refused(c, a) /\ c \in {"NSORF", "QIRD"}
  <2> DEFINE s == a[1]
             k == modem.inbox[a[1]] - Waiting(a)
  <2>1. s \in Sockets /\ k \in Nat
    BY <1>1, <1>10, WaitingIs
  <2>2. M = [modem EXCEPT !.inbox[s] = k]
    BY <1>10 DEF Obeyed
  <2> HIDE DEF M, s, k
  <2>3. M \in ModemType /\ M.last = modem.last
    BY <2>1, <2>2 DEF ModemType
  <2> QED BY <2>3 DEF M
<1>11. CASE /\ ~Refused(c, a)
            /\ c \notin {"CFUN", "COPS", "CGATT", "QREGSWT", "NRB", "CEREG", "NPSMR", "CSCON",
                         "NSOCR", "QIOPEN", "NSOCL", "QICLOSE", "NSORF", "QIRD"}
  BY <1>11 DEF Obeyed
<1> QED BY <1>2, <1>3, <1>4, <1>5, <1>6, <1>7, <1>8, <1>9, <1>10, <1>11

\* The modem obeys, refuses, or is silent.
LEMMA AnswersPreserves ==
  ASSUME DriverInv, modemAnswers
  PROVE  DriverInv'
<1>1. tx # <<>> /\ tx' = Tail(tx) /\ TheModem
  BY DEF modemAnswers
<1>2. /\ UNCHANGED <<driver, filters, status>>
      /\ UNCHANGED <<task, wired, driver, filters, net, ring>>
  BY <1>1 DEF TheModem
<1>3. /\ modem \in ModemType /\ rx \in Seq(Lines) /\ tx' \in Seq(Commands)
      /\ Head(tx) \in Commands
  BY <1>1 DEF DriverInv, WireInv
<1> DEFINE c == Head(tx)[1]
           a == Head(tx)[2]
<1>4. <<c, a>> \in Commands
  BY <1>3 DEF Commands
<1>5. \/ rx' = rx \o Answer(c, a) /\ modem' = Obeyed(c, a)
      \/ rx' = Append(rx, ErrReply) /\ modem' = modem
      \/ rx' = rx /\ modem' \in {modem, Obeyed(c, a)}
  BY DEF modemAnswers
<1> HIDE DEF c, a
<1>6. Answer(c, a) \in Seq(Spoken)
  BY <1>3, <1>4, AnswerType
<1>7. modem' \in ModemType /\ modem'.last = modem.last
  BY <1>3, <1>4, <1>5, ObeyedType
<1>8. \E s \in Seq(Spoken) : rx' = rx \o s
  <2>1. CASE rx' = rx \o Answer(c, a)
    BY <1>6, <2>1
  <2>2. CASE rx' = Append(rx, ErrReply)
    <3>1. "ERROR" \in Tags \ Urcs
      BY DEF Tags, Urcs
    <3>2. ErrReply \in Spoken
      BY <3>1, SpokenAre DEF ErrReply
    <3>3. rx' = rx \o <<ErrReply>>
      <4>1. ErrReply \in Lines /\ rx \in Seq(Lines)
        BY <1>3, Replies
      <4> QED BY <2>2, <4>1
    <3> QED BY <3>2, <3>3, SpokenOne
  <2>3. CASE rx' = rx
    <3>1. rx' = rx \o <<>> /\ <<>> \in Seq(Spoken)
      BY <1>3, <2>3
    <3> QED BY <3>1
  <2> QED BY <1>5, <2>1, <2>2, <2>3
<1>9. PICK s \in Seq(Spoken) : rx' = rx \o s
  BY <1>8
<1>10. (WireInv /\ StatusInv)'
  BY <1>2, <1>3, <1>7, <1>9, LinesAdded
<1>11. (TaskInv /\ NetInv /\ AvailInv /\ SocketInv)'
  BY <1>2, WaitsAlone
<1> QED BY <1>10, <1>11 DEF DriverInv

\* The modem finds a network.
LEMMA RegistersPreserves ==
  ASSUME DriverInv, modemRegisters
  PROVE  DriverInv'
<1>1. /\ modem' = [modem EXCEPT !.attached = TRUE] /\ UNCHANGED <<rx, tx>>
      /\ UNCHANGED <<driver, filters, status>>
      /\ UNCHANGED <<task, wired, driver, filters, net, ring>>
  BY DEF modemRegisters, TheModem
<1>2. modem \in ModemType /\ rx \in Seq(Lines) /\ tx' \in Seq(Commands)
  BY <1>1 DEF DriverInv, WireInv
<1>3. modem' \in ModemType /\ modem'.last = modem.last
  BY <1>1, <1>2 DEF ModemType
<1>4. <<>> \in Seq(Spoken) /\ rx' = rx \o <<>>
  BY <1>1, <1>2
<1>5. (WireInv /\ StatusInv)'
  BY <1>1, <1>2, <1>3, <1>4, LinesAdded
<1>6. (TaskInv /\ NetInv /\ AvailInv /\ SocketInv)'
  BY <1>1, WaitsAlone
<1> QED BY <1>5, <1>6 DEF DriverInv

\* The modem receives a datagram.
LEMMA ReceivesPreserves ==
  ASSUME DriverInv, modemReceives
  PROVE  DriverInv'
<1>1. PICK s \in modem.open, k \in Lens \cup {BufSize + 1} :
        /\ modem' = IF driver = "BC95" THEN modem ELSE [modem EXCEPT !.inbox[s] = @ + k]
        /\ \/ rx' = Append(rx, Line(IF driver = "BG96" THEN "+QIURC:" ELSE "+NSONMI:", s, k))
           \/ driver = "BC95" /\ rx' = Append(rx, Short("+NSONMI:", s, k))
  BY DEF modemReceives
<1>2. /\ UNCHANGED tx /\ UNCHANGED <<driver, filters, status>>
      /\ UNCHANGED <<task, wired, driver, filters, net, ring>>
  BY DEF modemReceives, TheModem
<1>3. modem \in ModemType /\ rx \in Seq(Lines) /\ tx' \in Seq(Commands)
  BY <1>2 DEF DriverInv, WireInv
<1>4. s \in Sockets /\ s \in Int /\ k \in Nat
  BY <1>1, <1>3, ModemFields, DriverAssumption DEF Sockets
<1>5. modem' \in ModemType /\ modem'.last = modem.last
  <2>1. CASE driver = "BC95"
    BY <1>1, <1>3, <2>1
  <2>2. CASE driver # "BC95"
    <3> DEFINE j == modem.inbox[s] + k
    <3>1. j \in Nat
      BY <1>3, <1>4, ModemFields
    <3>2. modem' = [modem EXCEPT !.inbox[s] = j]
      BY <1>1, <2>2
    <3> HIDE DEF j
    <3> QED BY <1>3, <1>4, <3>1, <3>2 DEF ModemType
  <2> QED BY <2>1, <2>2
<1>6. \E l \in Spoken : rx' = Append(rx, l)
  <2>1. CASE driver = "BC95" /\ rx' = Append(rx, Short("+NSONMI:", s, k))
    <3> DEFINE l == Short("+NSONMI:", s, k)
    <3>1. "+NSONMI:" \in Tags \ {"+NPSMR:", "+CSCON:"} /\ "+NSONMI:" \notin Urcs
      BY DEF Tags, Urcs
    <3>2. k \in Int /\ "+NSONMI:" # "raw"
      BY <1>4
    <3>3. l \in Lines /\ l.tag = "+NSONMI:"
      BY <1>4, <3>1, <3>2, ShortAre
    <3>4. rx' = Append(rx, l)
      BY <2>1
    <3> HIDE DEF l
    <3> QED BY <3>1, <3>3, <3>4 DEF Spoken, Reports
  <2> DEFINE g == IF driver = "BG96" THEN "+QIURC:" ELSE "+NSONMI:"
  <2>2. CASE rx' = Append(rx, Line(g, s, k))
    <3>1. g \in Tags \ Urcs /\ (g = "raw" => FALSE)
      BY DEF Tags, Urcs
    <3> HIDE DEF g
    <3>2. Line(g, s, k) \in Spoken
      BY <1>4, <3>1, SpokenAre
    <3> QED BY <2>2, <3>2
  <2> QED BY <1>1, <2>1, <2>2
<1>7. PICK l \in Spoken : rx' = Append(rx, l)
  BY <1>6
<1>8. <<l>> \in Seq(Spoken) /\ rx' = rx \o <<l>>
  <2>1. l \in Lines
    BY <1>7 DEF Spoken
  <2> QED BY <1>3, <1>7, <2>1, SpokenOne
<1>9. (WireInv /\ StatusInv)'
  BY <1>2, <1>3, <1>5, <1>8, LinesAdded
<1>10. (TaskInv /\ NetInv /\ AvailInv /\ SocketInv)'
  BY <1>2, WaitsAlone
<1> QED BY <1>9, <1>10 DEF DriverInv

\* The line printed is the last one of its kind, and the modem's last value.
LEMMA ReportsAll ==
  ASSUME DriverInv, modemReports, NEW u \in modem.urcs, NEW v \in {0, 1},
         modem' = [modem EXCEPT !.last[u] = v], rx' = Append(rx, Line(u, v, 0))
  PROVE  DriverInv'
<1>2. /\ UNCHANGED tx /\ UNCHANGED <<driver, filters, status>>
      /\ UNCHANGED <<task, wired, driver, filters, net, ring>>
  BY DEF modemReports, TheModem
<1>3. modem \in ModemType /\ rx \in Seq(Lines) /\ tx' \in Seq(Commands)
  BY <1>2 DEF DriverInv, WireInv
<1>4. u \in Urcs /\ u \in Tags /\ u # "raw" /\ u # "+NSONMI:" /\ v \in Int
  <2>1. u \in Urcs
    BY <1>3, ModemFields
  <2>2. \A w \in Urcs : w \in Tags /\ w # "raw" /\ w # "+NSONMI:"
    BY DEF Tags, Urcs
  <2> QED BY <2>1, <2>2
<1>5. /\ modem' \in ModemType /\ modem'.last[u] = v
      /\ \A w \in Urcs : w # u => modem'.last[w] = modem.last[w]
  BY <1>3, <1>4 DEF ModemType
<1> DEFINE l == Line(u, v, 0)
<1>6. l \in Lines /\ l.tag = u
  BY <1>4, LinesAre
<1>7. l.n = v /\ \A w \in Urcs : Reports(l, w) <=> w = u
  BY DEF Line, Reports
<1>8. rx' = Append(rx, l)
  OBVIOUS
<1> HIDE DEF l
<1>9. /\ rx' \in Seq(Lines) /\ Len(rx') = Len(rx) + 1 /\ rx'[Len(rx) + 1] = l
      /\ \A i \in 1..Len(rx) : rx'[i] = rx[i]
      /\ Len(rx) \in Nat
  BY <1>3, <1>6, <1>8
<1>10. WireInv'
  BY <1>2, <1>3, <1>5, <1>9 DEF DriverInv, WireInv
<1>11. ASSUME NEW w \in Urcs PROVE Latest(rx', modem'.last, w)
  <2>1. SUFFICES ASSUME NEW i \in 1..Len(rx'), Reports(rx'[i], w),
                        \A j \in 1..Len(rx') : i < j => ~Reports(rx'[j], w)
                 PROVE  rx'[i].n = modem'.last[w]
    BY DEF Latest
  <2>2. Latest(rx, modem.last, w)
    BY DEF DriverInv, StatusInv
  <2>3. CASE i = Len(rx) + 1
    BY <1>5, <1>6, <1>7, <1>9, <2>1, <2>3
  <2>4. CASE i \in 1..Len(rx)
    <3>1. w # u
      BY <1>7, <1>9, <2>1, <2>4
    <3>2. \A j \in 1..Len(rx) : i < j => ~Reports(rx[j], w)
      BY <1>9, <2>1
    <3>3. Reports(rx[i], w) /\ rx'[i] = rx[i]
      BY <1>9, <2>1, <2>4
    <3>4. rx[i].n = modem.last[w]
      BY <2>2, <2>4, <3>2, <3>3 DEF Latest
    <3> QED BY <1>5, <3>1, <3>3, <3>4
  <2> QED BY <1>9, <2>1, <2>3, <2>4
<1>12. ASSUME NEW w \in Urcs, status[w] # Unknown, \A i \in 1..Len(rx') : ~Reports(rx'[i], w)
       PROVE  status[w] = modem'.last[w]
  <2>1. w # u
    BY <1>7, <1>9, <1>12
  <2>2. \A i \in 1..Len(rx) : ~Reports(rx[i], w)
    BY <1>9, <1>12
  <2>3. status[w] = modem.last[w]
    BY <1>12, <2>2 DEF DriverInv, StatusInv
  <2> QED BY <1>5, <2>1, <2>3
<1>13. StatusInv'
  BY <1>2, <1>11, <1>12 DEF DriverInv, StatusInv
<1>14. (TaskInv /\ NetInv /\ AvailInv /\ SocketInv)'
  BY <1>2, WaitsAlone
<1> QED BY <1>10, <1>13, <1>14 DEF DriverInv

\* The line printed is short of fields: no report has changed.
LEMMA ReportsShort ==
  ASSUME DriverInv, modemReports, NEW v \in {0, 1},
         UNCHANGED modem, rx' = Append(rx, Short("+CEREG:", v, 0))
  PROVE  DriverInv'
<1>1. /\ UNCHANGED tx /\ UNCHANGED <<driver, filters, status>>
      /\ UNCHANGED <<task, wired, driver, filters, net, ring>>
  BY DEF modemReports, TheModem
<1>2. modem \in ModemType /\ rx \in Seq(Lines) /\ tx' \in Seq(Commands) /\ v \in Int
  BY <1>1 DEF DriverInv, WireInv
<1> DEFINE l == Short("+CEREG:", v, 0)
<1>3. l \in Lines /\ ~l.whole
  <2>1. /\ "+CEREG:" \in Tags \ {"+NPSMR:", "+CSCON:"} /\ 0 \in Int
        /\ "+CEREG:" # "raw" /\ "+CEREG:" # "+NSONMI:"
    BY DEF Tags, Urcs
  <2> QED BY <1>2, <2>1, ShortAre
<1>4. rx' = Append(rx, l)
  OBVIOUS
<1> HIDE DEF l
<1>5. l \in Spoken
  BY <1>3 DEF Spoken, Reports
<1>6. <<l>> \in Seq(Spoken) /\ rx' = rx \o <<l>>
  BY <1>2, <1>3, <1>4, <1>5, SpokenOne
<1>7. (WireInv /\ StatusInv)'
  BY <1>1, <1>2, <1>6, LinesAdded
<1>8. (TaskInv /\ NetInv /\ AvailInv /\ SocketInv)'
  BY <1>1, WaitsAlone
<1> QED BY <1>7, <1>8 DEF DriverInv

\* The modem reports its status.
LEMMA ReportsPreserves ==
  ASSUME DriverInv, modemReports
  PROVE  DriverInv'
<1>1. PICK u \in modem.urcs, v \in {0, 1} :
        \/ modem' = [modem EXCEPT !.last[u] = v] /\ rx' = Append(rx, Line(u, v, 0))
        \/ u = "+CEREG:" /\ UNCHANGED modem /\ rx' = Append(rx, Short(u, v, 0))
  BY DEF modemReports
<1>2. CASE modem' = [modem EXCEPT !.last[u] = v] /\ rx' = Append(rx, Line(u, v, 0))
  BY <1>2, ReportsAll
<1>3. CASE UNCHANGED modem /\ rx' = Append(rx, Short("+CEREG:", v, 0))
  BY <1>3, ReportsShort
<1> QED BY <1>1, <1>2, <1>3

----------------------------------------------------------------------------
(* The theorems                                                            *)

\* DriverInv holds initially.
LEMMA InitDriver == Init => DriverInv
<1> SUFFICES ASSUME Init PROVE DriverInv
  OBVIOUS
<1> DEFINE m == -1
<1>1. driver \in {"BC95", "B656", "B657", "BG96", "tools"}
  BY DriverAssumption DEF Init
<1>2. /\ wired \in [rx : BOOLEAN, tx : BOOLEAN] /\ rx = <<>> /\ tx = <<>> /\ filters = {}
      /\ task = NoTask /\ ring = 0 /\ modem = NoModem
  BY DEF Init
<1>3. TaskInv
  BY <1>2, NoTaskType DEF TaskInv, Proper
<1>4. m \in Int /\ ~(m >= 0)
  OBVIOUS
<1>5. net = [number |-> m, host |-> FALSE, avail |-> 0, nsonmi |-> NoFilter]
  BY DEF Init
<1>6. status = [u \in Urcs |-> m] /\ Unknown = m
  BY DEF Init, Unknown
<1>7. NoFilter = [tag |-> "", n |-> m]
  BY DEF NoFilter, Filter, Any
<1>8. NoModem.last = [u \in Urcs |-> m] /\ NoModem \in ModemType
  BY DEF NoModem, ModemType, Unknown
<1> HIDE DEF m
<1>9. NetInv
  <2>1. NoFilter \in [tag : {"", "+NSONMI:", "+QIURC:"}, n : Int]
    BY <1>4, <1>7
  <2>2. FALSE \in BOOLEAN /\ 0 \in Int
    OBVIOUS
  <2> QED BY <1>4, <1>5, <2>1, <2>2 DEF NetInv, NetType
<1>10. WireInv
  BY <1>1, <1>2, <1>8 DEF WireInv
<1>11. AvailInv
  BY <1>2, <1>5, NoTaskType, DriverAssumption DEF AvailInv, At
<1>12. SocketInv
  BY <1>4, <1>5 DEF SocketInv
<1>13. StatusInv
  BY <1>2, <1>4, <1>6, <1>8 DEF StatusInv, Latest
<1> QED BY <1>3, <1>9, <1>10, <1>11, <1>12, <1>13 DEF DriverInv

\* DriverInv is an inductive invariant of the drivers on the serial line,
\* for every modem, every fault and every use of the functions.
THEOREM DriverInvariant == Spec => []DriverInv
<1>1. DriverInv /\ [Next]_vars => DriverInv'
  <2> SUFFICES ASSUME DriverInv, [Next]_vars PROVE DriverInv'
    OBVIOUS
  <2>1. CASE nbiotCoreConfig \/ ApiCall \/ DriverStep
    BY <2>1, ConfigPreserves, ApiCallPreserves, DriverStepPreserves
  <2>2. CASE modemAnswers \/ modemRegisters \/ modemReceives \/ modemReports
    BY <2>2, AnswersPreserves, RegistersPreserves, ReceivesPreserves, ReportsPreserves
  <2>3. CASE UNCHANGED vars
    <3>1. UNCHANGED <<task, wired, driver, filters, net, ring, rx, tx, status, modem>>
      BY <2>3 DEF vars, atVars, drvVars
    <3>2. (WireInv /\ StatusInv)'
      BY <3>1, LinesTaken DEF DriverInv, WireInv
    <3>3. (TaskInv /\ NetInv /\ AvailInv /\ SocketInv)'
      BY <3>1, WaitsAlone
    <3> QED BY <3>2, <3>3 DEF DriverInv
  <2> QED BY <2>1, <2>2, <2>3 DEF Next
<1> QED BY <1>1, InitDriver, PTL DEF Spec

\* AvailWithinRing: m_bytesAvail of the BC95 never promises more bytes than
\* m_buffer holds, over partial reads (BC95::read()), datagrams larger than
\* the ring (parseFilterResult()) and reconnects, for every ring size and
\* every width of the counter that can hold it.
THEOREM BytesAreThere == Spec => []AvailWithinRing
<1>1. DriverInv => AvailWithinRing
  BY DriverAssumption DEF DriverInv, AvailInv, AvailWithinRing
<1> QED BY <1>1, DriverInvariant, PTL

\* FilterFollowsSocket: between calls a Network with a socket has the URC
\* filter for its datagrams installed, also after a second connect() or a
\* disconnect() that failed (addUrcFilter() and removeUrcFilter() of
\* connect() and disconnect()).
THEOREM SocketHasFilter == Spec => []FilterFollowsSocket
<1>1. DriverInv => FilterFollowsSocket
  <2> SUFFICES ASSUME DriverInv, task.op = "none", net.number >= 0 PROVE HasFilter
    BY DEF FilterFollowsSocket, HasFilter
  <2>1. task.todo = <<>>
    BY DEF DriverInv, TaskInv
  <2>2. ~Installs
    BY <2>1 DEF Installs
  <2> QED BY <2>2 DEF DriverInv, SocketInv
<1> QED BY <1>1, DriverInvariant, PTL

\* StatusFollowsModem: a status the application was told by parseCeregUrc(),
\* parseNpsmrUrc() or parseCsconUrc() is that of the last report the modem
\* printed with all its fields, as soon as the lines are read, whichever reader
\* of whichever function reads them; a report short of fields, which
\* parseCeregUrc() takes and drops, changes nothing.
THEOREM StatusIsCurrent == Spec => []StatusFollowsModem
<1>1. DriverInv => StatusFollowsModem
  <2> SUFFICES ASSUME DriverInv, NEW u \in Urcs, status[u] # Unknown,
                      \A i \in DOMAIN rx : ~Reports(rx[i], u)
               PROVE  status[u] = modem.last[u]
    BY DEF StatusFollowsModem
  <2>1. DOMAIN rx = 1..Len(rx)
    BY DEF DriverInv, WireInv
  <2> QED BY <2>1 DEF DriverInv, StatusInv
<1> QED BY <1>1, DriverInvariant, PTL

----------------------------------------------------------------------------
(* What read() returns                                                     *)

\* What a line of the answer to a command says of the modem.
Says(l, c, a) ==
  /\ l.tag = "row" => c = "NSORF" /\ l.m <= a[2]
  /\ l.tag = "+CFUN:" => c = "CFUN?" /\ l.n \in {0, 1} /\ (l.n = 1 => modem.on)
  /\ l.tag = "+CGATT:" => c = "CGATT?" /\ (l.n = 1 => modem.attached)
  /\ l.tag = "+QREGSWT:" => c = "QREGSWT?" /\ l.n = modem.qreg
  /\ l.tag = "number" => c = "NSOCR" /\ ~Refused(c, a) /\ l.n = Lowest(Free)
  /\ l.tag = "+QIOPEN:" => c = "QIOPEN" /\ ~Refused(c, a) /\ l.n = a
  /\ l.tag = "OK" => ~Refused(c, a)
  /\ l.tag \notin {"+NSONMI:", "+QIURC:"} \cup Urcs

Speaking == {"row", "+CFUN:", "+CGATT:", "+QREGSWT:", "number", "+QIOPEN:", "OK", "+NSONMI:",
             "+QIURC:"} \cup Urcs

\* Every line of an answer says what is the case, and a query or an order for
\* a socket that is not refused is answered by one line and "OK".
LEMMA AnswerSays ==
  ASSUME modem \in ModemType, NEW c, NEW a, <<c, a>> \in Commands
  PROVE  /\ \A i \in 1..Len(Answer(c, a)) : Says(Answer(c, a)[i], c, a)
         /\ c \in {"CFUN?", "NSOCR"} =>
              \/ Answer(c, a) = <<ErrReply>>
              \/ /\ Len(Answer(c, a)) = 2 /\ Answer(c, a)[2] = OkReply
                 /\ Answer(c, a)[1].tag \in {"+CFUN:", "number"}
<1>1. \A g, n, m : Line(g, n, m).tag = g /\ Line(g, n, m).n = n
  BY DEF Line
<1>2. OkReply.tag = "OK" /\ ErrReply.tag = "ERROR"
  BY <1>1 DEF OkReply, ErrReply
<1>3. \A l : l.tag \notin Speaking => Says(l, c, a)
  BY DEF Says, Speaking, Urcs
<1>4. "ERROR" \notin Speaking
  BY DEF Speaking, Urcs
<1>5. Says(ErrReply, c, a)
  BY <1>2, <1>3, <1>4
<1>6. ~Refused(c, a) => Says(OkReply, c, a)
  BY <1>2 DEF Says, Urcs
<1>7. /\ c \in {"NSORF", "QIRD"} => a \in Int \X Int
      /\ c \notin {"NSORF", "QIRD"} => a \in Int
  BY CommandIs
<1> DEFINE A == Answer(c, a)
<1>8. ASSUME NEW l, Says(l, c, a), A = <<l>> PROVE \A i \in 1..Len(A) : Says(A[i], c, a)
  <2> HIDE DEF A
  <2>1. Len(A) = 1 /\ A[1] = l
    BY <1>8
  <2> QED BY <1>8, <2>1
<1>9. ASSUME NEW l, NEW k, Says(l, c, a), Says(k, c, a), A = <<l, k>>
      PROVE  \A i \in 1..Len(A) : Says(A[i], c, a)
  <2> HIDE DEF A
  <2>1. Len(A) = 2 /\ A[1] = l /\ A[2] = k
    BY <1>9
  <2>2. \A i \in 1..2 : i \in {1, 2}
    OBVIOUS
  <2> QED BY <1>9, <2>1, <2>2
<1>10. CASE Refused(c, a)
  <2>1. A = <<ErrReply>>
    BY <1>10 DEF Answer
  <2> QED BY <1>5, <1>8, <2>1
<1>11. CASE ~Refused(c, a) /\ c = "CFUN?"
  <2> DEFINE n == IF modem.on THEN 1 ELSE 0
             l == Line("+CFUN:", n, 0)
  <2>1. A = <<l, OkReply>>
    BY <1>11 DEF Answer
  <2>2. n \in {0, 1} /\ (n = 1 => modem.on)
    OBVIOUS
  <2>3. l.tag = "+CFUN:" /\ l.n = n
    BY <1>1
  <2> HIDE DEF n, l
  <2>4. Says(l, c, a)
    BY <1>11, <2>2, <2>3 DEF Says, Urcs
  <2>5. Len(A) = 2 /\ A[2] = OkReply /\ A[1].tag \in {"+CFUN:", "number"}
    <3> HIDE DEF A
    <3> QED BY <2>1, <2>3
  <2> QED BY <1>6, <1>9, <1>11, <2>1, <2>4, <2>5
<1>12. CASE ~Refused(c, a) /\ c = "CGATT?"
  <2> DEFINE n == IF modem.attached THEN 1 ELSE 0
             l == Line("+CGATT:", n, 0)
  <2>1. A = <<l, OkReply>>
    BY <1>12 DEF Answer
  <2>2. n = 1 => modem.attached
    OBVIOUS
  <2>3. l.tag = "+CGATT:" /\ l.n = n
    BY <1>1
  <2> HIDE DEF n, l
  <2>4. Says(l, c, a)
    BY <1>12, <2>2, <2>3 DEF Says, Urcs
  <2> QED BY <1>6, <1>9, <1>12, <2>1, <2>4
<1>13. CASE ~Refused(c, a) /\ c = "QREGSWT?"
  <2> DEFINE l == Line("+QREGSWT:", modem.qreg, 0)
  <2>1. A = <<l, OkReply>>
    BY <1>13 DEF Answer
  <2>3. l.tag = "+QREGSWT:" /\ l.n = modem.qreg
    BY <1>1
  <2> HIDE DEF l
  <2>4. Says(l, c, a)
    BY <1>13, <2>3 DEF Says, Urcs
  <2> QED BY <1>6, <1>9, <1>13, <2>1, <2>4
<1>14. CASE ~Refused(c, a) /\ c \in {"CIMI", "user", "NSOST"}
  <2>1. PICK g \in {"imsi", "text", "sent"} : A = <<Line(g, 0, 0), OkReply>>
    BY <1>14 DEF Answer
  <2>2. Line(g, 0, 0).tag = g /\ g \notin Speaking
    BY <1>1, <2>1 DEF Speaking, Urcs
  <2>3. Says(Line(g, 0, 0), c, a)
    BY <1>3, <2>2
  <2> QED BY <1>6, <1>9, <1>14, <2>1, <2>3
<1>15. CASE ~Refused(c, a) /\ c = "NSOCR"
  <2> DEFINE l == Line("number", Lowest(Free), 0)
  <2>1. A = <<l, OkReply>>
    BY <1>15 DEF Answer
  <2>2. l.tag = "number" /\ l.n = Lowest(Free)
    BY <1>1
  <2> HIDE DEF l
  <2>3. Says(l, c, a)
    BY <1>15, <2>2 DEF Says, Urcs
  <2>4. Len(A) = 2 /\ A[2] = OkReply /\ A[1].tag \in {"+CFUN:", "number"}
    <3> HIDE DEF A
    <3> QED BY <2>1, <2>2
  <2> QED BY <1>6, <1>9, <1>15, <2>1, <2>3, <2>4
<1>16. CASE ~Refused(c, a) /\ c = "NSORF"
  <2> DEFINE l == Row(a[1], Waiting(a), modem.inbox[a[1]] - Waiting(a))
  <2>1. A = <<l, OkReply>> \/ A = <<OkReply>>
    BY <1>16 DEF Answer
  <2>2. l.tag = "row" /\ l.m = Waiting(a)
    BY DEF Row, Line
  <2>3. Waiting(a) <= a[2]
    <3>1. a[2] \in Int /\ modem.inbox[a[1]] \in Nat
      BY <1>7, <1>16, WaitingIs
    <3> QED BY <3>1 DEF Waiting, Lesser
  <2> HIDE DEF l
  <2>4. Says(l, c, a)
    BY <1>16, <2>2, <2>3 DEF Says, Urcs
  <2> QED BY <1>6, <1>8, <1>9, <1>16, <2>1, <2>4
<1>17. CASE ~Refused(c, a) /\ c = "QIRD"
  <2> DEFINE n == Waiting(a)
             q == Line("+QIRD:", n, 0)
             z == Line("+QIRD:", 0, 0)
             r == Line("raw", n, 0)
  <2>0. n \in Nat
    BY <1>7, <1>17, WaitingIs
  <2>1. A = <<q, r, OkReply>> \/ A = <<z, OkReply>>
    <3>1. CASE n > 0 /\ n # 0
      BY <1>17, <3>1, Zenon DEF Answer
    <3>2. CASE ~(n > 0) /\ n = 0
      BY <1>17, <3>2, Zenon DEF Answer
    <3>3. n > 0 <=> n # 0
      BY <2>0
    <3> QED BY <3>1, <3>2, <3>3, Zenon
  <2>2. q.tag = "+QIRD:" /\ z.tag = "+QIRD:" /\ r.tag = "raw"
    BY <1>1
  <2>3. "+QIRD:" \notin Speaking /\ "raw" \notin Speaking
    BY DEF Speaking, Urcs
  <2> HIDE DEF q, z, r
  <2>4. Says(q, c, a) /\ Says(z, c, a) /\ Says(r, c, a)
    BY <1>3, <2>2, <2>3
  <2>5. CASE A = <<z, OkReply>>
    BY <1>6, <1>9, <1>17, <2>4, <2>5
  <2>6. CASE A = <<q, r, OkReply>>
    <3>1. Len(A) = 3 /\ A[1] = q /\ A[2] = r /\ A[3] = OkReply
      <4> HIDE DEF A
      <4> QED BY <2>6
    <3>2. \A i \in 1..3 : i \in {1, 2, 3}
      OBVIOUS
    <3> HIDE DEF A
    <3>3. \A i \in 1..Len(A) : Says(A[i], c, a)
      BY <1>6, <1>17, <2>4, <3>1, <3>2
    <3> QED BY <1>17, <3>3 DEF A
  <2> QED BY <2>1, <2>5, <2>6
<1>18. CASE ~Refused(c, a) /\ c = "QIOPEN"
  <2> DEFINE l == Line("+QIOPEN:", a, 0)
  <2>1. A = <<OkReply, l>>
    BY <1>18 DEF Answer
  <2>2. l.tag = "+QIOPEN:" /\ l.n = a
    BY <1>1
  <2> HIDE DEF l
  <2>3. Says(l, c, a)
    BY <1>18, <2>2 DEF Says, Urcs
  <2> QED BY <1>6, <1>9, <1>18, <2>1, <2>3
<1>19. CASE ~Refused(c, a) /\ c = "QISENDEX"
  <2> DEFINE l == Line("SEND OK", 0, 0)
  <2>1. A = <<l>>
    BY <1>19 DEF Answer
  <2>2. l.tag = "SEND OK" /\ "SEND OK" \notin Speaking
    BY <1>1 DEF Speaking, Urcs
  <2> HIDE DEF l
  <2>3. Says(l, c, a)
    BY <1>3, <2>2
  <2> QED BY <1>8, <1>19, <2>1, <2>3
<1>20. CASE /\ ~Refused(c, a)
            /\ c \notin {"CFUN?", "CGATT?", "QREGSWT?", "CIMI", "user", "NSOST", "NSOCR",
                         "NSORF", "QIRD", "QIOPEN", "QISENDEX"}
  <2>1. A = <<OkReply>>
    BY <1>20 DEF Answer
  <2> QED BY <1>6, <1>8, <1>20, <2>1
<1> QED BY <1>10, <1>11, <1>12, <1>13, <1>14, <1>15, <1>16, <1>17, <1>18, <1>19, <1>20

\* The kinds of the steps.
LEMMA KindOf ==
  /\ \A k : Do(k)[1] = k
  /\ Flush[1] = "flush" /\ ReplyAny[1] = "any" /\ ReplyOk[1] = "ok"
  /\ \A n : Ip(n)[1] = "ipRead" /\ Ip(n)[2] = n
  /\ \A c, a : Send(c, a)[1] = "send" /\ Send(c, a)[2][1] = c /\ Send(c, a)[2][2] = a
  /\ \A t : ReadUntil(t)[1] = "until" /\ ReadUntil(t)[2] = t
  BY DEF Do, Flush, ReplyAny, ReplyOk, Ip, Send, ReadUntil

\* The steps that are left, by their places.
LEMMA Left ==
  ASSUME DriverInv, task.todo # <<>>
  PROVE  /\ task.todo \in Seq(Steps) /\ Rest \in Seq(Steps)
         /\ Len(task.todo) \in Nat /\ 1 \in 1..Len(task.todo) /\ Step = task.todo[1]
         /\ Len(Rest) = Len(task.todo) - 1 /\ (Rest # <<>> => Head(Rest) = Rest[1])
         /\ \A i \in 1..Len(Rest) : Rest[i] = task.todo[i + 1] /\ i + 1 \in 1..Len(task.todo)
<1>1. task.todo \in Seq(Steps)
  BY InFunction, TaskFields
<1> DEFINE t == task.todo
<1>2. t \in Seq(Steps) /\ t # <<>>
  BY <1>1
<1> HIDE DEF t
<1>3. /\ Tail(t) \in Seq(Steps) /\ Len(t) \in Nat /\ 1 \in 1..Len(t) /\ Head(t) = t[1]
      /\ Len(Tail(t)) = Len(t) - 1 /\ (Tail(t) # <<>> => Head(Tail(t)) = Tail(t)[1])
      /\ \A i \in 1..Len(Tail(t)) : Tail(t)[i] = t[i + 1] /\ i + 1 \in 1..Len(t)
  BY <1>2
<1> QED BY <1>1, <1>3 DEF Rest, Step, t

\* What holds of all the steps holds of those that are left.
LEMMA LeftShape ==
  ASSUME DriverInv, task.todo # <<>>
  PROVE  /\ \A K : OfKinds(task.todo, K) => OfKinds(Rest, K) /\ Step[1] \in K
         /\ \A K : Closes(task.todo, K) => Closes(Rest, K) /\ (Step[1] \in K <=> Rest = <<>>)
         /\ SaraShape(task.todo) => SaraShape(Rest)
         /\ SaraShape(task.todo) /\ Rest # <<>> => Follows(Step[1], Rest[1][1])
<1> DEFINE t == task.todo
           r == Rest
<1>1. /\ t \in Seq(Steps) /\ r \in Seq(Steps) /\ Len(t) \in Nat /\ 1 \in 1..Len(t)
      /\ Step = t[1] /\ Len(r) = Len(t) - 1
      /\ \A i \in 1..Len(r) : r[i] = t[i + 1] /\ i + 1 \in 1..Len(t)
  BY Left
<1> HIDE DEF t, r
<1>2. ASSUME NEW K, OfKinds(t, K) PROVE OfKinds(r, K) /\ Step[1] \in K
  BY <1>1, <1>2 DEF OfKinds
<1>3. ASSUME NEW K, Closes(t, K) PROVE Closes(r, K) /\ (Step[1] \in K <=> r = <<>>)
  <2>1. \A i \in 1..Len(r) : (i + 1 = Len(t)) <=> (i = Len(r))
    BY <1>1
  <2>2. Closes(r, K)
    BY <1>1, <1>3, <2>1 DEF Closes
  <2>3. (1 = Len(t)) <=> (r = <<>>)
    BY <1>1
  <2> QED BY <1>1, <1>3, <2>2, <2>3 DEF Closes
<1>4. ASSUME Linked(t) PROVE Linked(r) /\ (r # <<>> => Follows(Step[1], r[1][1]))
  <2>1. ASSUME NEW i \in 1..Len(r), i + 1 \in 1..Len(r) PROVE Follows(r[i][1], r[i + 1][1])
    <3>1. r[i] = t[i + 1] /\ r[i + 1] = t[(i + 1) + 1] /\ i + 1 \in 1..Len(t)
          /\ (i + 1) + 1 \in 1..Len(t)
      BY <1>1, <2>1
    <3> QED BY <1>4, <3>1 DEF Linked
  <2>2. ASSUME r # <<>> PROVE Follows(Step[1], r[1][1])
    <3>1. r[1] = t[1 + 1] /\ 1 + 1 \in 1..Len(t)
      BY <1>1, <2>2
    <3> QED BY <1>1, <1>4, <3>1 DEF Linked
  <2> QED BY <2>1, <2>2 DEF Linked
<1>5. Sized(t) => Sized(r)
  BY <1>1 DEF Sized
<1>6. OfKinds(t, SaraKinds) => OfKinds(r, SaraKinds)
  BY <1>2
<1>7. Closes(t, SaraEnds) => Closes(r, SaraEnds)
  BY <1>3
<1> QED BY <1>2, <1>3, <1>4, <1>5, <1>6, <1>7 DEF SaraShape, t, r

\* A step that leaves the counters of the function alone.
Counters ==
  /\ task'.op = task.op /\ task'.arg = task.arg /\ task'.val = task.val
  /\ task'.bytes = task.bytes /\ task'.rb = task.rb /\ task'.data = task.data

\* sendCommand(), step by step for what the function knows.
LEMMA SendDoes ==
  ASSUME DriverInv, sendCommand
  PROVE  /\ Ready("send") /\ Counters /\ task'.todo = Rest /\ task'.clean = task.clean
         /\ task'.resp = task.resp /\ rx' = rx /\ (tx' = tx \/ tx' = Append(tx, Step[2]))
         /\ (task'.ok => tx' = Append(tx, Step[2]))
<1>1. task \in TaskType /\ wired \in [rx : BOOLEAN, tx : BOOLEAN]
  BY DEF DriverInv, TaskInv
<1>2. Ready("send") /\ rx' = rx /\ (tx' = tx \/ tx' = Append(tx, Step[2]))
  BY DEF sendCommand
<1>3. task'.ok = wired.tx
  BY <1>1 DEF sendCommand, TaskType
<1>4. Counters /\ task'.todo = Rest /\ task'.resp = task.resp
  BY <1>1 DEF sendCommand, TaskType, Counters
<1>5. task'.clean = task.clean
  BY <1>1 DEF sendCommand, TaskType
<1> QED BY <1>2, <1>3, <1>4, <1>5 DEF sendCommand

\* The readers take a line.
LEMMA ReadDoes ==
  ASSUME DriverInv, readOk \/ readAny \/ readConfirm \/ readExact \/ readCopy \/ readIgnore \/ readUntil
  PROVE  /\ task.todo # <<>> /\ rx # <<>> /\ ~Filtered(Head(rx)) /\ rx' = Tail(rx) /\ tx' = tx
         /\ Counters /\ task'.clean = task.clean /\ (task.ok \/ Step[1] = "flush")
         /\ readOk => /\ Step[1] = "ok" /\ task'.todo = Rest /\ task'.resp = Head(rx)
                      /\ task'.ok = (Head(rx) = OkReply)
         /\ readAny => /\ Step[1] = "any" /\ task'.todo = <<<<"confirm", "">>>> \o Rest
                       /\ task'.resp = Head(rx) /\ task'.ok = task.ok
         /\ readConfirm => /\ Step[1] = "confirm" /\ task'.todo = Rest
                           /\ task'.ok = (Head(rx) = OkReply)
                           /\ (Head(rx) = OkReply => task'.resp = task.resp)
                           /\ (Head(rx) # OkReply => task'.resp = NoLine)
         /\ readExact => /\ Step[1] = "exact" /\ task'.todo = Rest /\ task'.resp = Head(rx)
                         /\ task'.ok = task.ok
         /\ readCopy => Step[1] = "copy"
         /\ readIgnore => Step[1] = "flush" /\ task' = task
         /\ readUntil => /\ Step[1] = "until"
                         /\ Head(rx).tag # Step[2] => task' = task
                         /\ Head(rx).tag = Step[2] => /\ task'.todo = Rest /\ task'.resp = Head(rx)
                                                      /\ task'.ok = task.ok
<1>1. task \in TaskType
  BY DEF DriverInv, TaskInv
<1>2. /\ task.todo # <<>> /\ rx # <<>> /\ ~Filtered(Head(rx)) /\ rx' = Tail(rx) /\ tx' = tx
      /\ (task.ok \/ Step[1] = "flush")
  BY DEF readOk, readAny, readConfirm, readExact, readCopy, readIgnore, readUntil, Sees, At
<1>3. ASSUME readOk
      PROVE  /\ Counters /\ task'.clean = task.clean
             /\ Step[1] = "ok" /\ task'.todo = Rest /\ task'.resp = Head(rx)
             /\ task'.ok = (Head(rx) = OkReply)
  BY <1>1, <1>3 DEF readOk, Sees, At, TaskType, Counters
<1>4. ASSUME readAny
      PROVE  /\ Counters /\ task'.clean = task.clean
             /\ Step[1] = "any" /\ task'.todo = <<<<"confirm", "">>>> \o Rest
             /\ task'.resp = Head(rx) /\ task'.ok = task.ok
  <2> DEFINE t == <<<<"confirm", "">>>> \o Rest
  <2>1. task' = [task EXCEPT !.todo = t, !.resp = Head(rx)] /\ Step[1] = "any"
    BY <1>4 DEF readAny, Sees, At
  <2> HIDE DEF t
  <2>2. Counters /\ task'.clean = task.clean /\ task'.todo = t /\ task'.resp = Head(rx) /\ task'.ok = task.ok
    BY <1>1, <2>1 DEF TaskType, Counters
  <2> QED BY <2>1, <2>2 DEF t
<1>5. ASSUME readConfirm
      PROVE  /\ Counters /\ task'.clean = task.clean
             /\ Step[1] = "confirm" /\ task'.todo = Rest
             /\ task'.ok = (Head(rx) = OkReply)
             /\ (Head(rx) = OkReply => task'.resp = task.resp)
             /\ (Head(rx) # OkReply => task'.resp = NoLine)
  BY <1>1, <1>5 DEF readConfirm, Sees, At, TaskType, Counters
<1>6. ASSUME readExact
      PROVE  /\ Counters /\ task'.clean = task.clean
             /\ Step[1] = "exact" /\ task'.todo = Rest /\ task'.resp = Head(rx)
             /\ task'.ok = task.ok
  BY <1>1, <1>6 DEF readExact, Sees, At, TaskType, Counters
<1>7. ASSUME readCopy
      PROVE  /\ Counters /\ task'.clean = task.clean /\ Step[1] = "copy"
  <2> DEFINE t == IF Head(rx) \in {OkReply, ErrReply} THEN Rest ELSE <<<<"copy", TRUE>>>> \o Rest
  <2>1. task' = [task EXCEPT !.todo = t] /\ Step[1] = "copy"
    BY <1>7 DEF readCopy, Sees, At
  <2> HIDE DEF t
  <2> QED BY <1>1, <2>1 DEF TaskType, Counters
<1>8. ASSUME readIgnore
      PROVE  Counters /\ task'.clean = task.clean /\ Step[1] = "flush" /\ task' = task
  BY <1>8 DEF readIgnore, Sees, At, Counters
<1>9. ASSUME readUntil
      PROVE  /\ Counters /\ task'.clean = task.clean /\ Step[1] = "until"
             /\ Head(rx).tag # Step[2] => task' = task
             /\ Head(rx).tag = Step[2] => /\ task'.todo = Rest /\ task'.resp = Head(rx)
                                          /\ task'.ok = task.ok
  <2>1. Step[1] = "until"
    BY <1>9 DEF readUntil, Sees, At
  <2>2. CASE Head(rx).tag # Step[2]
    BY <1>9, <2>1, <2>2 DEF readUntil, Counters
  <2>3. CASE Head(rx).tag = Step[2]
    <3>1. task' = [task EXCEPT !.todo = Rest, !.resp = Head(rx)]
      BY <1>9, <2>3 DEF readUntil
    <3> QED BY <1>1, <2>1, <2>3, <3>1 DEF TaskType, Counters
  <2> QED BY <2>2, <2>3
<1>a. Counters /\ task'.clean = task.clean
  BY <1>3, <1>4, <1>5, <1>6, <1>7, <1>8, <1>9
<1> QED BY <1>2, <1>3, <1>4, <1>5, <1>6, <1>7, <1>8, <1>9, <1>a

\* A reader gives up.
LEMMA TimeoutDoes ==
  ASSUME DriverInv, readTimeout
  PROVE  /\ task.todo # <<>> /\ Step[1] \in Readers /\ (task.ok \/ Step[1] = "flush")
         /\ Counters /\ rx' = rx /\ tx' = tx /\ task'.todo = Rest
         /\ task'.clean => task.clean /\ rx = <<>> /\ tx = <<>>
         /\ Step[1] = "flush" => task'.ok = task.ok /\ task'.resp = task.resp
         /\ Step[1] \notin {"flush", "copy"} => ~task'.ok
         /\ Step[1] # "flush" => task'.resp = NoLine
<1>1. task \in TaskType
  BY DEF DriverInv, TaskInv
<1>2. /\ task.todo # <<>> /\ Step[1] \in Readers /\ (task.ok \/ Step[1] = "flush")
      /\ rx' = rx /\ tx' = tx
  BY DEF readTimeout
<1> DEFINE c == task.clean /\ rx = <<>> /\ tx = <<>>
           k == CASE Step[1] = "flush" -> task.ok [] Step[1] = "copy" -> Step[2] [] OTHER -> FALSE
           l == IF Step[1] = "flush" THEN task.resp ELSE NoLine
<1>3. task' = [task EXCEPT !.todo = Rest, !.clean = c, !.ok = k, !.resp = l]
  BY DEF readTimeout
<1>4. Step[1] = "flush" => k = task.ok
  OBVIOUS
<1>5. Step[1] \notin {"flush", "copy"} => k = FALSE
  OBVIOUS
<1>6. (Step[1] = "flush" => l = task.resp) /\ (Step[1] # "flush" => l = NoLine)
  OBVIOUS
<1>7. c = (task.clean /\ rx = <<>> /\ tx = <<>>)
  OBVIOUS
<1> HIDE DEF c, k, l
<1>8. Counters /\ task'.todo = Rest
  BY <1>1, <1>3 DEF TaskType, Counters
<1>9. task'.resp = l
  BY <1>1, <1>3 DEF TaskType
<1>10. task'.ok = k /\ task'.clean = c
  BY <1>1, <1>3 DEF TaskType
<1> QED BY <1>2, <1>4, <1>5, <1>6, <1>7, <1>8, <1>9, <1>10

\* A step is left out.
LEMMA SkipDoes ==
  ASSUME DriverInv, skipStep(Guarded)
  PROVE  /\ task.todo # <<>> /\ Step[1] \in Guarded /\ ~task.ok
         /\ Counters /\ rx' = rx /\ tx' = tx /\ task'.todo = Rest
         /\ task'.clean = task.clean /\ task'.ok = task.ok /\ task'.resp = task.resp
<1>1. task \in TaskType
  BY DEF DriverInv, TaskInv
<1> QED BY <1>1 DEF skipStep, TaskType, Counters

\* One list has nothing the other has not.
Among(s, t) == \A i \in 1..Len(s) : \E j \in 1..Len(t) : s[i] = t[j]

\* A list, what is left of it and none at all.
LEMMA AmongThem ==
  /\ \A s : Among(s, s)
  /\ \A s : Among(<<>>, s)
  /\ \A S : \A s \in Seq(S) : s # <<>> => Among(Tail(s), s)
<1>1. \A s : Among(s, s)
  BY DEF Among
<1>2. \A s : Among(<<>>, s)
  BY DEF Among
<1>3. ASSUME NEW S, NEW s \in Seq(S), s # <<>> PROVE Among(Tail(s), s)
  <2>1. \A i \in 1..Len(Tail(s)) : Tail(s)[i] = s[i + 1] /\ i + 1 \in 1..Len(s)
    BY <1>3
  <2> QED BY <2>1 DEF Among
<1> QED BY <1>1, <1>2, <1>3

\* Fewer steps, commands and lines ask for no more.
LEMMA LessAsked ==
  ASSUME NEW t, NEW q, NEW l, Asked(t, q, l), NEW u, NEW r, NEW m,
         Among(u, t), Among(r, q), Among(m, l)
  PROVE  Asked(u, r, m)
<1> SUFFICES ASSUME NEW i \in 1..Len(u), u[i][1] = "row"
             PROVE  /\ \A j \in 1..Len(r) : r[j][1] = "NSORF" => r[j][2][2] <= u[i][2]
                    /\ \A j \in 1..Len(m) : NoMore(m[j], u[i][2])
  BY DEF Asked
<1>1. PICK k \in 1..Len(t) : u[i] = t[k]
  BY DEF Among
<1>2. /\ \A j \in 1..Len(q) : q[j][1] = "NSORF" => q[j][2][2] <= u[i][2]
      /\ \A j \in 1..Len(l) : NoMore(l[j], u[i][2])
  BY <1>1 DEF Asked
<1> QED BY <1>2 DEF Among

\* Fewer steps wait for an answer.
LEMMA LessAnswered ==
  ASSUME NEW t, NEW l, Answered(t, l), NEW u, Among(u, t)
  PROVE  Answered(u, l)
  BY DEF Answered, Among

\* The line grows silent, and stays so.
LEMMA StaysSilent ==
  ASSUME Silent, tx' = tx, Among(rx', rx)
  PROVE  Silent'
  BY DEF Silent, Among

\* read() of the SARA modems and of NbiotConnectivity takes a step on.
LEMMA RowsOn ==
  ASSUME DriverInv, SaraShape(task.todo), RowInv, task.todo # <<>>, task'.todo = Rest,
         tx' = tx, rx' = rx \/ (rx # <<>> /\ rx' = Tail(rx)),
         Step[1] = "flush" => tx = <<>> /\ rx = <<>>,
         Step[1] \in {"any", "confirm"} /\ task'.ok =>
           Step[1] = "confirm" /\ task.ok /\ task'.resp = task.resp
  PROVE  SaraShape(Rest) /\ RowInv'
<1>1. /\ SaraShape(Rest) /\ (Rest # <<>> => Follows(Step[1], Rest[1][1]))
      /\ Step[1] \in SaraKinds
  BY LeftShape DEF SaraShape
<1>2. Among(Rest, task.todo) /\ Among(rx', rx) /\ Among(tx', tx)
  <2>1. task.todo \in Seq(Steps) /\ rx \in Seq(Lines)
    BY Left DEF DriverInv, WireInv
  <2> QED BY <2>1, AmongThem DEF Rest
<1>3. Asked(task'.todo, tx', rx')
  BY <1>2, LessAsked DEF RowInv
<1>4. Rest # <<>> => Head(Rest) = Rest[1]
  BY Left
<1>5. ASSUME Rest # <<>>, Rest[1][1] \notin Expects PROVE Silent'
  <2>1. Step[1] \notin {"any", "confirm", "row", "send"}
    BY <1>1, <1>5 DEF Follows, Expects
  <2>2. CASE Step[1] = "flush"
    <3>1. rx' = rx
      BY <2>2
    <3> QED BY <2>2, <3>1 DEF Silent
  <2>3. CASE Step[1] # "flush"
    <3>1. Silent
      BY <2>1, <2>3 DEF RowInv, Expects
    <3> QED BY <1>2, <3>1, StaysSilent
  <2> QED BY <2>2, <2>3
<1>6. ASSUME Rest # <<>>, Rest[1][1] \in {"confirm", "row"}, task'.ok
      PROVE  Answered(Rest, task'.resp)
  <2>1. Step[1] \in {"any", "confirm"}
    <3>1. Closes(task.todo, SaraEnds)
      BY DEF SaraShape
    <3>2. Step[1] \notin SaraEnds
      BY <1>6, <3>1, LeftShape
    <3> QED BY <1>1, <1>6, <3>2 DEF Follows, SaraKinds, SaraEnds, Asks, Takes, Loops
  <2>2. Step[1] = "confirm" /\ task.ok /\ task'.resp = task.resp
    BY <1>6, <2>1
  <2>3. Answered(task.todo, task.resp)
    BY <2>2 DEF RowInv
  <2> QED BY <1>2, <2>2, <2>3, LessAnswered
<1>7. RowInv'
  <2>1. task'.todo # <<>> => Step' = Rest[1]
    BY <1>4 DEF Step
  <2> QED BY <1>3, <1>5, <1>6, <2>1 DEF RowInv
<1> QED BY <1>1, <1>7

\* Fewer steps keep their bounds.
LEMMA BytesOn ==
  ASSUME DriverInv, BytesInv, task.todo # <<>>, task'.todo = Rest, Counters, driver' = driver,
         Step[1] # "ipRead"
  PROVE  BytesInv'
<1>1. Among(Rest, task.todo)
  BY Left, AmongThem DEF Rest
<1>2. Bounded(Rest, task', driver)
  <2>1. ASSUME NEW i \in 1..Len(Rest)
        PROVE  /\ Rest[i][1] \in {"ipRead", "row"} => Within(task'.bytes + Rest[i][2], task', driver)
               /\ Rest[i][1] \in ToolsLoops => driver = "tools"
    <3>1. PICK j \in 1..Len(task.todo) : Rest[i] = task.todo[j]
      BY <1>1, <2>1 DEF Among
    <3> QED BY <3>1 DEF BytesInv, Bounded, Within, Counters
  <2> QED BY <2>1 DEF Bounded
<1>3. Owes(Rest) => Owes(task.todo)
  BY <1>1 DEF Owes, Among
<1>4. /\ task'.bytes <= task'.data /\ Within(task'.bytes, task', driver)
      /\ task'.val <= task'.data /\ Within(task'.val, task', driver)
  BY DEF BytesInv, Counters, Within
<1>5. Owes(Rest) => task'.bytes + task'.rb <= task'.data /\ Within(task'.bytes + task'.rb, task', driver)
  BY <1>3 DEF BytesInv, Counters, Within
<1> QED BY <1>2, <1>4, <1>5 DEF BytesInv

\* A line is read, or nothing happens, while the function waits.
LEMMA SaraWaits ==
  ASSUME SaraInv, task' = task, driver' = driver, tx' = tx, Among(rx', rx)
  PROVE  SaraInv'
<1>1. Asked(task.todo, tx', rx')
  <2>1. Among(tx', tx) /\ Among(task.todo, task.todo)
    BY AmongThem
  <2> QED BY <2>1, LessAsked DEF SaraInv, RowInv
<1>2. Silent => Silent'
  BY StaysSilent
<1>3. RowInv'
  BY <1>1, <1>2 DEF SaraInv, RowInv, Step
<1>4. BytesInv'
  BY DEF SaraInv, BytesInv, Step
<1> QED BY <1>3, <1>4 DEF SaraInv

\* readAny() goes on to the confirmation.
LEMMA ConfirmShape ==
  ASSUME DriverInv, SaraShape(task.todo), task.todo # <<>>, Step[1] = "any",
         NEW p \in Seq(Steps), Len(p) = 1, p[1][1] = "confirm", NEW w, w = p \o Rest
  PROVE  /\ w \in Seq(Steps) /\ w # <<>> /\ Len(w) = Len(task.todo) /\ w[1][1] = "confirm"
         /\ Head(w) = w[1]
         /\ \A i \in 1..Len(w) : i # 1 => w[i] = task.todo[i]
         /\ SaraShape(w)
<1> DEFINE c == p[1]
<1>1. c[1] = "confirm"
  OBVIOUS
<1>2. p \in Seq(Steps) /\ Len(p) = 1 /\ p[1] = c
  OBVIOUS
<1> HIDE DEF c
<1>4. /\ task.todo \in Seq(Steps) /\ Rest \in Seq(Steps) /\ Len(task.todo) \in Nat /\ 1 \in 1..Len(task.todo)
      /\ Len(Rest) = Len(task.todo) - 1 /\ Step = task.todo[1]
      /\ \A i \in 1..Len(Rest) : Rest[i] = task.todo[i + 1]
  BY Left
<1>5. /\ w \in Seq(Steps) /\ Len(w) = Len(p) + Len(Rest)
      /\ \A i \in 1..Len(p) + Len(Rest) : w[i] = IF i <= Len(p) THEN p[i] ELSE Rest[i - Len(p)]
  <2>1. p \in Seq(Steps) /\ Rest \in Seq(Steps)
    BY <1>4
  <2>2. /\ p \o Rest \in Seq(Steps) /\ Len(p \o Rest) = Len(p) + Len(Rest)
        /\ \A i \in 1..Len(p) + Len(Rest) :
              (p \o Rest)[i] = IF i <= Len(p) THEN p[i] ELSE Rest[i - Len(p)]
    BY <2>1, ConcatProperties, Zenon
  <2> QED BY <2>2
<1>6. Len(w) = Len(task.todo) /\ w[1] = c /\ w # <<>>
  BY <1>2, <1>4, <1>5
<1>7. ASSUME NEW i \in 1..Len(w), i # 1 PROVE w[i] = task.todo[i]
  <2>1. i \in 1..Len(p) + Len(Rest) /\ ~(i <= Len(p)) /\ i - Len(p) = i - 1 /\ i - 1 \in 1..Len(Rest)
    BY <1>2, <1>4, <1>6, <1>7
  <2>2. w[i] = Rest[i - 1] /\ Rest[i - 1] = task.todo[(i - 1) + 1]
    BY <1>4, <1>5, <2>1
  <2> QED BY <2>2
<1>8. "confirm" \in SaraKinds /\ "confirm" \notin SaraEnds /\ "any" \notin SaraEnds
  BY DEF SaraKinds, SaraEnds, Asks, Takes, Loops
<1>9. OfKinds(w, SaraKinds)
  BY <1>1, <1>6, <1>7, <1>8 DEF OfKinds, SaraShape
<1>10. Closes(w, SaraEnds)
  <2>1. Closes(task.todo, SaraEnds)
    BY DEF SaraShape
  <2>2. 1 # Len(w)
    BY <1>4, <1>6, <1>8, <2>1 DEF Closes
  <2> QED BY <1>1, <1>6, <1>7, <1>8, <2>1, <2>2 DEF Closes
<1>11. Linked(w)
  <2>1. ASSUME NEW i \in 1..Len(w), i + 1 \in 1..Len(w) PROVE Follows(w[i][1], w[i + 1][1])
    <3>1. w[i + 1] = task.todo[i + 1] /\ Follows(task.todo[i][1], task.todo[i + 1][1])
      BY <1>6, <1>7, <2>1 DEF SaraShape, Linked
    <3>2. CASE i = 1
      BY <1>1, <1>4, <1>6, <3>1, <3>2 DEF Follows
    <3>3. CASE i # 1
      BY <1>7, <3>1, <3>3
    <3> QED BY <3>2, <3>3
  <2> QED BY <2>1 DEF Linked
<1>12. Sized(w)
  <2>1. ASSUME NEW i \in 1..Len(w), NEW j \in 1..Len(w), w[i][1] = "send", w[j][1] = "row"
        PROVE  w[i][2][2][2] <= w[j][2]
    <3>1. i # 1 /\ j # 1
      BY <1>1, <1>6, <2>1
    <3>2. w[i] = task.todo[i] /\ w[j] = task.todo[j]
      BY <1>7, <3>1
    <3> QED BY <1>6, <2>1, <3>2 DEF SaraShape, Sized
  <2> QED BY <2>1 DEF Sized
<1>13. Head(w) = w[1]
  BY <1>5, <1>6
<1> QED BY <1>1, <1>5, <1>6, <1>7, <1>9, <1>10, <1>11, <1>12, <1>13 DEF SaraShape

\* sendCommand(): NSORF is the only command on its way.
LEMMA SaraSend ==
  ASSUME DriverInv, SaraInv, sendCommand, driver' = driver
  PROVE  SaraInv'
<1>1. /\ task.todo # <<>> /\ Step[1] = "send" /\ Counters /\ task'.todo = Rest /\ rx' = rx
      /\ (tx' = tx \/ tx' = Append(tx, Step[2]))
  BY SendDoes DEF Ready, At
<1>2. SaraShape(Rest) /\ (Rest # <<>> => Follows(Step[1], Rest[1][1]) /\ Head(Rest) = Rest[1])
  BY <1>1, LeftShape, Left DEF SaraInv
<1>3. BytesInv'
  BY <1>1, BytesOn DEF SaraInv
<1>4. tx = <<>>
  BY <1>1 DEF SaraInv, RowInv, Expects, Silent
<1>5. ASSUME NEW i \in 1..Len(Rest), Rest[i][1] = "row"
      PROVE  /\ \A j \in 1..Len(tx') : tx'[j][2][2] <= Rest[i][2]
             /\ \A j \in 1..Len(rx) : NoMore(rx[j], Rest[i][2])
  <2>1. Rest[i] = task.todo[i + 1] /\ i + 1 \in 1..Len(task.todo) /\ Step = task.todo[1]
        /\ 1 \in 1..Len(task.todo)
    BY <1>1, <1>5, Left
  <2>2. Step[2][2][2] <= Rest[i][2]
    BY <1>1, <1>5, <2>1 DEF SaraInv, SaraShape, Sized
  <2>3. \A j \in 1..Len(tx') : tx'[j] = Step[2]
    BY <1>1, <1>4
  <2>4. \A j \in 1..Len(rx) : NoMore(rx[j], Rest[i][2])
    BY <1>5, <2>1 DEF SaraInv, RowInv, Asked
  <2> QED BY <2>2, <2>3, <2>4
<1>6. Asked(Rest, tx', rx')
  BY <1>1, <1>5 DEF Asked
<1>7. RowInv'
  <2>1. Rest # <<>> => Head(Rest)[1] = "any"
    BY <1>1, <1>2 DEF Follows
  <2> QED BY <1>1, <1>6, <2>1 DEF RowInv, Expects, Step
<1> QED BY <1>1, <1>2, <1>3, <1>7 DEF SaraInv

\* The readers, the timeouts and the steps left out.
LEMMA SaraReads ==
  ASSUME DriverInv, SaraInv, ReadStep \/ skipStep(Guarded), driver' = driver, task'.clean
  PROVE  SaraInv'
<1>0. rx \in Seq(Lines)
  BY DEF DriverInv, WireInv
<1>1. task.todo # <<>>
  BY DEF ReadStep, skipStep, readOk, readAny, readConfirm, readExact, readCopy, readIgnore,
     readUntil, readTimeout, Sees, At
<1>2. Step[1] \in SaraKinds
  BY <1>1, LeftShape DEF SaraInv, SaraShape
<1>3. ~readOk /\ ~readExact /\ ~readCopy /\ ~readUntil
  BY <1>2 DEF readOk, readExact, readCopy, readUntil, Sees, At, SaraKinds, Asks, Takes, Loops
<1>4. CASE readAny
  <2> DEFINE c == <<"confirm", "">>
             p == <<c>>
  <2>a. task'.todo = p \o Rest
    BY <1>4, ReadDoes
  <2>b. c \in Steps /\ c[1] = "confirm"
    BY CalmSteps DEF Calm
  <2> HIDE DEF c
  <2>c. p \in Seq(Steps) /\ Len(p) = 1 /\ p[1][1] = "confirm"
    BY <2>b
  <2> HIDE DEF p
  <2>1. /\ Step[1] = "any" /\ task'.resp = Head(rx)
        /\ Counters /\ rx' = Tail(rx) /\ tx' = tx /\ rx # <<>>
    BY <1>4, ReadDoes
  <2> DEFINE w == task'.todo
  <2>2. /\ w # <<>> /\ Len(w) = Len(task.todo) /\ w[1][1] = "confirm" /\ Head(w) = w[1]
        /\ \A i \in 1..Len(w) : i # 1 => w[i] = task.todo[i]
        /\ SaraShape(w)
    BY <1>1, <2>a, <2>c, <2>1, ConfirmShape DEF SaraInv
  <2>3. /\ \A i \in 1..Len(w) : w[i][1] = "row" => i \in 1..Len(task.todo) /\ w[i] = task.todo[i]
        /\ \A i \in 1..Len(w) : w[i][1] \in {"ipRead", "row"} \cup ToolsLoops \cup Takes =>
                                  i \in 1..Len(task.todo) /\ w[i] = task.todo[i]
    BY <2>2 DEF ToolsLoops, Takes
  <2> HIDE DEF w
  <2>4. Among(rx', rx) /\ Head(rx) = rx[1] /\ 1 \in 1..Len(rx)
    BY <1>0, <2>1, AmongThem
  <2>5. Asked(w, tx, rx')
    BY <2>3, <2>4 DEF Asked, Among, SaraInv, RowInv
  <2>6. Answered(w, Head(rx))
    BY <2>3, <2>4 DEF Asked, Answered, SaraInv, RowInv
  <2>7. RowInv'
    BY <2>1, <2>2, <2>5, <2>6 DEF RowInv, Step, Expects, w
  <2>8. Bounded(w, task', driver)
    BY <2>1, <2>3 DEF SaraInv, BytesInv, Bounded, Within, Counters
  <2>9. Owes(w) => Owes(task.todo)
    BY <2>3 DEF Owes
  <2>10. BytesInv'
    <3>1. /\ task'.bytes <= task'.data /\ Within(task'.bytes, task', driver)
          /\ task'.val <= task'.data /\ Within(task'.val, task', driver)
      BY <2>1 DEF SaraInv, BytesInv, Counters, Within
    <3>2. Owes(w) => task'.bytes + task'.rb <= task'.data
                     /\ Within(task'.bytes + task'.rb, task', driver)
      BY <2>1, <2>9 DEF SaraInv, BytesInv, Counters, Within
    <3> QED BY <2>8, <3>1, <3>2 DEF BytesInv, w
  <2> QED BY <2>2, <2>7, <2>10 DEF SaraInv, w
<1>5. CASE readConfirm
  <2>1. /\ Step[1] = "confirm" /\ task'.todo = Rest /\ Counters /\ tx' = tx /\ rx # <<>>
        /\ rx' = Tail(rx) /\ (task'.ok => task'.resp = task.resp) /\ task.ok
    BY <1>5, ReadDoes
  <2> QED BY <1>1, <2>1, RowsOn, BytesOn DEF SaraInv
<1>6. CASE readIgnore
  <2>1. task' = task /\ tx' = tx /\ rx # <<>> /\ rx' = Tail(rx)
    BY <1>6, ReadDoes
  <2> QED BY <1>0, <2>1, AmongThem, SaraWaits
<1>7. CASE readTimeout
  <2>1. /\ task'.todo = Rest /\ Counters /\ rx' = rx /\ tx' = tx /\ rx = <<>> /\ tx = <<>>
        /\ Step[1] \in Readers /\ (Step[1] \notin {"flush", "copy"} => ~task'.ok)
    BY <1>7, TimeoutDoes
  <2>2. Step[1] # "ipRead"
    BY <2>1 DEF Readers
  <2> QED BY <1>1, <2>1, <2>2, RowsOn, BytesOn DEF SaraInv
<1>8. CASE skipStep(Guarded)
  <2>1. /\ task'.todo = Rest /\ Counters /\ rx' = rx /\ tx' = tx /\ Step[1] \in Guarded
        /\ ~task'.ok
    BY <1>8, SkipDoes
  <2>2. Step[1] # "ipRead" /\ Step[1] # "flush"
    BY <2>1 DEF Guarded
  <2> QED BY <1>1, <2>1, <2>2, RowsOn, BytesOn DEF SaraInv
<1> QED BY <1>3, <1>4, <1>5, <1>6, <1>7, <1>8 DEF ReadStep

\* The function with other steps to go.
Moved(t, s) ==
  /\ t \in TaskType /\ t.todo = s /\ t.op = task.op /\ t.arg = task.arg /\ t.ok = task.ok
  /\ t.resp = task.resp /\ t.val = task.val /\ t.clean = task.clean /\ t.bytes = task.bytes
  /\ t.dgm = task.dgm /\ t.rb = task.rb /\ t.data = task.data

\* Go and GoTo() move on and change nothing else.
LEMMA GoMoves ==
  ASSUME DriverInv, task.todo # <<>>
  PROVE  Moved(Go, Rest) /\ \A p \in Seq(Steps) : Moved(GoTo(p), p \o Rest)
<1>1. task \in TaskType /\ Rest \in Seq(Steps)
  BY InFunction
<1>2. \A s \in Seq(Steps) : Moved([task EXCEPT !.todo = s], s)
  <2> SUFFICES ASSUME NEW s \in Seq(Steps) PROVE Moved([task EXCEPT !.todo = s], s)
    OBVIOUS
  <2>1. [task EXCEPT !.todo = s] \in TaskType
    BY <1>1, TaskUpdate
  <2> DEFINE t == [task EXCEPT !.todo = s]
  <2>2. t.todo = s /\ t.op = task.op /\ t.arg = task.arg /\ t.resp = task.resp /\ t.val = task.val
        /\ t.bytes = task.bytes /\ t.dgm = task.dgm /\ t.rb = task.rb /\ t.data = task.data
    BY <1>1 DEF TaskType
  <2>3. t.ok = task.ok /\ t.clean = task.clean
    BY <1>1 DEF TaskType
  <2> QED BY <2>1, <2>2, <2>3 DEF Moved
<1>3. \A p \in Seq(Steps) : p \o Rest \in Seq(Steps)
  BY <1>1
<1> QED BY <1>1, <1>2, <1>3 DEF Go, GoTo


\* What a round of the read() loops may go on with.
Round(p) ==
  /\ p \in Seq(Steps) /\ p # <<>> /\ SaraShape(p) /\ \A i \in 1..Len(p) : p[i][1] # "row"
  /\ p[1][1] \notin {"confirm", "row"}
  /\ Owes(p) => p[1][1] = "ipRead"

\* What they do go on with.
LEMMA Rounds ==
  /\ \A k \in Loops : Round(<<Do(k)>>)
  /\ Round(<<Flush, Do("saraLook")>>)
  /\ \A n \in Int, k \in Loops : Round(<<Ip(n), Do("took"), Do(k)>>)
  /\ \A n \in Int : Round(<<Ip(n), Do("sum")>>)
<1>1. /\ \A k \in Loops : Do(k) \in Steps /\ Do(k)[1] = k
      /\ Do("sum") \in Steps /\ Do("took") \in Steps /\ Flush \in Steps
      /\ Do("sum")[1] = "sum" /\ Do("took")[1] = "took" /\ Flush[1] = "flush"
      /\ \A n \in Int : Ip(n) \in Steps /\ Ip(n)[1] = "ipRead"
  BY StepsAre, KindOf DEF Simple, Loops
<1>2. /\ \A k \in Loops : k \in SaraKinds /\ k \in SaraEnds /\ k \notin Takes
                          /\ k \notin {"ipRead", "confirm", "row", "send", "any", "flush", "took"}
      /\ {"sum", "took", "flush", "ipRead"} \subseteq SaraKinds
      /\ "sum" \in SaraEnds /\ "sum" \in Takes /\ "took" \in Takes
      /\ "took" \notin SaraEnds /\ "flush" \notin SaraEnds /\ "ipRead" \notin SaraEnds
      /\ "flush" \notin Takes /\ "saraLook" \in Loops
  BY DEF SaraKinds, SaraEnds, Asks, Takes, Loops
<1>3. ASSUME NEW k \in Loops PROVE Round(<<Do(k)>>)
  <2> DEFINE s == Do(k)
             p == <<s>>
  <2>1. s \in Steps /\ s[1] = k
    BY <1>1
  <2> HIDE DEF s
  <2>2. p \in Seq(Steps) /\ p # <<>> /\ Len(p) = 1 /\ p[1] = s
    BY <2>1
  <2> HIDE DEF p
  <2>3. SaraShape(p)
    BY <1>2, <2>1, <2>2 DEF SaraShape, OfKinds, Closes, Linked, Sized
  <2>4. Round(p)
    BY <1>2, <2>1, <2>2, <2>3 DEF Round, Owes
  <2> QED BY <2>4 DEF p, s
<1>4. Round(<<Flush, Do("saraLook")>>)
  <2> DEFINE s == Do("saraLook")
             p == <<Flush, s>>
  <2>1. s \in Steps /\ s[1] = "saraLook"
    BY <1>1, <1>2
  <2> HIDE DEF s
  <2>2. p \in Seq(Steps) /\ p # <<>> /\ Len(p) = 2 /\ p[1] = Flush /\ p[2] = s
    BY <1>1, <2>1
  <2> HIDE DEF p
  <2>3. \A i \in 1..Len(p) : i \in {1, 2}
    BY <2>2
  <2>4. OfKinds(p, SaraKinds) /\ Closes(p, SaraEnds) /\ Sized(p)
    BY <1>1, <1>2, <2>1, <2>2, <2>3 DEF OfKinds, Closes, Sized
  <2>5. Follows("flush", "saraLook")
    BY DEF Follows, Loops
  <2>6. Linked(p)
    BY <1>1, <2>1, <2>2, <2>3, <2>5 DEF Linked
  <2>7. Round(p)
    BY <1>1, <1>2, <2>1, <2>2, <2>3, <2>4, <2>6 DEF Round, Owes, SaraShape
  <2> QED BY <2>7 DEF p, s
<1>5. ASSUME NEW n \in Int, NEW k \in Loops PROVE Round(<<Ip(n), Do("took"), Do(k)>>)
  <2> DEFINE s == Do(k)
             t == Do("took")
             r == Ip(n)
             p == <<r, t, s>>
  <2>1. s \in Steps /\ s[1] = k /\ t \in Steps /\ t[1] = "took" /\ r \in Steps /\ r[1] = "ipRead"
    BY <1>1, <1>2
  <2> HIDE DEF s, t, r
  <2>2. p \in Seq(Steps) /\ p # <<>> /\ Len(p) = 3 /\ p[1] = r /\ p[2] = t /\ p[3] = s
    BY <2>1
  <2> HIDE DEF p
  <2>3. \A i \in 1..Len(p) : i \in {1, 2, 3}
    BY <2>2
  <2>4. OfKinds(p, SaraKinds) /\ Closes(p, SaraEnds) /\ Sized(p)
    BY <1>2, <2>1, <2>2, <2>3 DEF OfKinds, Closes, Sized
  <2>5. Follows("ipRead", "took") /\ Follows("took", k)
    BY DEF Follows, Loops, Takes
  <2>6. Linked(p)
    BY <2>1, <2>2, <2>3, <2>5 DEF Linked
  <2>7. Round(p)
    BY <1>2, <2>1, <2>2, <2>3, <2>4, <2>6 DEF Round, Owes, SaraShape
  <2> QED BY <2>7 DEF p, s, t, r
<1>6. ASSUME NEW n \in Int PROVE Round(<<Ip(n), Do("sum")>>)
  <2> DEFINE s == Do("sum")
             r == Ip(n)
             p == <<r, s>>
  <2>1. s \in Steps /\ s[1] = "sum" /\ r \in Steps /\ r[1] = "ipRead"
    BY <1>1, <1>2
  <2> HIDE DEF s, r
  <2>2. p \in Seq(Steps) /\ p # <<>> /\ Len(p) = 2 /\ p[1] = r /\ p[2] = s
    BY <2>1
  <2> HIDE DEF p
  <2>3. \A i \in 1..Len(p) : i \in {1, 2}
    BY <2>2
  <2>4. OfKinds(p, SaraKinds) /\ Closes(p, SaraEnds) /\ Sized(p)
    BY <1>2, <2>1, <2>2, <2>3 DEF OfKinds, Closes, Sized
  <2>5. Follows("ipRead", "sum")
    BY DEF Follows, Loops, Takes
  <2>6. Linked(p)
    BY <2>1, <2>2, <2>3, <2>5 DEF Linked
  <2>7. Round(p)
    BY <1>2, <2>1, <2>2, <2>3, <2>4, <2>6 DEF Round, Owes, SaraShape
  <2> QED BY <2>7 DEF p, s, r
<1> QED BY <1>3, <1>4, <1>5, <1>6

\* A loop of read() decides how to go on.
LEMMA SaraJumps ==
  ASSUME DriverInv, SaraInv, task.todo # <<>>, Step[1] \in Loops, NEW p, Round(p),
         task'.todo = p \o Rest, Counters, Internal, Bounded(p, task, driver)
  PROVE  SaraInv'
<1>1. Rest = <<>>
  <2>1. Closes(task.todo, SaraEnds) /\ Step[1] \in SaraEnds
    BY DEF SaraInv, SaraShape, SaraEnds
  <2> QED BY <2>1, LeftShape
<1>2. task'.todo = p
  BY <1>1 DEF Round
<1>3. Silent
  BY DEF SaraInv, RowInv, Expects, Loops
<1>4. rx' = rx /\ tx' = tx /\ driver' = driver
  BY DEF Internal, Quiet, drvVars
<1>5. Head(p) = p[1]
  BY DEF Round
<1>6. Asked(p, tx', rx')
  BY DEF Asked, Round
<1>7. RowInv'
  BY <1>2, <1>3, <1>4, <1>5, <1>6 DEF RowInv, Silent, Round, Step
<1>8. Bounded(p, task', driver)
  BY DEF Bounded, Within, Counters
<1>9. /\ task'.bytes <= task'.data /\ Within(task'.bytes, task', driver)
      /\ task'.val <= task'.data /\ Within(task'.val, task', driver)
  BY DEF SaraInv, BytesInv, Counters, Within
<1>10. BytesInv'
  BY <1>2, <1>4, <1>5, <1>8, <1>9 DEF BytesInv, Round, Step
<1> QED BY <1>2, <1>7, <1>10 DEF SaraInv, Round

\* The bounds of such a round.
LEMMA RoundBounds ==
  /\ \A k \in Loops : (k \in ToolsLoops => driver = "tools") => Bounded(<<Do(k)>>, task, driver)
  /\ Bounded(<<Flush, Do("saraLook")>>, task, driver)
  /\ \A n \in Int, k \in Loops :
       (k \in ToolsLoops => driver = "tools") /\ Within(task.bytes + n, task, driver) =>
         Bounded(<<Ip(n), Do("took"), Do(k)>>, task, driver)
  /\ \A n \in Int :
       Within(task.bytes + n, task, driver) => Bounded(<<Ip(n), Do("sum")>>, task, driver)
<1>1. /\ \A k : Do(k)[1] = k
      /\ \A n : Ip(n)[1] = "ipRead" /\ Ip(n)[2] = n
      /\ Flush[1] = "flush"
  BY KindOf
<1>2. ASSUME NEW k \in Loops, k \in ToolsLoops => driver = "tools"
      PROVE  Bounded(<<Do(k)>>, task, driver)
  BY <1>1, <1>2 DEF Bounded, Loops
<1>3. Bounded(<<Flush, Do("saraLook")>>, task, driver)
  BY <1>1 DEF Bounded, ToolsLoops
<1>4. ASSUME NEW n \in Int, NEW k \in Loops, k \in ToolsLoops => driver = "tools",
             Within(task.bytes + n, task, driver)
      PROVE  Bounded(<<Ip(n), Do("took"), Do(k)>>, task, driver)
  <2>1. k \notin {"ipRead", "row"} /\ "took" \notin ToolsLoops /\ "ipRead" \notin ToolsLoops
    BY DEF Loops, ToolsLoops
  <2> DEFINE p == <<Ip(n), Do("took"), Do(k)>>
  <2>2. Len(p) = 3 /\ p[1] = Ip(n) /\ p[2] = Do("took") /\ p[3] = Do(k)
    OBVIOUS
  <2> HIDE DEF p
  <2>3. \A i \in 1..Len(p) : i \in {1, 2, 3}
    BY <2>2
  <2>4. Bounded(p, task, driver)
    BY <1>1, <1>4, <2>1, <2>2, <2>3 DEF Bounded
  <2> QED BY <2>4 DEF p
<1>5. ASSUME NEW n \in Int, Within(task.bytes + n, task, driver)
      PROVE  Bounded(<<Ip(n), Do("sum")>>, task, driver)
  <2>1. "sum" \notin ToolsLoops /\ "ipRead" \notin ToolsLoops
    BY DEF ToolsLoops
  <2> DEFINE p == <<Ip(n), Do("sum")>>
  <2>2. Len(p) = 2 /\ p[1] = Ip(n) /\ p[2] = Do("sum")
    OBVIOUS
  <2> HIDE DEF p
  <2>3. \A i \in 1..Len(p) : i \in {1, 2}
    BY <2>2
  <2>4. Bounded(p, task, driver)
    BY <1>1, <1>5, <2>1, <2>2, <2>3 DEF Bounded
  <2> QED BY <2>4 DEF p
<1> QED BY <1>2, <1>3, <1>4, <1>5

\* read() ends with what it counted.
LEMMA SaraFinish ==
  ASSUME DriverInv, SaraInv, task.todo # <<>>, Step[1] \in SaraEnds, task'.todo = Rest, Internal,
         task'.arg = task.arg, task'.bytes = task.bytes, task'.data = task.data,
         task'.val <= task.data, Within(task'.val, task, driver)
  PROVE  SaraInv'
<1>1. Rest = <<>>
  <2>1. Closes(task.todo, SaraEnds)
    BY DEF SaraInv, SaraShape
  <2> QED BY <2>1, LeftShape
<1>2. task'.todo = <<>> /\ driver' = driver
  BY <1>1 DEF Internal, drvVars
<1>3. SaraShape(<<>>) /\ Asked(<<>>, tx', rx') /\ Bounded(<<>>, task', driver) /\ ~Owes(<<>>)
  BY DEF SaraShape, OfKinds, Closes, Linked, Sized, Asked, Bounded, Owes
<1>4. RowInv'
  BY <1>2, <1>3 DEF RowInv
<1>5. /\ task'.bytes <= task'.data /\ Within(task'.bytes, task', driver)
      /\ task'.val <= task'.data /\ Within(task'.val, task', driver)
  BY DEF SaraInv, BytesInv, Within
<1>6. BytesInv'
  BY <1>2, <1>3, <1>5 DEF BytesInv
<1> QED BY <1>2, <1>3, <1>4, <1>6 DEF SaraInv

\* The loops of read().
LEMMA SaraLoops ==
  ASSUME DriverInv, SaraInv, driver \in {"B656", "B657", "tools"},
         moreBytes \/ timeUp \/ saraLook \/ saraRest \/ toolsLook \/ toolsRest
  PROVE  SaraInv'
<1>1. task.todo # <<>> /\ Internal
  BY DEF moreBytes, timeUp, saraLook, saraRest, toolsLook, toolsRest, At
<1>2. /\ Step[1] \in SaraKinds /\ Step[1] \in Loops
      /\ Step[1] \in ToolsLoops => driver = "tools"
  <2>1. Step[1] \in SaraKinds
    BY <1>1, LeftShape DEF SaraInv, SaraShape
  <2>2. Step[1] \in Loops
    BY <2>1 DEF moreBytes, timeUp, saraLook, saraRest, toolsLook, toolsRest, At, SaraKinds,
       Loops, Asks, Takes
  <2>3. Step[1] \in ToolsLoops => driver = "tools"
    BY <1>1, Left DEF SaraInv, BytesInv, Bounded
  <2> QED BY <2>1, <2>2, <2>3
<1>3. /\ Moved(Go, Rest)
      /\ \A p \in Seq(Steps) : Moved(GoTo(p), p \o Rest)
  BY <1>1, GoMoves
<1>4. /\ task.arg \in Nat /\ task.bytes \in Int /\ task.data \in Int /\ task.dgm \in Int
      /\ ipAvailable \in Nat /\ task \in TaskType
  BY <1>1, InFunction, TaskFields, Available
<1>5. ASSUME NEW p, Round(p), Bounded(p, task, driver),
             \/ task' = GoTo(p)
             \/ \E d \in Int : task' = [GoTo(p) EXCEPT !.dgm = d]
      PROVE  SaraInv'
  <2>1. Moved(GoTo(p), p \o Rest)
    BY <1>3, <1>5 DEF Round
  <2>2. Counters /\ task'.todo = p \o Rest
    BY <1>5, <2>1 DEF Moved, TaskType, Counters
  <2> QED BY <1>1, <1>2, <1>5, <2>2, SaraJumps
<1>6. ASSUME task' = [Go EXCEPT !.val = task.bytes]
      PROVE  SaraInv'
  <2>1. /\ task'.todo = Rest /\ task'.arg = task.arg /\ task'.bytes = task.bytes
        /\ task'.data = task.data /\ task'.val = task.bytes
    BY <1>3, <1>6 DEF Moved, TaskType
  <2>2. task.bytes <= task.data /\ Within(task.bytes, task, driver)
    BY DEF SaraInv, BytesInv
  <2>3. Step[1] \in SaraEnds
    BY <1>2 DEF SaraEnds
  <2> QED BY <1>1, <2>1, <2>2, <2>3, SaraFinish
<1>7. {"saraLoop", "saraLook", "saraRest", "toolsLook", "toolsRest", "toolsLoop"} \subseteq Loops
      /\ "saraLoop" \notin ToolsLoops /\ "saraRest" \notin ToolsLoops
      /\ {"toolsLook", "toolsRest", "toolsLoop"} \subseteq ToolsLoops
  BY DEF Loops, ToolsLoops
<1>8. CASE moreBytes
  <2>1. \/ task' = GoTo(<<Flush, Do("saraLook")>>)
        \/ driver = "tools" /\ task' = GoTo(<<Do("toolsLook")>>)
    BY <1>2, <1>7, <1>8 DEF moreBytes, At, SaraKinds, Asks, Takes, Loops
  <2>2. CASE task' = GoTo(<<Flush, Do("saraLook")>>)
    BY <1>5, <2>2, Rounds, RoundBounds
  <2>3. CASE driver = "tools" /\ task' = GoTo(<<Do("toolsLook")>>)
    BY <1>5, <1>7, <2>3, Rounds, RoundBounds
  <2> QED BY <2>1, <2>2, <2>3
<1>9. CASE timeUp
  <2>1. \/ task' = GoTo(<<Do("saraRest")>>)
        \/ driver = "tools" /\ task' = GoTo(<<Do("toolsRest")>>)
    BY <1>2, <1>7, <1>9 DEF timeUp, At, SaraKinds, Asks, Takes, Loops
  <2>2. CASE task' = GoTo(<<Do("saraRest")>>)
    BY <1>5, <1>7, <2>2, Rounds, RoundBounds
  <2>3. CASE driver = "tools" /\ task' = GoTo(<<Do("toolsRest")>>)
    BY <1>5, <1>7, <2>3, Rounds, RoundBounds
  <2> QED BY <2>1, <2>2, <2>3
<1>10. CASE saraLook
  <2> DEFINE d == ipAvailable
  <2>0. d \in Int
    BY <1>4
  <2>1. \/ task' = [GoTo(<<Do("saraLoop")>>) EXCEPT !.dgm = d]
        \/ task' = [GoTo(<<Do("saraRest")>>) EXCEPT !.dgm = d]
        \/ /\ ~(task.arg <= d + task.bytes)
           /\ task' = [GoTo(<<Ip(d), Do("took"), Do("saraLoop")>>) EXCEPT !.dgm = d]
    BY <1>10 DEF saraLook
  <2> HIDE DEF d
  <2>2. CASE task' = [GoTo(<<Do("saraLoop")>>) EXCEPT !.dgm = d]
    BY <1>5, <1>7, <2>0, <2>2, Rounds, RoundBounds
  <2>3. CASE task' = [GoTo(<<Do("saraRest")>>) EXCEPT !.dgm = d]
    BY <1>5, <1>7, <2>0, <2>3, Rounds, RoundBounds
  <2>4. CASE /\ ~(task.arg <= d + task.bytes)
             /\ task' = [GoTo(<<Ip(d), Do("took"), Do("saraLoop")>>) EXCEPT !.dgm = d]
    <3>1. Within(task.bytes + d, task, driver)
      BY <1>4, <2>0, <2>4 DEF Within
    <3> DEFINE p == <<Ip(d), Do("took"), Do("saraLoop")>>
    <3>2. Round(p) /\ Bounded(p, task, driver)
      BY <1>7, <2>0, <3>1, Rounds, RoundBounds
    <3> HIDE DEF p
    <3> QED BY <1>5, <2>0, <2>4, <3>2 DEF p
  <2> QED BY <2>1, <2>2, <2>3, <2>4
<1>11. CASE saraRest
  <2>1. \/ task' = GoTo(<<Ip(task.arg - task.bytes), Do("sum")>>)
        \/ task' = [Go EXCEPT !.val = task.bytes]
    BY <1>11 DEF saraRest
  <2>2. CASE task' = GoTo(<<Ip(task.arg - task.bytes), Do("sum")>>)
    <3> DEFINE n == task.arg - task.bytes
               p == <<Ip(n), Do("sum")>>
    <3>1. n \in Int /\ Within(task.bytes + n, task, driver)
      BY <1>4 DEF Within
    <3> HIDE DEF n
    <3>2. Round(p) /\ Bounded(p, task, driver)
      BY <3>1, Rounds, RoundBounds
    <3> HIDE DEF p
    <3> QED BY <1>5, <2>2, <3>2 DEF p, n
  <2> QED BY <1>6, <2>1, <2>2
<1>12. CASE toolsLook
  <2>1. driver = "tools"
    BY <1>2, <1>7, <1>12 DEF toolsLook, At
  <2>2. \/ task' = GoTo(<<Do("toolsRest")>>)
        \/ task' = GoTo(<<Ip(1), Do("took"), Do("toolsLoop")>>)
    BY <1>12 DEF toolsLook
  <2>3. CASE task' = GoTo(<<Do("toolsRest")>>)
    BY <1>5, <1>7, <2>1, <2>3, Rounds, RoundBounds
  <2>4. CASE task' = GoTo(<<Ip(1), Do("took"), Do("toolsLoop")>>)
    <3> DEFINE p == <<Ip(1), Do("took"), Do("toolsLoop")>>
    <3>1. Within(task.bytes + 1, task, driver) /\ 1 \in Int
      BY <2>1 DEF Within
    <3>2. Round(p) /\ Bounded(p, task, driver)
      BY <1>7, <2>1, <3>1, Rounds, RoundBounds
    <3> HIDE DEF p
    <3> QED BY <1>5, <2>4, <3>2 DEF p
  <2> QED BY <2>2, <2>3, <2>4
<1>13. CASE toolsRest
  <2>1. driver = "tools"
    BY <1>2, <1>7, <1>13 DEF toolsRest, At
  <2>2. \/ task' = GoTo(<<Ip(ipAvailable), Do("sum")>>)
        \/ task' = [Go EXCEPT !.val = task.bytes]
    BY <1>13 DEF toolsRest
  <2>3. CASE task' = GoTo(<<Ip(ipAvailable), Do("sum")>>)
    <3> DEFINE n == ipAvailable
               p == <<Ip(n), Do("sum")>>
    <3>1. n \in Int /\ Within(task.bytes + n, task, driver)
      BY <1>4, <2>1 DEF Within
    <3> HIDE DEF n
    <3>2. Round(p) /\ Bounded(p, task, driver)
      BY <3>1, Rounds, RoundBounds
    <3> HIDE DEF p
    <3> QED BY <1>5, <2>3, <3>2 DEF p, n
  <2> QED BY <1>6, <2>2, <2>3
<1> QED BY <1>8, <1>9, <1>10, <1>11, <1>12, <1>13

\* ipRead() is four steps in front of the one that takes its result.
LEMMA IpReadShape ==
  ASSUME DriverInv, SaraInv, task.todo # <<>>, Step[1] = "ipRead", NEW w,
         w = ipReadNsorf(Step[2]) \o Rest
  PROVE  /\ w # <<>> /\ Head(w)[1] = "send" /\ SaraShape(w)
         /\ \A i \in 1..Len(w) : /\ w[i][1] = "row" => w[i][2] = Step[2]
                                 /\ w[i][1] # "ipRead"
                                 /\ w[i][1] \in ToolsLoops => driver = "tools"
<1> DEFINE n == Step[2]
           c == Send("NSORF", <<net.number, n>>)
           r == <<"row", n>>
           p == <<c, ReplyAny, r, Flush>>
<1>1. n \in Int /\ net.number \in Int
  BY InFunction, StepIs, NetFields
<1>2. c \in Steps /\ c[1] = "send" /\ c[2][2][2] = n
  <2>1. c \in Steps
    BY <1>1, StepsAre
  <2> DEFINE a == <<net.number, n>>
  <2>2. a[2] = n
    OBVIOUS
  <2> HIDE DEF a
  <2>3. Send("NSORF", a)[1] = "send" /\ Send("NSORF", a)[2][2] = a
    BY KindOf
  <2>4. c = Send("NSORF", a)
    BY DEF a
  <2> HIDE DEF c
  <2> QED BY <2>1, <2>2, <2>3, <2>4
<1>3. r \in Steps /\ r[1] = "row" /\ r[2] = n
  BY <1>1, StepsAre
<1>4. /\ ReplyAny \in Steps /\ Flush \in Steps /\ ReplyAny[1] = "any" /\ Flush[1] = "flush"
  BY StepsAre, KindOf
<1>5. w = p \o Rest
  BY DEF ipReadNsorf
<1> HIDE DEF c, r
<1>6. p \in Seq(Steps) /\ Len(p) = 4 /\ p[1] = c /\ p[2] = ReplyAny /\ p[3] = r /\ p[4] = Flush
  BY <1>2, <1>3, <1>4
<1> HIDE DEF p, n
<1>7. /\ task.todo \in Seq(Steps) /\ Rest \in Seq(Steps) /\ Len(Rest) \in Nat
      /\ Len(Rest) = Len(task.todo) - 1
      /\ \A i \in 1..Len(Rest) : Rest[i] = task.todo[i + 1] /\ i + 1 \in 1..Len(task.todo)
  BY Left
<1>8. /\ SaraShape(Rest) /\ Rest # <<>> /\ Follows("ipRead", Rest[1][1])
  <2>1. Closes(task.todo, SaraEnds) /\ "ipRead" \notin SaraEnds /\ SaraShape(task.todo)
    BY DEF SaraInv, SaraShape, SaraEnds, Takes, Loops
  <2> QED BY <2>1, LeftShape
<1>9. \A i \in 1..Len(Rest) : Rest[i][1] \in Takes \cup Loops
  <2>1. 1 \in 1..Len(Rest) /\ Rest[1][1] \in Takes \cup Loops
    BY <1>7, <1>8 DEF Follows
  <2>2. ASSUME NEW i \in 1..Len(Rest), i # 1 PROVE Rest[i][1] \in Loops
    <3>1. Rest[1][1] \notin SaraEnds
      BY <1>7, <1>8, <2>1, <2>2 DEF SaraShape, Closes
    <3>2. Rest[1][1] = "took"
      BY <2>1, <3>1 DEF SaraEnds, Takes
    <3>3. 1 + 1 \in 1..Len(Rest)
      BY <1>7, <2>2
    <3>4. Rest[1 + 1][1] \in Loops
      BY <1>8, <2>1, <3>2, <3>3 DEF SaraShape, Linked, Follows
    <3>5. 1 + 1 = Len(Rest)
      BY <1>8, <3>3, <3>4 DEF SaraShape, Closes, SaraEnds
    <3>6. i = 1 + 1
      BY <1>7, <2>2, <3>5
    <3> QED BY <3>4, <3>6
  <2> QED BY <2>1, <2>2
<1>10. /\ w \in Seq(Steps) /\ Len(w) = 4 + Len(Rest)
       /\ \A i \in 1..Len(w) : w[i] = IF i <= 4 THEN p[i] ELSE Rest[i - 4]
  <2>1. p \in Seq(Steps) /\ Rest \in Seq(Steps)
    BY <1>6, <1>7
  <2>2. /\ p \o Rest \in Seq(Steps) /\ Len(p \o Rest) = Len(p) + Len(Rest)
        /\ \A i \in 1..Len(p) + Len(Rest) :
              (p \o Rest)[i] = IF i <= Len(p) THEN p[i] ELSE Rest[i - Len(p)]
    BY <2>1, ConcatProperties, Zenon
  <2> QED BY <1>5, <1>6, <2>2
<1>11. /\ w[1] = c /\ w[2] = ReplyAny /\ w[3] = r /\ w[4] = Flush
       /\ 1 \in 1..Len(w) /\ 2 \in 1..Len(w) /\ 3 \in 1..Len(w) /\ 4 \in 1..Len(w)
  <2>1. Len(w) \in Nat /\ Len(w) >= 4
    BY <1>7, <1>10
  <2>2. 1 \in 1..Len(w) /\ 2 \in 1..Len(w) /\ 3 \in 1..Len(w) /\ 4 \in 1..Len(w)
    BY <2>1
  <2>3. \A i \in 1..Len(w) : i <= 4 => w[i] = p[i]
    BY <1>10
  <2>4. w[1] = p[1] /\ w[2] = p[2] /\ w[3] = p[3] /\ w[4] = p[4]
    BY <2>2, <2>3
  <2> QED BY <1>6, <2>2, <2>4
<1>12. ASSUME NEW i \in 1..Len(w)
       PROVE  i \in {1, 2, 3, 4} \/ (i > 4 /\ i - 4 \in 1..Len(Rest) /\ w[i] = Rest[i - 4])
  BY <1>7, <1>10, <1>12
<1>13. /\ \A k \in Takes \cup Loops : k \in SaraKinds /\ k \notin {"send", "any", "row", "flush", "ipRead"}
       /\ {"send", "any", "row", "flush"} \subseteq SaraKinds
       /\ \A k \in {"send", "any", "row", "flush"} : k \notin SaraEnds /\ k \notin ToolsLoops
  BY DEF SaraKinds, SaraEnds, Asks, Takes, Loops, ToolsLoops
<1>14. OfKinds(w, SaraKinds)
  BY <1>2, <1>3, <1>4, <1>9, <1>11, <1>12, <1>13 DEF OfKinds
<1>15. Closes(w, SaraEnds)
  <2>1. ASSUME NEW i \in 1..Len(w) PROVE w[i][1] \in SaraEnds <=> i = Len(w)
    <3>1. CASE i \in {1, 2, 3, 4}
      <4>1. w[i][1] \notin SaraEnds
        BY <1>2, <1>3, <1>4, <1>11, <1>13, <3>1
      <4>2. i # Len(w)
        BY <1>7, <1>8, <1>10, <3>1
      <4> QED BY <4>1, <4>2
    <3>2. CASE i > 4 /\ i - 4 \in 1..Len(Rest) /\ w[i] = Rest[i - 4]
      <4>1. Rest[i - 4][1] \in SaraEnds <=> i - 4 = Len(Rest)
        BY <1>8, <3>2 DEF SaraShape, Closes
      <4>2. (i - 4 = Len(Rest)) <=> (i = Len(w))
        BY <1>7, <1>10
      <4> QED BY <3>2, <4>1, <4>2
    <3> QED BY <1>12, <3>1, <3>2
  <2> QED BY <2>1 DEF Closes
<1>16. Linked(w)
  <2>1. ASSUME NEW i \in 1..Len(w), i + 1 \in 1..Len(w) PROVE Follows(w[i][1], w[i + 1][1])
    <3>1. Follows("send", "any") /\ Follows("any", "row") /\ Follows("row", "flush")
      BY DEF Follows
    <3>2. Follows("flush", Rest[1][1])
      BY <1>8 DEF Follows
    <3>3. CASE i \in {1, 2, 3}
      <4>1. w[1][1] = "send" /\ w[2][1] = "any" /\ w[3][1] = "row" /\ w[4][1] = "flush"
        BY <1>2, <1>3, <1>4, <1>11
      <4>2. 1 + 1 = 2 /\ 2 + 1 = 3 /\ 3 + 1 = 4
        OBVIOUS
      <4> QED BY <3>1, <3>3, <4>1, <4>2
    <3>4. CASE i = 4
      <4>1. w[i + 1] = Rest[1]
        BY <1>10, <2>1, <3>4
      <4> QED BY <1>4, <1>11, <3>2, <3>4, <4>1
    <3>5. CASE i > 4
      <4>1. /\ i - 4 \in 1..Len(Rest) /\ (i - 4) + 1 \in 1..Len(Rest) /\ w[i] = Rest[i - 4]
            /\ w[i + 1] = Rest[(i - 4) + 1]
        <5>1. i - 4 \in 1..Len(Rest) /\ (i - 4) + 1 \in 1..Len(Rest) /\ ~(i + 1 <= 4)
              /\ (i + 1) - 4 = (i - 4) + 1
          BY <1>7, <1>10, <2>1, <3>5
        <5>2. ~(i <= 4) /\ i \in 1..Len(w) /\ i + 1 \in 1..Len(w)
          BY <2>1, <3>5
        <5>3. w[i] = Rest[i - 4]
          BY <1>10, <5>2
        <5>4. w[i + 1] = Rest[(i + 1) - 4]
          BY <1>10, <5>1, <5>2
        <5> QED BY <5>1, <5>3, <5>4
      <4> QED BY <1>8, <4>1 DEF SaraShape, Linked
    <3> QED BY <1>12, <3>3, <3>4, <3>5
  <2> QED BY <2>1 DEF Linked
<1>17. ASSUME NEW i \in 1..Len(w)
       PROVE  (w[i][1] = "row" => i = 3) /\ (w[i][1] = "send" => i = 1) /\ w[i][1] # "ipRead"
  BY <1>2, <1>3, <1>4, <1>9, <1>11, <1>12, <1>13
<1>18. Sized(w)
  <2>1. ASSUME NEW i \in 1..Len(w), NEW j \in 1..Len(w), w[i][1] = "send", w[j][1] = "row"
        PROVE  w[i][2][2][2] <= w[j][2]
    <3>1. i = 1 /\ j = 3
      BY <1>17, <2>1
    <3> QED BY <1>1, <1>2, <1>3, <1>11, <3>1 DEF n
  <2> QED BY <2>1 DEF Sized
<1>19. ASSUME NEW i \in 1..Len(w), w[i][1] \in ToolsLoops PROVE driver = "tools"
  <2>1. ~(i \in {1, 2, 3, 4})
    BY <1>2, <1>3, <1>4, <1>11, <1>13, <1>19
  <2>2. w[i] = task.todo[(i - 4) + 1] /\ (i - 4) + 1 \in 1..Len(task.todo)
    BY <1>7, <1>12, <2>1
  <2> QED BY <1>19, <2>2 DEF SaraInv, BytesInv, Bounded
<1>20. w # <<>> /\ Head(w)[1] = "send"
  BY <1>2, <1>10, <1>11
<1>21. \A i \in 1..Len(w) : w[i][1] = "row" => w[i][2] = Step[2]
  BY <1>3, <1>11, <1>17 DEF n
<1> QED BY <1>14, <1>15, <1>16, <1>17, <1>18, <1>19, <1>20, <1>21 DEF SaraShape

\* ipRead() begins.
LEMMA SaraIpRead ==
  ASSUME DriverInv, SaraInv, driver \in {"B656", "B657", "tools"}, ipReadStep
  PROVE  SaraInv'
<1>1. task.todo # <<>> /\ Step[1] = "ipRead" /\ rx' = rx /\ tx' = tx /\ driver' = driver
  BY DEF ipReadStep, At, Internal, Quiet, drvVars
<1> DEFINE p == ipReadNsorf(Step[2])
           w == p \o Rest
           m == -1
<1>2. task' = [GoTo(p) EXCEPT !.rb = m]
  BY DEF ipReadStep, Pick, ipReadB656, ipReadB657, ipReadTools
<1>3. m + 1 = 0 /\ m \in Int
  OBVIOUS
<1>4. p \in Seq(Steps)
  BY <1>1, InFunction, StepIs, NetFields, ReadFronts DEF Front
<1>5. /\ w # <<>> /\ Head(w)[1] = "send" /\ SaraShape(w)
      /\ \A i \in 1..Len(w) : /\ w[i][1] = "row" => w[i][2] = Step[2]
                              /\ w[i][1] # "ipRead"
                              /\ w[i][1] \in ToolsLoops => driver = "tools"
  BY <1>1, IpReadShape
<1> HIDE DEF p, m
<1>6. Moved(GoTo(p), w)
  BY <1>1, <1>4, GoMoves
<1> HIDE DEF w
<1>7. /\ task'.todo = w /\ task'.rb = m /\ task'.arg = task.arg /\ task'.bytes = task.bytes
      /\ task'.data = task.data /\ task'.val = task.val
  BY <1>2, <1>6 DEF Moved, TaskType
<1>8. Silent
  BY <1>1 DEF SaraInv, RowInv, Expects
<1>9. Asked(w, tx, rx)
  BY <1>8 DEF Silent, Asked, NoMore
<1>10. RowInv'
  BY <1>1, <1>5, <1>7, <1>8, <1>9 DEF RowInv, Silent, Step
<1>11. Within(task.bytes + Step[2], task, driver)
  BY <1>1, Left DEF SaraInv, BytesInv, Bounded
<1>12. Bounded(w, task', driver)
  BY <1>5, <1>7, <1>11 DEF Bounded, Within
<1>13. task.bytes <= task.data /\ Within(task.bytes, task, driver)
       /\ task.val <= task.data /\ Within(task.val, task, driver)
  BY DEF SaraInv, BytesInv
<1>14. task.bytes + m <= task.data /\ Within(task.bytes + m, task, driver)
  <2>1. task.bytes \in Int /\ task.data \in Int /\ task.arg \in Int
    BY <1>1, InFunction, TaskFields
  <2> QED BY <1>3, <1>13, <2>1 DEF Within
<1>15. BytesInv'
  BY <1>1, <1>7, <1>12, <1>13, <1>14 DEF BytesInv, Within
<1> QED BY <1>5, <1>7, <1>10, <1>15 DEF SaraInv

\* The answer to ipRead() is counted.
LEMMA SaraRow ==
  ASSUME DriverInv, SaraInv, rowStep
  PROVE  SaraInv'
<1>1. /\ task.todo # <<>> /\ Step[1] = "row" /\ task.ok /\ rx' = rx /\ tx' = tx /\ driver' = driver
  BY DEF rowStep, Ready, At, Net
<1> DEFINE l == task.resp
           own == l.tag = "row" /\ l.n = net.number
           takes == own /\ 0 < l.m /\ l.m <= Step[2]
           rb == IF l.tag = "OK" THEN 0 ELSE IF own THEN l.m ELSE task.rb
           data == IF takes THEN task.data + l.m ELSE task.data
<1>2. Moved(Go, Rest) /\ Go.rb = task.rb /\ Go.data = task.data
  BY <1>1, GoMoves DEF Moved
<1>3. task' = [Go EXCEPT !.rb = rb, !.data = data]
  BY <1>2 DEF rowStep, Net
<1>4. /\ task.bytes \in Int /\ task.data \in Int /\ task.arg \in Int /\ task.rb \in Int
      /\ l.m \in Int /\ Step[2] \in Int
  BY <1>1, InFunction, TaskFields, StepIs DEF Lines
<1>5. l.tag = "row" => l.m <= Step[2]
  <2>1. Answered(task.todo, task.resp)
    BY <1>1 DEF SaraInv, RowInv
  <2> QED BY <1>1, <2>1, Left DEF Answered, NoMore
<1>6. /\ task.bytes <= task.data /\ Within(task.bytes, task, driver)
      /\ task.val <= task.data /\ Within(task.val, task, driver)
      /\ Within(task.bytes + Step[2], task, driver)
  BY <1>1, Left DEF SaraInv, BytesInv, Bounded
<1>7. data >= task.data /\ data \in Int
  BY <1>4
<1>8. Owes(task.todo) => task.bytes + rb <= data /\ Within(task.bytes + rb, task, driver)
  <2>1. Owes(task.todo) => task.bytes + task.rb <= task.data
                           /\ Within(task.bytes + task.rb, task, driver)
    BY <1>1 DEF SaraInv, BytesInv
  <2>2. CASE l.tag = "OK"
    <3>1. rb = 0
      BY <2>2
    <3> QED BY <1>4, <1>6, <1>7, <3>1 DEF Within
  <2>3. CASE l.tag # "OK" /\ own
    <3>1. rb = l.m /\ l.m <= Step[2] /\ (takes <=> 0 < l.m)
      BY <1>5, <2>3
    <3>2. 0 < l.m => data = task.data + l.m
      BY <3>1
    <3> HIDE DEF l, rb, data, takes
    <3> QED BY <1>4, <1>6, <1>7, <3>1, <3>2 DEF Within
  <2>4. CASE l.tag # "OK" /\ ~own
    <3>1. rb = task.rb /\ data = task.data
      BY <2>4
    <3> QED BY <2>1, <3>1
  <2> QED BY <2>2, <2>3, <2>4
<1> HIDE DEF l, own, takes, rb, data
<1>9. /\ task'.todo = Rest /\ task'.rb = rb /\ task'.data = data /\ task'.arg = task.arg
      /\ task'.bytes = task.bytes /\ task'.val = task.val
  BY <1>2, <1>3 DEF Moved, TaskType
<1>10. SaraShape(Rest) /\ RowInv'
  BY <1>1, <1>9, RowsOn DEF SaraInv
<1>11. Among(Rest, task.todo)
  BY <1>1, Left, AmongThem DEF Rest
<1>12. Bounded(Rest, task', driver)
  <2>1. ASSUME NEW i \in 1..Len(Rest)
        PROVE  /\ Rest[i][1] \in {"ipRead", "row"} => Within(task'.bytes + Rest[i][2], task', driver)
               /\ Rest[i][1] \in ToolsLoops => driver = "tools"
    <3>1. PICK j \in 1..Len(task.todo) : Rest[i] = task.todo[j]
      BY <1>11, <2>1 DEF Among
    <3> QED BY <1>9, <3>1 DEF SaraInv, BytesInv, Bounded, Within
  <2> QED BY <2>1 DEF Bounded
<1>13. Owes(Rest) => Owes(task.todo)
  BY <1>11 DEF Owes, Among
<1>14. task.val \in Int
  BY <1>1, InFunction, TaskFields
<1>15. BytesInv'
  <2>1. task'.bytes <= task'.data /\ task'.val <= task'.data
    BY <1>4, <1>6, <1>7, <1>9, <1>14
  <2>2. Within(task'.bytes, task', driver) /\ Within(task'.val, task', driver)
    BY <1>6, <1>9 DEF Within
  <2>3. Owes(Rest) => task'.bytes + task'.rb <= task'.data
                      /\ Within(task'.bytes + task'.rb, task', driver)
    BY <1>8, <1>9, <1>13 DEF Within
  <2> QED BY <1>1, <1>9, <1>12, <2>1, <2>2, <2>3 DEF BytesInv
<1> QED BY <1>9, <1>10, <1>15 DEF SaraInv

\* What was read is added up, in the loop and at its end.
LEMMA SaraTakes ==
  ASSUME DriverInv, SaraInv, tookStep \/ sumStep
  PROVE  SaraInv'
<1>1. /\ task.todo # <<>> /\ Step[1] \in SaraKinds /\ rx' = rx /\ tx' = tx /\ driver' = driver
      /\ 1 \in 1..Len(task.todo) /\ Step = task.todo[1]
  <2>1. task.todo # <<>> /\ rx' = rx /\ tx' = tx /\ driver' = driver
    BY DEF tookStep, sumStep, At, Internal, Quiet, drvVars
  <2> QED BY <2>1, LeftShape, Left DEF SaraInv, SaraShape
<1>2. Moved(Go, Rest)
  BY <1>1, GoMoves
<1>3. /\ task.bytes \in Int /\ task.data \in Int /\ task.arg \in Int /\ task.rb \in Int
      /\ task.val \in Int
  BY <1>1, InFunction, TaskFields
<1>4. /\ task.bytes <= task.data /\ Within(task.bytes, task, driver)
      /\ task.val <= task.data /\ Within(task.val, task, driver)
  BY DEF SaraInv, BytesInv
<1>5. ASSUME Step[1] \in Takes
      PROVE  task.bytes + task.rb <= task.data /\ Within(task.bytes + task.rb, task, driver)
  <2>1. Owes(task.todo) /\ Step[1] # "ipRead"
    BY <1>1, <1>5 DEF Owes, Takes
  <2> QED BY <2>1 DEF SaraInv, BytesInv
<1>6. CASE sumStep
  <2>1. task' = [Go EXCEPT !.ok = TRUE, !.val = task.rb + task.bytes] /\ Internal /\ Step[1] = "sum"
    BY <1>6 DEF sumStep, At
  <2>2. /\ task'.todo = Rest /\ task'.arg = task.arg /\ task'.bytes = task.bytes
        /\ task'.data = task.data /\ task'.val = task.rb + task.bytes
    BY <1>2, <2>1 DEF Moved, TaskType
  <2>3. task'.val <= task.data /\ Within(task'.val, task, driver)
    BY <1>3, <1>5, <2>1, <2>2 DEF Within, Takes
  <2>4. Step[1] \in SaraEnds
    BY <2>1 DEF SaraEnds
  <2> QED BY <1>1, <2>1, <2>2, <2>3, <2>4, SaraFinish
<1>7. CASE tookStep
  <2> DEFINE b == IF task.rb > 0 THEN task.bytes + task.rb ELSE task.bytes
  <2>1. Step[1] = "took"
    BY <1>1, <1>7 DEF tookStep, At, SaraKinds, Asks, Takes, Loops
  <2>2. task' = [Go EXCEPT !.ok = TRUE, !.bytes = b]
    BY <1>2, <1>7 DEF tookStep, Moved
  <2>3. b <= task.data /\ Within(b, task, driver)
    BY <1>3, <1>4, <1>5, <2>1 DEF Takes
  <2> HIDE DEF b
  <2>4. /\ task'.todo = Rest /\ task'.arg = task.arg /\ task'.bytes = b
        /\ task'.data = task.data /\ task'.val = task.val /\ task'.rb = task.rb
    BY <1>2, <2>2 DEF Moved, TaskType
  <2>5. SaraShape(Rest) /\ RowInv'
    BY <1>1, <2>1, <2>4, RowsOn DEF SaraInv
  <2>6. /\ Rest # <<>> /\ Rest[1][1] \in Loops /\ Len(Rest) \in Nat
        /\ \A i \in 1..Len(Rest) : Rest[i] = task.todo[i + 1] /\ i + 1 \in 1..Len(task.todo)
    <3>1. Closes(task.todo, SaraEnds) /\ "took" \notin SaraEnds
      BY DEF SaraInv, SaraShape, SaraEnds, Loops
    <3>2. Rest # <<>>
      BY <1>1, <2>1, <3>1, LeftShape
    <3>3. Follows("took", Rest[1][1])
      BY <1>1, <2>1, <3>2, LeftShape DEF SaraInv
    <3> QED BY <1>1, <3>2, <3>3, Left DEF Follows
  <2>7. \A i \in 1..Len(Rest) : i = 1
    <3>1. 1 \in 1..Len(Rest)
      BY <1>1, <2>6, Left
    <3>2. 1 = Len(Rest)
      BY <2>5, <2>6, <3>1 DEF SaraShape, Closes, SaraEnds
    <3>3. \A i \in 1..1 : i = 1
      OBVIOUS
    <3> QED BY <3>2, <3>3
  <2>8. ~Owes(Rest)
    BY <2>6, <2>7 DEF Owes, Loops, Takes
  <2>9. Bounded(Rest, task', driver)
    <3>1. ASSUME NEW i \in 1..Len(Rest)
          PROVE  /\ Rest[i][1] \notin {"ipRead", "row"}
                 /\ Rest[i][1] \in ToolsLoops => driver = "tools"
      <4>1. Rest[i][1] \in Loops
        BY <2>6, <2>7, <3>1
      <4>2. Rest[i][1] \in ToolsLoops => driver = "tools"
        BY <2>6, <3>1 DEF SaraInv, BytesInv, Bounded
      <4> QED BY <4>1, <4>2 DEF Loops
    <3> QED BY <3>1 DEF Bounded
  <2>10. BytesInv'
    BY <1>1, <1>4, <2>3, <2>4, <2>8, <2>9 DEF BytesInv, Within
  <2> QED BY <2>4, <2>5, <2>10 DEF SaraInv
<1> QED BY <1>6, <1>7

\* What the modem does to the lines when it looks at a command.
LEMMA AnswersDo ==
  ASSUME DriverInv, modemAnswers, NEW c, NEW a, c = Head(tx)[1], a = Head(tx)[2]
  PROVE  /\ tx # <<>> /\ tx' = Tail(tx) /\ UNCHANGED <<task, driver, net, filters>>
         /\ Head(tx) = tx[1] /\ 1 \in 1..Len(tx) /\ <<c, a>> \in Commands
         /\ rx \in Seq(Lines) /\ tx \in Seq(Commands) /\ modem \in ModemType
         /\ \E s \in Seq(Lines) :
              /\ rx' = rx \o s /\ \A i \in 1..Len(s) : Says(s[i], c, a)
              /\ \/ s = Answer(c, a) /\ modem' = Obeyed(c, a)
                 \/ s = <<ErrReply>> /\ modem' = modem
                 \/ s = <<>> /\ modem' \in {modem, Obeyed(c, a)}
<1>1. tx # <<>> /\ tx' = Tail(tx) /\ UNCHANGED <<task, driver, net, filters>>
  BY DEF modemAnswers, TheModem
<1>2. /\ modem \in ModemType /\ rx \in Seq(Lines) /\ tx \in Seq(Commands)
      /\ Head(tx) \in Commands /\ Head(tx) = tx[1] /\ 1 \in 1..Len(tx)
  BY <1>1 DEF DriverInv, WireInv
<1>3. <<c, a>> \in Commands
  BY <1>2 DEF Commands
<1>4. \/ rx' = rx \o Answer(c, a) /\ modem' = Obeyed(c, a)
      \/ rx' = Append(rx, ErrReply) /\ modem' = modem
      \/ rx' = rx /\ modem' \in {modem, Obeyed(c, a)}
  BY DEF modemAnswers
<1>5. CASE rx' = rx \o Answer(c, a) /\ modem' = Obeyed(c, a)
  <2>1. Answer(c, a) \in Seq(Lines)
    <3>1. Answer(c, a) \in Seq(Spoken) /\ Spoken \subseteq Lines
      BY <1>2, <1>3, AnswerType DEF Spoken
    <3> QED BY <3>1
  <2>2. \A i \in 1..Len(Answer(c, a)) : Says(Answer(c, a)[i], c, a)
    BY <1>2, <1>3, AnswerSays
  <2> QED BY <1>1, <1>2, <1>3, <1>5, <2>1, <2>2
<1>6. CASE rx' = Append(rx, ErrReply) /\ modem' = modem
  <2> DEFINE s == <<ErrReply>>
  <2>1. ErrReply \in Lines /\ ErrReply.tag = "ERROR"
    BY Replies DEF ErrReply, Line
  <2>2. Says(ErrReply, c, a)
    BY <2>1 DEF Says, Urcs
  <2>3. s \in Seq(Lines) /\ Len(s) = 1 /\ s[1] = ErrReply /\ rx' = rx \o s
    BY <1>2, <1>6, <2>1
  <2> HIDE DEF s
  <2>4. \A i \in 1..Len(s) : Says(s[i], c, a)
    BY <2>2, <2>3
  <2>5. s = <<ErrReply>>
    BY DEF s
  <2> QED BY <1>1, <1>2, <1>3, <1>6, <2>3, <2>4, <2>5
<1>7. CASE rx' = rx /\ modem' \in {modem, Obeyed(c, a)}
  <2> DEFINE s == <<>>
  <2>1. s \in Seq(Lines) /\ Len(s) = 0 /\ rx' = rx \o s
    BY <1>2, <1>7
  <2>2. \A i \in 1..Len(s) : Says(s[i], c, a)
    BY <2>1
  <2> QED BY <1>1, <1>2, <1>3, <1>7, <2>1, <2>2
<1> QED BY <1>4, <1>5, <1>6, <1>7

\* Unasked, it prints nothing but datagrams and status reports.
LEMMA UnaskedDoes ==
  ASSUME DriverInv, modemReceives \/ modemReports
  PROVE  /\ UNCHANGED <<task, driver, net, filters, tx>> /\ rx \in Seq(Lines)
         /\ modem'.on = modem.on /\ modem'.seek = modem.seek /\ modem'.attached = modem.attached
         /\ modem'.qreg = modem.qreg /\ modem'.open = modem.open
         /\ \E l \in Lines : /\ rx' = Append(rx, l)
                             /\ l.tag \in {"+NSONMI:", "+QIURC:"} \cup Urcs
<1>1. UNCHANGED <<task, driver, net, filters, tx>> /\ rx \in Seq(Lines) /\ modem \in ModemType
  BY DEF modemReceives, modemReports, TheModem, DriverInv, WireInv
<1>2. CASE modemReceives
  <2>1. PICK s \in modem.open, k \in Lens \cup {BufSize + 1} :
          /\ modem' = IF driver = "BC95" THEN modem ELSE [modem EXCEPT !.inbox[s] = @ + k]
          /\ \/ rx' = Append(rx, Line(IF driver = "BG96" THEN "+QIURC:" ELSE "+NSONMI:", s, k))
             \/ driver = "BC95" /\ rx' = Append(rx, Short("+NSONMI:", s, k))
    BY <1>2 DEF modemReceives
  <2> DEFINE g == IF driver = "BG96" THEN "+QIURC:" ELSE "+NSONMI:"
  <2>2. g \in {"+NSONMI:", "+QIURC:"} /\ g \in Tags /\ g # "raw"
    BY DEF Tags
  <2>3. "+NSONMI:" \in Tags \ {"+NPSMR:", "+CSCON:"} /\ "+NSONMI:" # "raw"
    BY DEF Tags
  <2>4. s \in Int /\ k \in Nat
    BY <1>1, <2>1, ModemFields, DriverAssumption DEF Sockets
  <2>5. rx' = Append(rx, Line(g, s, k)) \/ rx' = Append(rx, Short("+NSONMI:", s, k))
    BY <2>1
  <2> HIDE DEF g
  <2>6. Line(g, s, k) \in Lines /\ Line(g, s, k).tag = g
    BY <2>2, <2>4, LinesAre
  <2>7. Short("+NSONMI:", s, k) \in Lines /\ Short("+NSONMI:", s, k).tag = "+NSONMI:"
    BY <2>3, <2>4, ShortAre
  <2>8. /\ modem'.on = modem.on /\ modem'.seek = modem.seek /\ modem'.attached = modem.attached
    BY <1>1, <2>1 DEF ModemType
  <2>9. modem'.qreg = modem.qreg /\ modem'.open = modem.open
    BY <1>1, <2>1 DEF ModemType
  <2> QED BY <1>1, <2>2, <2>5, <2>6, <2>7, <2>8, <2>9
<1>3. CASE modemReports
  <2>1. PICK u \in modem.urcs, v \in {0, 1} :
          \/ modem' = [modem EXCEPT !.last[u] = v] /\ rx' = Append(rx, Line(u, v, 0))
          \/ u = "+CEREG:" /\ UNCHANGED modem /\ rx' = Append(rx, Short(u, v, 0))
    BY <1>3 DEF modemReports
  <2>2. u \in Urcs /\ u \in Tags /\ u # "raw" /\ u # "+NSONMI:" /\ v \in Int
    <3>1. u \in Urcs
      BY <1>1, <2>1, ModemFields
    <3>2. \A w \in Urcs : w \in Tags /\ w # "raw" /\ w # "+NSONMI:"
      BY DEF Urcs, Tags
    <3>3. v \in Int
      BY <2>1
    <3> QED BY <3>1, <3>2, <3>3
  <2>3. Line(u, v, 0) \in Lines /\ Line(u, v, 0).tag = u
    BY <2>2, LinesAre
  <2>4. u = "+CEREG:" => Short(u, v, 0) \in Lines /\ Short(u, v, 0).tag = u
    BY <2>2, ShortAre
  <2>5. /\ modem'.on = modem.on /\ modem'.seek = modem.seek /\ modem'.attached = modem.attached
    BY <1>1, <2>1 DEF ModemType
  <2>6. modem'.qreg = modem.qreg /\ modem'.open = modem.open
    BY <1>1, <2>1 DEF ModemType
  <2>7. rx' = Append(rx, Line(u, v, 0)) \/ (u = "+CEREG:" /\ rx' = Append(rx, Short(u, v, 0)))
    BY <2>1
  <2> QED BY <1>1, <2>2, <2>3, <2>4, <2>5, <2>6, <2>7
<1> QED BY <1>2, <1>3

\* The modem answers while read() waits.
LEMMA SaraModem ==
  ASSUME DriverInv, SaraInv, modemAnswers \/ modemRegisters \/ modemReceives \/ modemReports
  PROVE  SaraInv'
<1>1. UNCHANGED <<task, driver>> /\ rx \in Seq(Lines) /\ tx \in Seq(Commands)
  BY DEF modemAnswers, modemRegisters, modemReceives, modemReports, TheModem, DriverInv, WireInv
<1>2. BytesInv'
  BY <1>1 DEF SaraInv, BytesInv, Step
<1>3. CASE modemRegisters
  <2>1. rx' = rx /\ tx' = tx
    BY <1>3 DEF modemRegisters
  <2> QED BY <1>1, <2>1, AmongThem, SaraWaits
<1>4. CASE modemReceives \/ modemReports
  <2>1. tx' = tx /\ \E l \in Lines : rx' = Append(rx, l)
                                     /\ l.tag \in {"+NSONMI:", "+QIURC:"} \cup Urcs
    BY <1>4, UnaskedDoes
  <2>2. PICK l \in Lines : rx' = Append(rx, l) /\ l.tag \in {"+NSONMI:", "+QIURC:"} \cup Urcs
    BY <2>1
  <2>3. l.tag # "row"
    BY <2>2 DEF Urcs
  <2>4. \A i \in 1..Len(rx') : (i \in 1..Len(rx) /\ rx'[i] = rx[i]) \/ rx'[i] = l
    BY <1>1, <2>2
  <2>5. Silent => Silent'
    BY <2>1, <2>3, <2>4 DEF Silent
  <2>6. Asked(task.todo, tx, rx')
    <3>1. Asked(task.todo, tx, rx)
      BY DEF SaraInv, RowInv
    <3>2. \A n : NoMore(l, n)
      BY <2>3 DEF NoMore
    <3> QED BY <2>4, <3>1, <3>2 DEF Asked
  <2>7. RowInv'
    BY <1>1, <2>1, <2>5, <2>6 DEF SaraInv, RowInv, Step
  <2> QED BY <1>1, <1>2, <2>7 DEF SaraInv
<1>5. CASE modemAnswers
  <2> DEFINE c == Head(tx)[1]
             a == Head(tx)[2]
  <2>1. /\ tx # <<>> /\ tx' = Tail(tx) /\ Head(tx) = tx[1] /\ 1 \in 1..Len(tx)
        /\ \E s \in Seq(Lines) : rx' = rx \o s /\ \A i \in 1..Len(s) : Says(s[i], c, a)
    BY <1>5, AnswersDo
  <2>2. PICK s \in Seq(Lines) : rx' = rx \o s /\ \A i \in 1..Len(s) : Says(s[i], c, a)
    BY <2>1
  <2>3. c = tx[1][1] /\ a = tx[1][2]
    BY <2>1
  <2> HIDE DEF c, a
  <2>4. /\ Len(rx \o s) = Len(rx) + Len(s)
        /\ \A i \in 1..Len(rx) + Len(s) : (rx \o s)[i] = IF i <= Len(rx) THEN rx[i] ELSE s[i - Len(rx)]
    BY <1>1, <2>2, ConcatProperties, Zenon
  <2>5. Len(rx) \in Nat /\ Len(s) \in Nat
    BY <1>1, <2>2
  <2>6. \A i \in 1..Len(rx') : \/ i \in 1..Len(rx) /\ rx'[i] = rx[i]
                               \/ i - Len(rx) \in 1..Len(s) /\ rx'[i] = s[i - Len(rx)]
    BY <2>2, <2>4, <2>5
  <2>7. ~Silent
    BY <2>1 DEF Silent
  <2>8. Asked(task.todo, tx', rx')
    <3>1. SUFFICES ASSUME NEW i \in 1..Len(task.todo), task.todo[i][1] = "row"
                   PROVE  /\ \A j \in 1..Len(tx') : tx'[j][1] = "NSORF" => tx'[j][2][2] <= task.todo[i][2]
                          /\ \A j \in 1..Len(rx') : NoMore(rx'[j], task.todo[i][2])
      BY DEF Asked
    <3>2. /\ \A j \in 1..Len(tx) : tx[j][1] = "NSORF" => tx[j][2][2] <= task.todo[i][2]
          /\ \A j \in 1..Len(rx) : NoMore(rx[j], task.todo[i][2])
      BY <3>1 DEF SaraInv, RowInv, Asked
    <3>3. Among(tx', tx)
      BY <1>1, <2>1, AmongThem
    <3>4. ASSUME NEW j \in 1..Len(s) PROVE NoMore(s[j], task.todo[i][2])
      <4>1. SUFFICES ASSUME s[j].tag = "row" PROVE s[j].m <= task.todo[i][2]
        BY DEF NoMore
      <4>2. c = "NSORF" /\ s[j].m <= a[2]
        BY <2>2, <3>4, <4>1 DEF Says
      <4>3. a[2] <= task.todo[i][2]
        BY <2>1, <2>3, <3>2, <4>2
      <4>4. tx[1] \in Commands
        BY <1>1, <2>1
      <4>5. a[2] \in Int
        BY <2>3, <4>2, <4>4, CommandIs
      <4>6. s[j].m \in Int
        BY <2>2, <3>4 DEF Lines
      <4>7. task.todo[i][2] \in Int
        <5>1. task.todo[i] \in Steps
          BY <3>1, TaskFields DEF DriverInv, TaskInv
        <5> QED BY <3>1, <5>1, StepIs
      <4> QED BY <4>2, <4>3, <4>5, <4>6, <4>7
    <3>5. \A j \in 1..Len(rx') : NoMore(rx'[j], task.todo[i][2])
      BY <2>6, <3>2, <3>4
    <3>6. \A j \in 1..Len(tx') : tx'[j][1] = "NSORF" => tx'[j][2][2] <= task.todo[i][2]
      BY <3>2, <3>3 DEF Among
    <3> QED BY <3>5, <3>6
  <2>9. RowInv'
    BY <1>1, <2>7, <2>8 DEF SaraInv, RowInv, Step
  <2> QED BY <1>1, <1>2, <2>9 DEF SaraInv
<1> QED BY <1>3, <1>4, <1>5

\* What the steps of a function never change.
Kept(t) == t.op = task.op /\ t.arg = task.arg /\ t.clean = task.clean

\* The updates the steps make.
LEMMA Updates ==
  ASSUME task \in TaskType, NEW q, NEW t, t = [task EXCEPT !.todo = q]
  PROVE  /\ Kept(t)
         /\ \A v : /\ Kept([t EXCEPT !.val = v]) /\ Kept([t EXCEPT !.ok = v])
                   /\ Kept([t EXCEPT !.dgm = v]) /\ Kept([t EXCEPT !.rb = v])
                   /\ Kept([t EXCEPT !.resp = v]) /\ Kept([t EXCEPT !.bytes = v])
         /\ \A v, w : /\ Kept([t EXCEPT !.rb = v, !.data = w]) /\ Kept([t EXCEPT !.ok = v, !.bytes = w])
                      /\ Kept([t EXCEPT !.ok = v, !.val = w]) /\ Kept([t EXCEPT !.val = v, !.data = w])
                      /\ Kept([[t EXCEPT !.val = v] EXCEPT !.data = w])
         /\ \A u, v, w : Kept([[t EXCEPT !.dgm = u, !.bytes = v] EXCEPT !.data = w])
<1>1. Kept(t)
  BY DEF Kept, TaskType
<1>2. ASSUME NEW v
      PROVE  /\ Kept([t EXCEPT !.val = v]) /\ Kept([t EXCEPT !.ok = v])
             /\ Kept([t EXCEPT !.dgm = v]) /\ Kept([t EXCEPT !.rb = v])
             /\ Kept([t EXCEPT !.resp = v]) /\ Kept([t EXCEPT !.bytes = v])
  BY DEF Kept, TaskType
<1>3. ASSUME NEW v, NEW w
      PROVE  /\ Kept([t EXCEPT !.rb = v, !.data = w]) /\ Kept([t EXCEPT !.ok = v, !.bytes = w])
             /\ Kept([t EXCEPT !.ok = v, !.val = w]) /\ Kept([t EXCEPT !.val = v, !.data = w])
             /\ Kept([[t EXCEPT !.val = v] EXCEPT !.data = w])
  BY DEF Kept, TaskType
<1>4. ASSUME NEW u, NEW v, NEW w
      PROVE  Kept([[t EXCEPT !.dgm = u, !.bytes = v] EXCEPT !.data = w])
  BY DEF Kept, TaskType
<1> QED BY <1>1, <1>2, <1>3, <1>4

\* A function stays the function it is, and what it gave up on stays lost.
Same == driver' = driver /\ task'.op = task.op /\ task'.arg = task.arg /\ (task'.clean => task.clean)

\* In the AT dialogue.
LEMMA DialogueSame ==
  ASSUME DriverInv, sendCommand \/ ReadStep \/ skipStep(Guarded), UNCHANGED drvVars
  PROVE  Same
<1>1. driver' = driver
  BY DEF drvVars
<1>2. CASE sendCommand
  BY <1>1, <1>2, SendDoes DEF Same, Counters
<1>3. CASE skipStep(Guarded)
  BY <1>1, <1>3, SkipDoes DEF Same, Counters
<1>4. CASE readTimeout
  BY <1>1, <1>4, TimeoutDoes DEF Same, Counters
<1>5. CASE readOk \/ readAny \/ readConfirm \/ readExact \/ readCopy \/ readIgnore \/ readUntil
  BY <1>1, <1>5, ReadDoes DEF Same, Counters
<1> QED BY <1>2, <1>3, <1>4, <1>5 DEF ReadStep

\* Between the AT commands.
LEMMA StepSame ==
  ASSUME DriverInv, callStep \/ responseStep \/ branchStep \/ forceStep \/ imsiStep
                    \/ filterStep \/ openStep \/ qiopenStep \/ bgOpenStep \/ closeStep
  PROVE  Same
<1>0. task \in TaskType /\ task.clean \in BOOLEAN
  BY TaskFields DEF DriverInv, TaskInv
<1>1. driver' = driver
  BY DEF callStep, responseStep, branchStep, forceStep, imsiStep, filterStep, openStep, qiopenStep,
         bgOpenStep, closeStep, Internal, drvVars
<1>2. SUFFICES ASSUME TRUE PROVE \E t : task' = t /\ Kept(t)
  BY <1>1 DEF Same, Kept
<1>3. Kept(task)
  BY DEF Kept
<1>4. CASE callStep
  <2> DEFINE p == isModemOn
             q == checkQRegSwt
  <2>1. Step[2] \in {"isModemOn", "checkQRegSwt"}
    BY <1>4, InFunction, StepIs DEF callStep, Ready, At
  <2>2. \/ task' = [GoTo(p) EXCEPT !.val = 0]
        \/ task' = [GoTo(q) EXCEPT !.val = 0]
    BY <1>4, <2>1 DEF callStep
  <2> HIDE DEF p, q
  <2> QED BY <1>0, <2>2, Updates DEF GoTo
<1>5. CASE responseStep
  <2>1. \/ \E v : task' = [Go EXCEPT !.val = v]
        \/ \E v : task' = [Go EXCEPT !.ok = v]
    BY <1>5 DEF responseStep
  <2> QED BY <1>0, <2>1, Updates DEF Go
<1>6. CASE branchStep
  <2> DEFINE s == <<Send("CFUN", Step[2]), ReplyOk, <<"assign", Step[2]>>, Flush>>
             f == switchModem(0) \o <<Do("requireOff")>>
             u == setQRegSwt2
             v == (task.val = 1)
             w == (task.val = 0)
  <2>1. \/ task' = [Go EXCEPT !.ok = v] \/ task' = [Go EXCEPT !.ok = w]
        \/ task' = [Go EXCEPT !.ok = TRUE] \/ task' = [Go EXCEPT !.ok = FALSE]
        \/ task' = [Go EXCEPT !.val = Step[2]]
        \/ task' = [GoTo(u) EXCEPT !.ok = TRUE]
        \/ task' = [GoTo(f) EXCEPT !.ok = TRUE]
        \/ task' = [GoTo(s) EXCEPT !.ok = TRUE]
    BY <1>6 DEF branchStep
  <2> HIDE DEF s, f, u, v, w
  <2> QED BY <1>0, <2>1, Updates DEF Go, GoTo
<1>7. CASE forceStep
  <2> DEFINE b == task.ok /\ wired.tx
  <2>1. task' = [Go EXCEPT !.ok = b]
    BY <1>7, <1>0 DEF forceStep, Go, TaskType
  <2> HIDE DEF b
  <2> QED BY <1>0, <2>1, Updates DEF Go
<1>8. CASE imsiStep \/ filterStep \/ bgOpenStep \/ closeStep
  <2>1. task' = Go
    BY <1>8 DEF imsiStep, filterStep, bgOpenStep, closeStep
  <2> QED BY <1>0, <2>1, Updates DEF Go
<1>9. CASE openStep
  <2>1. \E v : task' = [Go EXCEPT !.ok = v]
    BY <1>9 DEF openStep
  <2> QED BY <1>0, <2>1, Updates DEF Go
<1>10. CASE qiopenStep
  <2>1. task' = task \/ task' = [Go EXCEPT !.resp = Head(rx)]
    BY <1>10 DEF qiopenStep
  <2> QED BY <1>0, <1>3, <2>1, Updates DEF Go
<1> QED BY <1>4, <1>5, <1>6, <1>7, <1>8, <1>9, <1>10

\* In the loops of read().
LEMMA LoopSame ==
  ASSUME DriverInv, ReadLoop \/ timeUp
  PROVE  Same
<1>0. task \in TaskType /\ task.clean \in BOOLEAN
  BY TaskFields DEF DriverInv, TaskInv
<1>1. driver' = driver
  BY DEF ReadLoop, timeUp, ipReadStep, rowStep, rawStep, tookStep, sumStep, moreBytes, bcLook,
         bcRest, saraLook, saraRest, toolsLook, toolsRest, bgStart, bgLook, bgRest, Net, TakeBC95,
         Internal, drvVars
<1>2. SUFFICES ASSUME TRUE PROVE \E t : task' = t /\ Kept(t)
  BY <1>1 DEF Same, Kept
<1>3. CASE timeUp \/ moreBytes
  <2>1. \/ \E p : task' = GoTo(p)
        \/ \E p, d : task' = [GoTo(p) EXCEPT !.dgm = d]
    <3>1. CASE timeUp
      BY <3>1, Zenon DEF timeUp
    <3>2. CASE moreBytes
      BY <3>2, Zenon DEF moreBytes
    <3> QED BY <1>3, <3>1, <3>2
  <2> QED BY <1>0, <2>1, Updates DEF GoTo
<1>4. CASE ipReadStep
  <2>1. \E p, d : task' = [GoTo(p) EXCEPT !.rb = d]
    BY <1>4, Zenon DEF ipReadStep
  <2> QED BY <1>0, <2>1, Updates DEF GoTo
<1>5. CASE rowStep
  <2>1. \E v, w : task' = [Go EXCEPT !.rb = v, !.data = w]
    BY <1>5, Zenon DEF rowStep, Net
  <2> QED BY <1>0, <2>1, Updates DEF Go
<1>6. CASE rawStep
  <2>1. task' = Go \/ \E p, d : task' = [GoTo(p) EXCEPT !.rb = d]
    BY <1>6, Zenon DEF rawStep, Net
  <2> QED BY <1>0, <2>1, Updates DEF Go, GoTo
<1>7. CASE tookStep \/ sumStep
  <2>1. \E v, w : task' = [Go EXCEPT !.ok = v, !.bytes = w] \/ task' = [Go EXCEPT !.ok = v, !.val = w]
    <3>1. CASE tookStep
      BY <3>1, Zenon DEF tookStep
    <3>2. CASE sumStep
      BY <3>2, Zenon DEF sumStep
    <3> QED BY <1>7, <3>1, <3>2
  <2> QED BY <1>0, <2>1, Updates DEF Go
<1>8. CASE bcLook
  <2>1. \/ \E p, d : task' = [GoTo(p) EXCEPT !.dgm = d]
        \/ \E p, u, v, w : task' = [[GoTo(p) EXCEPT !.dgm = u, !.bytes = v] EXCEPT !.data = w]
    <3> DEFINE d == ipAvailable
               p == <<IF d = 0 THEN <<"bcLoop", FALSE>> ELSE Do("bcRest")>>
               q == <<<<"bcLoop", FALSE>>>>
               t == [GoTo(q) EXCEPT !.dgm = 0, !.bytes = @ + d]
    <3>1. \/ task' = [GoTo(p) EXCEPT !.dgm = d] \/ TakeBC95(t, d)
      BY <1>8, Zenon DEF bcLook
    <3>2. TakeBC95(t, d) => \E w : task' = [t EXCEPT !.data = w]
      BY Zenon DEF TakeBC95, Net
    <3>3. CASE TakeBC95(t, d)
      <4>1. PICK w : task' = [t EXCEPT !.data = w]
        BY <3>2, <3>3
      <4> QED BY <4>1, Zenon
    <3> HIDE DEF d, p, q, t
    <3> QED BY <3>1, <3>3, Zenon
  <2> QED BY <1>0, <2>1, Updates DEF GoTo
<1>9. CASE bcRest
  <2>1. \/ \E v : task' = [Go EXCEPT !.val = v]
        \/ \E v, w : task' = [[Go EXCEPT !.val = v] EXCEPT !.data = w]
    BY <1>9, Zenon DEF bcRest, TakeBC95, Net
  <2> QED BY <1>0, <2>1, Updates DEF Go
<1>10. CASE saraLook \/ saraRest \/ toolsLook \/ toolsRest
  <2>1. \/ \E p : task' = GoTo(p)
        \/ \E p, d : task' = [GoTo(p) EXCEPT !.dgm = d]
        \/ \E v : task' = [Go EXCEPT !.val = v]
    <3>1. CASE saraLook
      BY <3>1, Zenon DEF saraLook
    <3>2. CASE saraRest
      BY <3>2, Zenon DEF saraRest
    <3>3. CASE toolsLook
      BY <3>3, Zenon DEF toolsLook
    <3>4. CASE toolsRest
      BY <3>4, Zenon DEF toolsRest
    <3> QED BY <1>10, <3>1, <3>2, <3>3, <3>4
  <2> QED BY <1>0, <2>1, Updates DEF Go, GoTo
<1>11. CASE bgStart \/ bgLook \/ bgRest
  <2>1. \/ \E p : task' = GoTo(p)
        \/ \E p, d : task' = [GoTo(p) EXCEPT !.bytes = d]
        \/ \E v : task' = [Go EXCEPT !.val = v]
        \/ \E v, w : task' = [Go EXCEPT !.val = v, !.data = w]
    <3>1. CASE bgStart
      BY <3>1, Zenon DEF bgStart
    <3>2. CASE bgLook
      BY <3>2, Zenon DEF bgLook
    <3>3. CASE bgRest
      BY <3>3, Zenon DEF bgRest, Net
    <3> QED BY <1>11, <3>1, <3>2, <3>3
  <2> QED BY <1>0, <2>1, Updates DEF Go, GoTo
<1> QED BY <1>3, <1>4, <1>5, <1>6, <1>7, <1>8, <1>9, <1>10, <1>11 DEF ReadLoop

\* A handler takes its line and leaves the function alone.
LEMMA HandlerDoes ==
  ASSUME DriverInv, HandleUrc
  PROVE  /\ rx # <<>> /\ Filtered(Head(rx)) /\ rx' = Tail(rx)
         /\ UNCHANGED <<tx, task, driver, modem, filters>>
         /\ Same /\ Head(rx).tag \in Urcs \cup {"+NSONMI:", "+QIURC:"}
         /\ net'.number = net.number
<1>1. \E g \in Urcs \cup {"+NSONMI:", "+QIURC:"} : Handles(g)
  BY DEF HandleUrc, parseFilterResultBC95, parseFilterResultSara, parseFilterResultBG96,
         parseCeregUrc, parseNpsmrUrc, parseCsconUrc, Urcs
<1>2. net \in NetType
  BY DEF DriverInv, NetInv
<1>3. net' = net \/ \E k : net' = [net EXCEPT !.avail = k]
  BY DEF HandleUrc, parseFilterResultBC95, parseFilterResultSara, parseFilterResultBG96,
         parseCeregUrc, parseNpsmrUrc, parseCsconUrc
<1>4. net'.number = net.number
  BY <1>2, <1>3 DEF NetType
<1> QED BY <1>1, <1>4 DEF Handles, Same

\* read() of the SARA modems and of NbiotConnectivity takes a step.
LEMMA SaraStep ==
  ASSUME DriverInv, SaraInv, driver \in {"B656", "B657", "tools"}, DriverStep, task'.op # "none",
         task'.clean
  PROVE  SaraInv'
<1>1. CASE AtStep
  <2>1. driver' = driver
    BY <1>1 DEF AtStep, drvVars
  <2>2. ~End
    <3>1. NoTask.op = "none"
      BY DEF NoTask
    <3> QED BY <3>1 DEF End
  <2> QED BY <1>1, <2>1, <2>2, SaraSend, SaraReads DEF AtStep
<1>2. task.todo # <<>> => Step[1] \in SaraKinds
  BY LeftShape DEF SaraInv, SaraShape
<1>3. ~(callStep \/ responseStep \/ branchStep \/ forceStep \/ imsiStep \/ filterStep \/ openStep
        \/ qiopenStep \/ bgOpenStep \/ closeStep)
  BY <1>2 DEF callStep, responseStep, branchStep, forceStep, imsiStep, filterStep, openStep,
              qiopenStep, bgOpenStep, closeStep, Ready, Sees, At, SaraKinds, Asks, Takes, Loops
<1>4. CASE HandleUrc
  <2>1. rx # <<>> /\ rx' = Tail(rx) /\ UNCHANGED <<tx, task, driver>> /\ rx \in Seq(Lines)
    BY <1>4, HandlerDoes DEF DriverInv, WireInv
  <2> QED BY <2>1, AmongThem, SaraWaits
<1>5. CASE ReadLoop \/ timeUp
  <2>1. ~(rawStep \/ bcLook \/ bcRest \/ bgStart \/ bgLook \/ bgRest)
    BY <1>2 DEF rawStep, bcLook, bcRest, bgStart, bgLook, bgRest, Ready, At, SaraKinds, Asks,
                Takes, Loops
  <2> QED BY <1>5, <2>1, SaraIpRead, SaraRow, SaraTakes, SaraLoops DEF ReadLoop
<1> QED BY <1>1, <1>3, <1>4, <1>5 DEF DriverStep

\* read() starts with an empty line and no bytes.
LEMMA ReadStarts ==
  ASSUME DriverInv, readHost
  PROVE  /\ task'.op = "read" /\ task'.arg \in Nat /\ task'.todo = read(task'.arg) /\ driver' = driver
         /\ task'.val = -1 /\ task'.bytes = 0 /\ task'.data = 0 /\ task'.rb = 0
         /\ task'.clean => rx' = <<>> /\ tx' = <<>>
<1> DEFINE m == -1
           b == (rx = <<>> /\ tx = <<>>)
<1>1. PICK n \in Lens : Called("read", n, read(n), m)
  BY DEF readHost
<1> DEFINE p == read(n)
<1>2. /\ task' = [NoTask EXCEPT !.op = "read", !.arg = n, !.todo = p, !.val = m, !.clean = b]
      /\ rx' = rx /\ tx' = tx /\ driver' = driver
  BY <1>1 DEF Called, Begin, drvVars
<1>3. n \in Nat
  BY <1>1, DriverAssumption
<1>4. b => rx = <<>> /\ tx = <<>>
  OBVIOUS
<1> HIDE DEF m, b, p
<1>5. /\ task'.op = "read" /\ task'.arg = n /\ task'.todo = p /\ task'.val = m /\ task'.bytes = 0
      /\ task'.data = 0 /\ task'.rb = 0
  BY <1>2 DEF NoTask
<1>6. task'.clean = b
  BY <1>2 DEF NoTask
<1> QED BY <1>2, <1>3, <1>4, <1>5, <1>6 DEF m, p

\* read() of the SARA modems and of NbiotConnectivity is called.
LEMMA SaraStarts ==
  ASSUME DriverInv, readHost, driver \in {"B656", "B657", "tools"}, task'.clean
  PROVE  SaraInv'
<1> DEFINE m == -1
           n == task'.arg
           p == task'.todo
<1>1. /\ n \in Nat /\ p = read(n) /\ driver' = driver /\ task'.val = m /\ task'.bytes = 0
      /\ task'.data = 0 /\ task'.rb = 0 /\ rx' = <<>> /\ tx' = <<>>
  BY ReadStarts
<1>2. m <= 0 /\ m \in Int
  OBVIOUS
<1> HIDE DEF m, n
<1>3. \/ driver # "tools" /\ p = <<Ip(n), Do("took"), Do("saraLoop")>>
      \/ driver = "tools" /\ p = <<Do("toolsLoop")>>
  BY <1>1 DEF read, Pick, readB656, readB657, readSara, readTools
<1> HIDE DEF p
<1>4. Round(p)
  <2>1. "saraLoop" \in Loops /\ "toolsLoop" \in Loops /\ n \in Int
    BY <1>1 DEF Loops
  <2> QED BY <1>3, <2>1, Rounds
<1>5. Bounded(p, task', driver')
  <2>1. CASE driver # "tools" /\ p = <<Ip(n), Do("took"), Do("saraLoop")>>
    <3> DEFINE r == Ip(n)
               s == Do("took")
               t == Do("saraLoop")
    <3>1. r[1] = "ipRead" /\ r[2] = n /\ s[1] = "took" /\ t[1] = "saraLoop"
      BY KindOf
    <3>2. p = <<r, s, t>>
      BY <2>1
    <3> HIDE DEF r, s, t
    <3>3. Len(p) = 3 /\ p[1] = r /\ p[2] = s /\ p[3] = t
      BY <3>2
    <3>4. \A i \in 1..Len(p) : i \in {1, 2, 3}
      BY <3>3
    <3>5. Within(task'.bytes + n, task', driver')
      BY <1>1 DEF Within, n
    <3> QED BY <3>1, <3>3, <3>4, <3>5 DEF Bounded, ToolsLoops
  <2>2. CASE driver = "tools" /\ p = <<Do("toolsLoop")>>
    BY <1>1, <2>2 DEF Bounded, Within, Do
  <2> QED BY <1>3, <2>1, <2>2
<1>6. Silent'
  BY <1>1 DEF Silent
<1>7. Head(p) = p[1] /\ p # <<>>
  BY <1>4 DEF Round
<1>8. RowInv'
  <2>1. Asked(p, tx', rx')
    BY <1>4 DEF Asked, Round
  <2>2. p[1][1] \notin {"confirm", "row"}
    BY <1>4 DEF Round
  <2> QED BY <1>6, <1>7, <2>1, <2>2 DEF RowInv, Step, p
<1>9. BytesInv'
  <2>1. Owes(p) => p[1][1] = "ipRead"
    BY <1>4 DEF Round
  <2>2. task'.bytes <= task'.data /\ task'.val <= task'.data
    BY <1>1, <1>2
  <2>3. Within(task'.bytes, task', driver') /\ Within(task'.val, task', driver')
    BY <1>1, <1>2 DEF Within, n
  <2> QED BY <1>5, <1>7, <2>1, <2>2, <2>3 DEF BytesInv, Step, p
<1> QED BY <1>4, <1>8, <1>9 DEF SaraInv, Round, p

\* BG96: no step but the last one of read() counts bytes.
BgKept == task'.val = task.val /\ task'.data = task.data /\ task'.arg = task.arg

\* Steps of read() before the rest.
LEMMA BgGoes ==
  ASSUME DriverInv, BgInv, task.todo # <<>>, BgKept, NEW p \in Seq(Steps), OfKinds(p, BgKinds),
         task'.todo = p \o Rest
  PROVE  BgInv'
<1>1. Rest \in Seq(Steps) /\ OfKinds(Rest, BgKinds)
  BY Left, LeftShape DEF BgInv
<1>2. /\ Len(p \o Rest) = Len(p) + Len(Rest)
      /\ \A i \in 1..Len(p) + Len(Rest) : (p \o Rest)[i] = IF i <= Len(p) THEN p[i] ELSE Rest[i - Len(p)]
  BY <1>1, ConcatProperties, Zenon
<1>3. Len(p) \in Nat /\ Len(Rest) \in Nat
  BY <1>1
<1> DEFINE w == p \o Rest
<1>4. \A i \in 1..Len(w) : \/ i \in 1..Len(p) /\ w[i] = p[i]
                           \/ i - Len(p) \in 1..Len(Rest) /\ w[i] = Rest[i - Len(p)]
  BY <1>2, <1>3
<1> HIDE DEF w
<1>5. OfKinds(w, BgKinds)
  BY <1>1, <1>4 DEF OfKinds
<1>6. task'.val <= task'.data /\ task'.val <= task'.arg /\ 0 <= task'.data
  BY DEF BgInv, BgKept
<1> QED BY <1>5, <1>6 DEF BgInv, w

\* A step of read() is over.
LEMMA BgPasses ==
  ASSUME DriverInv, BgInv, task.todo # <<>>, BgKept, task'.todo = Rest
  PROVE  BgInv'
<1>1. OfKinds(Rest, BgKinds)
  BY LeftShape DEF BgInv
<1> QED BY <1>1 DEF BgInv, BgKept

\* BG96's read() on the line.
LEMMA BgDialogue ==
  ASSUME DriverInv, BgInv, sendCommand \/ ReadStep \/ skipStep(Guarded)
  PROVE  BgInv'
<1>0. task.todo # <<>> => Step[1] \in BgKinds
  BY LeftShape DEF BgInv
<1>1. CASE sendCommand
  BY <1>1, SendDoes, BgPasses DEF Ready, At, Counters, BgKept
<1>2. CASE skipStep(Guarded)
  BY <1>2, SkipDoes, BgPasses DEF Counters, BgKept
<1>3. CASE readTimeout
  BY <1>3, TimeoutDoes, BgPasses DEF Counters, BgKept
<1>4. ~(readAny \/ readConfirm \/ readExact \/ readCopy)
  BY <1>0, ReadDoes DEF BgKinds
<1>5. CASE readOk \/ readIgnore \/ readUntil
  <2>1. /\ task.todo # <<>> /\ Counters
        /\ task' = task \/ task'.todo = Rest
    BY <1>5, ReadDoes
  <2>2. CASE task' = task
    BY <2>2 DEF BgInv
  <2>3. CASE task'.todo = Rest
    BY <2>1, <2>3, BgPasses DEF Counters, BgKept
  <2> QED BY <2>1, <2>2, <2>3
<1> QED BY <1>1, <1>2, <1>3, <1>4, <1>5 DEF ReadStep

\* What BG96's read() goes on with.
LEMMA BgRounds ==
  /\ <<>> \in Seq(Steps) /\ OfKinds(<<>>, BgKinds)
  /\ <<ReplyOk>> \in Seq(Steps) /\ OfKinds(<<ReplyOk>>, BgKinds)
  /\ \A k \in {"bgLoop", "bgRest"} : <<Do(k)>> \in Seq(Steps) /\ OfKinds(<<Do(k)>>, BgKinds)
  /\ <<Flush, Do("bgLook")>> \in Seq(Steps) /\ OfKinds(<<Flush, Do("bgLook")>>, BgKinds)
  /\ \A n \in Int : LET p == <<Ip(n), Do("bgTook")>> IN p \in Seq(Steps) /\ OfKinds(p, BgKinds)
  /\ \A n \in Int : LET p == <<Ip(n), Do("bgTook"), Do("bgLoop")>>
                    IN  p \in Seq(Steps) /\ OfKinds(p, BgKinds)
  /\ \A n \in Int : net.number \in Int => ipReadBG96(n) \in Seq(Steps) /\ OfKinds(ipReadBG96(n), BgKinds)
<1> DEFINE Good == {s \in Steps : s[1] \in BgKinds}
<1>1. \A s \in Seq(Good) : s \in Seq(Steps) /\ OfKinds(s, BgKinds)
  <2>1. Good \subseteq Steps
    OBVIOUS
  <2>2. ASSUME NEW s \in Seq(Good) PROVE s \in Seq(Steps) /\ \A i \in 1..Len(s) : s[i][1] \in BgKinds
    <3>1. \A i \in 1..Len(s) : s[i] \in Good
      BY <2>2
    <3>2. s \in Seq(Steps)
      BY <2>1, <2>2
    <3> QED BY <3>1, <3>2
  <2> QED BY <2>2 DEF OfKinds
<1>2. /\ ReplyOk \in Good /\ Flush \in Good /\ \A n \in Int : Ip(n) \in Good
      /\ \A k \in {"bgLoop", "bgRest", "bgTook", "bgLook", "raw"} : Do(k) \in Good
  BY StepsAre, KindOf DEF Simple, BgKinds
<1>3. ASSUME net.number \in Int, NEW n \in Int
      PROVE Send("QIRD", <<net.number, n>>) \in Good /\ ReadUntil("+QIRD:") \in Good
  <2> DEFINE a == <<net.number, n>>
             s == Send("QIRD", a)
             u == ReadUntil("+QIRD:")
  <2>1. s \in Steps
    BY <1>3, StepsAre
  <2>2. u \in Steps
    BY StepsAre DEF Tags
  <2>3. s[1] = "send" /\ u[1] = "until"
    BY KindOf
  <2> HIDE DEF s, u
  <2>4. s \in Good /\ u \in Good
    BY <2>1, <2>2, <2>3 DEF BgKinds
  <2> QED BY <2>4 DEF s, u
<1> HIDE DEF Good
<1>4. <<>> \in Seq(Good) /\ <<ReplyOk>> \in Seq(Good)
  BY <1>2
<1>5. \A k \in {"bgLoop", "bgRest"} : <<Do(k)>> \in Seq(Good)
  BY <1>2
<1>6. <<Flush, Do("bgLook")>> \in Seq(Good)
  BY <1>2
<1>7. \A n \in Int : <<Ip(n), Do("bgTook")>> \in Seq(Good) /\ <<Ip(n), Do("bgTook"), Do("bgLoop")>> \in Seq(Good)
  BY <1>2
<1>8. ASSUME net.number \in Int, NEW n \in Int
      PROVE  ipReadBG96(n) \in Seq(Good)
  <2> DEFINE a == Send("QIRD", <<net.number, n>>)
             b == ReadUntil("+QIRD:")
             c == Do("raw")
  <2>1. a \in Good /\ b \in Good /\ c \in Good /\ Flush \in Good
    BY <1>2, <1>3, <1>8
  <2> HIDE DEF a, b, c
  <2>2. <<a, b, c, Flush>> \in Seq(Good)
    BY <2>1
  <2> QED BY <2>2 DEF a, b, c, ipReadBG96
<1> QED BY <1>1, <1>4, <1>5, <1>6, <1>7, <1>8

\* The loop of BG96's read().
LEMMA BgLoops ==
  ASSUME DriverInv, BgInv, driver = "BG96", ReadLoop \/ timeUp
  PROVE  BgInv'
<1>1. task.todo # <<>>
  BY DEF ReadLoop, timeUp, ipReadStep, rowStep, rawStep, tookStep, sumStep, moreBytes, bcLook,
         bcRest, saraLook, saraRest, toolsLook, toolsRest, bgStart, bgLook, bgRest, Ready, At
<1>2. Step[1] \in BgKinds
  BY <1>1, LeftShape DEF BgInv
<1>3. Moved(Go, Rest) /\ \A p \in Seq(Steps) : Moved(GoTo(p), p \o Rest)
  BY <1>1, GoMoves
<1>4. /\ net.number \in Int /\ task.arg \in Nat /\ task.bytes \in Int /\ Step \in Steps
      /\ task \in TaskType /\ ring \in 0..BufSize
  BY <1>1, InFunction, TaskFields, NetFields
<1>5. ASSUME NEW p \in Seq(Steps), OfKinds(p, BgKinds),
             \/ task' = GoTo(p)
             \/ \E v : task' = [GoTo(p) EXCEPT !.bytes = v]
             \/ \E v : task' = [GoTo(p) EXCEPT !.rb = v]
      PROVE  BgInv'
  <2>1. Moved(GoTo(p), p \o Rest)
    BY <1>3
  <2>2. BgKept /\ task'.todo = p \o Rest
    BY <1>5, <2>1 DEF Moved, TaskType, BgKept
  <2> QED BY <1>1, <1>5, <2>2, BgGoes
<1>6. CASE moreBytes
  <2>1. task' = GoTo(<<Flush, Do("bgLook")>>)
    BY <1>2, <1>6 DEF moreBytes, At, BgKinds
  <2> QED BY <1>5, <2>1, BgRounds
<1>7. CASE timeUp
  <2>1. task' = GoTo(<<Do("bgRest")>>)
    BY <1>2, <1>7 DEF timeUp, At, BgKinds
  <2> QED BY <1>5, <2>1, BgRounds
<1>8. CASE ipReadStep
  <2>1. Step[2] \in Int
    BY <1>4, <1>8, StepIs DEF ipReadStep, At
  <2> DEFINE p == ipReadBG96(Step[2])
  <2>2. p \in Seq(Steps) /\ OfKinds(p, BgKinds)
    BY <1>4, <2>1, BgRounds
  <2>3. \E v : task' = [GoTo(p) EXCEPT !.rb = v]
    BY <1>8 DEF ipReadStep, Pick
  <2> HIDE DEF p
  <2> QED BY <1>5, <2>2, <2>3
<1>9. CASE rawStep
  <2>1. \/ \E v : task' = [GoTo(<<ReplyOk>>) EXCEPT !.rb = v]
        \/ task' = Go
    BY <1>9, Zenon DEF rawStep, Net
  <2>2. CASE task' = Go
    BY <1>1, <1>3, <2>2, BgPasses DEF Moved, BgKept
  <2> QED BY <1>5, <2>1, <2>2, BgRounds
<1>10. CASE tookStep
  <2>1. \E v, w : task' = [Go EXCEPT !.ok = v, !.bytes = w]
    BY <1>10, Zenon DEF tookStep
  <2>2. PICK v, w : task' = [Go EXCEPT !.ok = v, !.bytes = w]
    BY <2>1
  <2>3. BgKept /\ task'.todo = Rest
    BY <1>3, <2>2 DEF Moved, TaskType, BgKept
  <2> QED BY <1>1, <2>3, BgPasses
<1>11. CASE bgStart
  <2>1. \/ \E v : task' = [GoTo(<<Ip(task.arg), Do("bgTook")>>) EXCEPT !.bytes = v]
        \/ \E v : task' = [GoTo(<<>>) EXCEPT !.bytes = v]
    BY <1>11, Zenon DEF bgStart
  <2>2. task.arg \in Int
    BY <1>4
  <2>3. CASE \E v : task' = [GoTo(<<Ip(task.arg), Do("bgTook")>>) EXCEPT !.bytes = v]
    <3> DEFINE p == <<Ip(task.arg), Do("bgTook")>>
    <3>1. p \in Seq(Steps) /\ OfKinds(p, BgKinds)
      BY <2>2, BgRounds
    <3> HIDE DEF p
    <3> QED BY <1>5, <2>3, <3>1 DEF p
  <2>4. CASE \E v : task' = [GoTo(<<>>) EXCEPT !.bytes = v]
    BY <1>5, <2>4, BgRounds
  <2> QED BY <2>1, <2>3, <2>4
<1>12. CASE bgLook
  <2> DEFINE n == task.arg - task.bytes
             p == <<Ip(n), Do("bgTook"), Do("bgLoop")>>
  <2>1. \/ task' = GoTo(<<Do("bgLoop")>>)
        \/ task' = GoTo(p)
    BY <1>12 DEF bgLook
  <2>2. n \in Int
    BY <1>4
  <2> HIDE DEF n
  <2>3. p \in Seq(Steps) /\ OfKinds(p, BgKinds)
    BY <2>2, BgRounds
  <2> HIDE DEF p
  <2>4. CASE task' = GoTo(<<Do("bgLoop")>>)
    BY <1>5, <2>4, BgRounds
  <2> QED BY <1>5, <2>1, <2>3, <2>4
<1>13. CASE bgRest
  <2> DEFINE m == -1
             k == Lesser(ring, task.arg)
  <2>1. OfKinds(Rest, BgKinds)
    BY <1>1, LeftShape DEF BgInv
  <2>2. k \in Nat /\ k <= task.arg /\ m \in Int /\ m < 0
    BY <1>4, DriverAssumption DEF Lesser
  <2>3. \/ task' = [Go EXCEPT !.val = k, !.data = k]
        \/ task' = [Go EXCEPT !.val = m]
    BY <1>13, Zenon DEF bgRest, Net
  <2> HIDE DEF k, m
  <2>4. CASE task' = [Go EXCEPT !.val = k, !.data = k]
    <3>1. task'.todo = Rest /\ task'.val = k /\ task'.data = k /\ task'.arg = task.arg
      BY <1>3, <2>4 DEF Moved, TaskType
    <3> QED BY <2>1, <2>2, <3>1 DEF BgInv
  <2>5. CASE task' = [Go EXCEPT !.val = m]
    <3>1. task'.todo = Rest /\ task'.val = m /\ task'.data = task.data /\ task'.arg = task.arg
      BY <1>3, <2>5 DEF Moved, TaskType
    <3>2. task.data \in Int /\ task.arg \in Nat /\ 0 <= task.data
      BY <1>4, TaskFields DEF BgInv
    <3>3. m <= task.data /\ m <= task.arg
      BY <2>2, <3>2
    <3> QED BY <2>1, <3>1, <3>2, <3>3 DEF BgInv
  <2> QED BY <2>3, <2>4, <2>5
<1>14. ~(rowStep \/ sumStep \/ bcLook \/ bcRest \/ saraLook \/ saraRest \/ toolsLook \/ toolsRest)
  BY <1>2 DEF rowStep, sumStep, bcLook, bcRest, saraLook, saraRest, toolsLook, toolsRest, Ready, At,
              BgKinds
<1> QED BY <1>6, <1>7, <1>8, <1>9, <1>10, <1>11, <1>12, <1>13, <1>14 DEF ReadLoop

\* read() of BG96 takes a step.
LEMMA BgStep ==
  ASSUME DriverInv, BgInv, driver = "BG96", DriverStep, task'.op # "none"
  PROVE  BgInv'
<1>1. CASE AtStep
  <2>1. ~End
    <3>1. NoTask.op = "none"
      BY DEF NoTask
    <3> QED BY <3>1 DEF End
  <2> QED BY <1>1, <2>1, BgDialogue DEF AtStep
<1>2. task.todo # <<>> => Step[1] \in BgKinds
  BY LeftShape DEF BgInv
<1>3. ~(callStep \/ responseStep \/ branchStep \/ forceStep \/ imsiStep \/ filterStep \/ openStep
        \/ qiopenStep \/ bgOpenStep \/ closeStep)
  BY <1>2 DEF callStep, responseStep, branchStep, forceStep, imsiStep, filterStep, openStep,
              qiopenStep, bgOpenStep, closeStep, Ready, Sees, At, BgKinds
<1>4. CASE HandleUrc
  <2>1. task' = task
    BY <1>4, HandlerDoes
  <2> QED BY <2>1 DEF BgInv
<1> QED BY <1>1, <1>3, <1>4, BgLoops DEF DriverStep

\* BC95: what its read() goes on with.
LEMMA BcRounds ==
  ASSUME NEW p, \/ \E s : s[1] \in BcEnds /\ p = <<s>>
                \/ \E s : s[1] \in BcEnds /\ p = <<Flush, s>>
  PROVE  OfKinds(p, BcEnds \cup {"flush"}) /\ Closes(p, BcEnds) /\ p # <<>>
<1>0. Flush[1] = "flush" /\ "flush" \notin BcEnds
  BY DEF Flush, BcEnds
<1>1. CASE \E s : s[1] \in BcEnds /\ p = <<s>>
  <2>1. PICK s : s[1] \in BcEnds /\ p = <<s>>
    BY <1>1
  <2>2. Len(p) = 1 /\ p[1] = s /\ p # <<>>
    BY <2>1
  <2>3. \A i \in 1..1 : i = 1
    OBVIOUS
  <2> QED BY <2>1, <2>2, <2>3 DEF OfKinds, Closes
<1>2. CASE \E s : s[1] \in BcEnds /\ p = <<Flush, s>>
  <2>1. PICK s : s[1] \in BcEnds /\ p = <<Flush, s>>
    BY <1>2
  <2> DEFINE f == Flush
  <2>2. f[1] = "flush" /\ p = <<f, s>>
    BY <1>0, <2>1
  <2> HIDE DEF f
  <2>3. Len(p) = 2 /\ p[1] = f /\ p[2] = s /\ p # <<>>
    BY <2>2
  <2>4. \A i \in 1..2 : i = 1 \/ i = 2
    OBVIOUS
  <2> QED BY <1>0, <2>1, <2>2, <2>3, <2>4 DEF OfKinds, Closes
<1> QED BY <1>1, <1>2

\* Loop and last look of BC95's read() take what is in the ring.
LEMMA BcLoops ==
  ASSUME DriverInv, BcInv, driver = "BC95", ~ShortReads, ReadLoop \/ timeUp
  PROVE  BcInv'
<1>1. task.todo # <<>>
  BY DEF ReadLoop, timeUp, ipReadStep, rowStep, rawStep, tookStep, sumStep, moreBytes, bcLook,
         bcRest, saraLook, saraRest, toolsLook, toolsRest, bgStart, bgLook, bgRest, Ready, At
<1>2. Step[1] \in BcEnds \cup {"flush"}
  BY <1>1, LeftShape DEF BcInv
<1>3. Moved(Go, Rest) /\ \A p \in Seq(Steps) : Moved(GoTo(p), p \o Rest)
  BY <1>1, GoMoves
<1>4. /\ task.arg \in Nat /\ task.bytes \in Int /\ task.data \in Int /\ Step \in Steps
      /\ task \in TaskType /\ ring \in 0..BufSize /\ ring \in Int
      /\ task.data = task.bytes /\ task.bytes <= task.arg /\ task.dgm \in Int
  BY <1>1, InFunction, TaskFields, DriverAssumption DEF BcInv
<1>5. ipAvailable = net.avail /\ net.avail \in 0..ring /\ ipAvailable \in Nat
  BY Available DEF DriverInv, AvailInv
<1>6. CASE moreBytes \/ timeUp \/ bcLook \/ bcRest
  <2>1. Step[1] \in BcEnds
    BY <1>2, <1>6 DEF moreBytes, timeUp, bcLook, bcRest, At, BcEnds
  <2>2. Rest = <<>>
    BY <1>1, <2>1, LeftShape DEF BcInv
  <2>3. ASSUME NEW p \in Seq(Steps), OfKinds(p, BcEnds \cup {"flush"}), Closes(p, BcEnds), p # <<>>,
               task'.todo = p \o Rest, task'.data = task'.bytes, task'.bytes <= task'.arg
        PROVE  BcInv'
    <3>1. task'.todo = p
      BY <2>2, <2>3
    <3> QED BY <2>3, <3>1 DEF BcInv
  <2>4. ASSUME NEW p, \/ \E s \in Steps : s[1] \in BcEnds /\ p = <<s>>
                      \/ \E s \in Steps : s[1] \in BcEnds /\ p = <<Flush, s>>,
               NEW d, task' = [GoTo(p) EXCEPT !.dgm = d]
        PROVE  BcInv'
    <3>1. OfKinds(p, BcEnds \cup {"flush"}) /\ Closes(p, BcEnds) /\ p # <<>>
      BY <2>4, BcRounds
    <3>2. p \in Seq(Steps)
      <4>1. Flush \in Steps
        BY StepsAre
      <4>2. \A s \in Steps : <<s>> \in Seq(Steps) /\ <<Flush, s>> \in Seq(Steps)
        BY <4>1
      <4> QED BY <2>4, <4>2
    <3>3. Moved(GoTo(p), p \o Rest)
      BY <1>3, <3>2
    <3>4. task'.todo = p \o Rest /\ task'.data = task.data /\ task'.bytes = task.bytes
          /\ task'.arg = task.arg
      BY <2>4, <3>3 DEF Moved, TaskType
    <3> QED BY <1>4, <2>3, <3>1, <3>2, <3>4
  <2>5. /\ Do("bcLook") \in Steps /\ Do("bcLook")[1] \in BcEnds
        /\ Do("bcRest") \in Steps /\ Do("bcRest")[1] \in BcEnds
        /\ <<"bcLoop", FALSE>> \in Steps /\ <<"bcLoop", FALSE>>[1] \in BcEnds
    <3>1. \A k \in {"bcLook", "bcRest"} : Do(k) \in Steps /\ Do(k)[1] \in BcEnds
      BY StepsAre, KindOf DEF Simple, BcEnds
    <3>2. <<"bcLoop", FALSE>> \in Steps
      BY DEF Steps
    <3>3. <<"bcLoop", FALSE>>[1] \in BcEnds
      BY DEF BcEnds
    <3> QED BY <3>1, <3>2, <3>3
  <2>6. CASE moreBytes
    <3>1. \E d : task' = [GoTo(<<Flush, Do("bcLook")>>) EXCEPT !.dgm = d]
      BY <2>1, <2>6 DEF moreBytes, At, BcEnds
    <3> QED BY <2>4, <2>5, <3>1
  <2>7. CASE timeUp
    <3>1. \E d : task' = [GoTo(<<Do("bcRest")>>) EXCEPT !.dgm = d]
      BY <2>1, <2>7 DEF timeUp, At, BcEnds
    <3> QED BY <2>4, <2>5, <3>1
  <2>8. CASE bcLook
    <3> DEFINE d == ipAvailable
               r == <<"bcLoop", FALSE>>
               p == <<r>>
               k == task.data + Lesser(d, ring)
               b == task.bytes + d
    <3>1. \/ task' = [GoTo(p) EXCEPT !.dgm = d]
          \/ task' = [GoTo(<<Do("bcRest")>>) EXCEPT !.dgm = d]
          \/ /\ ~(task.arg <= d + task.bytes)
             /\ TakeBC95([GoTo(p) EXCEPT !.dgm = 0, !.bytes = @ + d], d)
      BY <2>8, Zenon DEF bcLook
    <3>2. CASE task' = [GoTo(p) EXCEPT !.dgm = d]
      BY <2>4, <2>5, <3>2
    <3>3. CASE task' = [GoTo(<<Do("bcRest")>>) EXCEPT !.dgm = d]
      BY <2>4, <2>5, <3>3
    <3>4. CASE /\ ~(task.arg <= d + task.bytes)
               /\ TakeBC95([GoTo(p) EXCEPT !.dgm = 0, !.bytes = @ + d], d)
      <4>0. r \in Steps /\ r[1] \in BcEnds
        BY <2>5
      <4> HIDE DEF r
      <4>1. p \in Seq(Steps) /\ OfKinds(p, BcEnds \cup {"flush"}) /\ Closes(p, BcEnds) /\ p # <<>>
        <5>1. p \in Seq(Steps)
          BY <4>0
        <5>2. \E s : s[1] \in BcEnds /\ p = <<s>>
          BY <4>0, Zenon
        <5> HIDE DEF p
        <5> QED BY <5>1, <5>2, BcRounds
      <4>2. Moved(GoTo(p), p \o Rest)
        BY <1>3, <4>1
      <4> HIDE DEF p
      <4> DEFINE t == [GoTo(p) EXCEPT !.dgm = 0, !.bytes = b]
      <4>3. t = [GoTo(p) EXCEPT !.dgm = 0, !.bytes = @ + d]
        BY <4>2 DEF Moved
      <4>4. t.data = task.data /\ t.bytes = b /\ t.todo = p \o Rest /\ t.arg = task.arg
        BY <4>2 DEF Moved, TaskType
      <4>5. task' = [t EXCEPT !.data = k]
        BY <3>4, <4>3, <4>4 DEF TakeBC95, Net
      <4>6. k = b /\ b <= task.arg
        BY <1>4, <1>5, <3>4 DEF Lesser
      <4> HIDE DEF d, k, b
      <4>7. task'.data = k /\ task'.bytes = b /\ task'.todo = p \o Rest /\ task'.arg = task.arg
        BY <4>2, <4>5 DEF Moved, TaskType
      <4> QED BY <2>3, <4>1, <4>6, <4>7
    <3> QED BY <3>1, <3>2, <3>3, <3>4
  <2>9. CASE bcRest
    <3>1. OfKinds(<<>>, BcEnds \cup {"flush"}) /\ Closes(<<>>, BcEnds)
      BY DEF OfKinds, Closes
    <3>2. ASSUME NEW v, NEW k, task'.todo = Rest, task'.val = v, task'.data = k,
                 task'.arg = task.arg, v <= k, v <= task.arg
          PROVE  BcInv'
      BY <2>2, <3>1, <3>2 DEF BcInv
    <3>3. CASE 0 < task.dgm /\ task.bytes < task.arg
      <4> DEFINE k == task.data + Lesser(task.arg - task.bytes, ring)
                 t == [Go EXCEPT !.val = task.arg]
      <4>1. TakeBC95(t, task.arg - task.bytes)
        BY <2>9, <3>3 DEF bcRest
      <4>2. t.data = task.data
        BY <1>3 DEF Moved, TaskType
      <4>3. task' = [t EXCEPT !.data = k]
        BY <4>1, <4>2 DEF TakeBC95, Net
      <4>4. task.dgm = net.avail /\ task.arg <= task.dgm + task.bytes
        BY <1>4, <2>9, <3>3 DEF bcRest, DriverInv, AvailInv
      <4>5. k = task.arg
        BY <1>4, <1>5, <3>3, <4>4 DEF Lesser
      <4> HIDE DEF k
      <4>6. task'.todo = Rest /\ task'.val = task.arg /\ task'.data = k /\ task'.arg = task.arg
        BY <1>3, <4>3 DEF Moved, TaskType
      <4> QED BY <1>4, <3>2, <4>5, <4>6
    <3>4. CASE ~(0 < task.dgm /\ task.bytes < task.arg)
      <4>1. task' = [Go EXCEPT !.val = task.bytes]
        BY <2>9, <3>4 DEF bcRest
      <4>2. task'.todo = Rest /\ task'.val = task.bytes /\ task'.data = task.data /\ task'.arg = task.arg
        BY <1>3, <4>1 DEF Moved, TaskType
      <4> QED BY <1>4, <3>2, <4>2
    <3> QED BY <3>3, <3>4
  <2> QED BY <1>6, <2>6, <2>7, <2>8, <2>9
<1>7. ~(ipReadStep \/ rowStep \/ rawStep \/ tookStep \/ sumStep \/ saraLook \/ saraRest \/ toolsLook
        \/ toolsRest \/ bgStart \/ bgLook \/ bgRest)
  BY <1>2 DEF ipReadStep, rowStep, rawStep, tookStep, sumStep, saraLook, saraRest, toolsLook,
              toolsRest, bgStart, bgLook, bgRest, Ready, At, BcEnds
<1> QED BY <1>6, <1>7 DEF ReadLoop

\* read() of BC95 takes a step.
LEMMA BcStep ==
  ASSUME DriverInv, BcInv, driver = "BC95", ~ShortReads, DriverStep, task'.op # "none"
  PROVE  BcInv'
<1>1. task.todo # <<>> => Step[1] \in BcEnds \cup {"flush"}
  BY LeftShape DEF BcInv
<1>2. CASE AtStep
  <2>1. ~End
    <3>1. NoTask.op = "none"
      BY DEF NoTask
    <3> QED BY <3>1 DEF End
  <2>2. ~sendCommand /\ ~skipStep(Guarded)
    BY <1>1 DEF sendCommand, skipStep, Ready, At, Guarded, BcEnds
  <2>3. CASE readTimeout
    <3>1. /\ task.todo # <<>> /\ Step[1] \in Readers /\ Counters /\ task'.todo = Rest
      BY <2>3, TimeoutDoes
    <3>2. Step[1] \notin BcEnds
      BY <3>1 DEF Readers, BcEnds
    <3>3. OfKinds(Rest, BcEnds \cup {"flush"}) /\ Closes(Rest, BcEnds) /\ Rest # <<>>
      BY <3>1, <3>2, LeftShape DEF BcInv
    <3> QED BY <3>1, <3>3 DEF BcInv, Counters
  <2>4. CASE readOk \/ readAny \/ readConfirm \/ readExact \/ readCopy \/ readIgnore \/ readUntil
    <3>1. task' = task
      BY <1>1, <2>4, ReadDoes DEF BcEnds
    <3> QED BY <3>1 DEF BcInv
  <2> QED BY <1>2, <2>1, <2>2, <2>3, <2>4 DEF AtStep, ReadStep
<1>3. ~(callStep \/ responseStep \/ branchStep \/ forceStep \/ imsiStep \/ filterStep \/ openStep
        \/ qiopenStep \/ bgOpenStep \/ closeStep)
  BY <1>1 DEF callStep, responseStep, branchStep, forceStep, imsiStep, filterStep, openStep,
              qiopenStep, bgOpenStep, closeStep, Ready, Sees, At, BcEnds
<1>4. CASE HandleUrc
  <2>1. task' = task
    BY <1>4, HandlerDoes
  <2> QED BY <2>1 DEF BcInv
<1> QED BY <1>2, <1>3, <1>4, BcLoops DEF DriverStep

\* read() is called.
LEMMA ReadBegins ==
  ASSUME DriverInv, readHost, task'.clean
  PROVE  HonestInv'
<1> DEFINE m == -1
           n == task'.arg
           p == task'.todo
<1>1. /\ n \in Nat /\ p = read(n) /\ driver' = driver /\ task'.val = m /\ task'.bytes = 0
      /\ task'.data = 0
  BY ReadStarts
<1>2. m <= 0 /\ m <= n
  BY <1>1
<1> HIDE DEF m
<1>3. CASE driver \in {"B656", "B657", "tools"}
  BY <1>1, <1>3, SaraStarts DEF HonestInv
<1>4. CASE driver = "BG96"
  <2> DEFINE a == Do("bgStart")
             b == Do("bgLoop")
  <2>1. p = <<a, b>> /\ a[1] = "bgStart" /\ b[1] = "bgLoop"
    BY <1>1, <1>4, KindOf DEF read, Pick, readBG96
  <2> HIDE DEF a, b
  <2>2. OfKinds(p, BgKinds)
    <3>1. Len(p) = 2 /\ p[1] = a /\ p[2] = b
      BY <2>1
    <3>2. \A i \in 1..2 : i = 1 \/ i = 2
      OBVIOUS
    <3> QED BY <2>1, <3>1, <3>2 DEF OfKinds, BgKinds
  <2>3. BgInv'
    BY <1>1, <1>2, <2>2 DEF BgInv
  <2> QED BY <1>1, <1>4, <2>3 DEF HonestInv
<1>5. CASE driver = "BC95"
  <2> DEFINE a == <<"bcLoop", TRUE>>
  <2>1. p = <<a>> /\ a[1] \in BcEnds
    BY <1>1, <1>5 DEF read, Pick, readBC95, BcEnds
  <2> HIDE DEF a
  <2>2. OfKinds(p, BcEnds \cup {"flush"}) /\ Closes(p, BcEnds) /\ p # <<>>
    BY <2>1, BcRounds
  <2>3. BcInv'
    BY <1>1, <2>2 DEF BcInv
  <2> QED BY <1>1, <1>5, <2>3 DEF HonestInv
<1> QED BY <1>3, <1>4, <1>5 DEF DriverInv, WireInv

\* No other call is a read().
LEMMA OtherCalls ==
  ASSUME ApiCall, task'.op = "read"
  PROVE  readHost
<1>1. \A f, a, p, v : Called(f, a, p, v) => task'.op = f
  BY DEF Called, Begin, NoTask
<1> QED BY <1>1 DEF ApiCall, nbiotModemRestart, nbiotModemInit, nbiotAttach, nbiotDetach,
       isNbiotAttached, isNbiotModemOn, nbiotSwitchModem, getNbiotDeviceId, sendAtCommand,
       installCeregHandler, installPmHandler, connectHost, disconnectHost, writeHost

\* The modem answers, or speaks unasked.
LEMMA HonestModem ==
  ASSUME DriverInv, HonestInv, modemAnswers \/ modemRegisters \/ modemReceives \/ modemReports
  PROVE  HonestInv'
<1>1. UNCHANGED <<task, driver>>
  BY DEF modemAnswers, modemRegisters, modemReceives, modemReports, TheModem
<1>2. (BgInv => BgInv') /\ (BcInv => BcInv')
  BY <1>1 DEF BgInv, BcInv
<1> QED BY <1>1, <1>2, SaraModem DEF HonestInv

\* HonestInv is an inductive invariant: what read() counts are bytes of the
\* modem, in every driver and at every step of its loops.
THEOREM HonestInvariant == Spec => []HonestInv
<1>1. Init => HonestInv
  BY NoTaskType DEF Init, HonestInv, NoTask
<1>2. DriverInv /\ HonestInv /\ [Next]_vars => HonestInv'
  <2> SUFFICES ASSUME DriverInv, HonestInv, [Next]_vars PROVE HonestInv'
    OBVIOUS
  <2>1. CASE DriverStep
    <3>1. SUFFICES ASSUME task'.op = "read", task'.clean PROVE HonestInv'
      BY DEF HonestInv
    <3>2. Same
      <4>1. ~End
        BY <3>1 DEF End, NoTask
      <4> QED BY <2>1, <4>1, DialogueSame, StepSame, LoopSame, HandlerDoes DEF DriverStep, AtStep
    <3>3. task.op = "read" /\ task.clean /\ driver' = driver
      BY <3>1, <3>2 DEF Same
    <3> QED BY <2>1, <3>1, <3>3, SaraStep, BgStep, BcStep DEF HonestInv
  <2>2. CASE ApiCall
    BY <2>2, OtherCalls, ReadBegins DEF HonestInv
  <2>3. CASE nbiotCoreConfig \/ UNCHANGED vars
    <3>1. UNCHANGED <<task, driver, rx, tx>>
      BY <2>3 DEF nbiotCoreConfig, vars, atVars, drvVars
    <3> QED BY <3>1 DEF HonestInv, BgInv, BcInv, SaraInv, RowInv, BytesInv, Silent, Step
  <2>4. CASE modemAnswers \/ modemRegisters \/ modemReceives \/ modemReports
    BY <2>4, HonestModem
  <2> QED BY <2>1, <2>2, <2>3, <2>4 DEF Next
<1> QED BY <1>1, <1>2, DriverInvariant, PTL DEF Spec

\* ReadHonest: no read() of the four modems returns a byte that did not come
\* from the modem, nor more than it was asked for (NbiotConnectivity's read()
\* returns all of the datagram), over partial datagrams, failed ipRead()s,
\* URCs in between and answers to other sockets, for every ring, every width
\* of m_bytesAvail and every fault of the modem.
THEOREM ReadIsHonest == Spec => []ReadHonest
<1>1. DriverInv /\ HonestInv => ReadHonest
  <2> SUFFICES ASSUME DriverInv, HonestInv, Returned("read"), task.clean, ~ShortReads
               PROVE  task.val <= task.data /\ (driver # "tools" => task.val <= task.arg)
    BY DEF ReadHonest
  <2>1. task.op = "read" /\ task.todo = <<>> /\ driver \in {"BC95", "B656", "B657", "BG96", "tools"}
    BY DEF Returned, DriverInv, WireInv
  <2> QED BY <2>1 DEF HonestInv, BgInv, BcInv, SaraInv, BytesInv, Within
<1> QED BY <1>1, DriverInvariant, HonestInvariant, PTL

----------------------------------------------------------------------------
(* What the functions report                                               *)

\* Counting from the second step.
LEMMA OneLess ==
  ASSUME NEW n \in Nat, NEW m, m = n - 1, NEW i \in 1..m
  PROVE  /\ i + 1 # 1 /\ (i + 1 <= 2 => i <= 2) /\ (i + 1 <= 3 => i <= 3)
         /\ (i + 1 = n => i = m) /\ ((i + 1) + 1 = n => i + 1 = m)
         /\ ((i + 1) + 2 = n => i + 2 = m)
         /\ 1 \in 1..m /\ m # 0 /\ (i + 1 <= 2 => i = 1) /\ (i + 1 <= 3 => i = 1 \/ i = 2)
  OBVIOUS

\* What is left of a dialogue is one, and its first step is what it was next to.
LEMMA ToldRest ==
  ASSUME NEW t \in Seq(Steps), t # <<>>, NEW o, Told(t, o), NEW r, r = Tail(t)
  PROVE  /\ r \in Seq(Steps) /\ Len(t) \in Nat /\ 1 \in 1..Len(t) /\ Head(t) = t[1]
         /\ Len(r) = Len(t) - 1
         /\ \A i \in 1..Len(r) : r[i] = t[i + 1] /\ i + 1 \in 1..Len(t)
         /\ Owner(t[1][1], o) /\ Carries(t[1], o) /\ After(t, 1, o) /\ Stands(t, 1)
         /\ r # <<>> => Head(r) = r[1] /\ 1 \in 1..Len(r) /\ Before(t[1], r[1], o)
         /\ Told(r, o)
<1>1. /\ r \in Seq(Steps) /\ Len(t) \in Nat /\ 1 \in 1..Len(t) /\ Head(t) = t[1]
      /\ Len(r) = Len(t) - 1
      /\ \A i \in 1..Len(r) : r[i] = t[i + 1] /\ i + 1 \in 1..Len(t)
      /\ r # <<>> => Head(r) = r[1] /\ 1 \in 1..Len(r)
  OBVIOUS
<1>2. Owner(t[1][1], o) /\ Carries(t[1], o) /\ After(t, 1, o) /\ Stands(t, 1)
  BY <1>1 DEF Told
<1>3. ASSUME r # <<>> PROVE Before(t[1], r[1], o)
  <2>1. 1 + 1 \in 1..Len(t) /\ 1 + 1 > 1 /\ (1 + 1) - 1 = 1 /\ r[1] = t[1 + 1]
    BY <1>1, <1>3
  <2>2. Before(t[(1 + 1) - 1], t[1 + 1], o)
    BY <2>1 DEF Told
  <2> QED BY <2>1, <2>2
<1>4. ASSUME NEW i \in 1..Len(r), NEW n \in Nat, NEW K
      PROVE  Ahead(t, i + 1, n, K) <=> Ahead(r, i, n, K)
  <2>1. (i + 1) + n \in 1..Len(t) <=> i + n \in 1..Len(r)
    BY <1>1
  <2>2. ASSUME i + n \in 1..Len(r) PROVE r[i + n] = t[(i + 1) + n]
    <3>1. r[i + n] = t[(i + n) + 1] /\ (i + n) + 1 = (i + 1) + n
      BY <1>1, <2>2
    <3> QED BY <3>1
  <2> QED BY <2>1, <2>2 DEF Ahead
<1>5. ASSUME NEW i \in 1..Len(r)
      PROVE  /\ Owner(r[i][1], o) /\ Carries(r[i], o) /\ After(r, i, o) /\ Stands(r, i)
             /\ i > 1 => Before(r[i - 1], r[i], o)
  <2>1. r[i] = t[i + 1] /\ i + 1 \in 1..Len(t)
    BY <1>1
  <2>2. Owner(r[i][1], o) /\ Carries(r[i], o)
    BY <2>1 DEF Told
  <2>3. After(t, i + 1, o)
    BY <2>1 DEF Told
  <2>4. \A K : /\ Ahead(t, i + 1, 1, K) <=> Ahead(r, i, 1, K)
               /\ Ahead(t, i + 1, 2, K) <=> Ahead(r, i, 2, K)
    BY <1>4
  <2>5. After(r, i, o)
    BY <2>1, <2>3, <2>4 DEF After
  <2>6. Stands(t, i + 1)
    BY <2>1 DEF Told
  <2>7. i + 1 # 1 /\ (i + 1 <= 2 => i <= 2) /\ (i + 1 <= 3 => i <= 3)
        /\ (i + 1 = Len(t) => i = Len(r)) /\ ((i + 1) + 1 = Len(t) => i + 1 = Len(r))
        /\ ((i + 1) + 2 = Len(t) => i + 2 = Len(r))
    <3> DEFINE n == Len(t)
               m == Len(r)
    <3>1. n \in Nat /\ m = n - 1 /\ i \in 1..m
      BY <1>1
    <3> HIDE DEF n, m
    <3>2. /\ i + 1 # 1 /\ (i + 1 <= 2 => i <= 2) /\ (i + 1 <= 3 => i <= 3)
          /\ (i + 1 = n => i = m) /\ ((i + 1) + 1 = n => i + 1 = m)
          /\ ((i + 1) + 2 = n => i + 2 = m)
      BY <3>1
    <3> QED BY <3>2 DEF n, m
  <2>8. i + 1 = Len(r) => r[i + 1] = t[(i + 1) + 1]
    BY <1>1
  <2>9. Stands(r, i)
    BY <2>1, <2>6, <2>7, <2>8 DEF Stands
  <2>10. ASSUME i > 1 PROVE Before(r[i - 1], r[i], o)
    <3>1. i - 1 \in 1..Len(r) /\ (i - 1) + 1 = i /\ (i + 1) - 1 = i /\ i + 1 > 1
      BY <2>10
    <3>2. r[i - 1] = t[i]
      BY <1>1, <3>1
    <3>3. Before(t[(i + 1) - 1], t[i + 1], o)
      BY <2>1, <3>1 DEF Told
    <3> QED BY <2>1, <3>1, <3>2, <3>3
  <2> QED BY <2>2, <2>5, <2>9, <2>10
<1>6. Told(r, o)
  BY <1>5 DEF Told
<1> QED BY <1>1, <1>2, <1>3, <1>6

\* What is to come, with the first step and without it.
LEMMA ToldViews ==
  ASSUME NEW t \in Seq(Steps), t # <<>>, NEW o, NEW r, r = Tail(t)
  PROVE  /\ \A K : Has(t, K) <=> (t[1][1] \in K \/ Has(r, K))
         /\ Pending(t, o) <=> (Judges(t, 1, o) \/ Pending(r, o))
         /\ Orders(t, o) => Orders(r, o)
         /\ Orders(r, o) => Orders(t, o) \/ t[1][1] \in Turns
<1>1. /\ r \in Seq(Steps) /\ Len(t) \in Nat /\ 1 \in 1..Len(t) /\ Len(r) = Len(t) - 1
      /\ \A i \in 1..Len(r) : r[i] = t[i + 1] /\ i + 1 \in 1..Len(t)
  OBVIOUS
<1>2. \A i \in 1..Len(t) : i = 1 \/ \E j \in 1..Len(r) : i = j + 1
  <2>1. ASSUME NEW i \in 1..Len(t), i # 1 PROVE i - 1 \in 1..Len(r) /\ i = (i - 1) + 1
    BY <1>1, <2>1
  <2> QED BY <2>1
<1>3. \A K : Has(t, K) <=> (t[1][1] \in K \/ Has(r, K))
  BY <1>1, <1>2 DEF Has
<1>4. ASSUME NEW i \in 1..Len(r) PROVE Judges(t, i + 1, o) <=> Judges(r, i, o)
  <2>1. (i + 1) + 2 \in 1..Len(t) <=> i + 2 \in 1..Len(r)
    BY <1>1
  <2>2. ASSUME i + 2 \in 1..Len(r) PROVE r[i + 2] = t[(i + 1) + 2]
    <3>1. r[i + 2] = t[(i + 2) + 1] /\ (i + 2) + 1 = (i + 1) + 2
      BY <1>1, <2>2
    <3> QED BY <3>1
  <2>3. \A K : Ahead(t, i + 1, 2, K) <=> Ahead(r, i, 2, K)
    BY <2>1, <2>2 DEF Ahead
  <2>4. r[i] = t[i + 1]
    BY <1>1
  <2> QED BY <2>3, <2>4 DEF Judges
<1>5. Pending(t, o) <=> (Judges(t, 1, o) \/ Pending(r, o))
  BY <1>1, <1>2, <1>4 DEF Pending
<1>6. Has(t, Turns) <=> (t[1][1] \in Turns \/ Has(r, Turns))
  BY <1>3
<1> QED BY <1>3, <1>5, <1>6 DEF Orders

\* Who waits for an answer in two lines.
LEMMA ToldAsks ==
  ASSUME NEW t \in Seq(Steps), t # <<>>, NEW o, Told(t, o), NEW r, r = Tail(t)
  PROVE  /\ Has(r, Asking) =>
              /\ r # <<>>
              /\ \/ t[1][1] = "send" /\ t[1][2][1] \in {"CFUN?", "NSOCR"} /\ r[1][1] = "any"
                 \/ t[1][1] \in {"any", "confirm"} /\ r[1][1] \in {"open", "afterColon"}
         /\ Has(t, Asking) => t[1][1] = "send" \/ t[1][1] \in Asking
         /\ Has(r, {"any"}) => t[1][1] = "send" /\ r # <<>> /\ r[1][1] = "any"
<1>1. /\ r \in Seq(Steps) /\ Len(t) \in Nat /\ Len(r) = Len(t) - 1
      /\ \A i \in 1..Len(r) : r[i] = t[i + 1] /\ i + 1 \in 1..Len(t)
      /\ r # <<>> => Before(t[1], r[1], o)
  BY ToldRest
<1>0. ASSUME NEW i \in 1..Len(r)
      PROVE  /\ r # <<>> /\ 1 \in 1..Len(r)
             /\ (i + 1 <= 2 => i = 1) /\ (i + 1 <= 3 => i = 1 \/ i = 2)
  <2>1. /\ 1 \in 1..Len(r) /\ Len(r) # 0
        /\ (i + 1 <= 2 => i = 1) /\ (i + 1 <= 3 => i = 1 \/ i = 2)
    BY <1>1, OneLess
  <2> QED BY <2>1
<1>2. ASSUME NEW i \in 1..Len(r), r[i][1] = "any"
      PROVE  i = 1 /\ r # <<>> /\ t[1][1] = "send" /\ t[1][2][1] \in {"CFUN?", "NSOCR"}
  <2>1. t[i + 1][1] = "any" /\ Stands(t, i + 1)
    BY <1>1, <1>2 DEF Told
  <2>2. i + 1 <= 2
    BY <2>1 DEF Stands
  <2>3. i = 1 /\ r # <<>>
    BY <1>0, <2>2
  <2> QED BY <1>1, <1>2, <2>3 DEF Before
<1>3. ASSUME NEW i \in 1..Len(r) PROVE r[i][1] # "confirm"
  <2>1. Stands(t, i + 1) /\ r[i] = t[i + 1] /\ i + 1 # 1
    BY <1>1 DEF Told
  <2> QED BY <2>1 DEF Stands
<1>4. ASSUME NEW i \in 1..Len(r), r[i][1] \in {"open", "afterColon"}
      PROVE  /\ r # <<>>
             /\ i = 1 => t[1][1] \in {"any", "confirm"}
             /\ i # 1 => r[1][1] = "any"
  <2>1. t[i + 1][1] \in {"open", "afterColon"} /\ Stands(t, i + 1)
    BY <1>1, <1>4 DEF Told
  <2>2. i + 1 <= 3
    BY <2>1 DEF Stands
  <2>3. (i = 1 \/ i = 2) /\ r # <<>> /\ 1 \in 1..Len(r)
    BY <1>0, <2>2
  <2>4. i = 1 => t[1][1] \in {"any", "confirm"}
    BY <1>1, <1>4, <2>3 DEF Before
  <2>5. ASSUME i # 1 PROVE r[1][1] = "any"
    <3>1. i + 1 > 1 /\ (i + 1) - 1 = 2 /\ i + 1 \in 1..Len(t) /\ i = 2
      BY <1>1, <2>3, <2>5
    <3>2. Before(t[(i + 1) - 1], t[i + 1], o)
      BY <3>1 DEF Told
    <3>3. t[2][1] \in {"any", "confirm"}
      BY <2>1, <3>1, <3>2 DEF Before
    <3>4. r[1] = t[2]
      BY <1>1, <2>3
    <3> QED BY <1>3, <2>3, <3>3, <3>4
  <2> QED BY <2>3, <2>4, <2>5
<1>5. ASSUME Has(r, Asking)
      PROVE  /\ r # <<>>
             /\ \/ t[1][1] = "send" /\ t[1][2][1] \in {"CFUN?", "NSOCR"} /\ r[1][1] = "any"
                \/ t[1][1] \in {"any", "confirm"} /\ r[1][1] \in {"open", "afterColon"}
  <2>1. PICK i \in 1..Len(r) : r[i][1] \in Asking
    BY <1>5 DEF Has
  <2>2. CASE r[i][1] = "any"
    BY <1>2, <2>2
  <2>3. CASE r[i][1] \in {"open", "afterColon"}
    <3>1. 1 \in 1..Len(r)
      BY <1>1
    <3> QED BY <1>2, <1>4, <2>3, <3>1
  <2> QED BY <1>3, <2>1, <2>2, <2>3 DEF Asking
<1>6. Has(t, Asking) => t[1][1] = "send" \/ t[1][1] \in Asking
  BY <1>5, ToldViews DEF Asking
<1>7. ASSUME Has(r, {"any"}) PROVE t[1][1] = "send" /\ r # <<>> /\ r[1][1] = "any"
  <2>1. PICK i \in 1..Len(r) : r[i][1] = "any"
    BY <1>7 DEF Has
  <2> QED BY <1>2, <2>1
<1> QED BY <1>5, <1>6, <1>7


\* The steps of a dialogue by themselves, and in front of others.
Fits(p, o) ==
  \A i \in 1..Len(p) :
    /\ Owner(p[i][1], o) /\ Carries(p[i], o)
    /\ i > 1 => Before(p[i - 1], p[i], o)
Placed(w, p, o) == \A i \in 1..Len(p) : After(w, i, o) /\ Stands(w, i)
Joined(w, p, r) == w = p \o r

\* A dialogue put before what is left of another.
LEMMA ToldPush ==
  ASSUME NEW r \in Seq(Steps), NEW o, Told(r, o), ~Has(r, Asking),
         NEW p \in Seq(Steps), p # <<>>, Fits(p, o),
         r # <<>> => Before(p[Len(p)], r[1], o),
         NEW w, Joined(w, p, r), Placed(w, p, o)
  PROVE  /\ w \in Seq(Steps) /\ Told(w, o) /\ w # <<>> /\ Head(w) = p[1]
         /\ Pending(r, o) => Pending(w, o)
<1>0. /\ w = p \o r
      /\ \A i \in 1..Len(p) :
           /\ Owner(p[i][1], o) /\ Carries(p[i], o)
           /\ i > 1 => Before(p[i - 1], p[i], o)
      /\ \A i \in 1..Len(p) : After(w, i, o) /\ Stands(w, i)
  BY DEF Fits, Placed, Joined
<1> USE <1>0
<1> DEFINE m == Len(p)
           n == Len(r)
           l == Len(w)
<1>1. /\ p \o r \in Seq(Steps) /\ Len(p \o r) = Len(p) + Len(r)
      /\ \A i \in 1..Len(p) + Len(r) : (p \o r)[i] = IF i <= Len(p) THEN p[i] ELSE r[i - Len(p)]
  BY ConcatProperties, Zenon
<1>2. /\ w \in Seq(Steps) /\ l = m + n
      /\ \A i \in 1..m + n : w[i] = IF i <= m THEN p[i] ELSE r[i - m]
  BY <1>1
<1>3. m \in Nat /\ n \in Nat /\ m >= 1
  BY <1>1
<1> HIDE DEF m, n, l
<1>4. /\ \A i \in 1..m : i \in 1..l /\ w[i] = p[i]
      /\ \A i \in 1..n : m + i \in 1..l /\ w[m + i] = r[i]
  <2>1. ASSUME NEW i \in 1..m PROVE i \in 1..l /\ w[i] = p[i]
    <3>1. i \in 1..m + n /\ i <= m
      BY <1>3
    <3> QED BY <1>2, <3>1
  <2>2. ASSUME NEW i \in 1..n PROVE m + i \in 1..l /\ w[m + i] = r[i]
    <3>1. m + i \in 1..m + n /\ ~(m + i <= m) /\ (m + i) - m = i
      BY <1>3
    <3>2. w[m + i] = IF m + i <= m THEN p[m + i] ELSE r[(m + i) - m]
      BY <1>2, <3>1
    <3> QED BY <1>2, <3>1, <3>2
  <2> QED BY <2>1, <2>2
<1>5. w # <<>> /\ Head(w) = p[1]
  <2>1. l >= 1 /\ w[1] = p[1]
    BY <1>2, <1>3, <1>4
  <2> QED BY <1>2, <2>1 DEF l
<1>6. ASSUME NEW i \in 1..n, NEW k \in Nat, NEW K
      PROVE  Ahead(w, m + i, k, K) <=> Ahead(r, i, k, K)
  <2>1. (m + i) + k \in 1..l <=> i + k \in 1..n
    BY <1>2, <1>3
  <2>2. ASSUME i + k \in 1..n PROVE w[(m + i) + k] = r[i + k]
    <3>1. m + (i + k) = (m + i) + k
      BY <1>3
    <3>2. w[m + (i + k)] = r[i + k]
      BY <1>4, <2>2
    <3> QED BY <3>1, <3>2
  <2> QED BY <2>1, <2>2 DEF Ahead, l, n
<1>7. ASSUME NEW i \in 1..n
      PROVE  /\ Owner(w[m + i][1], o) /\ Carries(w[m + i], o)
             /\ After(w, m + i, o) /\ Stands(w, m + i)
             /\ m + i > 1 => Before(w[(m + i) - 1], w[m + i], o)
             /\ Judges(r, i, o) => Judges(w, m + i, o)
  <2>1. w[m + i] = r[i] /\ m + i \in 1..l
    BY <1>4
  <2>2. Owner(r[i][1], o) /\ Carries(r[i], o) /\ After(r, i, o) /\ Stands(r, i)
    BY DEF Told, n
  <2>3. \A K : /\ Ahead(w, m + i, 1, K) <=> Ahead(r, i, 1, K)
               /\ Ahead(w, m + i, 2, K) <=> Ahead(r, i, 2, K)
    BY <1>6
  <2>4. After(w, m + i, o)
    BY <2>1, <2>2, <2>3 DEF After
  <2>5. Judges(r, i, o) => Judges(w, m + i, o)
    BY <2>1, <2>3 DEF Judges
  <2>6. r[i][1] \notin Asking
    BY DEF Has, n
  <2>7. (m + i = l <=> i = n) /\ ((m + i) + 1 = l <=> i + 1 = n) /\ ((m + i) + 2 = l <=> i + 2 = n)
    BY <1>2, <1>3
  <2>8. i + 1 = n => w[(m + i) + 1] = r[i + 1]
    <3>1. ASSUME i + 1 = n PROVE w[(m + i) + 1] = r[i + 1]
      <4>1. i + 1 \in 1..n /\ m + (i + 1) = (m + i) + 1
        BY <1>3, <3>1
      <4>2. w[m + (i + 1)] = r[i + 1]
        BY <1>4, <4>1
      <4> QED BY <4>1, <4>2
    <3> QED BY <3>1
  <2>9. Stands(w, m + i)
    BY <2>1, <2>2, <2>6, <2>7, <2>8 DEF Stands, Asking, l, n
  <2>10. Before(w[(m + i) - 1], w[m + i], o)
    <3>1. CASE i = 1
      <4>1. (m + i) - 1 = m /\ m \in 1..m
        BY <1>3, <3>1
      <4>2. w[(m + i) - 1] = p[m] /\ r # <<>>
        <5>1. w[m] = p[m]
          BY <1>4, <4>1
        <5>2. r # <<>>
          BY <3>1 DEF n
        <5> QED BY <4>1, <5>1, <5>2
      <4> QED BY <2>1, <3>1, <4>2 DEF m
    <3>2. CASE i # 1
      <4>1. i - 1 \in 1..n /\ m + (i - 1) = (m + i) - 1 /\ i > 1
        BY <1>3, <3>2
      <4>2. w[m + (i - 1)] = r[i - 1]
        BY <1>4, <4>1
      <4>3. Before(r[i - 1], r[i], o)
        BY <4>1 DEF Told, n
      <4> QED BY <2>1, <4>1, <4>2, <4>3
    <3> QED BY <3>1, <3>2
  <2> QED BY <2>1, <2>2, <2>4, <2>5, <2>9, <2>10
<1>8. ASSUME NEW i \in 1..m
      PROVE  /\ Owner(w[i][1], o) /\ Carries(w[i], o) /\ After(w, i, o) /\ Stands(w, i)
             /\ i > 1 => Before(w[i - 1], w[i], o)
  <2>0. i > 1 => i - 1 \in 1..m
    BY <1>3
  <2>1. w[i] = p[i]
    BY <1>4
  <2>2. i > 1 => w[i - 1] = p[i - 1]
    BY <1>4, <2>0
  <2> QED BY <2>1, <2>2 DEF m
<1>9. \A i \in 1..l : i \in 1..m \/ (i - m \in 1..n /\ i = m + (i - m))
  BY <1>2, <1>3
<1>10. Told(w, o)
  <2>1. ASSUME NEW i \in 1..l
        PROVE  /\ Owner(w[i][1], o) /\ Carries(w[i], o) /\ After(w, i, o) /\ Stands(w, i)
               /\ i > 1 => Before(w[i - 1], w[i], o)
    <3>1. CASE i \in 1..m
      BY <1>8, <3>1
    <3>2. CASE i - m \in 1..n /\ i = m + (i - m)
      <4> DEFINE j == i - m
      <4>1. j \in 1..n /\ i = m + j
        BY <3>2
      <4> HIDE DEF j
      <4> QED BY <1>7, <4>1
    <3> QED BY <1>9, <3>1, <3>2
  <2> QED BY <2>1 DEF Told, l
<1>11. Pending(r, o) => Pending(w, o)
  BY <1>4, <1>7 DEF Pending, n, l
<1> QED BY <1>2, <1>5, <1>10, <1>11

\* REPLY_ANY has its line and waits for "OK".
LEMMA ToldConfirm ==
  ASSUME NEW t \in Seq(Steps), t # <<>>, NEW o, Told(t, o), t[1][1] = "any",
         NEW c \in Steps, c[1] = "confirm", NEW w \in Seq(Steps), Len(w) = Len(t), w[1] = c,
         \A i \in 1..Len(w) : i # 1 => w[i] = t[i]
  PROVE  /\ Told(w, o) /\ Has(t, Asking)
         /\ Orders(w, o) <=> Orders(t, o)
         /\ Pending(w, o) <=> Pending(t, o)
<1> DEFINE l == Len(t)
<1>0. l \in Nat /\ 1 \in 1..l /\ Len(w) = l
  OBVIOUS
<1> HIDE DEF l
<1>1. ASSUME NEW i \in 1..l, NEW k \in {1, 2}, NEW K PROVE Ahead(w, i, k, K) <=> Ahead(t, i, k, K)
  <2>1. i + k \in 1..l => w[i + k] = t[i + k]
    BY <1>0
  <2> QED BY <1>0, <2>1 DEF Ahead, l
<1>2. ASSUME NEW i \in 1..l
      PROVE  /\ Owner(w[i][1], o) /\ Carries(w[i], o) /\ After(w, i, o) /\ Stands(w, i)
             /\ i > 1 => Before(w[i - 1], w[i], o)
             /\ Judges(w, i, o) <=> Judges(t, i, o)
             /\ w[i][1] \in Turns <=> t[i][1] \in Turns
  <2>1. /\ Owner(t[i][1], o) /\ Carries(t[i], o) /\ After(t, i, o) /\ Stands(t, i)
        /\ i > 1 => Before(t[i - 1], t[i], o)
    BY DEF Told, l
  <2>2. \A K : /\ Ahead(w, i, 1, K) <=> Ahead(t, i, 1, K)
               /\ Ahead(w, i, 2, K) <=> Ahead(t, i, 2, K)
    BY <1>1
  <2>3. CASE i = 1
    <3>1. w[i] = c
      BY <2>3
    <3>2. Owner(w[i][1], o) /\ Carries(w[i], o)
      BY <3>1 DEF Owner, TellKinds, Carries
    <3>3. After(w, i, o)
      BY <3>1 DEF After, Sensors
    <3>4. Stands(w, i)
      BY <2>3, <3>1 DEF Stands
    <3>5. ~Judges(w, i, o) /\ ~Judges(t, i, o) /\ w[i][1] \notin Turns /\ t[i][1] \notin Turns
      BY <2>3, <3>1 DEF Judges, Turns
    <3> QED BY <2>3, <3>2, <3>3, <3>4, <3>5
  <2>4. CASE i # 1
    <3>1. w[i] = t[i] /\ i > 1 /\ i - 1 \in 1..l
      BY <1>0, <2>4
    <3>2. After(w, i, o)
      BY <2>1, <2>2, <3>1 DEF After
    <3>3. i + 1 = l => w[i + 1] = t[i + 1]
      BY <1>0, <2>4
    <3>4. Stands(w, i)
      BY <1>0, <2>1, <3>1, <3>3 DEF Stands, l
    <3>5. Before(w[i - 1], w[i], o)
      <4>1. CASE i - 1 = 1
        <5>1. w[i - 1] = c /\ t[i - 1][1] = "any"
          BY <4>1
        <5> QED BY <2>1, <3>1, <5>1 DEF Before
      <4>2. CASE i - 1 # 1
        <5>1. w[i - 1] = t[i - 1]
          BY <1>0, <3>1, <4>2
        <5> QED BY <2>1, <3>1, <5>1
      <4> QED BY <4>1, <4>2
    <3>6. Judges(w, i, o) <=> Judges(t, i, o)
      BY <2>2, <3>1 DEF Judges
    <3> QED BY <2>1, <3>1, <3>2, <3>4, <3>5, <3>6
  <2> QED BY <2>3, <2>4
<1>3. Told(w, o)
  BY <1>0, <1>2 DEF Told
<1>4. Pending(w, o) <=> Pending(t, o)
  BY <1>0, <1>2 DEF Pending, l
<1>5. Has(w, Turns) <=> Has(t, Turns)
  BY <1>0, <1>2 DEF Has, l
<1>6. Has(t, Asking)
  BY <1>0 DEF Has, Asking, l
<1> QED BY <1>3, <1>4, <1>5, <1>6 DEF Orders

\* The lines that are left, by their places.
LEMMA LinesLeft ==
  ASSUME rx \in Seq(Lines), rx # <<>>, rx' = Tail(rx)
  PROVE  /\ \A i \in 1..Len(rx') : rx'[i] = rx[i + 1] /\ i + 1 \in 1..Len(rx) /\ i + 1 > 1
                                  /\ (i + 1) - 1 = i /\ i \in 1..Len(rx)
         /\ \A i \in 1..Len(rx') : i > 1 => i - 1 \in 1..Len(rx') /\ rx'[i - 1] = rx[i]
         /\ Head(rx) = rx[1] /\ 1 \in 1..Len(rx)
<1> DEFINE v == Tail(rx)
           n == Len(v)
           l == Len(rx)
<1>1. /\ n \in Nat /\ l = n + 1 /\ Head(rx) = rx[1]
      /\ \A i \in 1..n : v[i] = rx[i + 1]
  OBVIOUS
<1> HIDE DEF n, l, v
<1>2. /\ \A i \in 1..n : i + 1 \in 1..l /\ i + 1 > 1 /\ (i + 1) - 1 = i /\ i \in 1..l
      /\ \A i \in 1..n : i > 1 => i - 1 \in 1..n /\ (i - 1) + 1 = i
      /\ 1 \in 1..l
  BY <1>1
<1>3. \A i \in 1..n : i > 1 => v[i - 1] = rx[i]
  BY <1>1, <1>2
<1>4. rx' = v
  BY DEF v
<1> QED BY <1>1, <1>2, <1>3, <1>4 DEF n, l

\* A command is added to those on their way.
LEMMA OneMore ==
  ASSUME NEW S, NEW q \in Seq(S), NEW c \in S, NEW r, r = Append(q, c)
  PROVE  /\ \A j \in 1..Len(r) : (j \in 1..Len(q) /\ r[j] = q[j]) \/ r[j] = c
         /\ \A j \in 1..Len(q) : j \in 1..Len(r) /\ r[j] = q[j]
         /\ Len(r) = Len(q) + 1 /\ r[Len(q) + 1] = c /\ Len(q) \in Nat
<1> DEFINE n == Len(q)
           l == Len(r)
<1>1. l = n + 1 /\ n \in Nat /\ \A j \in 1..n + 1 : r[j] = IF j = n + 1 THEN c ELSE q[j]
  OBVIOUS
<1> HIDE DEF n, l
<1>2. /\ \A j \in 1..l : j \in 1..n \/ j = n + 1
      /\ \A j \in 1..n : j \in 1..l /\ j # n + 1
      /\ n + 1 \in 1..n + 1
  BY <1>1
<1> QED BY <1>1, <1>2 DEF n, l

\* What a step of a kind does to the orders and queries that are out.
LEMMA QueriesEnd ==
  ASSUME NEW t \in Seq(Steps), t # <<>>, NEW o, Told(t, o), NEW r, r = Tail(t),
         t[1][1] \in {"send", "force"}
  PROVE  /\ Orders(r, o) => t[1][2][1] \notin Queries
         /\ t[1][1] = "send" => Allowed(o, t[1][2]) /\ t[1][2][1] # "NRB"
         /\ t[1][1] = "force" => /\ t[1][2][1] = "NRB" /\ o = "reboot"
                                 /\ ~Pending(t, o) /\ ~Has(r, Asking)
<1>1. /\ Len(t) \in Nat /\ 1 \in 1..Len(t) /\ Len(r) = Len(t) - 1
      /\ Owner(t[1][1], o) /\ Carries(t[1], o) /\ After(t, 1, o) /\ Stands(t, 1)
  BY ToldRest
<1>2. t[1][1] = "send" => Allowed(o, t[1][2]) /\ t[1][2][1] # "NRB"
  BY <1>1 DEF Carries
<1>3. ASSUME Orders(r, o), t[1][1] = "send", t[1][2][1] \in Queries PROVE FALSE
  <2>1. o \notin {"attach", "detach"}
    BY <1>2, <1>3 DEF Allowed, Queries
  <2>2. o \in {"switchModem", "reboot"} /\ ~Has(r, Turns)
    BY <1>3, <2>1 DEF Orders
  <2>3. Ahead(t, 1, 2, Sensors)
    BY <1>1, <1>3, <2>2 DEF After
  <2>4. 1 + 2 = 3 /\ 3 + 2 = 5 /\ 4 + 1 = 5
    OBVIOUS
  <2>5. 3 \in 1..Len(t) /\ t[3][1] \in Sensors
    BY <2>3, <2>4 DEF Ahead
  <2>6. Ahead(t, 3, 2, Turns)
    <3>1. After(t, 3, o)
      BY <2>5 DEF Told
    <3> QED BY <2>2, <2>5, <3>1 DEF After
  <2>7. 5 \in 1..Len(t) /\ t[5][1] \in Turns
    BY <2>4, <2>6 DEF Ahead
  <2>8. 4 \in 1..Len(r) /\ r[4] = t[5]
    <3>1. \A i \in 1..Len(r) : r[i] = t[i + 1]
      BY ToldRest
    <3>2. 4 \in 1..Len(r)
      BY <1>1, <2>7
    <3> QED BY <2>4, <3>1, <3>2
  <2> QED BY <2>2, <2>7, <2>8 DEF Has
<1>4. ASSUME t[1][1] = "force"
      PROVE  /\ t[1][2][1] = "NRB" /\ o = "reboot" /\ "NRB" \notin Queries
             /\ ~Pending(t, o) /\ ~Has(r, Asking)
  <2>1. t[1][2][1] = "NRB" /\ o = "reboot" /\ "NRB" \notin Queries
    BY <1>1, <1>4 DEF Carries, Owner, Queries
  <2>2. ~Has(r, Asking)
    BY <1>4, ToldAsks
  <2>3. 1 + 2 = Len(t)
    BY <1>1, <1>4 DEF Stands
  <2>4. Len(t) = 3 /\ \A i \in 1..Len(t) : i \in {1, 2, 3}
    BY <2>3
  <2>5. ASSUME NEW i \in 1..Len(t) PROVE ~Judges(t, i, o)
    <3>1. ~(t[i][1] = "until" /\ Ahead(t, i, 2, {"force"}))
      <4>1. SUFFICES ASSUME t[i][1] = "until", Ahead(t, i, 2, {"force"}) PROVE FALSE
        OBVIOUS
      <4>2. i + 2 \in 1..Len(t)
        BY <4>1 DEF Ahead
      <4>3. i = 1
        BY <2>4, <4>2
      <4> QED BY <1>4, <4>1, <4>3
    <3>2. t[i][1] # "qregswt"
      <4>1. SUFFICES ASSUME t[i][1] = "qregswt" PROVE FALSE
        OBVIOUS
      <4>2. Ahead(t, i, 1, {"force"})
        BY <4>1 DEF Told, After
      <4>3. i + 1 \in 1..Len(t) /\ t[i + 1][1] = "force"
        BY <4>2 DEF Ahead
      <4>4. (i + 1) + 2 = Len(t)
        BY <4>3 DEF Told, Stands
      <4> QED BY <2>4, <4>4
    <3>3. t[i][1] # "switch"
      <4>1. Owner(t[i][1], o)
        BY DEF Told
      <4> QED BY <2>1, <4>1 DEF Owner
    <3> QED BY <2>1, <3>1, <3>2, <3>3 DEF Judges, Turns
  <2> QED BY <2>1, <2>2, <2>5 DEF Pending
<1> QED BY <1>2, <1>3, <1>4

\* The commands on their way after a step.
LEMMA WayOn ==
  ASSUME DriverInv, TellInv, task.todo # <<>>, task'.todo = Rest, task'.op = task.op,
         tx' = tx \/ (Step[1] \in {"send", "force"} /\ tx' = Append(tx, Step[2]))
  PROVE  WayInv'
<1> DEFINE t == task.todo
           r == Rest
           o == task.op
<1>1. t \in Seq(Steps) /\ t # <<>> /\ Told(t, o) /\ r = Tail(t) /\ Step = Head(t)
      /\ tx \in Seq(Commands) /\ Step \in Steps
  BY InFunction, TaskFields DEF TellInv, Step
<1> HIDE DEF t, r, o
<1>2. Step = t[1]
  BY <1>1
<1>3. ASSUME NEW j \in 1..Len(tx)
      PROVE  /\ Allowed(o, tx[j])
             /\ Orders(r, o) => tx[j][1] \notin Queries
             /\ Has(r, Asking) => tx[j][1] \in {"CFUN?", "NSOCR"}
  <2>1. /\ Allowed(o, tx[j])
        /\ Orders(t, o) => tx[j][1] \notin Queries
        /\ Has(t, Asking) => tx[j][1] \in {"CFUN?", "NSOCR"}
    BY DEF TellInv, WayInv, t, o
  <2>2. t[1][1] \notin Turns
    <3>1. t[1][1] \in Turns => tx = <<>>
      BY <1>1, <1>2 DEF TellInv, HeadInv, Hushed, t
    <3> QED BY <3>1
  <2> QED BY <1>1, <2>1, <2>2, ToldViews
<1>4. CASE tx' = tx
  BY <1>3, <1>4 DEF WayInv, r, o
<1>5. CASE Step[1] \in {"send", "force"} /\ tx' = Append(tx, Step[2])
  <2> DEFINE c == Step[2]
  <2>1. c \in Commands
    BY <1>1, <1>5, StepIs
  <2>2. /\ Orders(r, o) => c[1] \notin Queries
        /\ Allowed(o, c)
        /\ Has(r, Asking) => c[1] \in {"CFUN?", "NSOCR"}
    <3>1. /\ Orders(r, o) => c[1] \notin Queries
          /\ Step[1] = "send" => Allowed(o, c)
          /\ Step[1] = "force" => c[1] = "NRB" /\ o = "reboot" /\ ~Has(r, Asking)
      BY <1>1, <1>2, <1>5, QueriesEnd
    <3>2. Step[1] = "force" => Allowed(o, c)
      BY <3>1 DEF Allowed
    <3>3. Step[1] = "send" => (Has(r, Asking) => c[1] \in {"CFUN?", "NSOCR"})
      BY <1>1, <1>2, ToldAsks
    <3> QED BY <1>5, <3>1, <3>2, <3>3
  <2> HIDE DEF c
  <2>3. \A j \in 1..Len(tx') : (j \in 1..Len(tx) /\ tx'[j] = tx[j]) \/ tx'[j] = c
    BY <1>1, <1>5, <2>1, OneMore DEF c
  <2>4. ASSUME NEW j \in 1..Len(tx')
        PROVE  /\ Allowed(o, tx'[j])
               /\ Orders(r, o) => tx'[j][1] \notin Queries
               /\ Has(r, Asking) => tx'[j][1] \in {"CFUN?", "NSOCR"}
    BY <1>3, <2>2, <2>3
  <2> QED BY <2>4 DEF WayInv, r, o
<1> QED BY <1>4, <1>5

\* The lines, and the line the function holds, say of the modem what they said.
LEMMA LinesOn ==
  ASSUME rx \in Seq(Lines), LinesInv, task'.op = task.op, modem' = modem, Among(rx', rx),
         Evident(task'.resp)
  PROVE  LinesInv'
<1>1. Evident(task'.resp) => Evident(task.resp)'
  BY DEF Evident
<1>2. \A l : Evident(l) => Evident(l)'
  BY DEF Evident
<1>3. ASSUME NEW i \in 1..Len(rx') PROVE Evident(rx[i])'
  <2>1. PICK j \in 1..Len(rx) : rx'[i] = rx[j]
    BY DEF Among
  <2>2. Evident(rx[j])
    BY DEF LinesInv
  <2>3. Evident(rx'[i])
    BY <2>1, <2>2
  <2> QED BY <2>3 DEF Evident
<1> QED BY <1>1, <1>3 DEF LinesInv

\* The next step finds what it needs.
LEMMA HeadOn ==
  ASSUME DriverInv, TellInv, task.todo # <<>>, task'.todo = Rest, task'.op = task.op,
         task'.ok /\ Step[1] = "until" => task'.resp.tag = Step[2],
         task'.ok /\ Step[1] = "qiopen" => task'.resp.tag = "+QIOPEN:",
         task'.ok /\ Step[1] \in {"any", "confirm"} => Own(task'.resp),
         Step[1] \in {"flush", "call"} => Hushed'
  PROVE  HeadInv'
<1> DEFINE t == task.todo
           r == Rest
           o == task.op
<1>1. t \in Seq(Steps) /\ t # <<>> /\ Told(t, o) /\ r = Tail(t) /\ Step = Head(t)
  BY InFunction, TaskFields DEF TellInv, Step
<1>2. task'.todo # <<>> => Step' = Head(r)
  BY DEF Step
<1> HIDE DEF t, r, o
<1>3. Step = t[1] /\ (r # <<>> => Head(r) = r[1] /\ Before(t[1], r[1], o))
  BY <1>1, ToldRest
<1>4. ASSUME r # <<>>
      PROVE  /\ r[1][1] \in {"number", "onOff"} /\ task'.ok => task'.resp.tag = TagOf(o)
             /\ r[1][1] = "bgOpen" /\ task'.ok => task'.resp.tag = "+QIOPEN:"
             /\ r[1][1] \in {"open", "afterColon"} /\ task'.ok => Own(task'.resp)
             /\ r[1][1] \in Turns \cup {"call"} => Hushed'
             /\ r[1][1] = "send" /\ Has(r, {"any"}) => FALSE
  <2>1. r[1][1] \in {"number", "onOff"} => Step[1] = "until" /\ Step[2] = TagOf(o)
    BY <1>3, <1>4 DEF Before
  <2>2. r[1][1] = "bgOpen" => Step[1] = "qiopen"
    BY <1>3, <1>4 DEF Before
  <2>3. r[1][1] \in {"open", "afterColon"} => Step[1] \in {"any", "confirm"}
    BY <1>3, <1>4 DEF Before
  <2>4. r[1][1] \in Turns \cup {"call"} => Step[1] \in {"flush", "call"}
    BY <1>3, <1>4 DEF Before
  <2>5. r[1][1] = "send" /\ Has(r, {"any"}) => FALSE
    BY <1>1, ToldAsks
  <2> QED BY <2>1, <2>2, <2>3, <2>4, <2>5
<1>5. task'.todo = r /\ (r # <<>> => Step' = r[1])
  BY <1>2, <1>3 DEF r
<1> QED BY <1>4, <1>5 DEF HeadInv, Own, o

\* An "OK" still follows the line it confirms.
LEMMA AskOn ==
  ASSUME DriverInv, TellInv, task.todo # <<>>, task'.todo = Rest,
         rx' = rx \/ (rx # <<>> /\ rx' = Tail(rx))
  PROVE  AskInv'
<1> DEFINE t == task.todo
           r == Rest
           o == task.op
<1>1. t \in Seq(Steps) /\ t # <<>> /\ Told(t, o) /\ r = Tail(t) /\ Step = Head(t)
      /\ rx \in Seq(Lines)
  BY InFunction, TaskFields DEF TellInv, Step
<1>2. task'.todo # <<>> => Step' = Head(r)
  BY DEF Step
<1> HIDE DEF t, r, o
<1>3. Step = t[1] /\ (r # <<>> => Head(r) = r[1])
  BY <1>1, ToldRest
<1> SUFFICES ASSUME Has(r, Asking), NEW i \in 1..Len(rx'), rx'[i].tag = "OK"
             PROVE  Confirms(i)'
  BY DEF AskInv, r
<1>4. /\ r # <<>>
      /\ \/ t[1][1] = "send" /\ r[1][1] = "any"
         \/ t[1][1] \in {"any", "confirm"} /\ r[1][1] \in {"open", "afterColon"}
  BY <1>1, ToldAsks
<1>5. CASE t[1][1] = "send" /\ r[1][1] = "any"
  <2>1. Has(t, {"any"})
    <3>1. Has(r, {"any"})
      <4>1. 1 \in 1..Len(r)
        BY <1>1, <1>4, ToldRest
      <4> QED BY <1>5, <4>1 DEF Has
    <3> QED BY <1>1, <3>1, ToldViews
  <2>2. ~Okay(rx)
    BY <1>1, <1>3, <1>5, <2>1 DEF TellInv, HeadInv, Hushed, t
  <2>3. \E j \in 1..Len(rx) : rx'[i] = rx[j]
    BY <1>1, LinesLeft
  <2> QED BY <2>2, <2>3 DEF Okay
<1>6. CASE t[1][1] \in {"any", "confirm"} /\ r[1][1] \in {"open", "afterColon"}
  <2>1. Step'[1] \notin {"send", "any", "confirm"}
    BY <1>2, <1>3, <1>4, <1>6 DEF r
  <2>2. i = 1 => Confirms(i)'
    BY <2>1 DEF Confirms
  <2>3. Has(t, Asking)
    BY <1>1, <1>6, ToldViews DEF Asking
  <2>4. \A j \in 1..Len(rx) : rx[j].tag = "OK" => Confirms(j)
    BY <2>3 DEF TellInv, AskInv, t
  <2>5. ASSUME i # 1 PROVE i > 1 /\ Own(rx'[i - 1])
    <3>1. CASE rx' = rx
      <4>1. Confirms(i)
        BY <2>4, <3>1
      <4> QED BY <2>5, <3>1, <4>1 DEF Confirms
    <3>2. CASE rx # <<>> /\ rx' = Tail(rx)
      <4>1. rx'[i] = rx[i + 1] /\ i + 1 \in 1..Len(rx) /\ (i + 1) - 1 = i
        BY <1>1, <3>2, LinesLeft
      <4>2. i > 1 /\ i + 1 # 1
        BY <2>5
      <4>3. rx'[i - 1] = rx[i]
        BY <1>1, <3>2, <4>2, LinesLeft
      <4>4. Confirms(i + 1)
        BY <2>4, <4>1
      <4>5. Own(rx[(i + 1) - 1])
        BY <4>2, <4>4 DEF Confirms
      <4> QED BY <4>1, <4>2, <4>3, <4>5
    <3> QED BY <3>1, <3>2
  <2> QED BY <2>2, <2>5 DEF Confirms, Own
<1> QED BY <1>4, <1>5, <1>6

\* A goal of no connect() is one about the modem alone.
LEMMA GoalStays ==
  ASSUME task'.op = task.op, modem' = modem, Goal, net'.number = net.number \/ task.op # "connect"
  PROVE  Goal'
  BY DEF Goal

\* An order that was obeyed has done what was asked.
LEMMA OrderOn ==
  ASSUME DriverInv, TellInv, task.todo # <<>>, task'.todo = Rest, task'.op = task.op,
         modem' = modem, rx' = rx \/ (rx # <<>> /\ rx' = Tail(rx)),
         tx' = tx \/ (Step[1] \in {"send", "force"} /\ tx' = Append(tx, Step[2])),
         Step[1] \in Turns \/ (task'.ok => task.ok)
  PROVE  OrderInv'
<1> DEFINE t == task.todo
           r == Rest
           o == task.op
<1>1. t \in Seq(Steps) /\ t # <<>> /\ Told(t, o) /\ r = Tail(t) /\ Step = Head(t)
      /\ rx \in Seq(Lines) /\ tx \in Seq(Commands) /\ Step \in Steps
  BY InFunction, TaskFields DEF TellInv, Step
<1>2. /\ Turns \cap {"send", "force"} = {}
      /\ OrderInv /\ HeadInv /\ JudgeInv
  BY DEF Turns, TellInv
<1> HIDE DEF t, r, o
<1>3. Step = t[1]
  BY <1>1
<1> SUFFICES ASSUME Orders(r, o), task'.ok,
                    Okay(rx') \/ \E j \in 1..Len(tx') : tx'[j][1] = "NRB"
             PROVE  Goal'
  BY DEF OrderInv, Okay, r, o
<1>4. o # "connect"
  BY DEF Orders
<1>5. Okay(rx') => Okay(rx)
  <2>1. Among(rx', rx)
    BY <1>1, AmongThem
  <2> QED BY <2>1 DEF Okay, Among
<1>6. CASE Step[1] \in Turns
  <2>1. tx = <<>> /\ ~Okay(rx)
    BY <1>1, <1>2, <1>6 DEF HeadInv, Hushed, t
  <2>2. tx' = <<>>
    BY <1>2, <1>6, <2>1
  <2> QED BY <1>5, <2>1, <2>2
<1>7. CASE Step[1] \notin Turns
  <2>1. Orders(t, o) /\ task.ok
    BY <1>1, <1>3, <1>7, ToldViews
  <2>2. CASE Okay(rx) \/ \E j \in 1..Len(tx) : tx[j][1] = "NRB"
    BY <1>2, <1>4, <2>1, <2>2, GoalStays DEF OrderInv, t, o
  <2>3. CASE ~(Okay(rx) \/ \E j \in 1..Len(tx) : tx[j][1] = "NRB")
    <3> DEFINE c == Step[2]
    <3>1. (\E j \in 1..Len(tx') : tx'[j][1] = "NRB") /\ Step[1] \in {"send", "force"}
          /\ tx' = Append(tx, Step[2])
      BY <1>5, <2>3
    <3>2. c \in Commands
      BY <1>1, <3>1, StepIs
    <3> HIDE DEF c
    <3>3. c[1] = "NRB"
      <4>1. \A j \in 1..Len(tx') : (j \in 1..Len(tx) /\ tx'[j] = tx[j]) \/ tx'[j] = c
        BY <1>1, <3>1, <3>2, OneMore DEF c
      <4> QED BY <2>3, <3>1, <4>1
    <3>4. o = "reboot" /\ ~Pending(t, o)
      BY <1>1, <1>3, <3>1, <3>3, QueriesEnd DEF c
    <3> QED BY <1>2, <1>4, <2>1, <3>4, GoalStays DEF JudgeInv, Judged, t, o
  <2> QED BY <2>2, <2>3
<1> QED BY <1>6, <1>7

\* The step that decides has the goal when it goes on.
LEMMA JudgeOn ==
  ASSUME DriverInv, TellInv, task.todo # <<>>, task'.todo = Rest, task'.op = task.op,
         modem' = modem, Step[1] \in Turns \/ (task'.ok => task.ok),
         task'.ok /\ (Judges(task.todo, 1, task.op) \/ net'.number # net.number) => Goal'
  PROVE  JudgeInv'
<1> DEFINE t == task.todo
           r == Rest
           o == task.op
<1>1. t \in Seq(Steps) /\ t # <<>> /\ Told(t, o) /\ r = Tail(t) /\ Step = Head(t)
  BY InFunction, TaskFields DEF TellInv, Step
<1> HIDE DEF t, r, o
<1>3. Step = t[1] /\ Owner(t[1][1], o)
  BY <1>1, ToldRest
<1>2. ~Judges(t, 1, o) => Step[1] \notin Turns
  BY <1>3 DEF Judges, Turns, Owner
<1> SUFFICES ASSUME o \in Judged, task'.ok, ~Pending(r, o) PROVE Goal'
  BY DEF JudgeInv, r, o
<1>4. CASE Judges(t, 1, o) \/ net'.number # net.number
  BY <1>4 DEF t, o
<1>5. CASE ~Judges(t, 1, o) /\ net'.number = net.number
  <2>1. ~Pending(t, o)
    BY <1>1, <1>5, ToldViews
  <2>2. Goal
    BY <1>2, <1>5, <2>1 DEF TellInv, JudgeInv, t, o
  <2> QED BY <1>5, <2>2, GoalStays
<1> QED BY <1>4, <1>5

\* A function takes a step on.
LEMMA TellOn ==
  ASSUME DriverInv, TellInv, task.todo # <<>>, task'.todo = Rest, task'.op = task.op,
         modem' = modem, rx' = rx \/ (rx # <<>> /\ rx' = Tail(rx)),
         tx' = tx \/ (Step[1] \in {"send", "force"} /\ tx' = Append(tx, Step[2])),
         Step[1] \in Turns \/ (task'.ok => task.ok),
         Evident(task'.resp), Value(task'.val),
         task'.ok /\ Step[1] = "until" => task'.resp.tag = Step[2],
         task'.ok /\ Step[1] = "qiopen" => task'.resp.tag = "+QIOPEN:",
         task'.ok /\ Step[1] \in {"any", "confirm"} => Own(task'.resp),
         Step[1] = "flush" => Hushed',
         task'.ok /\ (Judges(task.todo, 1, task.op) \/ net'.number # net.number) => Goal'
  PROVE  TellInv'
<1>1. rx \in Seq(Lines) /\ task.todo \in Seq(Steps) /\ Told(task.todo, task.op)
  BY InFunction, TaskFields DEF TellInv
<1>2. Told(Rest, task.op)
  BY <1>1, ToldRest DEF Rest
<1>3. Among(rx', rx)
  BY <1>1, AmongThem
<1>4. LinesInv'
  BY <1>1, <1>3, LinesOn DEF TellInv
<1>5. Step[1] \in {"flush", "call"} => Hushed'
  <2>1. CASE Step[1] = "call"
    <3>1. Hushed
      BY <2>1 DEF TellInv, HeadInv
    <3>2. tx' = tx
      BY <2>1
    <3>3. Okay(rx') => Okay(rx)
      BY <1>3 DEF Okay, Among
    <3> QED BY <3>1, <3>2, <3>3 DEF Hushed, Okay
  <2> QED BY <2>1
<1>6. Value(task.val)'
  BY DEF Value
<1>7. WayInv' /\ HeadInv' /\ AskInv' /\ OrderInv' /\ JudgeInv'
  BY <1>5, WayOn, HeadOn, AskOn, OrderOn, JudgeOn
<1>8. Told(task.todo, task.op)'
  BY <1>2
<1> QED BY <1>4, <1>6, <1>7, <1>8 DEF TellInv

\* A function waits while a line is read that is not for it.
LEMMA TellWaits ==
  ASSUME DriverInv, TellInv, task.todo # <<>>, task' = task, modem' = modem, tx' = tx,
         net'.number = net.number, rx # <<>>, rx' = Tail(rx),
         ~Own(Head(rx)) \/ Step[1] \notin {"send"} \cup Asking
  PROVE  TellInv'
<1>1. rx \in Seq(Lines) /\ task.todo \in Seq(Steps) /\ Told(task.todo, task.op)
  BY InFunction, TaskFields DEF TellInv
<1>2. Among(rx', rx) /\ (Okay(rx') => Okay(rx))
  <2>1. Among(rx', rx)
    BY <1>1, AmongThem
  <2> QED BY <2>1 DEF Okay, Among
<1>3. LinesInv'
  BY <1>1, <1>2, LinesOn DEF TellInv, LinesInv
<1>4. WayInv' /\ Value(task.val)' /\ Told(task.todo, task.op)'
  BY DEF TellInv, WayInv, Value
<1>5. HeadInv'
  <2>1. Hushed => Hushed'
    BY <1>2 DEF Hushed, Okay
  <2> QED BY <2>1 DEF TellInv, HeadInv, Step
<1>6. Goal => Goal'
  BY GoalStays
<1>7. JudgeInv'
  BY <1>6 DEF TellInv, JudgeInv
<1>8. OrderInv'
  BY <1>2, <1>6 DEF TellInv, OrderInv, Okay
<1>9. AskInv'
  <2> SUFFICES ASSUME Has(task.todo, Asking), NEW i \in 1..Len(rx'), rx'[i].tag = "OK"
               PROVE  Confirms(i)'
    BY DEF AskInv
  <2>1. ~Own(rx[1])
    <3>1. Step[1] = "send" \/ Step[1] \in Asking
      <4>1. Step = task.todo[1]
        BY <1>1 DEF Step
      <4> QED BY <1>1, <4>1, ToldAsks
    <3> QED BY <1>1, <3>1, LinesLeft
  <2>2. rx'[i] = rx[i + 1] /\ i + 1 \in 1..Len(rx) /\ (i + 1) - 1 = i /\ i + 1 # 1
    BY <1>1, LinesLeft
  <2>3. Confirms(i + 1)
    BY <2>2 DEF TellInv, AskInv
  <2>4. Own(rx[i])
    BY <2>2, <2>3 DEF Confirms
  <2>5. i > 1 /\ rx'[i - 1] = rx[i]
    BY <1>1, <2>1, <2>4, LinesLeft
  <2> QED BY <2>4, <2>5 DEF Confirms, Own
<1> QED BY <1>3, <1>4, <1>5, <1>7, <1>8, <1>9 DEF TellInv

\* The last "OK" a function reads is the answer to its order.
LEMMA ToldLast ==
  ASSUME NEW t \in Seq(Steps), t # <<>>, NEW o, Told(t, o)
  PROVE  /\ Judges(t, 1, o) /\ t[1][1] = "until" => t[1][2] = "OK" /\ Orders(t, o)
         /\ Judges(t, 1, o) /\ t[1][1] = "ok" => Orders(t, o)
         /\ t[1][1] = "assign" => ~Pending(t, o) /\ o = "switchModem"
<1>1. Len(t) \in Nat /\ 1 \in 1..Len(t) /\ After(t, 1, o) /\ Stands(t, 1) /\ Owner(t[1][1], o)
  BY ToldRest
<1>2. ASSUME NEW i \in 1..Len(t), t[i][1] \in Turns, i # 1
      PROVE  i - 1 \in 1..Len(t) /\ t[i - 1][1] \in {"flush", "call"}
  <2>1. i > 1 /\ i - 1 \in 1..Len(t)
    BY <1>2
  <2>2. Before(t[i - 1], t[i], o)
    BY <2>1 DEF Told
  <2> QED BY <1>2, <2>1, <2>2 DEF Before
<1>3. ASSUME t[1][1] = "until", Judges(t, 1, o) PROVE t[1][2] = "OK" /\ Orders(t, o)
  <2>1. o = "reboot" /\ Ahead(t, 1, 2, {"force"})
    BY <1>3 DEF Judges, Turns
  <2>2. 1 + 2 = 3 /\ 1 + 1 = 2 /\ 2 + 2 = 4 /\ 3 + 2 = 5 /\ 4 + 1 = 5 /\ 5 + 2 = 7
    OBVIOUS
  <2>3. 3 \in 1..Len(t) /\ t[3][1] = "force"
    BY <2>1, <2>2 DEF Ahead
  <2>4. Len(t) = 5
    <3>1. 3 + 2 = Len(t)
      BY <2>3 DEF Told, Stands
    <3> QED BY <3>1
  <2>5. t[5][1] # "force"
    <3>1. SUFFICES ASSUME t[5][1] = "force" PROVE FALSE
      OBVIOUS
    <3>2. 5 + 2 = Len(t)
      <4>1. 5 \in 1..Len(t)
        BY <2>4
      <4> QED BY <3>1, <4>1 DEF Told, Stands
    <3> QED BY <2>2, <2>4, <3>2
  <2>6. ASSUME NEW i \in 1..Len(t) PROVE t[i][1] \notin Turns
    <3>1. SUFFICES ASSUME t[i][1] \in Turns PROVE FALSE
      OBVIOUS
    <3>2. t[i][1] = "qregswt"
      BY <2>1, <3>1 DEF Turns, Told, Owner
    <3>3. Ahead(t, i, 1, {"force"})
      BY <3>2 DEF Told, After
    <3>4. i + 1 \in 1..Len(t) /\ t[i + 1][1] = "force"
      BY <3>3 DEF Ahead
    <3>5. (i + 1) + 2 = Len(t)
      BY <3>4 DEF Told, Stands
    <3>6. i = 2
      BY <2>4, <3>5
    <3>7. t[1][1] \in {"flush", "call"}
      <4>1. i # 1 /\ i - 1 = 1
        BY <3>6
      <4>2. t[i - 1][1] \in {"flush", "call"}
        BY <1>2, <3>1, <4>1
      <4> QED BY <4>1, <4>2
    <3> QED BY <1>3, <3>7
  <2>7. t[1][2] = "OK"
    <3>1. SUFFICES ASSUME t[1][2] # "OK" PROVE FALSE
      OBVIOUS
    <3>2. Ahead(t, 1, 1, {"number"})
      BY <1>1, <1>3, <2>1, <3>1 DEF After
    <3>3. 2 \in 1..Len(t) /\ t[2][1] \in Sensors
      BY <2>2, <3>2 DEF Ahead, Sensors
    <3>4. Ahead(t, 2, 2, Turns)
      <4>1. After(t, 2, o)
        BY <3>3 DEF Told
      <4> QED BY <2>1, <3>3, <4>1 DEF After
    <3>5. 4 \in 1..Len(t) /\ t[4][1] \in Turns
      BY <2>2, <3>4 DEF Ahead
    <3> QED BY <2>6, <3>5
  <2> QED BY <2>1, <2>6, <2>7 DEF Orders, Has
<1>4. ASSUME t[1][1] \in {"ok", "assign"}, o = "switchModem" PROVE ~Has(t, Turns)
  <2>1. \E k \in {1, 2} : k \in 1..Len(t) /\ t[k][1] = "assign"
    <3>1. ASSUME t[1][1] = "ok" PROVE 2 \in 1..Len(t) /\ t[2][1] = "assign"
      <4>1. Ahead(t, 1, 1, {"assign"})
        BY <1>1, <1>4, <3>1 DEF After
      <4>2. 1 + 1 = 2
        OBVIOUS
      <4> QED BY <4>1, <4>2 DEF Ahead
    <3> QED BY <1>1, <1>4, <3>1
  <2>2. PICK k \in {1, 2} : k \in 1..Len(t) /\ t[k][1] = "assign"
    BY <2>1
  <2>3. k + 1 = Len(t) /\ t[k + 1][1] = "flush"
    BY <2>2 DEF Told, Stands
  <2>4. SUFFICES ASSUME NEW i \in 1..Len(t), t[i][1] \in Turns PROVE FALSE
    BY DEF Has
  <2>5. t[i][1] = "switch"
    BY <1>4, <2>4 DEF Turns, Told, Owner
  <2>6. i = Len(t)
    BY <2>5 DEF Told, Stands
  <2> QED BY <2>3, <2>5, <2>6
<1>5. ASSUME t[1][1] = "ok", Judges(t, 1, o) PROVE Orders(t, o)
  <2>1. o \in {"attach", "detach", "switchModem"}
    BY <1>5 DEF Judges, Turns
  <2> QED BY <1>4, <1>5, <2>1 DEF Orders
<1>6. ASSUME t[1][1] = "assign" PROVE ~Pending(t, o) /\ o = "switchModem"
  <2>1. o = "switchModem"
    BY <1>1, <1>6 DEF Owner
  <2>2. 1 + 1 = Len(t) /\ t[1 + 1][1] = "flush"
    BY <1>1, <1>6 DEF Stands
  <2>3. \A i \in 1..Len(t) : i = 1 \/ i = 1 + 1
    <3>1. Len(t) = 2
      BY <2>2
    <3> QED BY <3>1
  <2>4. \A i \in 1..Len(t) : t[i][1] \in {"assign", "flush"}
    BY <1>6, <2>2, <2>3
  <2>5. \A i \in 1..Len(t) : ~Judges(t, i, o)
    BY <2>1, <2>4 DEF Judges, Turns
  <2> QED BY <2>1, <2>5 DEF Pending
<1> QED BY <1>3, <1>5, <1>6

\* REPLY_ANY takes the line; "OK" has to follow.
LEMMA TellAny ==
  ASSUME DriverInv, TellInv, readAny, UNCHANGED drvVars
  PROVE  TellInv'
<1> DEFINE c == <<"confirm", "">>
           t == task.todo
           o == task.op
           w == task'.todo
           p == <<c>>
<1>1. /\ t # <<>> /\ rx # <<>> /\ rx' = Tail(rx) /\ tx' = tx /\ Counters
      /\ Step[1] = "any" /\ w = p \o Rest /\ task'.resp = Head(rx) /\ task'.ok = task.ok
  BY ReadDoes
<1>2. modem' = modem /\ net' = net /\ task'.op = o /\ task'.val = task.val
  BY <1>1 DEF drvVars, Counters
<1>3. /\ t \in Seq(Steps) /\ Told(t, o) /\ Rest = Tail(t) /\ Step = t[1] /\ rx \in Seq(Lines)
      /\ Len(t) \in Nat /\ 1 \in 1..Len(t)
      /\ Rest \in Seq(Steps) /\ Len(Rest) = Len(t) - 1
      /\ \A i \in 1..Len(Rest) : Rest[i] = t[i + 1]
  BY <1>1, Left, InFunction DEF TellInv
<1>4. c \in Steps /\ c[1] = "confirm"
  <2>1. Do("confirm") \in Steps /\ Do("confirm") = c
    BY StepsAre DEF Simple, Do
  <2> QED BY <2>1
<1> HIDE DEF c, t, o
<1>5. p \in Seq(Steps) /\ Len(p) = 1 /\ p[1] = c
  BY <1>4
<1> HIDE DEF p
<1>6. /\ w \in Seq(Steps) /\ Len(w) = Len(t) /\ w # <<>> /\ w[1] = c /\ Head(w) = c
      /\ \A i \in 1..Len(w) : i # 1 => w[i] = t[i]
  <2>1. /\ p \o Rest \in Seq(Steps) /\ Len(p \o Rest) = Len(p) + Len(Rest)
        /\ \A i \in 1..Len(p) + Len(Rest) :
             (p \o Rest)[i] = IF i <= Len(p) THEN p[i] ELSE Rest[i - Len(p)]
    <3>1. p \in Seq(Steps) /\ Rest \in Seq(Steps)
      BY <1>3, <1>5
    <3> QED BY <3>1, ConcatProperties, Zenon
  <2>2. Len(w) = Len(t)
    BY <1>1, <1>3, <1>5, <2>1
  <2>3. w \in Seq(Steps) /\ w # <<>> /\ w[1] = c
    BY <1>1, <1>3, <1>5, <2>1, <2>2
  <2>4. ASSUME NEW i \in 1..Len(w), i # 1 PROVE w[i] = t[i]
    <3>1. i \in 1..1 + Len(Rest) /\ ~(i <= 1) /\ i - 1 \in 1..Len(Rest) /\ (i - 1) + 1 = i
      BY <1>3, <2>2, <2>4
    <3>2. w[i] = Rest[i - 1]
      BY <1>1, <1>5, <2>1, <3>1
    <3>3. Rest[i - 1] = t[(i - 1) + 1]
      BY <1>3, <3>1
    <3> QED BY <3>1, <3>2, <3>3
  <2> QED BY <2>2, <2>3, <2>4
<1> HIDE DEF w
<1>7. /\ Told(w, o) /\ Has(t, Asking)
      /\ Orders(w, o) <=> Orders(t, o)
      /\ Pending(w, o) <=> Pending(t, o)
  BY <1>1, <1>3, <1>4, <1>6, ToldConfirm DEF t
<1>8. /\ Step' = c /\ task'.todo = w
  BY <1>6 DEF Step, w
<1>9. Among(rx', rx) /\ (Okay(rx') => Okay(rx)) /\ Head(rx) = rx[1] /\ 1 \in 1..Len(rx)
  <2>1. Among(rx', rx)
    BY <1>1, <1>3, AmongThem
  <2> QED BY <1>1, <1>3, <2>1, LinesLeft DEF Okay, Among
<1>10. Told(task.todo, task.op)'
  BY <1>2, <1>7, <1>8 DEF o
<1>11. WayInv'
  <2>1. WayInv
    BY DEF TellInv
  <2> QED BY <1>1, <1>2, <1>7, <1>8, <2>1 DEF WayInv, t, o
<1>12. LinesInv'
  <2>1. LinesInv
    BY DEF TellInv
  <2>2. Evident(rx[1])
    BY <1>9, <2>1 DEF LinesInv
  <2>3. Evident(task'.resp)
    BY <1>1, <1>9, <2>2
  <2> QED BY <1>2, <1>3, <1>9, <2>1, <2>3, LinesOn DEF o
<1>13. Value(task.val)'
  BY <1>2 DEF TellInv, Value, o
<1>14. HeadInv'
  BY <1>4, <1>8 DEF HeadInv, Turns
<1>15. AskInv'
  <2> SUFFICES ASSUME NEW i \in 1..Len(rx'), rx'[i].tag = "OK" PROVE Confirms(i)'
    BY DEF AskInv
  <2>1. rx'[i] = rx[i + 1] /\ i + 1 \in 1..Len(rx) /\ (i + 1) - 1 = i /\ i + 1 # 1
    BY <1>1, <1>3, LinesLeft
  <2>2. Confirms(i + 1)
    BY <1>7, <2>1 DEF TellInv, AskInv, t
  <2>3. Own(rx[i])
    BY <2>1, <2>2 DEF Confirms
  <2>4. CASE i = 1
    BY <1>1, <1>4, <1>8, <1>9, <2>3, <2>4 DEF Confirms, Own
  <2>5. CASE i # 1
    <3>1. i > 1 /\ rx'[i - 1] = rx[i]
      BY <1>1, <1>3, <2>5, LinesLeft
    <3> QED BY <2>3, <3>1 DEF Confirms, Own
  <2> QED BY <2>4, <2>5
<1>16. Goal => Goal'
  BY <1>2, GoalStays DEF o
<1>17. OrderInv'
  BY <1>1, <1>2, <1>7, <1>8, <1>9, <1>16 DEF TellInv, OrderInv, Okay, t, o
<1>18. JudgeInv'
  BY <1>1, <1>2, <1>7, <1>8, <1>16 DEF TellInv, JudgeInv, t, o
<1> QED BY <1>10, <1>11, <1>12, <1>13, <1>14, <1>15, <1>17, <1>18 DEF TellInv

\* What the lines at hand say.
LEMMA AtHand ==
  ASSUME DriverInv, TellInv
  PROVE  /\ Evident(task.resp) /\ Evident(NoLine)
         /\ rx # <<>> => Evident(Head(rx)) /\ Head(rx) = rx[1] /\ 1 \in 1..Len(rx)
<1>1. rx \in Seq(Lines)
  BY DEF DriverInv, WireInv
<1>2. rx # <<>> => Head(rx) = rx[1] /\ 1 \in 1..Len(rx)
  BY <1>1
<1>3. NoLine.tag = ""
  BY DEF NoLine, Line
<1>4. Evident(NoLine)
  BY <1>3 DEF Evident
<1>5. LinesInv
  BY DEF TellInv
<1>6. rx # <<>> => Evident(Head(rx))
  BY <1>2, <1>5 DEF LinesInv
<1> QED BY <1>2, <1>4, <1>5, <1>6 DEF LinesInv

\* sendCommand(), and what is left out or given up.
LEMMA TellGives ==
  ASSUME DriverInv, TellInv, sendCommand \/ readTimeout \/ skipStep(Guarded), UNCHANGED drvVars,
         task'.clean
  PROVE  TellInv'
<1>1. modem' = modem /\ net' = net
  BY DEF drvVars
<1>2. Evident(task.resp) /\ Evident(NoLine) /\ Value(task.val)
  BY AtHand DEF TellInv
<1>3. CASE sendCommand
  <2>1. /\ task.todo # <<>> /\ Step[1] = "send" /\ task.ok /\ task'.todo = Rest
        /\ task'.op = task.op /\ task'.val = task.val /\ task'.resp = task.resp
        /\ rx' = rx /\ (tx' = tx \/ tx' = Append(tx, Step[2]))
    BY <1>3, SendDoes DEF Ready, At, Counters
  <2>2. ~Judges(task.todo, 1, task.op)
    <3>1. Step = task.todo[1]
      BY <2>1, Left
    <3> QED BY <2>1, <3>1 DEF Judges, Turns
  <2> QED BY <1>1, <1>2, <2>1, <2>2, TellOn
<1>4. CASE readTimeout
  <2>1. /\ task.todo # <<>> /\ Step[1] \in Readers /\ (task.ok \/ Step[1] = "flush")
        /\ task'.todo = Rest /\ task'.op = task.op /\ task'.val = task.val
        /\ rx' = rx /\ tx' = tx /\ rx = <<>> /\ tx = <<>>
        /\ Step[1] = "flush" => task'.ok = task.ok /\ task'.resp = task.resp
        /\ Step[1] \notin {"flush", "copy"} => ~task'.ok
        /\ Step[1] # "flush" => task'.resp = NoLine
    BY <1>4, TimeoutDoes DEF Counters
  <2>2. Step = task.todo[1] /\ task.todo \in Seq(Steps)
    BY <2>1, Left
  <2>3. Step[1] # "copy"
    <3>1. Owner(Step[1], task.op)
      BY <2>1, <2>2, ToldRest DEF TellInv
    <3> QED BY <3>1 DEF Owner, TellKinds
  <2>4. Evident(task'.resp)
    BY <1>2, <2>1
  <2>5. Hushed'
    <3>1. rx' = <<>> /\ tx' = <<>>
      BY <2>1
    <3> QED BY <3>1 DEF Hushed, Okay
  <2>6. CASE Step[1] = "flush"
    <3>1. ~Judges(task.todo, 1, task.op)
      BY <2>2, <2>6 DEF Judges, Turns
    <3> QED BY <1>1, <1>2, <2>1, <2>4, <2>5, <2>6, <3>1, TellOn
  <2>7. CASE Step[1] # "flush"
    <3>1. ~task'.ok
      BY <2>1, <2>3, <2>7
    <3> QED BY <1>1, <1>2, <2>1, <2>4, <2>7, <3>1, TellOn
  <2> QED BY <2>6, <2>7
<1>5. CASE skipStep(Guarded)
  <2>1. /\ task.todo # <<>> /\ Step[1] \in Guarded /\ ~task.ok
        /\ task'.todo = Rest /\ task'.op = task.op /\ task'.val = task.val
        /\ rx' = rx /\ tx' = tx /\ task'.ok = task.ok /\ task'.resp = task.resp
    BY <1>5, SkipDoes DEF Counters
  <2>2. Step[1] # "flush" /\ ~task'.ok
    BY <2>1 DEF Guarded
  <2> QED BY <1>1, <1>2, <2>1, <2>2, TellOn
<1> QED BY <1>3, <1>4, <1>5

\* The readers.
LEMMA TellReads ==
  ASSUME DriverInv, TellInv,
         readOk \/ readAny \/ readConfirm \/ readExact \/ readCopy \/ readIgnore \/ readUntil,
         UNCHANGED drvVars
  PROVE  TellInv'
<1>1. modem' = modem /\ net' = net
  BY DEF drvVars
<1>2. Evident(task.resp) /\ Evident(NoLine) /\ Value(task.val) /\ Evident(Head(rx))
      /\ Head(rx) = rx[1] /\ 1 \in 1..Len(rx)
  BY AtHand, ReadDoes DEF TellInv
<1>3. /\ task.todo # <<>> /\ rx # <<>> /\ rx' = Tail(rx) /\ tx' = tx
      /\ task'.op = task.op /\ task'.val = task.val /\ (task.ok \/ Step[1] = "flush")
  BY ReadDoes DEF Counters
<1>4. Step = task.todo[1] /\ task.todo \in Seq(Steps) /\ Told(task.todo, task.op)
  BY <1>3, Left DEF TellInv
<1>5. Owner(Step[1], task.op)
  BY <1>3, <1>4, ToldRest
<1>6. ~readExact /\ ~readCopy
  BY <1>5, ReadDoes DEF Owner, TellKinds
<1>7. OkReply.tag = "OK"
  BY DEF OkReply, Line
<1>8. CASE readOk
  <2>1. /\ Step[1] = "ok" /\ task'.todo = Rest /\ task'.resp = Head(rx)
        /\ task'.ok = (Head(rx) = OkReply) /\ task.ok
    BY <1>3, <1>8, ReadDoes
  <2>2. ASSUME task'.ok, Judges(task.todo, 1, task.op) PROVE Goal'
    <3>1. Okay(rx)
      BY <1>2, <1>7, <2>1, <2>2 DEF Okay
    <3>2. Orders(task.todo, task.op)
      BY <1>3, <1>4, <2>1, <2>2, ToldLast
    <3>3. Goal
      BY <2>1, <3>1, <3>2 DEF TellInv, OrderInv
    <3> QED BY <1>1, <1>3, <3>3, GoalStays
  <2> QED BY <1>1, <1>2, <1>3, <2>1, <2>2, TellOn
<1>9. CASE readConfirm
  <2>1. /\ Step[1] = "confirm" /\ task'.todo = Rest
        /\ task'.ok = (Head(rx) = OkReply)
        /\ (Head(rx) = OkReply => task'.resp = task.resp)
        /\ (Head(rx) # OkReply => task'.resp = NoLine) /\ task.ok
    BY <1>3, <1>9, ReadDoes
  <2>2. Evident(task'.resp)
    BY <1>2, <2>1
  <2>3. ASSUME task'.ok PROVE Own(task'.resp)
    <3>1. rx[1].tag = "OK" /\ task'.resp = task.resp
      BY <1>2, <1>7, <2>1, <2>3
    <3>2. Has(task.todo, Asking)
      BY <1>3, <1>4, <2>1, ToldViews DEF Asking
    <3>3. Confirms(1)
      BY <1>2, <3>1, <3>2 DEF TellInv, AskInv
    <3> QED BY <2>1, <3>1, <3>3 DEF Confirms
  <2>4. ~Judges(task.todo, 1, task.op)
    BY <1>4, <2>1 DEF Judges, Turns
  <2> QED BY <1>1, <1>2, <1>3, <2>1, <2>2, <2>3, <2>4, TellOn
<1>10. CASE readIgnore
  <2>1. Step[1] = "flush" /\ task' = task
    BY <1>10, ReadDoes
  <2>2. Step[1] \notin {"send"} \cup Asking
    BY <2>1 DEF Asking
  <2> QED BY <1>1, <1>3, <2>1, <2>2, TellWaits
<1>11. CASE readUntil
  <2>1. /\ Step[1] = "until" /\ task.ok
        /\ Head(rx).tag # Step[2] => task' = task
        /\ Head(rx).tag = Step[2] => /\ task'.todo = Rest /\ task'.resp = Head(rx)
                                     /\ task'.ok = task.ok
    BY <1>3, <1>11, ReadDoes
  <2>2. CASE Head(rx).tag # Step[2]
    <3>1. Step[1] \notin {"send"} \cup Asking
      BY <2>1 DEF Asking
    <3> QED BY <1>1, <1>3, <2>1, <2>2, <3>1, TellWaits
  <2>3. CASE Head(rx).tag = Step[2]
    <3>1. ASSUME Judges(task.todo, 1, task.op) PROVE Goal'
      <4>1. Step[2] = "OK" /\ Orders(task.todo, task.op)
        BY <1>3, <1>4, <2>1, <3>1, ToldLast
      <4>2. Okay(rx)
        BY <1>2, <2>3, <4>1 DEF Okay
      <4>3. Goal
        BY <2>1, <4>1, <4>2 DEF TellInv, OrderInv
      <4> QED BY <1>1, <1>3, <4>3, GoalStays
    <3> QED BY <1>1, <1>2, <1>3, <2>1, <2>3, <3>1, TellOn
  <2> QED BY <2>2, <2>3
<1> QED BY <1>6, <1>8, <1>9, <1>10, <1>11, TellAny

\* The function as it is after a step that notes one thing.
LEMMA Notes1 ==
  ASSUME DriverInv, task.todo # <<>>
  PROVE  \A v :
    /\ task' = Go => /\ task'.todo = Rest /\ task'.op = task.op /\ task'.ok = task.ok
                     /\ task'.resp = task.resp /\ task'.val = task.val
    /\ task' = [Go EXCEPT !.val = v] =>
         /\ task'.todo = Rest /\ task'.op = task.op /\ task'.ok = task.ok
         /\ task'.resp = task.resp /\ task'.val = v
    /\ task' = [Go EXCEPT !.ok = v] =>
         /\ task'.todo = Rest /\ task'.op = task.op /\ task'.ok = v
         /\ task'.resp = task.resp /\ task'.val = task.val
    /\ task' = [Go EXCEPT !.resp = v] =>
         /\ task'.todo = Rest /\ task'.op = task.op /\ task'.ok = task.ok
         /\ task'.resp = v /\ task'.val = task.val
<1>1. Moved(Go, Rest)
  BY GoMoves
<1>2. Go \in TaskType
  BY <1>1 DEF Moved
<1> SUFFICES ASSUME NEW v
             PROVE  /\ task' = Go => /\ task'.todo = Rest /\ task'.op = task.op /\ task'.ok = task.ok
                                     /\ task'.resp = task.resp /\ task'.val = task.val
                    /\ task' = [Go EXCEPT !.val = v] =>
                         /\ task'.todo = Rest /\ task'.op = task.op /\ task'.ok = task.ok
                         /\ task'.resp = task.resp /\ task'.val = v
                    /\ task' = [Go EXCEPT !.ok = v] =>
                         /\ task'.todo = Rest /\ task'.op = task.op /\ task'.ok = v
                         /\ task'.resp = task.resp /\ task'.val = task.val
                    /\ task' = [Go EXCEPT !.resp = v] =>
                         /\ task'.todo = Rest /\ task'.op = task.op /\ task'.ok = task.ok
                         /\ task'.resp = v /\ task'.val = task.val
  OBVIOUS
<1>3. ASSUME task' = Go
      PROVE  /\ task'.todo = Rest /\ task'.op = task.op /\ task'.ok = task.ok
             /\ task'.resp = task.resp /\ task'.val = task.val
  BY <1>1, <1>3 DEF Moved
<1>4. ASSUME task' = [Go EXCEPT !.val = v]
      PROVE  /\ task'.todo = Rest /\ task'.op = task.op /\ task'.ok = task.ok
             /\ task'.resp = task.resp /\ task'.val = v
  BY <1>1, <1>2, <1>4 DEF Moved, TaskType
<1>5. ASSUME task' = [Go EXCEPT !.ok = v]
      PROVE  /\ task'.todo = Rest /\ task'.op = task.op /\ task'.ok = v
             /\ task'.resp = task.resp /\ task'.val = task.val
  BY <1>1, <1>2, <1>5 DEF Moved, TaskType
<1>6. ASSUME task' = [Go EXCEPT !.resp = v]
      PROVE  /\ task'.todo = Rest /\ task'.op = task.op /\ task'.ok = task.ok
             /\ task'.resp = v /\ task'.val = task.val
  BY <1>1, <1>2, <1>6 DEF Moved, TaskType
<1> QED BY <1>3, <1>4, <1>5, <1>6

\* Where the function is.
LEMMA TellAt ==
  ASSUME DriverInv, TellInv, task.todo # <<>>
  PROVE  /\ Step = task.todo[1] /\ task.todo \in Seq(Steps) /\ Told(task.todo, task.op)
         /\ Owner(Step[1], task.op) /\ Carries(Step, task.op) /\ Value(task.val)
         /\ Evident(task.resp)
<1>1. Step = task.todo[1] /\ task.todo \in Seq(Steps) /\ Told(task.todo, task.op)
  BY Left DEF TellInv
<1>2. Owner(Step[1], task.op) /\ Carries(Step, task.op)
  BY <1>1, ToldRest
<1> QED BY <1>1, <1>2, AtHand DEF TellInv

\* What the functions make of a response.
LEMMA TellResponse ==
  ASSUME DriverInv, TellInv, responseStep
  PROVE  TellInv'
<1>1. task.todo # <<>> /\ task.ok
      /\ Step[1] \in {"number", "onOff", "afterColon", "sendOk", "fits"}
  BY DEF responseStep, Ready, At
<1>2. /\ Step = task.todo[1] /\ Owner(Step[1], task.op) /\ Evident(task.resp)
      /\ rx' = rx /\ tx' = tx /\ modem' = modem /\ net' = net
  BY <1>1, TellAt DEF responseStep, Internal, Quiet, drvVars
<1>3. /\ Step[1] \in {"number", "onOff", "afterColon"}
      /\ Step[1] = "number" => task.op \in {"isAttached", "reboot"}
      /\ Step[1] \in {"onOff", "afterColon"} => task.op \in OnOps
  BY <1>1, <1>2 DEF Owner, TellKinds
<1>4. ~Judges(task.todo, 1, task.op)
  BY <1>2, <1>3 DEF Judges, Turns
<1>5. ASSUME NEW v, task' = [Go EXCEPT !.val = v], Value(v) PROVE TellInv'
  <2>1. /\ task'.todo = Rest /\ task'.op = task.op /\ task'.ok = task.ok
        /\ task'.resp = task.resp /\ task'.val = v
    BY <1>1, <1>5, Notes1
  <2> QED BY <1>1, <1>2, <1>3, <1>4, <1>5, <2>1, TellOn
<1>6. /\ OnOps = {"isModemOn", "switchModem", "initialize"}
      /\ TagOf("isAttached") = "+CGATT:" /\ TagOf("reboot") = "+QREGSWT:"
      /\ \A o \in OnOps : TagOf(o) = "+CFUN:"
  BY DEF OnOps, TagOf
<1>7. /\ Step[1] \in {"number", "onOff"} => task.resp.tag = TagOf(task.op)
      /\ Step[1] = "afterColon" => Own(task.resp)
  BY <1>1 DEF TellInv, HeadInv
<1>8. CASE Step[1] = "number"
  <2>1. task' = [Go EXCEPT !.val = task.resp.n]
    BY <1>8 DEF responseStep, Ready, At
  <2>2. Value(task.resp.n)
    <3>1. task.op \notin OnOps
      BY <1>3, <1>6, <1>8
    <3>2. task.op = "isAttached" \/ task.op = "reboot"
      BY <1>3, <1>8
    <3> QED BY <1>2, <1>6, <1>7, <1>8, <3>1, <3>2 DEF Evident, Value
  <2> QED BY <1>5, <2>1, <2>2
<1>9. CASE Step[1] = "onOff"
  <2> DEFINE v == IF task.resp.n = 0 THEN 0 ELSE 1
  <2>1. task' = [Go EXCEPT !.val = v]
    BY <1>9 DEF responseStep, Ready, At
  <2>2. v = 1 => task.resp.n # 0
    OBVIOUS
  <2> HIDE DEF v
  <2>3. Value(v)
    <3>1. task.resp.tag = "+CFUN:" /\ task.op \in OnOps
      BY <1>3, <1>6, <1>7, <1>9
    <3>2. task.op # "isAttached" /\ task.op # "reboot"
      BY <1>6, <3>1
    <3> QED BY <1>2, <2>2, <3>1, <3>2 DEF Evident, Value
  <2> QED BY <1>5, <2>1, <2>3
<1>10. CASE Step[1] = "afterColon"
  <2> DEFINE v == IF HasColon(task.resp) /\ task.resp.n = 1 THEN 1 ELSE 0
  <2>1. task' = [Go EXCEPT !.val = v]
    BY <1>10 DEF responseStep, Ready, At
  <2>2. v = 1 => HasColon(task.resp) /\ task.resp.n # 0
    OBVIOUS
  <2> HIDE DEF v
  <2>3. Value(v)
    <3>1. v = 1 => task.resp.tag = "+CFUN:"
      BY <1>7, <1>10, <2>2 DEF Own, HasColon, Urcs
    <3>2. task.op \in OnOps /\ task.op # "isAttached" /\ task.op # "reboot"
      BY <1>3, <1>6, <1>10
    <3> QED BY <1>2, <2>2, <3>1, <3>2 DEF Evident, Value
  <2> QED BY <1>5, <2>1, <2>3
<1> QED BY <1>3, <1>8, <1>9, <1>10

\* The Network enters the socket the modem has opened.
LEMMA TellOpens ==
  ASSUME DriverInv, TellInv, openStep \/ bgOpenStep
  PROVE  TellInv'
<1>1. task.todo # <<>> /\ task.ok /\ Step[1] \in {"open", "bgOpen"}
      /\ rx' = rx /\ tx' = tx /\ modem' = modem
  BY DEF openStep, bgOpenStep, Ready, At, Quiet
<1>2. task.op = "connect" /\ Evident(task.resp) /\ Value(task.val)
  BY <1>1, TellAt DEF Owner
<1>3. net \in NetType
  BY DEF DriverInv, NetInv
<1>4. \A n : Connected(n).number = n
  BY <1>3 DEF Connected, NetType
<1>5. ASSUME NEW n, net' = Connected(n), n \in modem.open, task'.op = task.op PROVE Goal'
  BY <1>1, <1>2, <1>4, <1>5 DEF Goal, OnOps
<1>6. CASE openStep
  <2> DEFINE n == IF task.resp.tag = "number" THEN task.resp.n ELSE 0
             valid == 0 <= n /\ n < maxSocket
  <2>1. /\ net' = IF valid THEN Connected(n) ELSE Disconnected
        /\ task' = [Go EXCEPT !.ok = valid] /\ Step[1] = "open"
    BY <1>6 DEF openStep, Ready, At
  <2>2. task.resp.tag = "number" => n = task.resp.n
    OBVIOUS
  <2>3. Own(task.resp)
    BY <1>1, <2>1 DEF TellInv, HeadInv
  <2>4. n \in modem.open
    BY <1>2, <2>2, <2>3 DEF Evident, Own
  <2>5. valid = TRUE \/ valid = FALSE
    OBVIOUS
  <2> HIDE DEF n, valid
  <2>6. /\ task'.todo = Rest /\ task'.op = task.op /\ task'.ok = valid
        /\ task'.resp = task.resp /\ task'.val = task.val
    BY <1>1, <2>1, Notes1
  <2>7. task'.ok => Goal'
    BY <1>5, <2>1, <2>4, <2>6
  <2> QED BY <1>1, <1>2, <2>1, <2>6, <2>7, TellOn
<1>7. CASE bgOpenStep
  <2>1. net' = Connected(task.resp.n) /\ task' = Go /\ Step[1] = "bgOpen"
    BY <1>7 DEF bgOpenStep, Ready, At
  <2>2. /\ task'.todo = Rest /\ task'.op = task.op /\ task'.ok = task.ok
        /\ task'.resp = task.resp /\ task'.val = task.val
    BY <1>1, <2>1, Notes1
  <2>3. task.resp.tag = "+QIOPEN:"
    BY <1>1, <2>1 DEF TellInv, HeadInv
  <2>4. Goal'
    BY <1>2, <1>5, <2>1, <2>2, <2>3 DEF Evident
  <2> QED BY <1>1, <1>2, <2>1, <2>2, <2>4, TellOn
<1> QED BY <1>6, <1>7

\* connect() waits for the URC that confirms the socket, and installs the filter.
LEMMA TellConnects ==
  ASSUME DriverInv, TellInv, qiopenStep \/ filterStep
  PROVE  TellInv'
<1>1. CASE qiopenStep
  <2>1. /\ task.todo # <<>> /\ Step[1] = "qiopen" /\ task.ok
        /\ rx # <<>> /\ rx' = Tail(rx) /\ tx' = tx /\ modem' = modem /\ net' = net
        /\ \/ Head(rx).tag = "+QIOPEN:" /\ task' = [Go EXCEPT !.resp = Head(rx)]
           \/ task' = task
    BY <1>1 DEF qiopenStep, Sees, At, drvVars
  <2>2. CASE task' = task
    <3>1. Step[1] \notin {"send"} \cup Asking
      BY <2>1 DEF Asking
    <3> QED BY <2>1, <2>2, <3>1, TellWaits
  <2>3. CASE Head(rx).tag = "+QIOPEN:" /\ task' = [Go EXCEPT !.resp = Head(rx)]
    <3>1. /\ task'.todo = Rest /\ task'.op = task.op /\ task'.ok = task.ok
          /\ task'.resp = Head(rx) /\ task'.val = task.val
      BY <2>1, <2>3, Notes1
    <3>2. Evident(Head(rx)) /\ Value(task.val) /\ Step = task.todo[1]
      BY <2>1, AtHand, TellAt
    <3>3. ~Judges(task.todo, 1, task.op)
      BY <2>1, <3>2 DEF Judges, Turns
    <3> QED BY <2>1, <2>3, <3>1, <3>2, <3>3, TellOn
  <2> QED BY <2>1, <2>2, <2>3
<1>2. CASE filterStep
  <2>1. /\ task.todo # <<>> /\ Step[1] \in {"ceregFilter", "pmFilter", "filter"} /\ task.ok
        /\ rx' = rx /\ tx' = tx /\ modem' = modem /\ task' = Go
    BY <1>2 DEF filterStep, Ready, At
  <2>2. Value(task.val) /\ Evident(task.resp) /\ Step = task.todo[1] /\ Owner(Step[1], task.op)
    BY <2>1, TellAt
  <2>3. Step[1] = "filter"
    BY <2>1, <2>2 DEF Owner, TellKinds
  <2>4. net'.number = net.number
    <3>1. net \in NetType
      BY DEF DriverInv, NetInv
    <3>2. \E f : net' = [net EXCEPT !.nsonmi = f]
      BY <1>2, <2>3, Zenon DEF filterStep, Ready, At
    <3> QED BY <3>1, <3>2 DEF NetType
  <2>5. /\ task'.todo = Rest /\ task'.op = task.op /\ task'.ok = task.ok
        /\ task'.resp = task.resp /\ task'.val = task.val
    BY <2>1, Notes1
  <2>6. ~Judges(task.todo, 1, task.op)
    BY <2>2, <2>3 DEF Judges, Turns
  <2> QED BY <2>1, <2>2, <2>3, <2>4, <2>5, <2>6, TellOn
<1> QED BY <1>1, <1>2

\* The restart is ordered whatever was found out.
LEMMA TellForce ==
  ASSUME DriverInv, TellInv, forceStep
  PROVE  TellInv'
<1> DEFINE b == task.ok /\ wired.tx
<1>1. /\ task.todo # <<>> /\ Step[1] = "force" /\ rx' = rx /\ modem' = modem /\ net' = net
      /\ (tx' = tx \/ tx' = Append(tx, Step[2])) /\ task' = [Go EXCEPT !.ok = @ /\ wired.tx]
  BY DEF forceStep, At, drvVars
<1>2. Go.ok = task.ok
  BY <1>1, GoMoves DEF Moved
<1>3. task' = [Go EXCEPT !.ok = b]
  BY <1>1, <1>2
<1>4. b => task.ok
  OBVIOUS
<1> HIDE DEF b
<1>5. /\ task'.todo = Rest /\ task'.op = task.op /\ task'.ok = b
      /\ task'.resp = task.resp /\ task'.val = task.val
  BY <1>1, <1>3, Notes1
<1>6. Value(task.val) /\ Evident(task.resp) /\ Step = task.todo[1]
  BY <1>1, TellAt
<1>7. ~Judges(task.todo, 1, task.op)
  BY <1>1, <1>6 DEF Judges, Turns
<1> QED BY <1>1, <1>4, <1>5, <1>6, <1>7, TellOn

\* A query and what is made of its answer.
Query(p, o) ==
  /\ p \in Seq(Steps) /\ p # <<>> /\ Len(p) = 4
  /\ p[1][1] = "send" /\ Allowed(o, p[1][2]) /\ p[1][2][1] # "NRB"
  /\ p[2][1] \in {"until", "any"} /\ (p[2][1] = "until" => p[2][2] = TagOf(o))
  /\ p[2][1] = "any" => p[1][2][1] = "CFUN?" /\ o # "reboot"
  /\ p[3][1] = IF p[2][1] = "any" THEN "afterColon" ELSE IF o \in OnOps THEN "onOff" ELSE "number"
  /\ p[4][1] = "flush"
  /\ o \in {"isAttached", "reboot"} \cup OnOps

Fronts(w, p) == \A i \in 1..Len(p) : i \in 1..Len(w) /\ w[i] = p[i]

\* Where the steps of a short dialogue are.
LEMMA InFront ==
  ASSUME NEW p \in Seq(Steps), p # <<>>, NEW r \in Seq(Steps), NEW w, Joined(w, p, r)
  PROVE  /\ Len(p) \in Nat /\ Len(w) = Len(p) + Len(r)
         /\ Fronts(w, p)
         /\ r # <<>> => Len(p) + 1 \in 1..Len(w) /\ w[Len(p) + 1] = r[1] /\ 1 \in 1..Len(r)
<1> DEFINE m == Len(p)
           n == Len(r)
<1>1. /\ p \o r \in Seq(Steps) /\ Len(p \o r) = Len(p) + Len(r)
      /\ \A i \in 1..Len(p) + Len(r) : (p \o r)[i] = IF i <= Len(p) THEN p[i] ELSE r[i - Len(p)]
  BY ConcatProperties, Zenon
<1>2. m \in Nat /\ n \in Nat /\ (r # <<>> => n >= 1)
  OBVIOUS
<1>3. \A i \in 1..m + n : w[i] = IF i <= m THEN p[i] ELSE r[i - m]
  BY <1>1 DEF Joined
<1>4. Len(w) = m + n
  BY <1>1 DEF Joined
<1> HIDE DEF m, n
<1>5. ASSUME NEW i \in 1..m PROVE i \in 1..m + n /\ w[i] = p[i]
  <2>1. i \in 1..m + n /\ i <= m
    BY <1>2
  <2> QED BY <1>3, <2>1
<1>6. ASSUME r # <<>> PROVE m + 1 \in 1..m + n /\ w[m + 1] = r[1] /\ 1 \in 1..n
  <2>1. m + 1 \in 1..m + n /\ ~(m + 1 <= m) /\ (m + 1) - m = 1 /\ 1 \in 1..n
    BY <1>2, <1>6
  <2>2. w[m + 1] = IF m + 1 <= m THEN p[m + 1] ELSE r[(m + 1) - m]
    BY <1>3, <2>1
  <2> QED BY <2>1, <2>2
<1> QED BY <1>2, <1>4, <1>5, <1>6 DEF m, n, Fronts

\* A query fits, alone and before what makes use of its answer.
LEMMA QueryFits ==
  ASSUME NEW p, NEW o, Query(p, o), NEW r \in Seq(Steps), NEW w, Joined(w, p, r),
         o \in {"switchModem", "reboot"} => r # <<>> /\ r[1][1] \in Turns
  PROVE  Fits(p, o) /\ Placed(w, p, o)
<1>1. /\ \A i \in 1..4 : i \in {1, 2, 3, 4}
      /\ 2 - 1 = 1 /\ 3 - 1 = 2 /\ 4 - 1 = 3 /\ 1 + 2 = 3 /\ 1 + 1 = 2 /\ 2 + 1 = 3 /\ 3 + 2 = 5
      /\ 3 + 1 = 4 /\ 4 + 1 = 5
  OBVIOUS
<1>2. Len(p) = 4 /\ p \in Seq(Steps) /\ p # <<>>
  BY DEF Query
<1>3. /\ p[1][1] = "send" /\ p[2][1] \in {"until", "any"} /\ p[4][1] = "flush"
      /\ p[3][1] \in Sensors
      /\ p[3][1] \in {"number", "onOff"} => p[2][1] = "until"
      /\ p[3][1] = "afterColon" => p[2][1] = "any"
      /\ p[3][1] = "number" => o \in {"isAttached", "reboot"}
      /\ p[3][1] \in {"onOff", "afterColon"} => o \in OnOps
      /\ o = "reboot" => p[3][1] = "number"
  <2> DEFINE x == p[1]
             y == p[2]
             z == p[3]
             u == p[4]
  <2>1. /\ x[1] = "send" /\ y[1] \in {"until", "any"} /\ u[1] = "flush"
        /\ y[1] = "any" => x[2][1] = "CFUN?" /\ o # "reboot"
        /\ y[1] = "until" => y[2] = TagOf(o)
        /\ Allowed(o, x[2]) /\ o \in {"isAttached", "reboot"} \cup OnOps
    BY DEF Query
  <2>2. /\ y[1] = "any" => z[1] = "afterColon"
        /\ y[1] # "any" /\ o \in OnOps => z[1] = "onOff"
        /\ y[1] # "any" /\ o \notin OnOps => z[1] = "number"
    BY DEF Query
  <2> HIDE DEF x, y, z, u
  <2>3. y[1] = "any" => o \in OnOps
    BY <2>1 DEF Allowed
  <2>4. "reboot" \notin OnOps
    BY DEF OnOps
  <2>5. /\ z[1] \in Sensors
        /\ z[1] \in {"number", "onOff"} => y[1] = "until"
        /\ z[1] = "afterColon" => y[1] = "any"
        /\ z[1] = "number" => o \in {"isAttached", "reboot"}
        /\ z[1] \in {"onOff", "afterColon"} => o \in OnOps
        /\ o = "reboot" => z[1] = "number"
    BY <2>1, <2>2, <2>3, <2>4 DEF Sensors
  <2> QED BY <2>1, <2>5 DEF x, y, z, u
<1>4. /\ Owner("send", o) /\ Owner("until", o) /\ Owner("any", o) /\ Owner("flush", o)
      /\ Owner(p[3][1], o)
  BY <1>3 DEF Owner, TellKinds, Sensors
<1>5. ASSUME NEW i \in 1..4 PROVE Owner(p[i][1], o) /\ Carries(p[i], o)
  <2>1. Carries(p[1], o)
    BY <1>3 DEF Query, Carries
  <2>2. Carries(p[2], o) /\ Carries(p[3], o) /\ Carries(p[4], o)
    BY <1>3 DEF Carries, Sensors
  <2> QED BY <1>1, <1>3, <1>4, <2>1, <2>2
<1>6. ASSUME NEW i \in 1..4, i > 1 PROVE Before(p[i - 1], p[i], o)
  <2>1. Before(p[1], p[2], o)
    BY <1>3 DEF Query, Before, Turns
  <2>2. Before(p[2], p[3], o)
    BY <1>3 DEF Query, Before, Turns, Sensors
  <2>3. Before(p[3], p[4], o)
    BY <1>3 DEF Before, Turns
  <2> QED BY <1>1, <1>6, <2>1, <2>2, <2>3
<1>7. Fits(p, o)
  BY <1>2, <1>5, <1>6 DEF Fits
<1>8. /\ \A i \in 1..4 : i \in 1..Len(w) /\ w[i] = p[i]
      /\ r # <<>> => 5 \in 1..Len(w) /\ w[5] = r[1]
  <2>1. p \in Seq(Steps) /\ p # <<>>
    BY <1>2
  <2>2. Fronts(w, p)
    BY <2>1, InFront, Zenon
  <2>3. ASSUME r # <<>> PROVE Len(p) + 1 \in 1..Len(w) /\ w[Len(p) + 1] = r[1]
    BY <2>1, <2>3, InFront, Zenon
  <2> QED BY <1>1, <1>2, <2>2, <2>3 DEF Fronts
<1>9. /\ Ahead(w, 1, 2, Sensors)
      /\ o \in {"switchModem", "reboot"} => Ahead(w, 3, 2, Turns)
      /\ o = "reboot" => Ahead(w, 2, 1, {"number"})
  BY <1>1, <1>3, <1>8 DEF Ahead
<1>10. ASSUME NEW i \in 1..4 PROVE After(w, i, o)
  <2>1. w[i] = p[i]
    BY <1>8
  <2>2. CASE i = 1
    BY <1>3, <1>9, <2>1, <2>2 DEF After, Sensors
  <2>3. CASE i = 2
    BY <1>3, <1>9, <2>1, <2>3 DEF After, Sensors
  <2>4. CASE i = 3
    BY <1>3, <1>9, <2>1, <2>4 DEF After, Sensors
  <2>5. CASE i = 4
    BY <1>3, <1>9, <2>1, <2>5 DEF After, Sensors
  <2> QED BY <1>1, <2>2, <2>3, <2>4, <2>5
<1>11. ASSUME NEW i \in 1..4 PROVE Stands(w, i)
  <2>1. w[i] = p[i]
    BY <1>8
  <2>2. CASE i = 1
    BY <1>3, <2>1, <2>2 DEF Stands
  <2>3. CASE i = 2
    BY <1>3, <2>1, <2>3 DEF Stands
  <2>4. CASE i = 3
    BY <1>3, <2>1, <2>4 DEF Stands, Sensors
  <2>5. CASE i = 4
    BY <1>3, <2>1, <2>5 DEF Stands
  <2> QED BY <1>1, <2>2, <2>3, <2>4, <2>5
<1> QED BY <1>2, <1>7, <1>10, <1>11 DEF Placed

\* A dialogue is put before what is left of the function.
LEMMA TellTo ==
  ASSUME DriverInv, TellInv, task.todo # <<>>, Step[1] \in Turns \cup {"call"},
         NEW p \in Seq(Steps), p # <<>>, Fits(p, task.op), p[1][1] = "send",
         p[Len(p)][1] = "flush", NEW w, Joined(w, p, Rest), Placed(w, p, task.op),
         task'.todo = w, task'.op = task.op, task'.resp = task.resp, Value(task'.val),
         UNCHANGED <<rx, tx, modem, net>>,
         (Step[1] = "call" /\ task'.ok = task.ok) \/ Pending(w, task.op)
  PROVE  TellInv'
<1> DEFINE t == task.todo
           r == Rest
           o == task.op
<1>1. t \in Seq(Steps) /\ t # <<>> /\ Told(t, o) /\ r = Tail(t) /\ Step = t[1] /\ r \in Seq(Steps)
  <2>1. task \in TaskType /\ Rest = Tail(task.todo) /\ Rest \in Seq(Steps)
    BY InFunction
  <2>2. Step = task.todo[1] /\ task.todo \in Seq(Steps) /\ Told(task.todo, task.op)
    BY TellAt
  <2> QED BY <2>1, <2>2
<1> HIDE DEF t, r, o
<1>2. Hushed
  BY DEF TellInv, HeadInv
<1>3. Told(r, o) /\ (r # <<>> => Before(t[1], r[1], o))
  BY <1>1, ToldRest
<1>4. ~Has(r, Asking)
  BY <1>1, ToldAsks DEF Turns
<1>5. r # <<>> => Before(p[Len(p)], r[1], o)
  BY <1>1, <1>3 DEF Before, Turns
<1>6. w \in Seq(Steps) /\ Told(w, o) /\ w # <<>> /\ Head(w) = p[1] /\ (Pending(r, o) => Pending(w, o))
  <2>1. Joined(w, p, r) /\ Placed(w, p, o) /\ Fits(p, o)
    BY DEF r, o
  <2>2. w \in Seq(Steps) /\ Told(w, o)
    BY <1>1, <1>3, <1>4, <1>5, <2>1, ToldPush, Zenon
  <2>3. Pending(r, o) => Pending(w, o)
    BY <1>1, <1>3, <1>4, <1>5, <2>1, ToldPush, Zenon
  <2>4. Fronts(w, p)
    BY <1>1, <2>1, InFront, Zenon
  <2>5. 1 \in 1..Len(p)
    OBVIOUS
  <2>6. w # <<>> /\ Head(w) = p[1]
    <3>1. 1 \in 1..Len(w) /\ w[1] = p[1]
      BY <2>4, <2>5 DEF Fronts
    <3> QED BY <2>2, <3>1
  <2> QED BY <2>2, <2>3, <2>6
<1>7. Step' = p[1] /\ Hushed'
  BY <1>2, <1>6 DEF Step, Hushed, Okay
<1>8. WayInv' /\ AskInv' /\ OrderInv'
  BY <1>2, <1>7 DEF WayInv, AskInv, OrderInv, Hushed, Okay
<1>9. HeadInv'
  BY <1>7 DEF HeadInv, Turns
<1>10. LinesInv'
  <2>1. rx \in Seq(Lines) /\ Evident(task.resp)
    BY AtHand DEF DriverInv, WireInv
  <2>2. Among(rx', rx)
    BY AmongThem
  <2> QED BY <2>1, <2>2, LinesOn DEF TellInv
<1>11. JudgeInv'
  <2>1. CASE Pending(w, o)
    BY <2>1 DEF JudgeInv, o
  <2>2. CASE Step[1] = "call" /\ task'.ok = task.ok /\ ~Pending(w, o)
    <3>1. ~Judges(t, 1, o)
      BY <1>1, <2>2 DEF Judges, Turns
    <3>2. ~Pending(t, o)
      BY <1>1, <1>6, <2>2, <3>1, ToldViews
    <3>3. o \in Judged /\ task.ok => Goal
      BY <3>2 DEF TellInv, JudgeInv, t, o
    <3> QED BY <2>2, <3>3, GoalStays DEF JudgeInv, o
  <2> QED BY <2>1, <2>2 DEF o
<1>12. Value(task.val)' /\ Told(task.todo, task.op)'
  BY <1>6 DEF Value, o
<1> QED BY <1>8, <1>9, <1>10, <1>11, <1>12 DEF TellInv

\* A list of four steps, by its places.
LEMMA FourSteps ==
  ASSUME NEW x \in Steps, NEW y \in Steps, NEW z \in Steps, NEW u \in Steps, NEW p, p = <<x, y, z, u>>
  PROVE  p \in Seq(Steps) /\ p # <<>> /\ Len(p) = 4 /\ p[1] = x /\ p[2] = y /\ p[3] = z /\ p[4] = u
  OBVIOUS

\* A list of three.
LEMMA ThreeSteps ==
  ASSUME NEW x \in Steps, NEW y \in Steps, NEW z \in Steps, NEW p, p = <<x, y, z>>
  PROVE  p \in Seq(Steps) /\ p # <<>> /\ Len(p) = 3 /\ p[1] = x /\ p[2] = y /\ p[3] = z
  OBVIOUS

\* The functions that ask the modem and note what it answers.
LEMMA Queried ==
  /\ Query(checkQRegSwt, "reboot")
  /\ \A o \in OnOps : Query(isModemOnBase, o) /\ Query(isModemOnTools, o)
  /\ Query(getAttachState, "isAttached") /\ Query(getAttachStateTools, "isAttached")
<1>1. /\ {"number", "onOff", "afterColon"} \subseteq Simple
      /\ {"+QREGSWT:", "+CGATT:", "+CFUN:"} \subseteq Tags
      /\ {"QREGSWT?", "CFUN?", "CGATT?"} \subseteq Names
  BY DEF Simple, Tags, Names
<1>2. /\ \A k \in {"number", "onOff", "afterColon"} : Do(k) \in Steps /\ Do(k)[1] = k
      /\ \A g \in {"+QREGSWT:", "+CGATT:", "+CFUN:"} :
           ReadUntil(g) \in Steps /\ ReadUntil(g)[1] = "until" /\ ReadUntil(g)[2] = g
      /\ \A c \in {"QREGSWT?", "CFUN?", "CGATT?"} :
           Send(c, 0) \in Steps /\ Send(c, 0)[1] = "send" /\ Send(c, 0)[2][1] = c
      /\ Flush \in Steps /\ Flush[1] = "flush" /\ ReplyAny \in Steps /\ ReplyAny[1] = "any"
  BY <1>1, StepsAre, KindOf
<1>3. /\ TagOf("isAttached") = "+CGATT:" /\ TagOf("reboot") = "+QREGSWT:"
      /\ \A o \in OnOps : TagOf(o) = "+CFUN:"
      /\ "reboot" \notin OnOps /\ "isAttached" \notin OnOps
  BY DEF OnOps, TagOf
<1>4. ASSUME NEW c \in {"QREGSWT?", "CFUN?", "CGATT?"}, NEW g \in {"+QREGSWT:", "+CGATT:", "+CFUN:"},
             NEW k \in {"number", "onOff"}, NEW o, Allowed(o, Send(c, 0)[2]), g = TagOf(o),
             o \in OnOps => k = "onOff", o \notin OnOps => k = "number",
             o \in {"isAttached", "reboot"} \cup OnOps
      PROVE  Query(<<Send(c, 0), ReadUntil(g), Do(k), Flush>>, o)
  <2> DEFINE x == Send(c, 0)
             y == ReadUntil(g)
             z == Do(k)
             u == Flush
             p == <<x, y, z, u>>
  <2>1. /\ x \in Steps /\ y \in Steps /\ z \in Steps /\ u \in Steps
        /\ x[1] = "send" /\ x[2][1] = c /\ Allowed(o, x[2])
        /\ y[1] = "until" /\ y[2] = g /\ z[1] = k /\ u[1] = "flush"
    BY <1>2, <1>4
  <2> HIDE DEF x, y, z, u
  <2>2. p \in Seq(Steps) /\ p # <<>> /\ Len(p) = 4 /\ p[1] = x /\ p[2] = y /\ p[3] = z /\ p[4] = u
    BY <2>1, FourSteps
  <2> HIDE DEF p
  <2>3. c # "NRB"
    OBVIOUS
  <2>4. p[3][1] = IF p[2][1] = "any" THEN "afterColon" ELSE IF o \in OnOps THEN "onOff" ELSE "number"
    BY <1>4, <2>1, <2>2
  <2>5. Query(p, o)
    BY <1>4, <2>1, <2>2, <2>3, <2>4 DEF Query
  <2> QED BY <2>5 DEF p, x, y, z, u
<1>5. ASSUME NEW o \in OnOps PROVE Query(isModemOnBase, o)
  <2>1. Allowed(o, Send("CFUN?", 0)[2])
    BY <1>2 DEF Allowed, OnOps
  <2> QED BY <1>3, <1>4, <2>1 DEF isModemOnBase
<1>6. Query(checkQRegSwt, "reboot")
  <2>1. Allowed("reboot", Send("QREGSWT?", 0)[2])
    BY <1>2 DEF Allowed
  <2> QED BY <1>3, <1>4, <2>1 DEF checkQRegSwt
<1>7. Query(getAttachState, "isAttached") /\ Query(getAttachStateTools, "isAttached")
  <2>1. Allowed("isAttached", Send("CGATT?", 0)[2])
    BY <1>2 DEF Allowed
  <2> QED BY <1>3, <1>4, <2>1 DEF getAttachState, getAttachStateTools
<1>8. ASSUME NEW o \in OnOps PROVE Query(isModemOnTools, o)
  <2> DEFINE x == Send("CFUN?", 0)
             y == ReplyAny
             z == Do("afterColon")
             u == Flush
             p == <<x, y, z, u>>
  <2>1. /\ x \in Steps /\ y \in Steps /\ z \in Steps /\ u \in Steps
        /\ x[1] = "send" /\ x[2][1] = "CFUN?"
        /\ y[1] = "any" /\ z[1] = "afterColon" /\ u[1] = "flush"
    BY <1>2
  <2>0. Allowed(o, x[2])
    BY <2>1 DEF Allowed, OnOps
  <2> HIDE DEF x, y, z, u
  <2>2. p \in Seq(Steps) /\ p # <<>> /\ Len(p) = 4 /\ p[1] = x /\ p[2] = y /\ p[3] = z /\ p[4] = u
    BY <2>1, FourSteps
  <2> HIDE DEF p
  <2>4. p[3][1] = IF p[2][1] = "any" THEN "afterColon" ELSE IF o \in OnOps THEN "onOff" ELSE "number"
    BY <2>1, <2>2
  <2>5. Query(p, o)
    BY <1>3, <2>0, <2>1, <2>2, <2>4 DEF Query
  <2> QED BY <2>5 DEF p, x, y, z, u, isModemOnTools
<1> QED BY <1>5, <1>6, <1>7, <1>8

\* The function as it is after a step that puts others in front.
LEMMA NotesTo ==
  ASSUME DriverInv, task.todo # <<>>, NEW p \in Seq(Steps)
  PROVE  /\ task' = [GoTo(p) EXCEPT !.val = 0] =>
              /\ task'.todo = p \o Rest /\ task'.op = task.op /\ task'.ok = task.ok
              /\ task'.resp = task.resp /\ task'.val = 0
         /\ task' = [GoTo(p) EXCEPT !.ok = TRUE] =>
              /\ task'.todo = p \o Rest /\ task'.op = task.op /\ task'.ok = TRUE
              /\ task'.resp = task.resp /\ task'.val = task.val
<1>1. Moved(GoTo(p), p \o Rest)
  BY GoMoves
<1> DEFINE g == GoTo(p)
           q == p \o Rest
<1>2. g \in TaskType /\ g.todo = q /\ g.op = task.op /\ g.ok = task.ok /\ g.resp = task.resp
      /\ g.val = task.val
  BY <1>1 DEF Moved
<1> HIDE DEF g, q
<1>3. ASSUME task' = [g EXCEPT !.val = 0]
      PROVE  /\ task'.todo = q /\ task'.op = task.op /\ task'.ok = task.ok
             /\ task'.resp = task.resp /\ task'.val = 0
  BY <1>2, <1>3 DEF TaskType
<1>4. ASSUME task' = [g EXCEPT !.ok = TRUE]
      PROVE  /\ task'.todo = q /\ task'.op = task.op /\ task'.ok = TRUE
             /\ task'.resp = task.resp /\ task'.val = task.val
  BY <1>2, <1>4 DEF TaskType
<1> QED BY <1>3, <1>4 DEF g, q

\* The functions that ask, called by another.
LEMMA TellCalls ==
  ASSUME DriverInv, TellInv, callStep
  PROVE  TellInv'
<1> DEFINE o == task.op
           r == Rest
<1>1. /\ task.todo # <<>> /\ Step[1] = "call" /\ rx' = rx /\ tx' = tx /\ modem' = modem
      /\ net' = net
  BY DEF callStep, Ready, At, Internal, Quiet, drvVars
<1>2. Step = task.todo[1] /\ task.todo \in Seq(Steps) /\ Told(task.todo, o) /\ Owner("call", o)
      /\ Carries(Step, o) /\ r \in Seq(Steps) /\ r = Tail(task.todo)
  BY <1>1, TellAt, InFunction
<1>3. Step[2] = IF o = "reboot" THEN "checkQRegSwt" ELSE "isModemOn"
  BY <1>1, <1>2 DEF Carries
<1>4. o \in {"switchModem", "reboot"} => r # <<>> /\ r[1][1] \in Turns
  <2>1. o \in {"switchModem", "reboot"} => Ahead(task.todo, 1, 1, Turns)
    <3>1. After(task.todo, 1, o)
      BY <1>1, <1>2, ToldRest
    <3> QED BY <1>1, <1>2, <3>1 DEF After
  <2>2. Ahead(task.todo, 1, 1, Turns) => r # <<>> /\ r[1][1] \in Turns
    <3>1. /\ Len(task.todo) \in Nat /\ Len(r) = Len(task.todo) - 1
          /\ \A i \in 1..Len(r) : r[i] = task.todo[i + 1]
      BY <1>1, Left
    <3>2. ASSUME 1 + 1 \in 1..Len(task.todo) PROVE r # <<>> /\ 1 \in 1..Len(r)
      <4> DEFINE l == Len(task.todo)
                 n == Len(r)
      <4>1. l \in Nat /\ n = l - 1 /\ 1 + 1 \in 1..l
        BY <3>1, <3>2
      <4>2. r = <<>> => n = 0
        OBVIOUS
      <4> HIDE DEF l, n
      <4>3. n # 0 /\ 1 \in 1..n
        BY <4>1
      <4> QED BY <4>2, <4>3 DEF n
    <3> QED BY <3>1, <3>2 DEF Ahead
  <2> QED BY <2>1, <2>2
<1>5. PICK p : Query(p, o) /\ task' = [GoTo(p) EXCEPT !.val = 0]
  <2>1. CASE o = "reboot"
    <3>1. task' = [GoTo(checkQRegSwt) EXCEPT !.val = 0]
      BY <1>3, <2>1 DEF callStep
    <3> QED BY <2>1, <3>1, Queried
  <2>2. CASE o # "reboot"
    <3>1. task' = [GoTo(isModemOn) EXCEPT !.val = 0]
      BY <1>3, <2>2 DEF callStep
    <3>2. o \in OnOps
      BY <1>2, <2>2 DEF Owner, TellKinds, OnOps
    <3> QED BY <3>1, <3>2, Queried DEF isModemOn, Old
  <2> QED BY <2>1, <2>2
<1>6. p \in Seq(Steps) /\ p # <<>> /\ Len(p) = 4 /\ p[1][1] = "send" /\ p[4][1] = "flush"
  BY <1>5 DEF Query
<1> DEFINE w == p \o r
<1>7. Joined(w, p, r)
  BY DEF Joined
<1> HIDE DEF w
<1>8. task'.todo = w /\ task'.op = o /\ task'.ok = task.ok /\ task'.resp = task.resp /\ task'.val = 0
  BY <1>1, <1>5, <1>6, NotesTo DEF w
<1> HIDE DEF o, r
<1>9. Fits(p, o) /\ Placed(w, p, o)
  BY <1>2, <1>4, <1>5, <1>7, QueryFits
<1>10. Value(task'.val)
  BY <1>8 DEF Value
<1> QED BY <1>1, <1>6, <1>7, <1>8, <1>9, <1>10, TellTo DEF o, r

\* Nothing is left behind the step that decides.
LEMMA LastTurn ==
  ASSUME DriverInv, TellInv, task.todo # <<>>
  PROVE  /\ Step[1] = "switch" => Rest = <<>> /\ task.op = "switchModem" /\ Step[2] = 1
         /\ Step[1] = "qregswt" => Rest # <<>> /\ Rest[1][1] = "force" /\ task.op = "reboot"
         /\ Step[1] = "assign" => Step[2] = 1 /\ task.op = "switchModem"
         /\ Step[1] = "requireOn" => task.op = "initialize"
<1> DEFINE t == task.todo
           r == Rest
           o == task.op
           l == Len(t)
           n == Len(r)
<1>1. Step = t[1] /\ t \in Seq(Steps) /\ Told(t, o) /\ Owner(Step[1], o) /\ Carries(Step, o)
  BY TellAt
<1>2. l \in Nat /\ n = l - 1 /\ \A i \in 1..n : r[i] = t[i + 1]
  BY Left
<1>3. After(t, 1, o) /\ Stands(t, 1)
  BY <1>1, ToldRest
<1>4. r \in Seq(Steps) /\ (r = <<>> <=> n = 0)
  <2>1. r \in Seq(Steps)
    BY InFunction
  <2> HIDE DEF r
  <2> QED BY <2>1
<1>5. Step[1] = "switch" => 1 = l
  BY <1>1, <1>3 DEF Stands, l
<1>6. Step[1] = "qregswt" => Ahead(t, 1, 1, {"force"})
  BY <1>1, <1>3 DEF After
<1>7. Ahead(t, 1, 1, {"force"}) => 1 + 1 \in 1..l /\ t[1 + 1][1] = "force"
  BY DEF Ahead, l
<1> HIDE DEF t, r, o, l, n
<1>8. 1 + 1 \in 1..l => n # 0 /\ 1 \in 1..n
  BY <1>2
<1>9. 1 = l => n = 0
  BY <1>2
<1>10. Step[1] = "switch" => r = <<>>
  BY <1>4, <1>5, <1>9
<1>11. Step[1] = "qregswt" => r # <<>> /\ r[1][1] = "force"
  BY <1>2, <1>4, <1>6, <1>7, <1>8
<1>12. /\ Step[1] = "switch" => o = "switchModem" /\ Step[2] = 1
       /\ Step[1] = "assign" => o = "switchModem" /\ Step[2] = 1
       /\ Step[1] = "qregswt" => o = "reboot"
       /\ Step[1] = "requireOn" => o = "initialize"
  BY <1>1 DEF Owner, Carries
<1> QED BY <1>10, <1>11, <1>12 DEF r, o

\* switchModem() gives the order it has found necessary.
LEMMA TellSwitches ==
  ASSUME DriverInv, TellInv, task.todo # <<>>, Step[1] = "switch",
         NEW z, z = <<"assign", 1>>,
         task' = [GoTo(<<Send("CFUN", 1), ReplyOk, z, Flush>>) EXCEPT !.ok = TRUE],
         UNCHANGED <<rx, tx, modem, net>>
  PROVE  TellInv'
<1> DEFINE x == Send("CFUN", 1)
           y == ReplyOk
           u == Flush
           p == <<x, y, z, u>>
           o == task.op
           r == Rest
           w == p \o r
<1>1. r = <<>> /\ o = "switchModem" /\ Value(task.val) /\ r \in Seq(Steps)
  BY LastTurn, TellAt
<1>2. /\ x \in Steps /\ x[1] = "send" /\ x[2][1] = "CFUN" /\ x[2][2] = 1
      /\ y \in Steps /\ y[1] = "ok" /\ u \in Steps /\ u[1] = "flush"
  BY StepsAre, KindOf DEF Names
<1>3. z \in Steps /\ z[1] = "assign" /\ z[2] = 1
  BY DEF Steps
<1> HIDE DEF x, y, u
<1>4. p \in Seq(Steps) /\ p # <<>> /\ Len(p) = 4 /\ p[1] = x /\ p[2] = y /\ p[3] = z /\ p[4] = u
  BY <1>2, <1>3, FourSteps
<1>5. task' = [GoTo(p) EXCEPT !.ok = TRUE]
  BY DEF x, y, u
<1> HIDE DEF p
<1>6. task'.todo = w /\ task'.op = o /\ task'.ok = TRUE /\ task'.resp = task.resp
      /\ task'.val = task.val
  BY <1>4, <1>5, NotesTo
<1>7. Joined(w, p, r)
  BY DEF Joined
<1>8. w = p
  BY <1>1, <1>4
<1> HIDE DEF w, r, o
<1>9. Fits(p, o)
  <2>1. /\ Owner(x[1], o) /\ Owner(y[1], o) /\ Owner(z[1], o) /\ Owner(u[1], o)
    BY <1>1, <1>2, <1>3 DEF Owner, TellKinds
  <2>2. Carries(x, o)
    BY <1>1, <1>2 DEF Carries, Allowed
  <2>3. Carries(y, o) /\ Carries(z, o) /\ Carries(u, o)
    BY <1>2, <1>3 DEF Carries
  <2>4. Before(x, y, o) /\ Before(y, z, o) /\ Before(z, u, o)
    BY <1>2, <1>3 DEF Before, Turns
  <2>5. /\ \A i \in 1..4 : i \in {1, 2, 3, 4}
        /\ 2 - 1 = 1 /\ 3 - 1 = 2 /\ 4 - 1 = 3 /\ ~(1 > 1)
    OBVIOUS
  <2> QED BY <1>4, <2>1, <2>2, <2>3, <2>4, <2>5 DEF Fits
<1>10. Placed(p, p, o)
  <2>1. /\ \A i \in 1..4 : i \in {1, 2, 3, 4}
        /\ 2 + 1 = 3 /\ 3 \in 1..4 /\ 3 + 1 = 4
    OBVIOUS
  <2>2. Ahead(p, 2, 1, {"assign"})
    BY <1>3, <1>4, <2>1 DEF Ahead
  <2>3. After(p, 1, o)
    BY <1>1, <1>2, <1>4 DEF After, Queries, Sensors
  <2>4. After(p, 2, o)
    BY <1>1, <1>2, <1>4, <2>2 DEF After, Sensors
  <2>5. After(p, 3, o)
    BY <1>1, <1>3, <1>4 DEF After, Sensors
  <2>6. After(p, 4, o)
    BY <1>1, <1>2, <1>4 DEF After, Sensors
  <2>7. Stands(p, 1) /\ Stands(p, 2) /\ Stands(p, 4)
    BY <1>2, <1>4 DEF Stands
  <2>8. Stands(p, 3)
    BY <1>2, <1>3, <1>4, <2>1 DEF Stands
  <2> QED BY <1>4, <2>1, <2>3, <2>4, <2>5, <2>6, <2>7, <2>8 DEF Placed
<1>11. Pending(w, o)
  <2>1. Judges(p, 2, o) /\ 2 \in 1..Len(p)
    BY <1>1, <1>2, <1>4 DEF Judges
  <2> QED BY <1>8, <2>1 DEF Pending
<1>12. Value(task'.val)
  BY <1>1, <1>6
<1>13. p[1][1] = "send" /\ p[Len(p)][1] = "flush" /\ Placed(w, p, o)
  BY <1>2, <1>4, <1>8, <1>10
<1> QED BY <1>4, <1>6, <1>7, <1>9, <1>11, <1>12, <1>13, TellTo DEF r, o, Turns

\* The restart first asks for the switch that was found off.
LEMMA TellRegisters ==
  ASSUME DriverInv, TellInv, task.todo # <<>>, Step[1] = "qregswt",
         task' = [GoTo(setQRegSwt2) EXCEPT !.ok = TRUE],
         UNCHANGED <<rx, tx, modem, net>>
  PROVE  TellInv'
<1> DEFINE x == Send("QREGSWT", 2)
           y == ReadUntil("OK")
           z == Flush
           p == <<x, y, z>>
           o == task.op
           r == Rest
           w == p \o r
<1>1. r # <<>> /\ r[1][1] = "force" /\ o = "reboot" /\ Value(task.val) /\ r \in Seq(Steps)
  BY LastTurn, TellAt, InFunction
<1>2. /\ x \in Steps /\ x[1] = "send" /\ x[2][1] = "QREGSWT" /\ x[2][2] = 2
      /\ y \in Steps /\ y[1] = "until" /\ y[2] = "OK" /\ z \in Steps /\ z[1] = "flush"
  <2>1. "QREGSWT" \in Names /\ "OK" \in Tags /\ 2 \in Int
    BY DEF Names, Tags
  <2> QED BY <2>1, StepsAre, KindOf
<1>3. task' = [GoTo(p) EXCEPT !.ok = TRUE]
  BY DEF setQRegSwt2
<1> HIDE DEF x, y, z
<1>4. p \in Seq(Steps) /\ p # <<>> /\ Len(p) = 3 /\ p[1] = x /\ p[2] = y /\ p[3] = z
  BY <1>2, ThreeSteps
<1> HIDE DEF p
<1>6. task'.todo = w /\ task'.op = o /\ task'.ok = TRUE /\ task'.resp = task.resp
      /\ task'.val = task.val
  BY <1>3, <1>4, NotesTo
<1>7. Joined(w, p, r)
  BY DEF Joined
<1> HIDE DEF w, r, o
<1>8. /\ 1 \in 1..Len(w) /\ w[1] = x /\ 2 \in 1..Len(w) /\ w[2] = y /\ 3 \in 1..Len(w) /\ w[3] = z
      /\ 4 \in 1..Len(w) /\ w[4] = r[1]
  <2>0. 1 \in 1..3 /\ 2 \in 1..3 /\ 3 \in 1..3 /\ 3 + 1 = 4
    OBVIOUS
  <2>1. p \in Seq(Steps) /\ p # <<>> /\ r \in Seq(Steps) /\ r # <<>>
    BY <1>1, <1>4
  <2>2. Fronts(w, p)
    BY <1>7, <2>1, InFront, Zenon
  <2>3. Len(p) + 1 \in 1..Len(w) /\ w[Len(p) + 1] = r[1]
    BY <1>7, <2>1, InFront, Zenon
  <2> QED BY <1>4, <2>0, <2>2, <2>3 DEF Fronts
<1>9. Fits(p, o)
  <2>1. Owner(x[1], o) /\ Owner(y[1], o) /\ Owner(z[1], o)
    BY <1>1, <1>2 DEF Owner, TellKinds
  <2>2. Carries(x, o)
    BY <1>1, <1>2 DEF Carries, Allowed
  <2>3. Carries(y, o) /\ Carries(z, o)
    BY <1>2 DEF Carries
  <2>4. Before(x, y, o) /\ Before(y, z, o)
    BY <1>2 DEF Before, Turns
  <2>5. (\A i \in 1..3 : i \in {1, 2, 3}) /\ 2 - 1 = 1 /\ 3 - 1 = 2 /\ ~(1 > 1)
    OBVIOUS
  <2> QED BY <1>4, <2>1, <2>2, <2>3, <2>4, <2>5 DEF Fits
<1>10. Placed(w, p, o)
  <2>1. \A i \in 1..3 : i \in {1, 2, 3}
    OBVIOUS
  <2>3. After(w, 1, o)
    BY <1>1, <1>2, <1>8 DEF After, Queries, Sensors
  <2>4. After(w, 2, o)
    BY <1>1, <1>2, <1>8 DEF After, Sensors
  <2>5. After(w, 3, o)
    BY <1>1, <1>2, <1>8 DEF After, Sensors
  <2>6. Stands(w, 1) /\ Stands(w, 2) /\ Stands(w, 3)
    BY <1>2, <1>8 DEF Stands
  <2> QED BY <1>4, <2>1, <2>3, <2>4, <2>5, <2>6 DEF Placed
<1>11. Pending(w, o)
  <2>1. 2 + 2 = 4
    OBVIOUS
  <2>2. Ahead(w, 2, 2, {"force"})
    BY <1>1, <1>8, <2>1 DEF Ahead
  <2>3. Judges(w, 2, o)
    BY <1>1, <1>2, <1>8, <2>2 DEF Judges
  <2> QED BY <1>8, <2>3 DEF Pending
<1>12. Value(task'.val)
  BY <1>1, <1>6
<1>13. p[1][1] = "send" /\ p[Len(p)][1] = "flush"
  BY <1>2, <1>4
<1> QED BY <1>4, <1>6, <1>7, <1>9, <1>10, <1>11, <1>12, <1>13, TellTo DEF r, o, Turns

\* The functions branch on what they have found out.
LEMMA TellBranches ==
  ASSUME DriverInv, TellInv, branchStep
  PROVE  TellInv'
<1> DEFINE o == task.op
<1>1. /\ task.todo # <<>> /\ rx' = rx /\ tx' = tx /\ modem' = modem /\ net' = net
  BY DEF branchStep, Ready, At, Internal, Quiet, drvVars
<1>2. Step = task.todo[1] /\ task.todo \in Seq(Steps) /\ Told(task.todo, o) /\ Owner(Step[1], o)
      /\ Value(task.val) /\ Evident(task.resp)
  BY <1>1, TellAt
<1>3. Step[1] \notin {"requireOff", "again", "fail", "turnOff"}
  BY <1>2 DEF Owner, TellKinds
<1>4. ASSUME NEW v, task' = [Go EXCEPT !.ok = v], Step[1] \in Turns \cup {"requireOn"},
             Step[1] \in Turns \/ task.ok, v => Goal
      PROVE  TellInv'
  <2>1. /\ task'.todo = Rest /\ task'.op = task.op /\ task'.ok = v
        /\ task'.resp = task.resp /\ task'.val = task.val
    BY <1>1, <1>4, Notes1
  <2>2. v => Goal'
    BY <1>1, <1>4, <2>1, GoalStays
  <2>3. Step[1] \notin {"until", "qiopen", "any", "confirm", "flush"}
    BY <1>4 DEF Turns
  <2> QED BY <1>1, <1>2, <1>4, <2>1, <2>2, <2>3, TellOn
<1>5. CASE Ready("requireOn") /\ task' = [Go EXCEPT !.ok = task.val = 1]
  <2> DEFINE v == (task.val = 1)
  <2>1. o = "initialize" /\ task.ok /\ Step[1] = "requireOn" /\ task' = [Go EXCEPT !.ok = v]
    BY <1>1, <1>5, LastTurn DEF Ready, At
  <2>2. v => Goal
    BY <1>2, <2>1 DEF Value, Goal, OnOps
  <2> HIDE DEF v
  <2> QED BY <1>4, <2>1, <2>2
<1>6. CASE Ready("assign") /\ task' = [Go EXCEPT !.val = Step[2]]
  <2>1. o = "switchModem" /\ task.ok /\ Step[1] = "assign" /\ Step[2] = 1
    BY <1>1, <1>6, LastTurn DEF Ready, At
  <2>2. /\ task'.todo = Rest /\ task'.op = task.op /\ task'.ok = task.ok
        /\ task'.resp = task.resp /\ task'.val = 1
    BY <1>1, <1>6, <2>1, Notes1
  <2>3. ~Pending(task.todo, o)
    BY <1>1, <1>2, <2>1, ToldLast
  <2>4. Goal
    BY <2>1, <2>3 DEF TellInv, JudgeInv, Judged
  <2>5. Value(task'.val)
    BY <2>1, <2>2, <2>4 DEF Value, Goal, OnOps
  <2>6. Goal'
    BY <1>1, <2>2, <2>4, GoalStays
  <2> QED BY <1>1, <1>2, <2>1, <2>2, <2>5, <2>6, TellOn
<1>7. CASE /\ At("qregswt")
           /\ task' = [(IF task.val = 2 THEN Go ELSE GoTo(setQRegSwt2)) EXCEPT !.ok = TRUE]
  <2>1. Step[1] = "qregswt" /\ o = "reboot"
    BY <1>1, <1>7, LastTurn DEF At
  <2>2. CASE task.val = 2
    <3>1. task' = [Go EXCEPT !.ok = TRUE]
      BY <1>7, <2>2
    <3>2. Goal
      BY <1>2, <2>1, <2>2 DEF Value, Goal, OnOps
    <3> QED BY <1>4, <2>1, <3>1, <3>2 DEF Turns
  <2>3. CASE task.val # 2
    <3>1. task' = [GoTo(setQRegSwt2) EXCEPT !.ok = TRUE]
      BY <1>7, <2>3
    <3> QED BY <1>1, <2>1, <3>1, TellRegisters
  <2> QED BY <2>2, <2>3
<1>8. CASE /\ At("switch")
           /\ task' = [(IF task.val = Step[2] THEN Go
                        ELSE GoTo(<<Send("CFUN", Step[2]), ReplyOk, <<"assign", Step[2]>>, Flush>>))
                         EXCEPT !.ok = TRUE]
  <2>1. Step[1] = "switch" /\ o = "switchModem" /\ Step[2] = 1
    BY <1>1, <1>8, LastTurn DEF At
  <2>2. CASE task.val = 1
    <3>1. task' = [Go EXCEPT !.ok = TRUE]
      BY <1>8, <2>1, <2>2
    <3>2. Goal
      BY <1>2, <2>1, <2>2 DEF Value, Goal, OnOps
    <3> QED BY <1>4, <2>1, <3>1, <3>2 DEF Turns
  <2>3. CASE task.val # 1
    <3> DEFINE z == <<"assign", 1>>
    <3>1. task' = [GoTo(<<Send("CFUN", 1), ReplyOk, z, Flush>>) EXCEPT !.ok = TRUE]
      BY <1>8, <2>1, <2>3
    <3> QED BY <1>1, <2>1, <3>1, TellSwitches
  <2> QED BY <2>2, <2>3
<1> QED BY <1>3, <1>5, <1>6, <1>7, <1>8 DEF branchStep, At

\* A function that reports on the modem takes a step.
LEMMA TellStep ==
  ASSUME DriverInv, TellInv, DriverStep, task'.op # "none", task'.clean
  PROVE  TellInv'
<1>1. CASE AtStep
  <2>1. UNCHANGED drvVars
    BY <1>1 DEF AtStep
  <2>2. ~End
    <3>1. NoTask.op = "none"
      BY DEF NoTask
    <3> QED BY <3>1 DEF End
  <2>3. CASE sendCommand \/ readTimeout \/ skipStep(Guarded)
    BY <2>1, <2>3, TellGives
  <2>4. CASE readOk \/ readAny \/ readConfirm \/ readExact \/ readCopy \/ readIgnore \/ readUntil
    BY <2>1, <2>4, TellReads
  <2> QED BY <1>1, <2>2, <2>3, <2>4 DEF AtStep, ReadStep
<1>2. task.todo # <<>> => Step[1] \in TellKinds
  BY TellAt DEF Owner
<1>3. ~(imsiStep \/ closeStep \/ ReadLoop \/ timeUp)
  <2>1. ~(imsiStep \/ closeStep \/ timeUp \/ moreBytes)
    BY <1>2 DEF imsiStep, closeStep, timeUp, moreBytes, Ready, At, TellKinds
  <2>2. ~(ipReadStep \/ rowStep \/ rawStep \/ tookStep \/ sumStep)
    BY <1>2 DEF ipReadStep, rowStep, rawStep, tookStep, sumStep, Ready, At, TellKinds
  <2>3. ~(bcLook \/ bcRest \/ saraLook \/ saraRest \/ toolsLook \/ toolsRest \/ bgStart
          \/ bgLook \/ bgRest)
    BY <1>2 DEF bcLook, bcRest, saraLook, saraRest, toolsLook, toolsRest, bgStart, bgLook, bgRest,
                At, TellKinds
  <2> QED BY <2>1, <2>2, <2>3 DEF ReadLoop
<1>4. CASE HandleUrc
  <2>1. /\ rx # <<>> /\ rx' = Tail(rx) /\ tx' = tx /\ task' = task /\ modem' = modem
        /\ Head(rx).tag \in Urcs \cup {"+NSONMI:", "+QIURC:"} /\ net'.number = net.number
    BY <1>4, HandlerDoes
  <2>2. ~Own(Head(rx))
    BY <2>1 DEF Own, Urcs
  <2>3. task.todo # <<>>
    BY <1>4 DEF HandleUrc, parseFilterResultBC95, parseFilterResultSara, parseFilterResultBG96,
                parseCeregUrc, parseNpsmrUrc, parseCsconUrc, Handles
  <2> QED BY <2>1, <2>2, <2>3, TellWaits
<1> QED BY <1>1, <1>3, <1>4, TellCalls, TellResponse, TellBranches, TellForce, TellConnects,
           TellOpens DEF DriverStep

\* What a function may report of the modem is not undone.
NoWorse(o) ==
  /\ o \in OnOps /\ modem.on => modem'.on
  /\ o = "isAttached" /\ modem.attached => modem'.attached
  /\ o = "reboot" /\ modem.qreg = 2 => modem'.qreg = 2
  /\ o = "connect" => modem.open \subseteq modem'.open
  /\ o = "attach" /\ modem.seek => modem'.seek
  /\ o = "detach" /\ ~modem.seek /\ ~modem.attached => ~modem'.seek /\ ~modem'.attached

\* What was evident stays so.
LEMMA StaysTrue ==
  ASSUME task' = task, net' = net, NoWorse(task.op)
  PROVE  /\ Goal => Goal'
         /\ \A v : Value(v) => Value(v)'
         /\ \A l : Evident(l) => Evident(l)'
<1>1. Goal => Goal'
  BY DEF Goal, NoWorse
<1>2. \A v : Value(v) => Value(v)'
  BY DEF Value, NoWorse
<1>3. ASSUME NEW l, Evident(l) PROVE Evident(l)'
  BY <1>3 DEF Evident, NoWorse
<1> QED BY <1>1, <1>2, <1>3

\* Lines printed behind others.
LEMMA Printed ==
  ASSUME NEW r \in Seq(Lines), NEW s \in Seq(Lines), NEW q, q = r \o s
  PROVE  /\ q \in Seq(Lines) /\ Len(q) = Len(r) + Len(s) /\ Len(r) \in Nat /\ Len(s) \in Nat
         /\ \A i \in 1..Len(r) : i \in 1..Len(q) /\ q[i] = r[i]
         /\ \A i \in 1..Len(s) : q[Len(r) + i] = s[i]
         /\ \A i \in 1..Len(q) : i \in 1..Len(r) \/ (i - Len(r) \in 1..Len(s) /\ i = Len(r) + (i - Len(r)))
<1> DEFINE m == Len(r)
           n == Len(s)
<1>1. /\ r \o s \in Seq(Lines) /\ Len(r \o s) = Len(r) + Len(s)
      /\ \A i \in 1..Len(r) + Len(s) : (r \o s)[i] = IF i <= Len(r) THEN r[i] ELSE s[i - Len(r)]
  BY ConcatProperties, Zenon
<1>2. m \in Nat /\ n \in Nat
  OBVIOUS
<1>3. q \in Seq(Lines) /\ Len(q) = m + n
      /\ \A i \in 1..m + n : q[i] = IF i <= m THEN r[i] ELSE s[i - m]
  BY <1>1
<1> HIDE DEF m, n
<1>4. ASSUME NEW i \in 1..m PROVE i \in 1..m + n /\ q[i] = r[i]
  <2>1. i \in 1..m + n /\ i <= m
    BY <1>2
  <2> QED BY <1>3, <2>1
<1>5. ASSUME NEW i \in 1..n PROVE q[m + i] = s[i]
  <2>1. m + i \in 1..m + n /\ ~(m + i <= m) /\ (m + i) - m = i
    BY <1>2
  <2>2. q[m + i] = IF m + i <= m THEN r[m + i] ELSE s[(m + i) - m]
    BY <1>3, <2>1
  <2> QED BY <2>1, <2>2
<1>6. \A i \in 1..m + n : i \in 1..m \/ (i - m \in 1..n /\ i = m + (i - m))
  BY <1>2
<1> QED BY <1>2, <1>3, <1>4, <1>5, <1>6 DEF m, n

\* The modem prints an answer, or something nobody has asked for.
LEMMA TellHears ==
  ASSUME DriverInv, TellInv, task' = task, net' = net, NoWorse(task.op),
         NEW s \in Seq(Lines), rx' = rx \o s, tx' = tx \/ (tx # <<>> /\ tx' = Tail(tx)),
         \A l : (\E i \in 1..Len(s) : l = s[i]) => Evident(l)',
         Okay(s) => tx # <<>>,
         Okay(s) /\ Orders(task.todo, task.op) /\ task.ok => Goal',
         Has(task.todo, Asking) => \A i \in 1..Len(s) : s[i].tag = "OK" => i > 1 /\ Own(s[i - 1])
  PROVE  TellInv'
<1> DEFINE q == rx'
           r == rx
           o == task.op
           t == task.todo
           m == Len(r)
<1>1. rx \in Seq(Lines) /\ tx \in Seq(Commands)
  BY DEF DriverInv, WireInv
<1>2. /\ q \in Seq(Lines) /\ Len(q) = m + Len(s) /\ m \in Nat /\ Len(s) \in Nat
      /\ \A i \in 1..m : i \in 1..Len(q) /\ q[i] = r[i]
      /\ \A i \in 1..Len(s) : q[m + i] = s[i]
      /\ \A i \in 1..Len(q) : i \in 1..m \/ (i - m \in 1..Len(s) /\ i = m + (i - m))
  <2> HIDE DEF q
  <2>1. q = rx \o s
    BY DEF q
  <2> QED BY <1>1, <2>1, Printed
<1> HIDE DEF m
<1>3. /\ Goal => Goal'
      /\ \A v : Value(v) => Value(v)'
      /\ \A l : Evident(l) => Evident(l)'
  BY StaysTrue
<1>4. \A j \in 1..Len(tx') : \E i \in 1..Len(tx) : tx'[j] = tx[i]
  <2>1. CASE tx' = tx
    BY <2>1
  <2>2. CASE tx # <<>> /\ tx' = Tail(tx)
    BY <1>1, <2>2, AmongThem DEF Among
  <2> QED BY <2>1, <2>2
<1>5. Told(task.todo, task.op)' /\ Value(task.val)'
  <2>1. Value(task.val) /\ Told(task.todo, task.op)
    BY DEF TellInv
  <2>2. Told(task.todo, task.op)'
    BY <2>1 DEF Told
  <2>3. Value(task.val)'
    BY <1>3, <2>1 DEF Value
  <2> QED BY <2>2, <2>3
<1>6. WayInv'
  <2>1. \A i \in 1..Len(tx) :
          /\ Allowed(o, tx[i])
          /\ Orders(t, o) => tx[i][1] \notin Queries
          /\ Has(t, Asking) => tx[i][1] \in {"CFUN?", "NSOCR"}
    BY DEF TellInv, WayInv
  <2>2. ASSUME NEW j \in 1..Len(tx')
        PROVE  /\ Allowed(o, tx'[j])
               /\ Orders(t, o) => tx'[j][1] \notin Queries
               /\ Has(t, Asking) => tx'[j][1] \in {"CFUN?", "NSOCR"}
    BY <1>4, <2>1
  <2> QED BY <2>2 DEF WayInv
<1>7. LinesInv'
  <2>1. Evident(task.resp)
    BY DEF TellInv, LinesInv
  <2>2. Evident(task.resp)'
    BY <1>3, <2>1 DEF Evident
  <2>3. ASSUME NEW i \in 1..Len(q), NEW l, l = q[i] PROVE Evident(l)'
    <3>1. CASE i \in 1..m
      <4>1. l = rx[i] /\ i \in 1..Len(rx)
        BY <1>2, <2>3, <3>1 DEF m
      <4>2. Evident(l)
        BY <4>1 DEF TellInv, LinesInv
      <4> QED BY <1>3, <4>2
    <3>2. CASE i - m \in 1..Len(s) /\ i = m + (i - m)
      <4> DEFINE k == i - m
      <4>1. k \in 1..Len(s) /\ l = s[k]
        BY <1>2, <2>3, <3>2
      <4> HIDE DEF k
      <4>2. \E j \in 1..Len(s) : l = s[j]
        BY <4>1
      <4> QED BY <4>2
    <3> QED BY <1>2, <3>1, <3>2
  <2>4. ASSUME NEW i \in 1..Len(rx') PROVE Evident(rx[i])'
    <3> DEFINE l == rx'[i]
    <3>1. i \in 1..Len(q) /\ l = q[i]
      BY DEF q
    <3> HIDE DEF l
    <3>2. \A k : k = q[i] => Evident(k)'
      BY <2>3, <3>1
    <3>3. \A k : k = l => Evident(k)'
      BY <3>1, <3>2
    <3> QED BY <3>3 DEF Evident, l
  <2> QED BY <2>2, <2>4 DEF LinesInv
<1>8. Okay(rx') => Okay(rx) \/ Okay(s)
  <2> SUFFICES ASSUME NEW i \in 1..Len(q), q[i].tag = "OK" PROVE Okay(rx) \/ Okay(s)
    BY DEF Okay, q
  <2>1. CASE i \in 1..m
    BY <1>2, <2>1 DEF Okay, m
  <2>2. CASE i - m \in 1..Len(s) /\ i = m + (i - m)
    <3> DEFINE k == i - m
    <3>1. k \in 1..Len(s) /\ q[i] = s[k]
      BY <1>2, <2>2
    <3> HIDE DEF k
    <3> QED BY <3>1 DEF Okay
  <2> QED BY <1>2, <2>1, <2>2
<1>9. Hushed => Hushed'
  <2>1. Hushed => ~Okay(rx) /\ tx = <<>>
    BY DEF Hushed
  <2>2. Hushed => ~Okay(rx') /\ tx' = <<>>
    BY <1>8, <2>1
  <2> QED BY <2>2 DEF Hushed, Okay
<1>10. HeadInv'
  BY <1>9 DEF TellInv, HeadInv, Step
<1>11. JudgeInv'
  BY <1>3 DEF TellInv, JudgeInv
<1>12. OrderInv'
  <2>1. Orders(t, o) /\ task.ok /\ (Okay(rx) \/ \E j \in 1..Len(tx) : tx[j][1] = "NRB") => Goal
    BY DEF TellInv, OrderInv
  <2>2. (\E j \in 1..Len(tx') : tx'[j][1] = "NRB") => \E j \in 1..Len(tx) : tx[j][1] = "NRB"
    BY <1>4
  <2>3. Orders(t, o) /\ task.ok /\ (Okay(rx') \/ \E j \in 1..Len(tx') : tx'[j][1] = "NRB") => Goal'
    BY <1>3, <1>8, <2>1, <2>2
  <2> QED BY <2>3 DEF OrderInv, Okay
<1>13. AskInv'
  <2> SUFFICES ASSUME Has(t, Asking), NEW i \in 1..Len(q), q[i].tag = "OK" PROVE Confirms(i)'
    BY DEF AskInv, q
  <2>0. Step' = Step /\ task'.resp = task.resp
    BY DEF Step
  <2>1. CASE i \in 1..m
    <3>1. rx[i] = q[i] /\ i \in 1..Len(rx)
      BY <1>2, <2>1 DEF m
    <3>2. Confirms(i)
      BY <3>1 DEF TellInv, AskInv
    <3>3. CASE i > 1 /\ Own(rx[i - 1])
      <4>1. i - 1 \in 1..m
        BY <1>2, <2>1, <3>3
      <4>2. q[i - 1] = rx[i - 1]
        BY <1>2, <4>1
      <4>3. Own(q[i - 1])
        BY <3>3, <4>2
      <4> QED BY <3>3, <4>3 DEF Confirms, Own, q
    <3>4. CASE ~(i > 1 /\ Own(rx[i - 1]))
      <4>1. i = 1 /\ Step[1] \notin {"send", "any"} /\ (Step[1] = "confirm" => Own(task.resp))
        BY <3>2, <3>4 DEF Confirms
      <4> QED BY <2>0, <4>1 DEF Confirms, Own
    <3> QED BY <3>3, <3>4
  <2>2. CASE i - m \in 1..Len(s) /\ i = m + (i - m)
    <3> DEFINE k == i - m
    <3>1. k \in 1..Len(s) /\ q[i] = s[k] /\ i = m + k
      BY <1>2, <2>2
    <3> HIDE DEF k
    <3>2. k > 1 /\ Own(s[k - 1])
      BY <3>1
    <3>3. k - 1 \in 1..Len(s) /\ m + (k - 1) = i - 1 /\ i > 1
      BY <1>2, <3>1, <3>2
    <3>4. q[i - 1] = s[k - 1]
      BY <1>2, <3>3
    <3>5. Own(q[i - 1])
      BY <3>2, <3>4
    <3> QED BY <3>3, <3>5 DEF Confirms, Own, q
  <2> QED BY <1>2, <2>1, <2>2
<1> QED BY <1>5, <1>6, <1>7, <1>10, <1>11, <1>12, <1>13 DEF TellInv

\* The modem prints what nobody has asked for.
LEMMA TellUnasked ==
  ASSUME DriverInv, TellInv, modemReceives \/ modemReports
  PROVE  TellInv'
<1>1. /\ task' = task /\ net' = net /\ tx' = tx /\ rx \in Seq(Lines)
      /\ modem'.on = modem.on /\ modem'.seek = modem.seek /\ modem'.attached = modem.attached
      /\ modem'.qreg = modem.qreg /\ modem'.open = modem.open
  BY UnaskedDoes
<1>2. PICK l \in Lines : rx' = Append(rx, l) /\ l.tag \in {"+NSONMI:", "+QIURC:"} \cup Urcs
  BY UnaskedDoes
<1> DEFINE s == <<l>>
<1>3. s \in Seq(Lines) /\ Len(s) = 1 /\ s[1] = l /\ rx' = rx \o s
  BY <1>1, <1>2
<1> HIDE DEF s
<1>4. NoWorse(task.op)
  BY <1>1 DEF NoWorse
<1>5. l.tag \notin {"OK", "+CFUN:", "+CGATT:", "+QREGSWT:", "number", "+QIOPEN:"}
  BY <1>2 DEF Urcs
<1>6. ASSUME NEW k, \E i \in 1..Len(s) : k = s[i] PROVE Evident(k)'
  <2>1. k = l
    BY <1>3, <1>6
  <2> QED BY <1>5, <2>1 DEF Evident
<1>7. \A i \in 1..Len(s) : s[i].tag # "OK"
  BY <1>3, <1>5
<1>8. ~Okay(s)
  BY <1>7 DEF Okay
<1> QED BY <1>1, <1>3, <1>4, <1>6, <1>7, <1>8, TellHears

\* The modem finds a network.
LEMMA TellFinds ==
  ASSUME DriverInv, TellInv, modemRegisters
  PROVE  TellInv'
<1>1. /\ task' = task /\ net' = net /\ tx' = tx /\ rx' = rx /\ modem.seek
      /\ modem' = [modem EXCEPT !.attached = TRUE]
  BY DEF modemRegisters, TheModem
<1>2. rx \in Seq(Lines) /\ modem \in ModemType
  BY DEF DriverInv, WireInv
<1> DEFINE s == <<>>
<1>3. s \in Seq(Lines) /\ Len(s) = 0 /\ rx' = rx \o s
  BY <1>1, <1>2
<1> HIDE DEF s
<1>4. modem'.on = modem.on /\ modem'.seek = modem.seek /\ modem'.attached = TRUE
  BY <1>1, <1>2 DEF ModemType
<1>5. modem'.qreg = modem.qreg /\ modem'.open = modem.open
  BY <1>1, <1>2 DEF ModemType
<1>6. NoWorse(task.op)
  BY <1>1, <1>4, <1>5 DEF NoWorse
<1>7. \A i \in 1..Len(s) : FALSE
  BY <1>3
<1>8. ~Okay(s)
  BY <1>7 DEF Okay
<1>9. \A k : (\E i \in 1..Len(s) : k = s[i]) => FALSE
  BY <1>7
<1> QED BY <1>1, <1>3, <1>6, <1>7, <1>8, <1>9, TellHears

\* What obeying a command does to the modem.
LEMMA ObeyedDoes ==
  ASSUME modem \in ModemType, NEW c, NEW a, <<c, a>> \in Commands, NEW w, w = Obeyed(c, a)
  PROVE  /\ c \notin {"CFUN", "NRB"} => w.on = modem.on
         /\ c = "CFUN" /\ a = 1 => w.on
         /\ c \notin {"COPS", "CGATT", "NRB"} => w.seek = modem.seek
         /\ c \notin {"CFUN", "CGATT", "NRB"} => w.attached = modem.attached
         /\ c = "COPS" \/ (c = "CGATT" /\ a = 1) => w.seek
         /\ c = "CGATT" /\ a # 1 => ~w.seek /\ ~w.attached
         /\ c # "QREGSWT" => w.qreg = modem.qreg
         /\ c = "QREGSWT" => w.qreg = a
         /\ c \notin {"NSOCL", "QICLOSE", "NRB"} => modem.open \subseteq w.open
         /\ c = "NSOCR" /\ ~Refused(c, a) => Lowest(Free) \in w.open
         /\ c = "QIOPEN" /\ ~Refused(c, a) => a \in w.open
<1>1. CASE w = modem /\ c \notin {"CFUN", "COPS", "CGATT", "QREGSWT"} /\ ~(c \in {"NSOCR", "QIOPEN"} /\ ~Refused(c, a))
  BY <1>1
<1>2. CASE c = "CFUN"
  <2> DEFINE b == (a = 1)
             d == modem.attached /\ a = 1
  <2>1. w = [modem EXCEPT !.on = b, !.attached = d]
    BY <1>2 DEF Obeyed, Refused
  <2>2. a = 1 => b
    OBVIOUS
  <2> HIDE DEF b, d
  <2>3. w.on = b /\ w.seek = modem.seek
    BY <2>1 DEF ModemType
  <2>4. w.qreg = modem.qreg /\ w.open = modem.open
    BY <2>1 DEF ModemType
  <2> QED BY <1>2, <2>2, <2>3, <2>4
<1>3. CASE c = "COPS" \/ (c = "CGATT" /\ a = 1)
  <2>1. w = [modem EXCEPT !.seek = TRUE]
    BY <1>3, Zenon DEF Obeyed, Refused
  <2>2. w.on = modem.on /\ w.seek = TRUE /\ w.attached = modem.attached
    BY <2>1 DEF ModemType
  <2>3. w.qreg = modem.qreg /\ w.open = modem.open
    BY <2>1 DEF ModemType
  <2> QED BY <1>3, <2>2, <2>3
<1>4. CASE c = "CGATT" /\ a # 1
  <2>1. w = [modem EXCEPT !.seek = FALSE, !.attached = FALSE]
    BY <1>4 DEF Obeyed, Refused
  <2>2. w.on = modem.on /\ w.seek = FALSE /\ w.attached = FALSE
    BY <2>1 DEF ModemType
  <2>3. w.qreg = modem.qreg /\ w.open = modem.open
    BY <2>1 DEF ModemType
  <2> QED BY <1>4, <2>2, <2>3
<1>5. CASE c = "QREGSWT"
  <2>1. w = [modem EXCEPT !.qreg = a]
    BY <1>5 DEF Obeyed, Refused
  <2>2. w.on = modem.on /\ w.seek = modem.seek /\ w.attached = modem.attached
    BY <2>1 DEF ModemType
  <2>3. w.qreg = a /\ w.open = modem.open
    BY <2>1 DEF ModemType
  <2> QED BY <1>5, <2>2, <2>3
<1>6. CASE c = "NRB"
  <2>1. w = [NoModem EXCEPT !.qreg = modem.qreg, !.last = modem.last]
    BY <1>6 DEF Obeyed, Refused
  <2>2. w.qreg = modem.qreg
    BY <2>1 DEF NoModem
  <2> QED BY <1>6, <2>2
<1>7. CASE c \in {"CEREG", "NPSMR", "CSCON"}
  <2>1. PICK u : w = [modem EXCEPT !.urcs = u]
    BY <1>7 DEF Obeyed, Refused
  <2>2. w.on = modem.on /\ w.seek = modem.seek /\ w.attached = modem.attached
    BY <2>1 DEF ModemType
  <2>3. w.qreg = modem.qreg /\ w.open = modem.open
    BY <2>1 DEF ModemType
  <2> QED BY <1>7, <2>2, <2>3
<1>8. CASE c \in {"NSOCR", "QIOPEN"} /\ ~Refused(c, a)
  <2> DEFINE n == IF c = "NSOCR" THEN Lowest(Free) ELSE a
             S == modem.open \cup {n}
  <2>1. w = [modem EXCEPT !.open = S]
    BY <1>8 DEF Obeyed
  <2>2. n \in S /\ modem.open \subseteq S
    OBVIOUS
  <2>3. (c = "NSOCR" => n = Lowest(Free)) /\ (c = "QIOPEN" => n = a)
    BY <1>8
  <2> HIDE DEF n, S
  <2>4. w.on = modem.on /\ w.seek = modem.seek /\ w.attached = modem.attached
    BY <2>1 DEF ModemType
  <2>5. w.qreg = modem.qreg /\ w.open = S
    BY <2>1 DEF ModemType
  <2> QED BY <1>8, <2>2, <2>3, <2>4, <2>5
<1>9. CASE c \in {"NSOCL", "QICLOSE"} /\ ~Refused(c, a)
  <2>1. w = [modem EXCEPT !.open = @ \ {a}, !.inbox[a] = 0]
    BY <1>9 DEF Obeyed
  <2>2. w.on = modem.on /\ w.seek = modem.seek /\ w.attached = modem.attached
    BY <2>1 DEF ModemType
  <2>3. w.qreg = modem.qreg
    BY <2>1 DEF ModemType
  <2> QED BY <1>9, <2>2, <2>3
<1>10. CASE c \in {"NSORF", "QIRD"} /\ ~Refused(c, a)
  <2>1. PICK u : w = [modem EXCEPT !.inbox = u]
    BY <1>10 DEF Obeyed
  <2>2. w.on = modem.on /\ w.seek = modem.seek /\ w.attached = modem.attached
    BY <2>1 DEF ModemType
  <2>3. w.qreg = modem.qreg /\ w.open = modem.open
    BY <2>1 DEF ModemType
  <2> QED BY <1>10, <2>2, <2>3
<1>11. CASE /\ c \notin {"CFUN", "COPS", "CGATT", "QREGSWT", "NRB", "CEREG", "NPSMR", "CSCON"}
            /\ Refused(c, a)
  <2>1. w = modem
    BY <1>11 DEF Obeyed
  <2> QED BY <1>1, <1>11, <2>1
<1>12. CASE /\ c \notin {"CFUN", "COPS", "CGATT", "QREGSWT", "NRB", "CEREG", "NPSMR", "CSCON", "NSOCR",
                         "QIOPEN", "NSOCL", "QICLOSE", "NSORF", "QIRD"}
            /\ ~Refused(c, a)
  <2>1. w = modem
    BY <1>12, Zenon DEF Obeyed
  <2> QED BY <1>1, <1>12, <2>1
<1> QED BY <1>2, <1>3, <1>4, <1>5, <1>6, <1>7, <1>8, <1>9, <1>10, <1>11, <1>12

\* Obeying a command the function gives undoes nothing it may report.
LEMMA ObeyedWell ==
  ASSUME modem \in ModemType, NEW o, NEW c, NEW a, <<c, a>> \in Commands, Allowed(o, <<c, a>>),
         modem' \in {modem, Obeyed(c, a)}
  PROVE  NoWorse(o)
<1> DEFINE w == Obeyed(c, a)
<1>1. /\ c \notin {"CFUN", "NRB"} => w.on = modem.on
      /\ c = "CFUN" /\ a = 1 => w.on
      /\ c \notin {"COPS", "CGATT", "NRB"} => w.seek = modem.seek
      /\ c \notin {"CFUN", "CGATT", "NRB"} => w.attached = modem.attached
      /\ c = "COPS" \/ (c = "CGATT" /\ a = 1) => w.seek
      /\ c = "CGATT" /\ a # 1 => ~w.seek /\ ~w.attached
      /\ c # "QREGSWT" => w.qreg = modem.qreg
      /\ c = "QREGSWT" => w.qreg = a
      /\ c \notin {"NSOCL", "QICLOSE", "NRB"} => modem.open \subseteq w.open
  BY ObeyedDoes
<1> HIDE DEF w
<1>2. /\ o = "attach" => c = "COPS" \/ (c = "CGATT" /\ a = 1)
      /\ o = "detach" => c = "CGATT" /\ a # 1
      /\ o = "isAttached" => c = "CGATT?"
      /\ o = "isModemOn" => c = "CFUN?"
      /\ o = "switchModem" => c = "CFUN?" \/ (c = "CFUN" /\ a = 1)
      /\ o = "initialize" =>
           c \in {"CFUN?", "NSONMI", "CEDRXS", "CGDCONT"} \/ (c = "CFUN" /\ a = 1)
      /\ o = "reboot" => c \in {"QREGSWT?", "NRB"} \/ (c = "QREGSWT" /\ a = 2)
      /\ o = "connect" => c \in {"NSOCR", "QIOPEN"}
  BY DEF Allowed
<1>3. CASE modem' = modem
  BY <1>3 DEF NoWorse
<1>4. CASE modem' = w
  <2>1. o \in OnOps /\ modem.on => w.on
    BY <1>1, <1>2 DEF OnOps
  <2>2. o = "isAttached" /\ modem.attached => w.attached
    BY <1>1, <1>2
  <2>3. o = "reboot" /\ modem.qreg = 2 => w.qreg = 2
    BY <1>1, <1>2
  <2>4. o = "connect" => modem.open \subseteq w.open
    BY <1>1, <1>2
  <2>5. o = "attach" /\ modem.seek => w.seek
    BY <1>1, <1>2
  <2>6. o = "detach" /\ ~modem.seek /\ ~modem.attached => ~w.seek /\ ~w.attached
    BY <1>1, <1>2
  <2> QED BY <1>4, <2>1, <2>2, <2>3, <2>4, <2>5, <2>6 DEF NoWorse
<1> QED BY <1>3, <1>4 DEF w

\* The modem answers, refuses, or is silent.
LEMMA TellAnswers ==
  ASSUME DriverInv, TellInv, modemAnswers
  PROVE  TellInv'
<1> DEFINE c == Head(tx)[1]
           a == Head(tx)[2]
           o == task.op
<1>1. /\ tx # <<>> /\ tx' = Tail(tx) /\ UNCHANGED <<task, driver, net, filters>>
      /\ Head(tx) = tx[1] /\ 1 \in 1..Len(tx) /\ <<c, a>> \in Commands
      /\ rx \in Seq(Lines) /\ tx \in Seq(Commands) /\ modem \in ModemType
  BY AnswersDo
<1>2. PICK s \in Seq(Lines) :
        /\ rx' = rx \o s /\ \A i \in 1..Len(s) : Says(s[i], c, a)
        /\ \/ s = Answer(c, a) /\ modem' = Obeyed(c, a)
           \/ s = <<ErrReply>> /\ modem' = modem
           \/ s = <<>> /\ modem' \in {modem, Obeyed(c, a)}
  BY AnswersDo
<1>3. tx[1][1] = c /\ tx[1][2] = a /\ <<c, a>>[1] = c /\ <<c, a>>[2] = a
  BY <1>1
<1>4. Allowed(o, tx[1])
  BY <1>1 DEF TellInv, WayInv
<1>5. Allowed(o, <<c, a>>)
  BY <1>3, <1>4 DEF Allowed
<1>6. /\ Orders(task.todo, o) => c \notin Queries
      /\ Has(task.todo, Asking) => c \in {"CFUN?", "NSOCR"}
      /\ Orders(task.todo, o) /\ task.ok /\ c = "NRB" => Goal
  <2>1. /\ Orders(task.todo, o) => tx[1][1] \notin Queries
        /\ Has(task.todo, Asking) => tx[1][1] \in {"CFUN?", "NSOCR"}
    BY <1>1 DEF TellInv, WayInv
  <2>2. Orders(task.todo, o) /\ task.ok /\ tx[1][1] = "NRB" => Goal
    BY <1>1 DEF TellInv, OrderInv
  <2> QED BY <1>3, <2>1, <2>2
<1> HIDE DEF c, a
<1>7. modem' \in {modem, Obeyed(c, a)}
  BY <1>2
<1>8. NoWorse(o)
  BY <1>1, <1>5, <1>7, ObeyedWell
<1>9. (\E i \in 1..Len(s) : s[i].tag # "ERROR") => s = Answer(c, a) /\ modem' = Obeyed(c, a)
  <2>1. ASSUME s = <<ErrReply>> PROVE \A i \in 1..Len(s) : s[i].tag = "ERROR"
    <3>1. Len(s) = 1 /\ s[1] = ErrReply
      BY <2>1
    <3> QED BY <3>1 DEF ErrReply, Line
  <2>2. ASSUME s = <<>> PROVE \A i \in 1..Len(s) : FALSE
    <3>1. Len(s) = 0
      BY <2>2
    <3> QED BY <3>1
  <2> QED BY <1>2, <2>1, <2>2
<1> DEFINE w == Obeyed(c, a)
<1>10. /\ c = "CFUN" /\ a = 1 => w.on
       /\ c = "COPS" \/ (c = "CGATT" /\ a = 1) => w.seek
       /\ c = "CGATT" /\ a # 1 => ~w.seek /\ ~w.attached
       /\ c # "QREGSWT" => w.qreg = modem.qreg
       /\ c = "QREGSWT" => w.qreg = a
       /\ c = "NSOCR" /\ ~Refused(c, a) => Lowest(Free) \in w.open
       /\ c = "QIOPEN" /\ ~Refused(c, a) => a \in w.open
  BY <1>1, ObeyedDoes
<1> HIDE DEF w
<1>11. ASSUME NEW l, \E i \in 1..Len(s) : l = s[i] PROVE Evident(l)'
  <2>1. PICK i \in 1..Len(s) : l = s[i]
    BY <1>11
  <2>2. Says(l, c, a)
    BY <1>2, <2>1
  <2>3. l.tag # "ERROR" => modem' = w
    BY <1>9, <2>1 DEF w
  <2>4. o \in OnOps /\ l.tag = "+CFUN:" /\ l.n # 0 => modem'.on
    BY <1>8, <2>2 DEF Says, NoWorse
  <2>5. o = "isAttached" /\ l.tag = "+CGATT:" /\ l.n = 1 => modem'.attached
    BY <1>8, <2>2 DEF Says, NoWorse
  <2>6. o = "reboot" /\ l.tag = "+QREGSWT:" /\ l.n = 2 => modem'.qreg = 2
    BY <1>8, <2>2 DEF Says, NoWorse
  <2>7. o = "connect" /\ l.tag \in {"number", "+QIOPEN:"} => l.n \in modem'.open
    BY <1>10, <2>2, <2>3 DEF Says
  <2>8. o = "connect" => l.tag # "+CFUN:"
    <3>1. o = "connect" => c \in {"NSOCR", "QIOPEN"}
      BY <1>5 DEF Allowed
    <3> QED BY <2>2, <3>1 DEF Says
  <2> QED BY <1>1, <2>4, <2>5, <2>6, <2>7, <2>8 DEF Evident, o
<1>12. Okay(s) /\ Orders(task.todo, o) /\ task.ok => Goal'
  <2> SUFFICES ASSUME Okay(s), Orders(task.todo, o), task.ok PROVE Goal'
    OBVIOUS
  <2>1. PICK i \in 1..Len(s) : s[i].tag = "OK"
    BY DEF Okay
  <2>2. modem' = w
    BY <1>9, <2>1 DEF w
  <2>3. o \in {"attach", "detach", "switchModem", "reboot"}
    BY DEF Orders
  <2>4. c \notin Queries
    BY <1>6
  <2>5. CASE o = "attach"
    <3>1. modem'.seek
      BY <1>5, <1>10, <2>2, <2>5 DEF Allowed
    <3> QED BY <1>1, <2>5, <3>1 DEF Goal, OnOps, o
  <2>6. CASE o = "detach"
    <3>1. ~modem'.seek /\ ~modem'.attached
      BY <1>5, <1>10, <2>2, <2>6 DEF Allowed
    <3> QED BY <1>1, <2>6, <3>1 DEF Goal, OnOps, o
  <2>7. CASE o = "switchModem"
    <3>1. modem'.on
      BY <1>5, <1>10, <2>2, <2>4, <2>7 DEF Allowed, Queries
    <3> QED BY <1>1, <2>7, <3>1 DEF Goal, OnOps, o
  <2>8. CASE o = "reboot"
    <3>1. CASE c = "NRB"
      <4>1. Goal
        BY <1>6, <3>1
      <4> QED BY <1>1, <1>8, <4>1, StaysTrue DEF o
    <3>2. CASE c # "NRB"
      <4>1. modem'.qreg = 2
        BY <1>5, <1>10, <2>2, <2>4, <2>8, <3>2 DEF Allowed, Queries
      <4> QED BY <1>1, <2>8, <4>1 DEF Goal, OnOps, o
    <3> QED BY <3>1, <3>2
  <2> QED BY <2>3, <2>5, <2>6, <2>7, <2>8
<1>13. Has(task.todo, Asking) => \A i \in 1..Len(s) : s[i].tag = "OK" => i > 1 /\ Own(s[i - 1])
  <2> SUFFICES ASSUME c \in {"CFUN?", "NSOCR"}, NEW i \in 1..Len(s), s[i].tag = "OK"
               PROVE  i > 1 /\ Own(s[i - 1])
    BY <1>6
  <2>1. s = Answer(c, a)
    BY <1>9
  <2>2. \/ s = <<ErrReply>>
        \/ Len(s) = 2 /\ s[2] = OkReply /\ s[1].tag \in {"+CFUN:", "number"}
    BY <1>1, <2>1, AnswerSays
  <2>3. s # <<ErrReply>>
    <3>1. ASSUME s = <<ErrReply>> PROVE FALSE
      <4>1. Len(s) = 1 /\ s[1] = ErrReply
        BY <3>1
      <4>2. s[i] = ErrReply
        BY <4>1
      <4> QED BY <4>2 DEF ErrReply, Line
    <3> QED BY <3>1
  <2>4. i \in {1, 2} /\ 2 - 1 = 1
    BY <2>2, <2>3
  <2>5. i = 2
    BY <2>2, <2>3, <2>4
  <2> QED BY <2>2, <2>3, <2>4, <2>5 DEF Own
<1> QED BY <1>1, <1>2, <1>8, <1>11, <1>12, <1>13, TellHears DEF o

\* A function is called that reports on the modem.
LEMMA TellBegins ==
  ASSUME DriverInv, NEW f, NEW a, NEW p \in Seq(Steps), NEW v, v \notin {1, 2}, Called(f, a, p, v),
         task'.clean, p # <<>>, p[1][1] \in {"send", "call"}, Told(p, f),
         f \in Judged => Pending(p, f)
  PROVE  TellInv'
<1> DEFINE b == (rx = <<>> /\ tx = <<>>)
<1>1. /\ task' = [NoTask EXCEPT !.op = f, !.arg = a, !.todo = p, !.val = v, !.clean = b]
      /\ rx' = rx /\ tx' = tx
  BY DEF Called, Begin
<1>2. b => rx = <<>> /\ tx = <<>>
  OBVIOUS
<1> HIDE DEF b
<1>3. task'.op = f /\ task'.todo = p /\ task'.val = v /\ task'.resp = NoLine
  BY <1>1 DEF NoTask
<1>4. task'.clean = b
  BY <1>1 DEF NoTask
<1>5. rx' = <<>> /\ tx' = <<>>
  BY <1>1, <1>2, <1>4
<1>6. Len(rx') = 0 /\ Len(tx') = 0
  BY <1>5
<1>7. (\A i \in 1..Len(rx') : FALSE) /\ (\A i \in 1..Len(tx') : FALSE)
  BY <1>6
<1>8. NoLine.tag = ""
  BY DEF NoLine, Line
<1>9. Step' = p[1]
  <2>1. p[1] = Head(p)
    OBVIOUS
  <2> QED BY <1>3, <2>1 DEF Step
<1>10. Hushed'
  BY <1>5, <1>7 DEF Hushed, Okay
<1>11. Evident(task.resp)'
  BY <1>3, <1>8 DEF Evident
<1>12. LinesInv'
  BY <1>7, <1>11 DEF LinesInv
<1>13. WayInv' /\ AskInv' /\ OrderInv'
  BY <1>7 DEF WayInv, AskInv, OrderInv, Okay
<1>14. HeadInv'
  BY <1>9, <1>10 DEF HeadInv
<1>15. JudgeInv'
  BY <1>3 DEF JudgeInv
<1>16. Told(task.todo, task.op)' /\ Value(task.val)'
  BY <1>3 DEF Value
<1> QED BY <1>12, <1>13, <1>14, <1>15, <1>16 DEF TellInv

\* A program of a function that reports on the modem.
Honest(p, o) ==
  /\ p \in Seq(Steps) /\ p # <<>> /\ p[1][1] \in {"send", "call"} /\ Told(p, o)
  /\ o \in Judged => Pending(p, o)

\* attach() and detach()
LEMMA TellAttach ==
  ASSUME NEW o \in {"attach", "detach"}, NEW x \in Steps, x[1] = "send", Allowed(o, x[2])
  PROVE  Honest(<<x, ReplyOk, Flush>>, o)
<1> DEFINE y == ReplyOk
           z == Flush
           p == <<x, y, z>>
<1>1. y \in Steps /\ y[1] = "ok" /\ z \in Steps /\ z[1] = "flush"
  BY StepsAre, KindOf
<1> HIDE DEF y, z
<1>2. p \in Seq(Steps) /\ p # <<>> /\ Len(p) = 3 /\ p[1] = x /\ p[2] = y /\ p[3] = z
  BY <1>1, ThreeSteps
<1> HIDE DEF p
<1>3. Owner(x[1], o) /\ Owner(y[1], o) /\ Owner(z[1], o)
  BY <1>1 DEF Owner, TellKinds
<1>4. Carries(x, o) /\ Carries(y, o) /\ Carries(z, o)
  BY <1>1 DEF Carries, Allowed
<1>5. After(p, 1, o) /\ After(p, 2, o) /\ After(p, 3, o)
  BY <1>1, <1>2 DEF After
<1>6. Stands(p, 1) /\ Stands(p, 2) /\ Stands(p, 3)
  BY <1>1, <1>2 DEF Stands
<1>7. Before(x, y, o) /\ Before(y, z, o)
  BY <1>1 DEF Before, Turns
<1>8. (\A i \in 1..3 : i \in {1, 2, 3}) /\ 2 - 1 = 1 /\ 3 - 1 = 2 /\ ~(1 > 1)
  OBVIOUS
<1>9. Told(p, o)
  BY <1>2, <1>3, <1>4, <1>5, <1>6, <1>7, <1>8 DEF Told
<1>10. Pending(p, o)
  <2>1. Judges(p, 2, o) /\ 2 \in 1..Len(p)
    BY <1>1, <1>2 DEF Judges
  <2> QED BY <2>1 DEF Pending
<1>11. Honest(p, o)
  BY <1>2, <1>9, <1>10 DEF Honest
<1> QED BY <1>11 DEF p, y, z

\* The functions that only ask.
LEMMA TellAsks ==
  ASSUME NEW p, NEW o \in {"isAttached", "isModemOn"}, Query(p, o)
  PROVE  Honest(p, o)
<1> DEFINE r == <<>>
           w == p \o r
<1>1. r \in Seq(Steps)
  OBVIOUS
<1>2. p \in Seq(Steps) /\ p # <<>> /\ p[1][1] = "send"
  BY DEF Query
<1>3. w = p
  BY <1>2
<1>4. Joined(w, p, r)
  BY DEF Joined
<1> HIDE DEF w, r
<1>5. Fits(p, o) /\ Placed(w, p, o)
  BY <1>1, <1>4, QueryFits
<1>6. Told(p, o)
  BY <1>3, <1>5 DEF Fits, Placed, Told
<1> QED BY <1>2, <1>6 DEF Honest, Judged

\* switchModem(MODEM_ON)
LEMMA TellSwitch ==
  ASSUME NEW y, y = <<"switch", 1>>
  PROVE  Honest(<<Call("isModemOn"), y>>, "switchModem")
<1> DEFINE x == Call("isModemOn")
           p == <<x, y>>
           o == "switchModem"
<1>1. /\ x \in Steps /\ x[1] = "call" /\ x[2] = "isModemOn"
      /\ y \in Steps /\ y[1] = "switch" /\ y[2] = 1
  BY DEF Steps, Call
<1> HIDE DEF x
<1>2. p \in Seq(Steps) /\ p # <<>> /\ Len(p) = 2 /\ p[1] = x /\ p[2] = y
  BY <1>1
<1> HIDE DEF p
<1>3. Owner(x[1], o) /\ Owner(y[1], o)
  BY <1>1 DEF Owner, TellKinds
<1>4. Carries(x, o) /\ Carries(y, o)
  BY <1>1 DEF Carries
<1>8. (\A i \in 1..2 : i \in {1, 2}) /\ 2 - 1 = 1 /\ ~(1 > 1) /\ 1 + 1 = 2 /\ 2 \in 1..2
  OBVIOUS
<1>5. After(p, 1, o) /\ After(p, 2, o)
  <2>1. Ahead(p, 1, 1, Turns)
    BY <1>1, <1>2, <1>8 DEF Ahead, Turns
  <2> QED BY <1>1, <1>2, <2>1 DEF After, Sensors
<1>6. Stands(p, 1) /\ Stands(p, 2)
  BY <1>1, <1>2 DEF Stands
<1>7. Before(x, y, o)
  BY <1>1 DEF Before, Turns
<1>9. Told(p, o)
  BY <1>2, <1>3, <1>4, <1>5, <1>6, <1>7, <1>8 DEF Told
<1>10. Pending(p, o)
  <2>1. Judges(p, 2, o) /\ 2 \in 1..Len(p)
    BY <1>1, <1>2, <1>8 DEF Judges, Turns
  <2> QED BY <2>1 DEF Pending
<1>11. Honest(p, o)
  BY <1>1, <1>2, <1>9, <1>10 DEF Honest
<1> QED BY <1>11 DEF p, x, o

\* reboot() of BC95
LEMMA TellRestart == Honest(rebootBC95, "reboot")
<1> DEFINE x == Call("checkQRegSwt")
           y == Do("qregswt")
           z == <<"force", <<"NRB", 0>>>>
           u == ReadUntil("OK")
           v == Flush
           p == <<x, y, z, u, v>>
           o == "reboot"
<1>1. /\ x \in Steps /\ x[1] = "call" /\ x[2] = "checkQRegSwt"
      /\ z \in Steps /\ z[1] = "force" /\ z[2][1] = "NRB"
  BY DEF Steps, Call, Commands, Names
<1>2. /\ y \in Steps /\ y[1] = "qregswt" /\ u \in Steps /\ u[1] = "until" /\ u[2] = "OK"
      /\ v \in Steps /\ v[1] = "flush"
  <2>1. "qregswt" \in Simple /\ "OK" \in Tags
    BY DEF Simple, Tags
  <2> QED BY <2>1, StepsAre, KindOf
<1> HIDE DEF x, y, z, u, v
<1>3. /\ p \in Seq(Steps) /\ p # <<>> /\ Len(p) = 5 /\ p[1] = x /\ p[2] = y /\ p[3] = z /\ p[4] = u
      /\ p[5] = v
  BY <1>1, <1>2
<1> HIDE DEF p
<1>4. /\ Owner(x[1], o) /\ Owner(y[1], o) /\ Owner(z[1], o) /\ Owner(u[1], o) /\ Owner(v[1], o)
  BY <1>1, <1>2 DEF Owner, TellKinds
<1>5. Carries(x, o) /\ Carries(y, o) /\ Carries(z, o) /\ Carries(u, o) /\ Carries(v, o)
  BY <1>1, <1>2 DEF Carries
<1>6. /\ \A i \in 1..5 : i \in {1, 2, 3, 4, 5}
      /\ 2 - 1 = 1 /\ 3 - 1 = 2 /\ 4 - 1 = 3 /\ 5 - 1 = 4 /\ ~(1 > 1) /\ 1 + 1 = 2 /\ 2 + 1 = 3
      /\ 3 + 2 = 5 /\ 2 \in 1..5 /\ 3 \in 1..5
  OBVIOUS
<1>7. Ahead(p, 1, 1, Turns) /\ Ahead(p, 2, 1, {"force"})
  BY <1>1, <1>2, <1>3, <1>6 DEF Ahead, Turns
<1>8. After(p, 1, o) /\ After(p, 2, o) /\ After(p, 3, o)
  BY <1>1, <1>2, <1>3, <1>7 DEF After, Sensors
<1>9. After(p, 4, o) /\ After(p, 5, o)
  BY <1>1, <1>2, <1>3, <1>7 DEF After, Sensors
<1>10. Stands(p, 1) /\ Stands(p, 2) /\ Stands(p, 3) /\ Stands(p, 4) /\ Stands(p, 5)
  BY <1>1, <1>2, <1>3, <1>6 DEF Stands
<1>11. Before(x, y, o) /\ Before(y, z, o) /\ Before(z, u, o) /\ Before(u, v, o)
  BY <1>1, <1>2 DEF Before, Turns
<1>12. Told(p, o)
  <2>1. ASSUME NEW i \in 1..5
        PROVE  Owner(p[i][1], o) /\ Carries(p[i], o) /\ After(p, i, o) /\ Stands(p, i)
    BY <1>3, <1>4, <1>5, <1>6, <1>8, <1>9, <1>10
  <2>2. ASSUME NEW i \in 1..5, i > 1 PROVE Before(p[i - 1], p[i], o)
    BY <1>3, <1>6, <1>11, <2>2
  <2> QED BY <1>3, <2>1, <2>2 DEF Told
<1>13. Pending(p, o)
  <2>1. Judges(p, 2, o) /\ 2 \in 1..Len(p)
    BY <1>2, <1>3, <1>6 DEF Judges, Turns
  <2> QED BY <2>1 DEF Pending
<1>14. Honest(p, o)
  BY <1>1, <1>3, <1>12, <1>13 DEF Honest
<1> QED BY <1>14 DEF p, x, y, z, u, v, o, rebootBC95

\* initialize() of BG96, of the SARA modems and of NbiotConnectivity.
LEMMA TellInit ==
  ASSUME NEW p,
         p = <<Send("CFUN", 1), ReadUntil("OK"), Flush, Call("isModemOn"), Do("requireOn"),
               Send("CGDCONT", 1), ReplyOk, Flush>>
  PROVE  Honest(p, "initialize")
<1> DEFINE x == Send("CFUN", 1)
           u == ReadUntil("OK")
           v == Flush
           c == Call("isModemOn")
           q == Do("requireOn")
           y == Send("CGDCONT", 1)
           k == ReplyOk
           o == "initialize"
<1>1. /\ c \in Steps /\ c[1] = "call" /\ c[2] = "isModemOn"
  BY DEF Steps, Call
<1>2. /\ q \in Steps /\ q[1] = "requireOn" /\ u \in Steps /\ u[1] = "until"
      /\ v \in Steps /\ v[1] = "flush" /\ k \in Steps /\ k[1] = "ok"
  <2>1. "requireOn" \in Simple /\ "OK" \in Tags
    BY DEF Simple, Tags
  <2> QED BY <2>1, StepsAre, KindOf
<1>3. /\ x \in Steps /\ x[1] = "send" /\ x[2][1] = "CFUN" /\ x[2][2] = 1
      /\ y \in Steps /\ y[1] = "send" /\ y[2][1] = "CGDCONT"
  <2>1. "CFUN" \in Names /\ "CGDCONT" \in Names /\ 1 \in Int
    BY DEF Names
  <2> QED BY <2>1, StepsAre, KindOf
<1> HIDE DEF x, u, v, c, q, y, k
<1>4. /\ p \in Seq(Steps) /\ p # <<>> /\ Len(p) = 8 /\ p[1] = x /\ p[2] = u /\ p[3] = v /\ p[4] = c
      /\ p[5] = q /\ p[6] = y /\ p[7] = k /\ p[8] = v
  <2>1. p = <<x, u, v, c, q, y, k, v>>
    BY DEF x, u, v, c, q, y, k
  <2> QED BY <1>1, <1>2, <1>3, <2>1
<1>5. /\ Owner(x[1], o) /\ Owner(u[1], o) /\ Owner(v[1], o) /\ Owner(c[1], o) /\ Owner(q[1], o)
      /\ Owner(y[1], o) /\ Owner(k[1], o)
  BY <1>1, <1>2, <1>3 DEF Owner, TellKinds
<1>6. /\ Carries(x, o) /\ Carries(u, o) /\ Carries(v, o) /\ Carries(c, o) /\ Carries(q, o)
      /\ Carries(y, o) /\ Carries(k, o)
  BY <1>1, <1>2, <1>3 DEF Carries, Allowed
<1>7. /\ \A i \in 1..8 : i \in {1, 2, 3, 4, 5, 6, 7, 8}
      /\ 2 - 1 = 1 /\ 3 - 1 = 2 /\ 4 - 1 = 3 /\ 5 - 1 = 4 /\ 6 - 1 = 5 /\ 7 - 1 = 6 /\ 8 - 1 = 7
      /\ ~(1 > 1) /\ 4 + 1 = 5 /\ 5 \in 1..8
  OBVIOUS
<1>8. Ahead(p, 4, 1, {"requireOn"})
  BY <1>2, <1>4, <1>7 DEF Ahead
<1>9. ASSUME NEW i \in 1..8
      PROVE  After(p, i, o) /\ Stands(p, i)
  <2>1. p[i][1] = "call" => i = 4
    BY <1>1, <1>2, <1>3, <1>4, <1>7
  <2>2. p[i][1] \in {"send", "until", "flush", "call", "requireOn", "ok"}
    BY <1>1, <1>2, <1>3, <1>4, <1>7
  <2>3. After(p, i, o)
    BY <1>8, <2>1, <2>2 DEF After
  <2>4. Stands(p, i)
    BY <2>2 DEF Stands
  <2> QED BY <2>3, <2>4
<1>10. /\ Before(x, u, o) /\ Before(u, v, o) /\ Before(v, c, o) /\ Before(c, q, o) /\ Before(q, y, o)
       /\ Before(y, k, o) /\ Before(k, v, o)
  BY <1>1, <1>2, <1>3 DEF Before, Turns
<1>11. Told(p, o)
  <2>1. ASSUME NEW i \in 1..8 PROVE Owner(p[i][1], o) /\ Carries(p[i], o)
    BY <1>4, <1>5, <1>6, <1>7
  <2>2. ASSUME NEW i \in 1..8, i > 1 PROVE Before(p[i - 1], p[i], o)
    BY <1>4, <1>7, <1>10, <2>2
  <2> QED BY <1>4, <1>9, <2>1, <2>2 DEF Told
<1>12. Pending(p, o)
  <2>1. Judges(p, 5, o) /\ 5 \in 1..Len(p)
    BY <1>2, <1>4, <1>7 DEF Judges
  <2> QED BY <2>1 DEF Pending
<1>13. Honest(p, o)
  BY <1>3, <1>4, <1>11, <1>12 DEF Honest
<1> QED BY <1>13 DEF o

\* initialize() of BC95.
LEMMA TellInitBC95 == Honest(initializeBC95, "initialize")
<1> DEFINE x == Send("CFUN", 1)
           u == ReadUntil("OK")
           v == Flush
           c == Call("isModemOn")
           q == Do("requireOn")
           y == Send("NSONMI", 3)
           z == Send("CEDRXS", 0)
           p == initializeBC95
           o == "initialize"
<1>1. /\ c \in Steps /\ c[1] = "call" /\ c[2] = "isModemOn"
  BY DEF Steps, Call
<1>2. /\ q \in Steps /\ q[1] = "requireOn" /\ u \in Steps /\ u[1] = "until"
      /\ v \in Steps /\ v[1] = "flush"
  <2>1. "requireOn" \in Simple /\ "OK" \in Tags
    BY DEF Simple, Tags
  <2> QED BY <2>1, StepsAre, KindOf
<1>3. /\ x \in Steps /\ x[1] = "send" /\ x[2][1] = "CFUN" /\ x[2][2] = 1
      /\ y \in Steps /\ y[1] = "send" /\ y[2][1] = "NSONMI"
      /\ z \in Steps /\ z[1] = "send" /\ z[2][1] = "CEDRXS"
  <2>1. "CFUN" \in Names /\ "NSONMI" \in Names /\ "CEDRXS" \in Names /\ 1 \in Int /\ 3 \in Int /\ 0 \in Int
    BY DEF Names
  <2> QED BY <2>1, StepsAre, KindOf
<1> HIDE DEF x, u, v, c, q, y, z, p
<1>4. /\ p \in Seq(Steps) /\ p # <<>> /\ Len(p) = 10 /\ p[1] = x /\ p[2] = u /\ p[3] = v /\ p[4] = c
      /\ p[5] = q /\ p[6] = y /\ p[7] = u /\ p[8] = z /\ p[9] = u /\ p[10] = v
  <2>1. p = <<x, u, v, c, q, y, u, z, u, v>>
    BY DEF x, u, v, c, q, y, z, p, initializeBC95
  <2> QED BY <1>1, <1>2, <1>3, <2>1
<1>5. /\ Owner(x[1], o) /\ Owner(u[1], o) /\ Owner(v[1], o) /\ Owner(c[1], o) /\ Owner(q[1], o)
      /\ Owner(y[1], o) /\ Owner(z[1], o)
  BY <1>1, <1>2, <1>3 DEF Owner, TellKinds
<1>6. /\ Carries(x, o) /\ Carries(u, o) /\ Carries(v, o) /\ Carries(c, o) /\ Carries(q, o)
      /\ Carries(y, o) /\ Carries(z, o)
  BY <1>1, <1>2, <1>3 DEF Carries, Allowed
<1>7. /\ \A i \in 1..10 : i \in {1, 2, 3, 4, 5, 6, 7, 8, 9, 10}
      /\ 2 - 1 = 1 /\ 3 - 1 = 2 /\ 4 - 1 = 3 /\ 5 - 1 = 4 /\ 6 - 1 = 5 /\ 7 - 1 = 6 /\ 8 - 1 = 7
      /\ 9 - 1 = 8 /\ 10 - 1 = 9 /\ ~(1 > 1) /\ 4 + 1 = 5 /\ 5 \in 1..10
  OBVIOUS
<1>8. Ahead(p, 4, 1, {"requireOn"})
  BY <1>2, <1>4, <1>7 DEF Ahead
<1>9. ASSUME NEW i \in 1..10
      PROVE  After(p, i, o) /\ Stands(p, i)
  <2>1. p[i][1] = "call" => i = 4
    BY <1>1, <1>2, <1>3, <1>4, <1>7
  <2>2. p[i][1] \in {"send", "until", "flush", "call", "requireOn"}
    BY <1>1, <1>2, <1>3, <1>4, <1>7
  <2>3. After(p, i, o)
    BY <1>8, <2>1, <2>2 DEF After
  <2>4. Stands(p, i)
    BY <2>2 DEF Stands
  <2> QED BY <2>3, <2>4
<1>10. /\ Before(x, u, o) /\ Before(u, v, o) /\ Before(v, c, o) /\ Before(c, q, o) /\ Before(q, y, o)
       /\ Before(y, u, o) /\ Before(u, z, o) /\ Before(z, u, o)
  BY <1>1, <1>2, <1>3 DEF Before, Turns
<1>11. Told(p, o)
  <2>1. ASSUME NEW i \in 1..10 PROVE Owner(p[i][1], o) /\ Carries(p[i], o)
    BY <1>4, <1>5, <1>6, <1>7
  <2>2. ASSUME NEW i \in 1..10, i > 1 PROVE Before(p[i - 1], p[i], o)
    BY <1>4, <1>7, <1>10, <2>2
  <2> QED BY <1>4, <1>9, <2>1, <2>2 DEF Told
<1>12. Pending(p, o)
  <2>1. Judges(p, 5, o) /\ 5 \in 1..Len(p)
    BY <1>2, <1>4, <1>7 DEF Judges
  <2> QED BY <2>1 DEF Pending
<1>13. Honest(p, o)
  BY <1>3, <1>4, <1>11, <1>12 DEF Honest
<1> QED BY <1>13 DEF p, o

\* connect() of BC95, of the SARA modems and of NbiotConnectivity.
LEMMA TellConnect == Honest(connectNsocr, "connect")
<1> DEFINE x == Send("NSOCR", 0)
           a == ReplyAny
           q == Do("open")
           v == Flush
           w == Do("filter")
           p == connectNsocr
           o == "connect"
<1>1. /\ a \in Steps /\ a[1] = "any" /\ q \in Steps /\ q[1] = "open" /\ v \in Steps /\ v[1] = "flush"
      /\ w \in Steps /\ w[1] = "filter"
  <2>1. "open" \in Simple /\ "filter" \in Simple
    BY DEF Simple
  <2> QED BY <2>1, StepsAre, KindOf
<1>2. x \in Steps /\ x[1] = "send" /\ x[2][1] = "NSOCR"
  <2>1. "NSOCR" \in Names /\ 0 \in Int
    BY DEF Names
  <2> QED BY <2>1, StepsAre, KindOf
<1> HIDE DEF x, a, q, v, w, p
<1>3. /\ p \in Seq(Steps) /\ p # <<>> /\ Len(p) = 5 /\ p[1] = x /\ p[2] = a /\ p[3] = q /\ p[4] = v
      /\ p[5] = w
  <2>1. p = <<x, a, q, v, w>>
    BY DEF x, a, q, v, w, p, connectNsocr
  <2> QED BY <1>1, <1>2, <2>1
<1>4. Owner(x[1], o) /\ Owner(a[1], o) /\ Owner(q[1], o) /\ Owner(v[1], o) /\ Owner(w[1], o)
  BY <1>1, <1>2 DEF Owner, TellKinds
<1>5. Carries(x, o) /\ Carries(a, o) /\ Carries(q, o) /\ Carries(v, o) /\ Carries(w, o)
  BY <1>1, <1>2 DEF Carries, Allowed
<1>6. /\ \A i \in 1..5 : i \in {1, 2, 3, 4, 5}
      /\ 2 - 1 = 1 /\ 3 - 1 = 2 /\ 4 - 1 = 3 /\ 5 - 1 = 4 /\ ~(1 > 1) /\ 3 \in 1..5 /\ 2 <= 2 /\ 3 <= 3
  OBVIOUS
<1>7. ASSUME NEW i \in 1..5
      PROVE  After(p, i, o) /\ Stands(p, i)
  <2>1. (p[i][1] = "any" => i = 2) /\ (p[i][1] = "open" => i = 3)
    BY <1>1, <1>2, <1>3, <1>6
  <2>2. p[i][1] \in {"send", "any", "open", "flush", "filter"}
    BY <1>1, <1>2, <1>3, <1>6
  <2>3. After(p, i, o)
    BY <2>2 DEF After
  <2>4. Stands(p, i)
    BY <1>6, <2>1, <2>2 DEF Stands
  <2> QED BY <2>3, <2>4
<1>8. Before(x, a, o) /\ Before(a, q, o) /\ Before(q, v, o) /\ Before(v, w, o)
  BY <1>1, <1>2 DEF Before, Turns
<1>9. Told(p, o)
  <2>1. ASSUME NEW i \in 1..5 PROVE Owner(p[i][1], o) /\ Carries(p[i], o)
    BY <1>3, <1>4, <1>5, <1>6
  <2>2. ASSUME NEW i \in 1..5, i > 1 PROVE Before(p[i - 1], p[i], o)
    BY <1>3, <1>6, <1>8, <2>2
  <2> QED BY <1>3, <1>7, <2>1, <2>2 DEF Told
<1>10. Pending(p, o)
  <2>1. Judges(p, 3, o) /\ 3 \in 1..Len(p)
    BY <1>1, <1>3, <1>6 DEF Judges
  <2> QED BY <2>1 DEF Pending
<1>11. Honest(p, o)
  BY <1>2, <1>3, <1>9, <1>10 DEF Honest
<1> QED BY <1>11 DEF p, o

\* connect() of BG96.
LEMMA TellConnectBG96 ==
  ASSUME net.number \in Int
  PROVE  Honest(connectBG96, "connect")
<1> DEFINE n == net.number + 1
           x == Send("QIOPEN", n)
           k == ReplyOk
           y == <<"qiopen", "">>
           q == Do("bgOpen")
           v == Flush
           w == Do("filter")
           p == connectBG96
           o == "connect"
<1>0. n \in Int
  OBVIOUS
<1> HIDE DEF n
<1>1. /\ k \in Steps /\ k[1] = "ok" /\ q \in Steps /\ q[1] = "bgOpen" /\ v \in Steps /\ v[1] = "flush"
      /\ w \in Steps /\ w[1] = "filter"
  <2>1. "bgOpen" \in Simple /\ "filter" \in Simple
    BY DEF Simple
  <2> QED BY <2>1, StepsAre, KindOf
<1>2. x \in Steps /\ x[1] = "send" /\ x[2][1] = "QIOPEN"
  <2>1. "QIOPEN" \in Names
    BY DEF Names
  <2> QED BY <1>0, <2>1, StepsAre, KindOf
<1>3. y \in Steps /\ y[1] = "qiopen"
  <2>1. "qiopen" \in Simple /\ y = Do("qiopen")
    BY DEF Simple, Do
  <2> HIDE DEF y
  <2> QED BY <2>1, StepsAre, KindOf
<1> HIDE DEF x, k, y, q, v, w, p
<1>4. /\ p \in Seq(Steps) /\ p # <<>> /\ Len(p) = 6 /\ p[1] = x /\ p[2] = k /\ p[3] = y /\ p[4] = q
      /\ p[5] = v /\ p[6] = w
  <2>1. p = <<x, k, y, q, v, w>>
    BY DEF n, x, k, y, q, v, w, p, connectBG96
  <2> QED BY <1>1, <1>2, <1>3, <2>1
<1>5. /\ Owner(x[1], o) /\ Owner(k[1], o) /\ Owner(y[1], o) /\ Owner(q[1], o) /\ Owner(v[1], o)
      /\ Owner(w[1], o)
  BY <1>1, <1>2, <1>3 DEF Owner, TellKinds
<1>6. /\ Carries(x, o) /\ Carries(k, o) /\ Carries(y, o) /\ Carries(q, o) /\ Carries(v, o)
      /\ Carries(w, o)
  BY <1>1, <1>2, <1>3 DEF Carries, Allowed
<1>7. /\ \A i \in 1..6 : i \in {1, 2, 3, 4, 5, 6}
      /\ 2 - 1 = 1 /\ 3 - 1 = 2 /\ 4 - 1 = 3 /\ 5 - 1 = 4 /\ 6 - 1 = 5 /\ ~(1 > 1) /\ 4 \in 1..6
  OBVIOUS
<1>8. ASSUME NEW i \in 1..6
      PROVE  After(p, i, o) /\ Stands(p, i)
  <2>1. p[i][1] \in {"send", "ok", "qiopen", "bgOpen", "flush", "filter"}
    BY <1>1, <1>2, <1>3, <1>4, <1>7
  <2>2. After(p, i, o)
    BY <2>1 DEF After
  <2>3. Stands(p, i)
    BY <2>1 DEF Stands
  <2> QED BY <2>2, <2>3
<1>9. Before(x, k, o) /\ Before(k, y, o) /\ Before(y, q, o) /\ Before(q, v, o) /\ Before(v, w, o)
  BY <1>1, <1>2, <1>3 DEF Before, Turns
<1>10. Told(p, o)
  <2>1. ASSUME NEW i \in 1..6 PROVE Owner(p[i][1], o) /\ Carries(p[i], o)
    BY <1>4, <1>5, <1>6, <1>7
  <2>2. ASSUME NEW i \in 1..6, i > 1 PROVE Before(p[i - 1], p[i], o)
    BY <1>4, <1>7, <1>9, <2>2
  <2> QED BY <1>4, <1>8, <2>1, <2>2 DEF Told
<1>11. Pending(p, o)
  <2>1. Judges(p, 4, o) /\ 4 \in 1..Len(p)
    BY <1>1, <1>4, <1>7 DEF Judges
  <2> QED BY <2>1 DEF Pending
<1>12. Honest(p, o)
  BY <1>2, <1>4, <1>10, <1>11 DEF Honest
<1> QED BY <1>12 DEF p, o

\* An honest program begins.
LEMMA TellProgram ==
  ASSUME DriverInv, NEW f, NEW a, NEW p, NEW v, v \notin {1, 2}, Called(f, a, p, v), task'.clean,
         Honest(p, f)
  PROVE  TellInv'
<1>1. /\ p \in Seq(Steps) /\ p # <<>> /\ p[1][1] \in {"send", "call"} /\ Told(p, f)
      /\ f \in Judged => Pending(p, f)
  BY DEF Honest
<1> QED BY <1>1, TellBegins

\* What a call sets.
LEMMA CallSets ==
  ASSUME NEW f, NEW a, NEW p, NEW v, Called(f, a, p, v)
  PROVE  task'.op = f /\ task'.arg = a /\ driver' = driver
<1> DEFINE b == (rx = <<>> /\ tx = <<>>)
<1>1. task' = [NoTask EXCEPT !.op = f, !.arg = a, !.todo = p, !.val = v, !.clean = b]
      /\ driver' = driver
  BY DEF Called, Begin, drvVars
<1> HIDE DEF b
<1> QED BY <1>1 DEF NoTask

\* Of attach() and detach().
LEMMA TellAttaches ==
  ASSUME driver \in {"BC95", "B656", "B657", "BG96", "tools"}
  PROVE  /\ Honest(Pick(attachBC95, attachBase, attachBase, attachBG96, attachTools), "attach")
         /\ Honest(Old(detachBase, detachTools), "detach")
<1>1. /\ \A n \in Int : Send("COPS", n) \in Steps /\ Send("CGATT", n) \in Steps
      /\ Send("COPS", 1)[1] = "send" /\ Send("COPS", 0)[1] = "send"
      /\ Send("CGATT", 1)[1] = "send" /\ Send("CGATT", 0)[1] = "send"
  <2>1. "COPS" \in Names /\ "CGATT" \in Names
    BY DEF Names
  <2> QED BY <2>1, StepsAre, KindOf
<1>2. /\ Allowed("attach", Send("COPS", 1)[2]) /\ Allowed("attach", Send("COPS", 0)[2])
      /\ Allowed("attach", Send("CGATT", 1)[2]) /\ Allowed("detach", Send("CGATT", 0)[2])
  BY DEF Allowed, Send
<1>3. Honest(attachBC95, "attach")
  BY <1>1, <1>2, TellAttach DEF attachBC95
<1>4. Honest(attachBase, "attach")
  BY <1>1, <1>2, TellAttach DEF attachBase
<1>5. Honest(attachBG96, "attach")
  BY <1>1, <1>2, TellAttach DEF attachBG96
<1>6. Honest(attachTools, "attach")
  BY <1>1, <1>2, TellAttach DEF attachTools
<1>7. Honest(detachBase, "detach") /\ Honest(detachTools, "detach")
  BY <1>1, <1>2, TellAttach DEF detachBase, detachTools
<1>8. Honest(Pick(attachBC95, attachBase, attachBase, attachBG96, attachTools), "attach")
  BY <1>3, <1>4, <1>5, <1>6 DEF Pick
<1> QED BY <1>7, <1>8 DEF Old

\* Of the other functions.
LEMMA TellPrograms ==
  ASSUME driver \in {"BC95", "B656", "B657", "BG96", "tools"}, net.number \in Int
  PROVE  /\ Honest(Pick(initializeBC95, initializeB656, initializeB657, initializeBG96,
                        initializeTools), "initialize")
         /\ Honest(Old(getAttachState, getAttachStateTools), "isAttached")
         /\ Honest(isModemOn, "isModemOn")
         /\ Honest(switchModem(1), "switchModem")
         /\ Honest(connect, "connect")
<1>1. /\ Honest(initializeB656, "initialize") /\ Honest(initializeB657, "initialize")
      /\ Honest(initializeBG96, "initialize") /\ Honest(initializeTools, "initialize")
  BY TellInit DEF initializeB656, initializeB657, initializeBG96, initializeTools
<1>2. Honest(Pick(initializeBC95, initializeB656, initializeB657, initializeBG96, initializeTools),
             "initialize")
  BY <1>1, TellInitBC95 DEF Pick
<1>3. Honest(getAttachState, "isAttached") /\ Honest(getAttachStateTools, "isAttached")
  BY Queried, TellAsks
<1>4. Honest(Old(getAttachState, getAttachStateTools), "isAttached")
  BY <1>3 DEF Old
<1>5. Honest(isModemOnBase, "isModemOn") /\ Honest(isModemOnTools, "isModemOn")
  <2>1. "isModemOn" \in OnOps
    BY DEF OnOps
  <2> QED BY <2>1, Queried, TellAsks
<1>6. Honest(isModemOn, "isModemOn")
  BY <1>5 DEF isModemOn, Old
<1>7. Honest(switchModem(1), "switchModem")
  <2> DEFINE y == <<"switch", 1>>
  <2>1. Honest(<<Call("isModemOn"), y>>, "switchModem")
    BY TellSwitch
  <2>2. switchModem(1) = <<Call("isModemOn"), y>>
    BY DEF switchModem, Old, switchModemBase, switchModemTools
  <2> QED BY <2>1, <2>2
<1>8. /\ Honest(connectBC95, "connect") /\ Honest(connectB656, "connect")
      /\ Honest(connectB657, "connect") /\ Honest(connectTools, "connect")
  BY TellConnect DEF connectBC95, connectB656, connectB657, connectTools
<1>9. Honest(connect, "connect")
  BY <1>8, TellConnectBG96 DEF connect, Pick
<1> QED BY <1>2, <1>4, <1>6, <1>7, <1>9

\* A function is called.
LEMMA TellCalled ==
  ASSUME DriverInv, ApiCall, task'.clean, Telling(task'.op, task'.arg, driver')
  PROVE  TellInv'
<1> DEFINE m == -1
<1>1. driver \in {"BC95", "B656", "B657", "BG96", "tools"} /\ net.number \in Int
  BY DEF DriverInv, WireInv, NetInv, NetType
<1>2. m \notin {1, 2} /\ 0 \notin {1, 2}
  OBVIOUS
<1> HIDE DEF m
<1>3. CASE nbiotModemRestart
  <2> DEFINE p == Pick(rebootBC95, rebootB656, rebootB657, rebootBG96, rebootTools)
  <2>1. Called("reboot", 0, p, 0)
    BY <1>3 DEF nbiotModemRestart
  <2>2. driver = "BC95"
    <3>1. task'.op = "reboot" /\ driver' = driver
      BY <2>1, CallSets
    <3> QED BY <3>1 DEF Telling
  <2>3. Honest(p, "reboot")
    BY <2>2, TellRestart DEF Pick
  <2> HIDE DEF p
  <2> QED BY <1>2, <2>1, <2>3, TellProgram
<1>4. CASE nbiotModemInit
  BY <1>1, <1>2, <1>4, TellPrograms, TellProgram DEF nbiotModemInit
<1>5. CASE nbiotAttach
  BY <1>1, <1>2, <1>5, TellAttaches, TellProgram DEF nbiotAttach
<1>6. CASE nbiotDetach
  BY <1>1, <1>2, <1>6, TellAttaches, TellProgram DEF nbiotDetach
<1>7. CASE isNbiotAttached
  BY <1>1, <1>2, <1>7, TellPrograms, TellProgram DEF isNbiotAttached, m
<1>8. CASE isNbiotModemOn
  BY <1>1, <1>2, <1>8, TellPrograms, TellProgram DEF isNbiotModemOn
<1>9. CASE nbiotSwitchModem
  <2>1. PICK s \in {0, 1} : Called("switchModem", s, switchModem(s), 0)
    BY <1>9 DEF nbiotSwitchModem
  <2>2. s = 1
    <3>1. task'.op = "switchModem" /\ task'.arg = s
      BY <2>1, CallSets
    <3> QED BY <3>1 DEF Telling
  <2>3. Honest(switchModem(s), "switchModem")
    BY <1>1, <2>2, TellPrograms
  <2> QED BY <1>2, <2>1, <2>3, TellProgram
<1>10. CASE connectHost
  BY <1>1, <1>2, <1>10, TellPrograms, TellProgram DEF connectHost
<1>11. CASE \/ getNbiotDeviceId \/ sendAtCommand \/ installCeregHandler \/ installPmHandler
            \/ disconnectHost \/ writeHost \/ readHost
  <2>1. \A f, a, p, v : Called(f, a, p, v) => task'.op = f
    BY CallSets
  <2>2. task'.op \in {"getDeviceId", "sendAtCommand", "cereg", "pm", "disconnect", "write", "read"}
    BY <1>11, <2>1 DEF getNbiotDeviceId, sendAtCommand, installCeregHandler, installPmHandler,
         disconnectHost, writeHost, readHost
  <2> QED BY <2>2 DEF Telling
<1> QED BY <1>3, <1>4, <1>5, <1>6, <1>7, <1>8, <1>9, <1>10, <1>11 DEF ApiCall

\* TruthInv is an inductive invariant: what the functions have heard, and what
\* is on its way to them, is so; and an "OK" that is yet to come is the answer
\* to the order they judge by.
THEOREM TruthInvariant == Spec => []TruthInv
<1>1. Init => TruthInv
  <2>1. NoTask.op = "none"
    BY DEF NoTask
  <2>2. Init => task.op = "none"
    BY <2>1 DEF Init
  <2> QED BY <2>2 DEF TruthInv, Telling
<1>2. DriverInv /\ TruthInv /\ [Next]_vars => TruthInv'
  <2> SUFFICES ASSUME DriverInv, TruthInv, [Next]_vars,
                      task'.clean, Telling(task'.op, task'.arg, driver')
               PROVE  TellInv'
    BY DEF TruthInv
  <2>1. CASE DriverStep
    <3>1. task'.op # "none"
      BY DEF Telling
    <3>2. Same
      <4>1. ~End
        BY <3>1 DEF End, NoTask
      <4> QED BY <2>1, <4>1, DialogueSame, StepSame, LoopSame, HandlerDoes DEF DriverStep, AtStep
    <3>3. task.clean /\ task'.op = task.op /\ task'.arg = task.arg /\ driver' = driver
      BY <3>2 DEF Same
    <3>4. TellInv
      BY <3>3 DEF TruthInv
    <3> QED BY <2>1, <3>1, <3>4, TellStep
  <2>2. CASE ApiCall
    BY <2>2, TellCalled
  <2>3. CASE nbiotCoreConfig \/ UNCHANGED vars
    <3>1. UNCHANGED <<task, driver, rx, tx, modem, net>>
      BY <2>3 DEF nbiotCoreConfig, vars, atVars, drvVars
    <3>2. TellInv
      BY <3>1 DEF TruthInv
    <3>3. Step' = Step
      BY <3>1 DEF Step
    <3>4. Goal' = Goal /\ Hushed' = Hushed /\ \A l : Evident(l)' = Evident(l)
      BY <3>1 DEF Goal, Hushed, Okay, Evident
    <3>5. WayInv'
      BY <3>1, <3>2 DEF TellInv, WayInv
    <3>6. LinesInv'
      BY <3>1, <3>2 DEF TellInv, LinesInv, Evident
    <3>7. Told(task.todo, task.op)' /\ Value(task.val)'
      BY <3>1, <3>2 DEF TellInv, Value
    <3>8. HeadInv'
      BY <3>1, <3>2, <3>3, <3>4 DEF TellInv, HeadInv
    <3>9. AskInv'
      BY <3>1, <3>2, <3>3 DEF TellInv, AskInv, Confirms
    <3>10. OrderInv' /\ JudgeInv'
      BY <3>1, <3>2, <3>4 DEF TellInv, OrderInv, JudgeInv, Okay
    <3> QED BY <3>5, <3>6, <3>7, <3>8, <3>9, <3>10 DEF TellInv
  <2>4. CASE modemAnswers \/ modemRegisters \/ modemReceives \/ modemReports
    <3>1. UNCHANGED <<task, driver>>
      BY <2>4 DEF modemAnswers, modemRegisters, modemReceives, modemReports, TheModem
    <3>2. TellInv
      BY <3>1 DEF TruthInv
    <3> QED BY <2>4, <3>2, TellAnswers, TellFinds, TellUnasked
  <2> QED BY <2>1, <2>2, <2>3, <2>4 DEF Next
<1> QED BY <1>1, <1>2, DriverInvariant, PTL DEF Spec

\* TruthfulReport: a driver function that reports success tells the truth
\* about the modem, over refusals, silences, unsolicited lines and programs
\* that branch on what other functions found out, in all five drivers.
THEOREM ReportsAreTrue == Spec => []TruthfulReport
<1>1. DriverInv /\ TruthInv => TruthfulReport
  <2> SUFFICES ASSUME DriverInv, TruthInv, task.todo = <<>>, task.clean, task.op # "none"
               PROVE  TruthfulReport
    BY DEF TruthfulReport
  <2> DEFINE o == task.op
  <2>1. Telling(o, task.arg, driver) => TellInv
    BY DEF TruthInv
  <2>2. ~Pending(task.todo, o)
    <3>1. \A i \in 1..Len(task.todo) : FALSE
      OBVIOUS
    <3> QED BY <3>1 DEF Pending
  <2>3. TellInv /\ o \in Judged /\ task.ok => Goal
    BY <2>2 DEF TellInv, JudgeInv
  <2>4. TellInv => Value(task.val)
    BY DEF TellInv
  <2>5. o = "initialize" /\ task.ok => modem.on
    BY <2>1, <2>3 DEF Telling, Judged, Goal, OnOps
  <2>6. o = "attach" /\ task.ok => modem.seek
    BY <2>1, <2>3 DEF Telling, Judged, Goal
  <2>7. o = "detach" /\ task.ok => ~modem.attached
    BY <2>1, <2>3 DEF Telling, Judged, Goal
  <2>8. o = "isAttached" /\ task.val = 1 => modem.attached
    BY <2>1, <2>4 DEF Telling, Value
  <2>9. o = "isModemOn" /\ task.val = 1 => modem.on
    BY <2>1, <2>4 DEF Telling, Value, OnOps
  <2>10. o = "switchModem" /\ task.arg = 1 /\ task.val = 1 => modem.on
    BY <2>1, <2>4 DEF Telling, Value, OnOps
  <2>11. o = "reboot" /\ task.ok /\ driver = "BC95" => modem.qreg = 2
    BY <2>1, <2>3 DEF Telling, Judged, Goal
  <2>12. o = "connect" /\ task.ok => net.number \in modem.open
    BY <2>1, <2>3 DEF Telling, Judged, Goal
  <2> QED BY <2>5, <2>6, <2>7, <2>8, <2>9, <2>10, <2>11, <2>12 DEF TruthfulReport
<1> QED BY <1>1, DriverInvariant, TruthInvariant, PTL
=============================================================================

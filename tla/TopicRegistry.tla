--------------------------- MODULE TopicRegistry ---------------------------
(***************************************************************************)
(* NbiotTopicRegistry and those who use it: publish(), subscribe() and     *)
(* unsubscribe(), the end of the register and subscribe loops, the packets *)
(* REGISTER, PUBACK and PUBLISH of the gateway, and the connect.  Here a   *)
(* topic has its name, id, handler and flags; NbiotMqtt has the loops and  *)
(* the state machine around it.  A list index is 1-based, 0 for "none".    *)
(***************************************************************************)
EXTENDS Integers, SequencesExt

CONSTANTS
  Names,      \* plain topic names: sequences of characters
  Filters,    \* names with a wildcard
  Handlers,   \* message handlers of the application
  NoHandler,  \* nullptr
  Ids,        \* topic ids the gateway gives out; 0 is none of them
  MaxTopics,  \* m_maxTopics
  MaxName     \* bound: the length of the names the matcher is checked with

ASSUME RegistryAssumption ==
  /\ MaxTopics \in Nat \ {0} /\ 0 \notin Ids
  /\ NoHandler \notin Handlers

VARIABLES
  registry,         \* m_registry
  current,          \* m_currentTopic
  loop,             \* "none", or the loop that m_currentTopic belongs to
  hasSubscription,  \* m_hasSubscription
  gwIds, gwSubs,    \* external: ids and subscriptions the gateway holds
  last,             \* the last call of a message handler
  strayed           \* what the registry went through: see NoteStrays

vars == <<registry, current, loop, hasSubscription, gwIds, gwSubs, last, strayed>>

gateway == <<gwIds, gwSubs>>
Flags == {"PUB", "SUB"}   \* REG_BOTH; REG_NONE is {}
NoCall == [called |-> FALSE]

----------------------------------------------------------------------------
(* NbiotTopic *)

\* The type (normal, predefined) is left out: see the README.
NbiotTopic(name) == [name |-> name, id |-> 0, mh |-> NoHandler, reg |-> {}]

\* operator =: a handler that is set already stays.
Assign(old, new) == [new EXCEPT !.mh = IF old.mh = NoHandler THEN new.mh ELSE old.mh]

valid(topic) == topic.id # 0 \/ topic.name # <<>>

isWildcard(name) == \E i \in DOMAIN name : name[i] \in {"+", "#"}

\* Mutant: '+' swallows the rest of the name.
isTopicMatchedGreedy(f, n) ==
  LET from[i \in 1..Len(f) + 1, k \in 1..Len(n) + 1] ==
        \/ i > Len(f) /\ k > Len(n)
        \/ /\ i <= Len(f) /\ k <= Len(n)
           /\ f[i] \in {"+", "#", n[k]}
           /\ from[i + 1, IF f[i] \in {"+", "#"} THEN Len(n) + 1 ELSE k + 1]
  IN from[1, 1]

\* Position i of the filter against position k of the name: '+' goes on
\* behind the level, '#' behind the name.
isTopicMatched(f, n) ==
  LET LevelEnd(k) == CHOOSE j \in k..Len(n) + 1 :
                       /\ j = Len(n) + 1 \/ n[j] = "/"
                       /\ \A l \in k..j - 1 : n[l] # "/"
      from[p \in (1..Len(f) + 1) \X (1..Len(n) + 1)] ==
        LET i == p[1]
            k == p[2]
        IN \/ i > Len(f) /\ k > Len(n)
           \/ /\ i <= Len(f) /\ k <= Len(n)
              /\ n[k] = "/" => f[i] = "/"
              /\ f[i] \in {"+", "#", n[k]}
              /\ from[<<i + 1, CASE f[i] = "+" -> LevelEnd(k)
                                 [] f[i] = "#" -> Len(n) + 1
                                 [] OTHER -> k + 1>>]
  IN from[<<1, 1>>]

\* The names of an instance against each other.
Match == [f, n \in Names \cup Filters |-> isTopicMatched(f, n)]
Covers(filter, name) == Match[filter, name]
Wild == {n \in Names \cup Filters : isWildcard(n)}

\* Wildcards are for subscriptions; a topic has a name.
ASSUME NamesAssumption ==
  /\ Names \cap Wild = {} /\ Filters \subseteq Wild
  /\ <<>> \notin Names \cup Filters

----------------------------------------------------------------------------
(* NbiotTopicRegistry *)

findTopic(reg, name) == IF name = <<>> THEN 0 ELSE SelectInSeq(reg, LAMBDA e : e.name = name)
findTopicId(reg, id) == SelectInSeq(reg, LAMBDA e : e.id = id)
hasAnyTopic(flags) == \E i \in DOMAIN registry : registry[i].reg \cap flags # {}
hasTopic(name, flags) ==
  LET i == findTopic(registry, name) IN i # 0 /\ registry[i].reg \cap flags # {}

\* Mutant: a known topic is appended once more.
insertTopicAppends(reg, topic) == Append(reg, topic)

insertTopic(reg, topic) ==
  LET i == findTopic(reg, topic.name) IN
  IF topic.name = <<>> THEN reg
  ELSE IF i = 0 THEN Append(reg, topic)
  ELSE [reg EXCEPT ![i] = Assign(@, topic)]

\* Mutant: only a subscription looks for the wildcards that cover it.
attachWildcardNever(reg, topic) == topic

\* attachWildcardMessageHandler(): the first wildcard that covers the topic.
attachWildcard(reg, topic) ==
  LET i == SelectInSeq(reg, LAMBDA e : e.name \in Wild /\ Covers(e.name, topic.name))
  IN IF i = 0 THEN topic ELSE [topic EXCEPT !.mh = reg[i].mh]

\* The plain topics a wildcard covers get its handler.
Cover(reg, filter, mh) ==
  [i \in DOMAIN reg |->
     IF reg[i].name \notin Wild /\ Covers(filter, reg[i].name)
     THEN [reg[i] EXCEPT !.mh = mh] ELSE reg[i]]

updateWildcardMessageHandler(reg, topic) ==
  IF topic.name \in Wild /\ findTopic(reg, topic.name) # 0
  THEN Cover(reg, topic.name, topic.mh) ELSE reg

attachMessageHandler(reg, i, mh) ==
  LET set == [reg EXCEPT ![i].mh = mh] IN
  IF reg[i].name \in Wild THEN Cover(set, reg[i].name, mh) ELSE set

\* The list without the elements at the indices gone; the others close up.
Without(reg, gone) ==
  LET kept == DOMAIN reg \ gone IN
  [j \in 1..Cardinality(kept) |->
     reg[CHOOSE k \in kept : Cardinality({l \in kept : l < k}) = j - 1]]

\* remove() of the list ignores an index that is out of range.
remove(reg, i) == Without(reg, {i})

Covered(reg, i) ==
  {j \in DOMAIN reg \ {i} : reg[i].name \in Wild /\ Covers(reg[i].name, reg[j].name)}

\* Mutant: the topics a wildcard covers stay.
removeTopicAlone(reg, i) == remove(reg, i)

\* What a wildcard covers goes first, other wildcards too; the wildcard is
\* then looked for at its old index.
removeTopic(reg, i) == remove(Without(reg, Covered(reg, i)), i)

----------------------------------------------------------------------------
(* The users of the registry.                                              *)

Init ==
  /\ registry = <<>> /\ current = NbiotTopic(<<>>) /\ loop = "none"
  /\ hasSubscription = FALSE
  /\ gwIds = [n \in Names |-> 0] /\ gwSubs = {}
  /\ last = NoCall /\ strayed = {}

\* "moved": removeTopic() left the topic it was called for.
NoteStrays(reg, i) ==
  strayed' = strayed \cup (IF \E j \in Covered(reg, i) : j < i THEN {"moved"} ELSE {})

\* Once its loop is over, m_currentTopic is assigned before it is used again;
\* what the assignment leaves is the handler.
Done(topic) == [NbiotTopic(<<>>) EXCEPT !.mh = topic.mh]

\* publish() past its checks: an unknown topic has to be registered first.
publish(n) ==
  /\ loop = "none"
  /\ LET i == findTopic(registry, n) IN
     \/ /\ i = 0 /\ Len(registry) < MaxTopics
        /\ current' = Assign(current, NbiotTopic(n)) /\ loop' = "Register"
        /\ UNCHANGED registry
     \/ /\ i # 0 /\ loop' = "Publish"
        /\ registry' = [registry EXCEPT ![i].reg = @ \cup {"PUB"}]
        /\ current' = Assign(current, registry'[i])
  /\ last' = NoCall /\ UNCHANGED <<hasSubscription, gateway, strayed>>

\* Mutant: the flag is set when the SUBSCRIBE is queued.
subscribeAtOnce(n, mh) ==
  /\ loop = "none" /\ ~hasTopic(n, {"SUB"}) /\ Len(registry) < MaxTopics
  /\ current' = [NbiotTopic(n) EXCEPT !.mh = mh, !.reg = {"SUB"}] /\ loop' = "Subscribe"
  /\ registry' = insertTopic(registry, current')
  /\ last' = NoCall /\ UNCHANGED <<hasSubscription, gateway, strayed>>

\* subscribe() past its checks: a topic that is subscribed already only gets
\* the new handler.
subscribe(n, mh) ==
  /\ loop = "none"
  /\ LET i == findTopic(registry, n) IN
     \/ /\ i = 0 /\ Len(registry) < MaxTopics
        /\ current' = [Assign(current, NbiotTopic(n)) EXCEPT !.mh = mh]
        /\ loop' = "Subscribe" /\ UNCHANGED registry
     \/ /\ i # 0 /\ "SUB" \notin registry[i].reg
        /\ current' = [registry[i] EXCEPT !.mh = mh]
        /\ loop' = "Subscribe" /\ UNCHANGED registry
     \/ /\ i # 0 /\ "SUB" \in registry[i].reg
        /\ registry' = attachMessageHandler(registry, i, mh)
        /\ UNCHANGED <<current, loop>>
  /\ last' = NoCall /\ UNCHANGED <<hasSubscription, gateway, strayed>>

\* unsubscribe(): not refused while a loop is busy.  The topic is removed
\* when UNSUBSCRIBE is queued; the packet may be lost.
unsubscribe(n) ==
  /\ hasTopic(n, {"SUB"})
  /\ LET i == findTopic(registry, n) IN
     /\ registry' = removeTopic(registry, i)
     /\ NoteStrays(registry, i)
  /\ hasSubscription' =
       (hasSubscription /\ \E j \in DOMAIN registry' : "SUB" \in registry'[j].reg)
  /\ gwSubs' \in {gwSubs, gwSubs \ {n}}
  /\ last' = NoCall /\ UNCHANGED <<current, loop, gwIds>>

\* External: the id of a topic, a new one if it has none.  Wildcards have 0.
GivesId(n, id) ==
  IF n \notin Names THEN id = 0 /\ UNCHANGED gwIds
  ELSE IF gwIds[n] # 0 THEN id = gwIds[n] /\ UNCHANGED gwIds
  ELSE /\ id \in Ids \ {gwIds[m] : m \in Names}
       /\ gwIds' = [gwIds EXCEPT ![n] = id]

\* eventLoop(): the register loop ended with a REGACK that accepts.
registered(id) ==
  /\ loop = "Register" /\ GivesId(current.name, id)
  /\ current' = [attachWildcard(registry, [current EXCEPT !.id = id])
                   EXCEPT !.reg = @ \cup {"PUB"}]
  /\ registry' = insertTopic(registry, current')
  /\ loop' = "Publish" /\ last' = NoCall
  /\ UNCHANGED <<hasSubscription, gwSubs, strayed>>

\* eventLoop(): the subscribe loop ended with a SUBACK that accepts.
subscribed(id) ==
  /\ loop = "Subscribe" /\ GivesId(current.name, id)
  /\ gwSubs' = gwSubs \cup {current.name}
  /\ LET topic == [current EXCEPT !.id = id]
         done  == [topic EXCEPT !.reg = @ \cup {"SUB"}]
     IN IF valid(topic)
        THEN /\ hasSubscription' = TRUE
             /\ registry' = updateWildcardMessageHandler(insertTopic(registry, done), done)
        ELSE UNCHANGED <<registry, hasSubscription>>
  /\ current' = Done(current)
  /\ loop' = "none" /\ last' = NoCall /\ UNCHANGED strayed

\* The loop ends without success, or the publish loop with success.  The
\* gateway may have got the SUBSCRIBE all the same.
loopEnds ==
  /\ loop # "none" /\ loop' = "none" /\ current' = Done(current) /\ last' = NoCall
  /\ gwSubs' \in {gwSubs, IF loop = "Subscribe" THEN gwSubs \cup {current.name} ELSE gwSubs}
  /\ UNCHANGED <<registry, hasSubscription, gwIds, strayed>>

\* Mutant: the rejected topic stays in the registry.
pubackNotifyKeeps(id) == UNCHANGED <<registry, strayed>>

\* pubackNotify() with RC_REJECTED_INVALID_TOPIC_ID.
pubackNotify(id) ==
  LET i == findTopicId(registry, id) IN
  IF i = 0 THEN UNCHANGED <<registry, strayed>>
  ELSE registry' = removeTopic(registry, i) /\ NoteStrays(registry, i)

\* The gateway has forgotten a topic id and says so in a PUBACK: to the
\* publish loop, or to nobody in particular after a publish with QoS 0.
rejected(n) ==
  /\ gwIds[n] # 0 /\ gwIds' = [gwIds EXCEPT ![n] = 0]
  /\ IF loop = "Publish" /\ current.name = n
     THEN pubackNotify(current.id) /\ loop' = "none" /\ current' = Done(current)
     ELSE pubackNotify(gwIds[n]) /\ UNCHANGED <<loop, current>>
  /\ last' = NoCall /\ UNCHANGED <<hasSubscription, gwSubs>>

\* Mutant: the number of topics is not tested.
registerNotifyUnlimited(n, id) ==
  registry' = insertTopic(registry,
    attachWildcard(registry, [NbiotTopic(n) EXCEPT !.id = id]))

\* registerNotify(): an update keeps the handler and loses the flags.
registerNotify(n, id) ==
  LET topic == [NbiotTopic(n) EXCEPT !.id = id]
      i     == findTopic(registry, n)
  IN IF i # 0 /\ registry[i].mh # NoHandler THEN registry' = insertTopic(registry, topic)
     ELSE IF i # 0 \/ Len(registry) < MaxTopics
     THEN registry' = insertTopic(registry, attachWildcard(registry, topic))
     ELSE UNCHANGED registry

\* REGISTER: the gateway has a message for a topic the client subscribed.
registerReceived(n, id) ==
  /\ \E f \in gwSubs : Covers(f, n)
  /\ GivesId(n, id) /\ registerNotify(n, id)
  /\ last' = NoCall /\ UNCHANGED <<current, loop, hasSubscription, gwSubs, strayed>>

\* PUBLISH: the gateway sends a message by the id it gave the topic.
messageDispatcher(n) ==
  /\ gwIds[n] # 0 /\ \E f \in gwSubs : Covers(f, n)
  /\ LET i == SelectInSeq(registry, LAMBDA e : valid(e) /\ e.id = gwIds[n]) IN
     /\ i # 0 /\ registry[i].mh # NoHandler
     /\ last' = [called |-> TRUE, topic |-> n, name |-> registry[i].name, mh |-> registry[i].mh]
  /\ UNCHANGED <<registry, current, loop, hasSubscription, gateway, strayed>>

\* A disconnect or a hibernation, and the connect after it with or without a
\* clean session: actionDeepSleepEntry() and actionConnectedEntry().
\* "kept": the gateway starts anew and the registry does not.
reconnect(clean, hibernated) ==
  /\ loop' = "none" /\ current' = Done(current) /\ last' = NoCall
  /\ gwIds' = IF clean THEN [n \in Names |-> 0] ELSE gwIds
  /\ gwSubs' = IF clean THEN {} ELSE gwSubs
  /\ LET has == hasSubscription /\ ~hibernated
         forget == ~has /\ hasAnyTopic(Flags) IN
     /\ registry' = IF forget /\ clean THEN <<>> ELSE registry
     /\ hasSubscription' = (has \/ (forget /\ ~clean))
  /\ strayed' = IF registry' = <<>> THEN {}
                ELSE strayed \cup (IF clean THEN {"kept"} ELSE {})

Next ==
  \/ \E n \in Names : publish(n) \/ rejected(n) \/ messageDispatcher(n)
  \/ \E n \in Names \cup Filters : unsubscribe(n) \/ \E mh \in Handlers : subscribe(n, mh)
  \/ \E id \in Ids \cup {0} : registered(id) \/ subscribed(id)
  \/ \E n \in Names, id \in Ids : registerReceived(n, id)
  \/ loopEnds
  \/ \E clean, hibernated \in BOOLEAN : reconnect(clean, hibernated)

Spec == Init /\ [][Next]_vars

----------------------------------------------------------------------------
(* What the registry promises                                              *)

Topic ==
  [name : Names \cup Filters, id : Ids \cup {0},
   mh : Handlers \cup {NoHandler}, reg : SUBSET Flags]

\* Types: every topic stands in the registry once, under a valid name.
RegistryTypeOK ==
  /\ registry \in Seq(Topic)
  /\ \A i, j \in DOMAIN registry : registry[i].name = registry[j].name => i = j
  /\ \A i \in DOMAIN registry : valid(registry[i])
  /\ loop \in {"none", "Register", "Subscribe", "Publish"}
  /\ gwIds \in [Names -> Ids \cup {0}] /\ gwSubs \subseteq Names \cup Filters
  /\ hasSubscription \in BOOLEAN

\* publish() and subscribe() test the number of topics, the topic is inserted
\* when its loop ends, and the gateway may register one in between: the limit
\* is exceeded by that one topic and never by more.
LimitExceededByOne == Len(registry) <= MaxTopics + 1

\* A plain topic that a registered wildcard covers has a handler, whichever
\* of the two came first, and whether the application published it, the
\* gateway registered it or it was subscribed.
CoveredHasHandler ==
  \A i, j \in DOMAIN registry :
    /\ registry[i].name \in Wild /\ registry[j].name \notin Wild
    /\ Covers(registry[i].name, registry[j].name)
    => registry[j].mh # NoHandler

\* messageDispatcher() looks for the id only: as long as gateway and registry
\* began together, it finds the topic the message was sent for, through all
\* rejections, updates and registrations.
MessageForItsTopic == last.called /\ "kept" \notin strayed => last.name = last.topic

\* isNbiotSubscribedTo() is true only for what the gateway has subscribed, as
\* long as the registry is not older than the session and no wildcard was
\* removed from behind a topic it covers.
SubscribedAtGateway ==
  strayed = {} =>
    \A n \in Names \cup Filters : hasTopic(n, {"SUB"}) => n \in gwSubs

\* unsubscribe() of a wildcard that precedes the topics it covers takes the
\* wildcard, all it covers and nothing else; a plain topic goes alone.
UnsubscribeTakesCovered ==
  [][registry' # registry =>
       \A n \in Names \cup Filters :
         LET i       == findTopic(registry, n)
             covered == Covered(registry, i)
         IN unsubscribe(n) /\ (\A j \in covered : j > i) =>
              ToSet(registry') = {registry[j] : j \in DOMAIN registry \ (covered \cup {i})}]_vars

\* The levels of a name, by the ends of them: i - 1 are before the i-th.
Levels(n) ==
  LET ends   == {k \in DOMAIN n : n[k] = "/"} \cup {Len(n) + 1}
      end(i) == IF i = 0 THEN 0
                ELSE CHOOSE k \in ends : Cardinality({l \in ends : l < k}) = i - 1
  IN [i \in 1..Cardinality(ends) |-> SubSeq(n, end(i - 1) + 1, end(i) - 1)]

\* What the comment on isTopicMatched() assumes of filters and names.
WellFormed(n) ==
  LET l == Levels(n) IN
  \A i \in DOMAIN l :
    /\ l[i] # <<>> /\ (isWildcard(l[i]) => Len(l[i]) = 1)
    /\ l[i] = <<"#">> => i = Len(l)

\* The reference: level by level, a trailing '#' for one or more levels.
LevelsMatch(f, n) ==
  LET F == Levels(f)
      N == Levels(n)
      open == Last(F) = <<"#">>
  IN /\ IF open THEN Len(N) >= Len(F) ELSE Len(N) = Len(F)
     /\ \A i \in 1..(IF open THEN Len(F) - 1 ELSE Len(F)) : F[i] \in {<<"+">>, N[i]}

Texts(chars) == {t \in UNION {[1..k -> chars] : k \in 1..MaxName} : WellFormed(t)}

\* The character matcher of isTopicMatched() is the match of levels, for all
\* well-formed filters and names up to a length.  It needs one state only.
MatcherAgrees ==
  Init => \A n \in Texts({"a", "b", "/"}), f \in Texts({"a", "/", "+", "#"}) :
            isTopicMatched(f, n) <=> LevelsMatch(f, n)
=============================================================================

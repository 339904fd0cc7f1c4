--------------------------- MODULE ServicesProofs ---------------------------
(***************************************************************************)
(* Proofs about the services of the simulated LAN, for any clients,        *)
(* sessions, files and filters: the MQTT broker delivers what was asked    *)
(* for, the FTP server ends each transfer on the connection it was begun   *)
(* on, and the services that read messages out of a stream answer them     *)
(* however it was cut.  The three share no state.                          *)
(***************************************************************************)
EXTENDS Broker, Ftp, LanStream, SequenceTheorems, FiniteSetTheorems, TLAPS

-----------------------------------------------------------------------------
(***************************************************************************)
(* The broker.  What a client asked for is tied to its subscriber function *)
(* of now; a function that a second CONNECT has replaced keeps its         *)
(* subscriptions, and BrokerInv says that the new one starts with none.    *)
(***************************************************************************)
(* What a client's current subscriber function is subscribed with.          *)
Mine(c) == {s \in subs : s.to = deliver(c)}

(* Each subscription is of a subscriber function there has been, and those  *)
(* of a client with a session are the ones it asked for in that session.    *)
BrokerInv ==
  /\ BrokerTypeOK
  /\ \A s, r \in subs : s.k = r.k => s = r
  /\ \A i, j \in DOMAIN ids : ids[i] = ids[j] => i = j
  /\ \A s \in subs : s.to.gen <= gen[s.to.client]
  /\ \A c \in up : gen[c] > 0
  /\ \A c \in BrokerClients : gen[c] > 0 => Mine(c) = IF c \in up THEN want[c] ELSE {}

Names == Filters \cup Topics \cup {<<ToString(i)>> : i \in 1..MaxIds}

(* A new name gets the next id, and no other has it.                        *)
LEMMA IdGiven ==
  ASSUME NEW q \in Seq(Names), NEW name \in Names, \A i, j \in DOMAIN q : q[i] = q[j] => i = j,
         NEW r, r = IF name \in ToSet(q) THEN q ELSE Append(q, name)
  PROVE  /\ r \in Seq(Names)
         /\ \A i \in DOMAIN q : i \in DOMAIN r /\ r[i] = q[i]
         /\ \A i, j \in DOMAIN r : r[i] = r[j] => i = j
<1>1. CASE name \in ToSet(q)
  BY <1>1
<1>2. CASE name \notin ToSet(q)
  <2>1. DOMAIN q = 1..Len(q) /\ Len(q) \in Nat
    BY LenProperties
  <2>2. r \in Seq(Names) /\ Len(r) = Len(q) + 1 /\ r[Len(q) + 1] = name /\ \A i \in 1..Len(q) : r[i] = q[i]
    BY <1>2, AppendProperties
  <2>3. DOMAIN r = 1..(Len(q) + 1)
    BY <2>2
  <2>4. \A i \in DOMAIN q : q[i] # name
    BY <1>2 DEF ToSet
  <2>. QED  BY <2>1, <2>2, <2>3, <2>4
<1>. QED  BY <1>1, <1>2

(* idFor() keeps the ids as they are, but for a new one.                    *)
LEMMA IdsAfter ==
  ASSUME BrokerInv, NEW name \in Names, ids' = ids \/ ids' = idFor(name)
  PROVE  /\ ids' \in Seq(Names)
         /\ \A i \in DOMAIN ids : i \in DOMAIN ids' /\ ids'[i] = ids[i]
         /\ \A i, j \in DOMAIN ids' : ids'[i] = ids'[j] => i = j
<1>1. ids \in Seq(Names) /\ \A i, j \in DOMAIN ids : ids[i] = ids[j] => i = j
  BY DEF BrokerInv, BrokerTypeOK, Names
<1>2. CASE ids' = ids
  BY <1>1, <1>2
<1>3. CASE ids' = idFor(name)
  <2>. PICK q : q = ids
    OBVIOUS
  <2>1. ids' = IF name \in ToSet(q) THEN q ELSE Append(q, name)
    BY <1>3 DEF idFor
  <2>. QED  BY <1>1, <2>1, IdGiven
<1>. QED  BY <1>2, <1>3

(* topicMatches() finds what a filter of MQTT stands for.                   *)
LEMMA MatchesCovered ==
  ASSUME NEW f \in Filters, NEW t, Len(t) \in Nat
  PROVE  topicMatches(f, t) <=> Covers(f, t)
<1>. DEFINE wrong == {i \in DOMAIN f : ~(i <= Len(t) /\ f[i] \in {"+", t[i]})}
            rest  == {i \in DOMAIN f : f[i] = "#"}
<1>1. f \in Seq(STRING) /\ f # <<>> /\ \A i \in DOMAIN f : f[i] = "#" => i = Len(f)
  BY BrokerConstants
<1>2. Len(f) \in Nat \ {0} /\ DOMAIN f = 1..Len(f)
  BY <1>1, EmptySeq, LenProperties
<1>3. Last(f) = f[Len(f)]
  BY DEF Last
<1>4. topicMatches(f, t) <=> ((rest # {} /\ \A i \in wrong : Min(rest) <= i) \/ (wrong = {} /\ Len(f) = Len(t)))
  BY DEF topicMatches
<1>5. CASE f[Len(f)] = "#"
  <2>1. rest = {Len(f)}
    BY <1>1, <1>2, <1>5
  <2>2. Min({Len(f)}) = Len(f)
    BY <1>2 DEF Min
  <2>3. topicMatches(f, t) <=> ((\A i \in wrong : Len(f) <= i) \/ (wrong = {} /\ Len(f) = Len(t)))
    BY <1>4, <2>1, <2>2
  <2>4. (\A i \in wrong : Len(f) <= i) <=> \A i \in 1..(Len(f) - 1) : i <= Len(t) /\ (f[i] = "+" \/ f[i] = t[i])
    <3>1. ASSUME \A i \in wrong : Len(f) <= i, NEW i \in 1..(Len(f) - 1)
          PROVE  i <= Len(t) /\ (f[i] = "+" \/ f[i] = t[i])
      <4>1. i \in DOMAIN f /\ ~(Len(f) <= i)
        BY <1>2
      <4>. QED  BY <4>1, <3>1
    <3>2. ASSUME \A i \in 1..(Len(f) - 1) : i <= Len(t) /\ (f[i] = "+" \/ f[i] = t[i]), NEW i \in wrong
          PROVE  Len(f) <= i
      <4>1. i \in 1..Len(f) /\ ~(i <= Len(t) /\ f[i] \in {"+", t[i]})
        BY <1>2
      <4>2. i \notin 1..(Len(f) - 1)
        BY <3>2, <4>1
      <4>. QED  BY <4>1, <4>2, <1>2
    <3>. QED  BY <3>1, <3>2
  <2>. QED  BY <1>3, <1>5, <2>3, <2>4 DEF Covers
<1>6. CASE f[Len(f)] # "#"
  <2>1. rest = {}
    BY <1>1, <1>2, <1>6
  <2>2. topicMatches(f, t) <=> (wrong = {} /\ Len(f) = Len(t))
    BY <1>4, <2>1
  <2>3. wrong = {} <=> \A i \in 1..Len(f) : i <= Len(t) /\ (f[i] = "+" \/ f[i] = t[i])
    BY <1>2
  <2>. QED  BY <1>3, <1>6, <2>2, <2>3 DEF Covers
<1>. QED  BY <1>5, <1>6

(* Copies are counted by subscriptions, of which there are no more than     *)
(* MaxSubs.                                                                 *)
LEMMA CopiesFew == ASSUME BrokerInv, NEW S \in SUBSET subs PROVE Cardinality(S) \in 0..MaxSubs
<1>1. MaxSubs \in Nat /\ \A s \in S : s.k \in 1..MaxSubs
  BY BrokerConstants DEF BrokerInv, BrokerTypeOK, Subs
<1>2. [s \in S |-> s.k] \in Injection(S, 1..MaxSubs)
  BY <1>1 DEF BrokerInv, Injection, IsInjective
<1>3. IsFiniteSet(1..MaxSubs) /\ Cardinality(1..MaxSubs) = MaxSubs
  BY <1>1, FS_Interval
<1>4. IsFiniteSet(S) /\ Cardinality(S) <= MaxSubs
  BY <1>2, <1>3, FS_Injection
<1>. QED  BY <1>1, <1>4, FS_CardinalityType

(* The broker starts with nothing.                                          *)
LEMMA BrokerInitially == BrokerInit => BrokerInv
<1>. SUFFICES ASSUME BrokerInit PROVE BrokerInv
  OBVIOUS
<1>1. MaxGens \in Nat /\ MaxSubs \in Nat
  BY BrokerConstants
<1>2. <<>> \in Seq(Names) /\ DOMAIN <<>> = {}
  BY EmptySeq
<1>3. copies \in [Delivers -> 0..MaxSubs]
  BY <1>1 DEF BrokerInit, NoCopies
<1>4. BrokerTypeOK
  BY <1>1, <1>2, <1>3 DEF BrokerInit, BrokerTypeOK, Names
<1>. QED  BY <1>2, <1>4 DEF BrokerInit, BrokerInv

(* publish() changes no subscription.                                       *)
LEMMA Published ==
  ASSUME BrokerInv, NEW t \in Names, publish(t)
  PROVE  BrokerInv'
<1>1. ids' = ids \/ ids' = idFor(t)
  BY DEF publish
<1>2. UNCHANGED <<subs, gen, up, want>>
  BY DEF publish
<1>3. copies' \in [Delivers -> 0..MaxSubs]
  <2>1. copies' = [d \in Delivers |-> Cardinality({s \in Matching(t) : s.to = d})]
    BY DEF publish
  <2>2. ASSUME NEW d \in Delivers PROVE Cardinality({s \in Matching(t) : s.to = d}) \in 0..MaxSubs
    <3>1. {s \in Matching(t) : s.to = d} \in SUBSET subs
      BY DEF Matching
    <3>. QED  BY <3>1, CopiesFew
  <2>. QED  BY <2>1, <2>2
<1>4. ids' \in Seq(Names) /\ \A i, j \in DOMAIN ids' : ids'[i] = ids'[j] => i = j
  BY <1>1, IdsAfter
<1>5. BrokerTypeOK'
  BY <1>2, <1>3, <1>4 DEF BrokerInv, BrokerTypeOK, Names
<1>. QED  BY <1>2, <1>4, <1>5 DEF BrokerInv, Mine, deliver

(* A new session: its subscriber function has no subscription yet.          *)
LEMMA ConnectStep == ASSUME BrokerInv, NEW c \in BrokerClients, brokerConnect(c) PROVE BrokerInv'
<1>1. /\ gen[c] < MaxGens /\ gen' = [gen EXCEPT ![c] = @ + 1] /\ up' = up \cup {c}
      /\ want' = [want EXCEPT ![c] = {}] /\ copies' = NoCopies /\ subs' = subs /\ ids' = ids
  BY DEF brokerConnect
<1>2. MaxGens \in Nat /\ MaxSubs \in Nat
  BY BrokerConstants
<1>3. /\ gen \in [BrokerClients -> 0..MaxGens] /\ up \subseteq BrokerClients
      /\ want \in [BrokerClients -> SUBSET Subs] /\ subs \subseteq Subs
  BY DEF BrokerInv, BrokerTypeOK
<1>4. gen' \in [BrokerClients -> 0..MaxGens] /\ gen'[c] = gen[c] + 1 /\ \A x \in BrokerClients : x # c => gen'[x] = gen[x]
  BY <1>1, <1>2, <1>3
<1>5. BrokerTypeOK'
  BY <1>1, <1>2, <1>3, <1>4 DEF BrokerInv, BrokerTypeOK, NoCopies
<1>6. \A s \in subs : s.to.client \in BrokerClients /\ s.to.gen \in Nat
  BY <1>3 DEF Subs, Delivers
<1>7. \A s \in subs' : s.to.gen <= gen'[s.to.client]
  BY <1>1, <1>3, <1>4, <1>6 DEF BrokerInv
<1>8. \A x \in up' : gen'[x] > 0
  BY <1>1, <1>3, <1>4 DEF BrokerInv
<1>9. ASSUME NEW x \in BrokerClients, gen'[x] > 0
      PROVE  Mine(x)' = IF x \in up' THEN want'[x] ELSE {}
  <2>1. CASE x = c
    <3>1. \A s \in subs : s.to # [client |-> c, gen |-> gen[c] + 1]
      BY <1>3, <1>6 DEF BrokerInv
    <3>2. Mine(x)' = {}
      BY <2>1, <3>1, <1>1, <1>4 DEF Mine, deliver
    <3>. QED  BY <2>1, <3>2, <1>1, <1>3
  <2>2. CASE x # c
    <3>1. Mine(x)' = Mine(x)
      BY <2>2, <1>1, <1>4 DEF Mine, deliver
    <3>. QED  BY <2>2, <3>1, <1>1, <1>3, <1>4, <1>9 DEF BrokerInv
  <2>. QED  BY <2>1, <2>2
<1>. QED  BY <1>1, <1>5, <1>7, <1>8, <1>9 DEF BrokerInv

(* A subscription that is made is the client's own.                         *)
LEMMA SubscribeStep ==
  ASSUME BrokerInv, NEW c \in BrokerClients, NEW f \in Filters, NEW k \in 1..MaxSubs, brokerSubscribe(c, f, k)
  PROVE  BrokerInv'
<1>. DEFINE new == [filter |-> f, to |-> deliver(c), k |-> k]
<1>1. /\ c \in up /\ (\A s \in subs : s.k # k) /\ subs' = subs \cup {new}
      /\ want' = [want EXCEPT ![c] = @ \cup {new}] /\ copies' = NoCopies /\ gen' = gen /\ up' = up
      /\ (ids' = ids \/ ids' = idFor(f))
  BY DEF brokerSubscribe
<1>2. MaxGens \in Nat /\ MaxSubs \in Nat
  BY BrokerConstants
<1>3. /\ gen \in [BrokerClients -> 0..MaxGens] /\ up \subseteq BrokerClients
      /\ want \in [BrokerClients -> SUBSET Subs] /\ subs \subseteq Subs
  BY DEF BrokerInv, BrokerTypeOK
<1>4. gen[c] \in 1..MaxGens
  BY <1>1, <1>3 DEF BrokerInv
<1>5. new \in Subs /\ new.k = k /\ new.to = deliver(c) /\ new.to.gen = gen[c] /\ new.to.client = c
  BY <1>4 DEF Subs, Delivers, deliver
<1>. HIDE DEF new
<1>6. ids' \in Seq(Names) /\ \A i, j \in DOMAIN ids' : ids'[i] = ids'[j] => i = j
  <2>1. f \in Names
    BY DEF Names
  <2>. QED  BY <1>1, <2>1, IdsAfter
<1>7. want' \in [BrokerClients -> SUBSET Subs] /\ want'[c] = want[c] \cup {new}
      /\ \A x \in BrokerClients : x # c => want'[x] = want[x]
  BY <1>1, <1>3, <1>5
<1>8. BrokerTypeOK'
  <2>1. subs' \subseteq Subs
    BY <1>1, <1>3, <1>5
  <2>2. copies' \in [Delivers -> 0..MaxSubs]
    BY <1>1, <1>2 DEF NoCopies
  <2>. QED  BY <1>1, <1>3, <1>6, <1>7, <2>1, <2>2 DEF BrokerTypeOK, Names
<1>9. \A s, r \in subs' : s.k = r.k => s = r
  BY <1>1, <1>5 DEF BrokerInv
<1>10. \A s \in subs' : s.to.gen <= gen'[s.to.client]
  BY <1>1, <1>4, <1>5 DEF BrokerInv
<1>11. ASSUME NEW x \in BrokerClients, gen'[x] > 0
       PROVE  Mine(x)' = IF x \in up' THEN want'[x] ELSE {}
  <2>1. Mine(x) = IF x \in up THEN want[x] ELSE {}
    BY <1>1, <1>11 DEF BrokerInv
  <2>2. CASE x = c
    <3>1. Mine(x)' = Mine(x) \cup {new}
      BY <2>2, <1>1, <1>5 DEF Mine, deliver
    <3>. QED  BY <2>1, <2>2, <3>1, <1>1, <1>7
  <2>3. CASE x # c
    <3>1. deliver(x) # deliver(c)
      BY <2>3 DEF deliver
    <3>2. Mine(x)' = Mine(x)
      BY <3>1, <1>1, <1>5 DEF Mine, deliver
    <3>. QED  BY <2>1, <2>3, <3>2, <1>1, <1>7
  <2>. QED  BY <2>2, <2>3
<1>. QED  BY <1>1, <1>6, <1>8, <1>9, <1>10, <1>11 DEF BrokerInv

(* All that a client subscribed to is gone, and nothing of another's.       *)
LEMMA UnsubscribeStep ==
  ASSUME BrokerInv, NEW c \in BrokerClients, NEW b \in BOOLEAN, brokerUnsubscribe(c, b)
  PROVE  BrokerInv'
<1>1. /\ c \in up /\ subs' = {s \in subs : s.to # deliver(c)} /\ up' = (IF b THEN up \ {c} ELSE up)
      /\ want' = [want EXCEPT ![c] = {}] /\ copies' = NoCopies /\ gen' = gen /\ ids' = ids
  BY DEF brokerUnsubscribe, unsubscribe
<1>2. MaxSubs \in Nat
  BY BrokerConstants
<1>3. /\ up \subseteq BrokerClients /\ want \in [BrokerClients -> SUBSET Subs] /\ subs \subseteq Subs
  BY DEF BrokerInv, BrokerTypeOK
<1>4. BrokerTypeOK'
  <2>1. copies' \in [Delivers -> 0..MaxSubs]
    BY <1>1, <1>2 DEF NoCopies
  <2>2. want' \in [BrokerClients -> SUBSET Subs] /\ up' \subseteq BrokerClients
    BY <1>1, <1>3
  <2>. QED  BY <1>1, <1>3, <2>1, <2>2 DEF BrokerInv, BrokerTypeOK
<1>5. ASSUME NEW x \in BrokerClients, gen'[x] > 0
      PROVE  Mine(x)' = IF x \in up' THEN want'[x] ELSE {}
  <2>1. Mine(x) = IF x \in up THEN want[x] ELSE {}
    BY <1>1, <1>5 DEF BrokerInv
  <2>2. CASE x = c
    <3>1. Mine(x)' = {}
      BY <2>2, <1>1 DEF Mine, deliver
    <3>. QED  BY <2>2, <3>1, <1>1, <1>3
  <2>3. CASE x # c
    <3>1. deliver(x) # deliver(c)
      BY <2>3 DEF deliver
    <3>2. Mine(x)' = Mine(x)
      BY <3>1, <1>1 DEF Mine, deliver
    <3>3. want'[x] = want[x] /\ (x \in up' <=> x \in up)
      BY <2>3, <1>1, <1>3
    <3>. QED  BY <2>1, <3>2, <3>3
  <2>. QED  BY <2>2, <2>3
<1>. QED  BY <1>1, <1>4, <1>5 DEF BrokerInv

(* REGISTER, which sends nothing.                                           *)
LEMMA RegisterStep ==
  ASSUME BrokerInv, NEW c \in SnClients, NEW t \in Topics, snRegister(c, t)
  PROVE  BrokerInv'
<1>1. ids' = idFor(t) /\ copies' = NoCopies /\ UNCHANGED <<subs, gen, up, want>>
  BY DEF snRegister
<1>2. t \in Names
  BY DEF Names
<1>3. ids' \in Seq(Names) /\ \A i, j \in DOMAIN ids' : ids'[i] = ids'[j] => i = j
  BY <1>1, <1>2, IdsAfter
<1>4. copies' \in [Delivers -> 0..MaxSubs]
  BY <1>1, BrokerConstants DEF NoCopies
<1>5. BrokerTypeOK'
  BY <1>1, <1>3, <1>4 DEF BrokerInv, BrokerTypeOK, Names
<1>. QED  BY <1>1, <1>3, <1>5 DEF BrokerInv, Mine, deliver

(* The name a client of the gateway publishes by.                           *)
LEMMA SnTopics == ASSUME BrokerInv, NEW id \in 1..MaxIds PROVE snTopic(id) \in Names
<1>1. ids \in Seq(Names)
  BY DEF BrokerInv, BrokerTypeOK, Names
<1>2. id \in DOMAIN ids => ids[id] \in Names
  BY <1>1, ElementOfSeq, LenProperties
<1>. QED  BY <1>2 DEF snTopic, Names

(* Each step keeps the invariant, and gives an id only to a new name.       *)
LEMMA BrokerStep ==
  ASSUME BrokerInv, [BrokerNext]_brokerVars
  PROVE  /\ BrokerInv'
         /\ \A i \in DOMAIN ids : i \in DOMAIN ids' /\ ids'[i] = ids[i]
<1>. DEFINE IdsStay == \A i \in DOMAIN ids : i \in DOMAIN ids' /\ ids'[i] = ids[i]
<1>1. ASSUME NEW c \in BrokerClients, brokerConnect(c) PROVE BrokerInv' /\ IdsStay
  <2>1. ids' = ids
    BY <1>1 DEF brokerConnect
  <2>. QED  BY <1>1, <2>1, ConnectStep
<1>2. ASSUME NEW c \in BrokerClients, NEW f \in Filters, NEW k \in 1..MaxSubs, brokerSubscribe(c, f, k)
      PROVE  BrokerInv' /\ IdsStay
  <2>1. f \in Names /\ (ids' = ids \/ ids' = idFor(f))
    BY <1>2 DEF brokerSubscribe, Names
  <2>2. IdsStay
    BY <2>1, IdsAfter
  <2>. QED  BY <1>2, <2>2, SubscribeStep
<1>3. ASSUME NEW c \in BrokerClients, NEW b \in BOOLEAN, brokerUnsubscribe(c, b) PROVE BrokerInv' /\ IdsStay
  <2>1. ids' = ids
    BY <1>3 DEF brokerUnsubscribe
  <2>. QED  BY <1>3, <2>1, UnsubscribeStep
<1>4. ASSUME NEW t \in Names, publish(t) PROVE BrokerInv' /\ IdsStay
  <2>1. ids' = ids \/ ids' = idFor(t)
    BY <1>4 DEF publish
  <2>2. IdsStay
    BY <2>1, IdsAfter
  <2>. QED  BY <1>4, <2>2, Published
<1>5. ASSUME NEW c \in MqttClients, NEW t \in Topics, mqttPublish(c, t) PROVE BrokerInv' /\ IdsStay
  BY <1>4, <1>5 DEF mqttPublish, Names
<1>6. ASSUME NEW c \in SnClients, NEW t \in Topics, snRegister(c, t) PROVE BrokerInv' /\ IdsStay
  <2>1. t \in Names /\ ids' = idFor(t)
    BY <1>6 DEF snRegister, Names
  <2>2. IdsStay
    BY <2>1, IdsAfter
  <2>. QED  BY <1>6, <2>2, RegisterStep
<1>7. ASSUME NEW c \in SnClients, NEW id \in 1..MaxIds, snPublish(c, id) PROVE BrokerInv' /\ IdsStay
  <2>1. snTopic(id) \in Names /\ publish(snTopic(id))
    BY <1>7, SnTopics DEF snPublish
  <2>. QED  BY <1>4, <2>1
<1>8. CASE UNCHANGED brokerVars
  <2>1. UNCHANGED <<subs, gen, up, ids, copies, want>>
    BY <1>8 DEF brokerVars
  <2>. QED  BY <2>1 DEF BrokerInv, BrokerTypeOK, Mine, deliver
<1>. HIDE DEF IdsStay
<1>9. BrokerInv' /\ IdsStay
  <2>1. CASE \E c \in BrokerClients : \/ brokerConnect(c)
                                      \/ \E f \in Filters, k \in 1..MaxSubs : brokerSubscribe(c, f, k)
                                      \/ \E b \in BOOLEAN : brokerUnsubscribe(c, b)
    BY <1>1, <1>2, <1>3, <2>1
  <2>2. CASE \E c \in MqttClients, t \in Topics : mqttPublish(c, t)
    BY <1>5, <2>2
  <2>3. CASE \E c \in SnClients : \/ \E t \in Topics : snRegister(c, t)
                                  \/ \E id \in 1..MaxIds : id <= Len(ids) + 1 /\ snPublish(c, id)
    BY <1>6, <1>7, <2>3
  <2>4. CASE BrokerNext
    BY <2>1, <2>2, <2>3, <2>4 DEF BrokerNext
  <2>. QED  BY <1>8, <2>4 DEF IdsStay
<1>. QED  BY <1>9 DEF IdsStay

(* The invariant holds throughout.                                          *)
LEMMA BrokerAlways == BrokerSpec => []BrokerInv
<1>1. BrokerInv /\ [BrokerNext]_brokerVars => BrokerInv'
  BY BrokerStep
<1>. QED  BY <1>1, BrokerInitially, PTL DEF BrokerSpec

(* A publish reaches every client with a session once for each filter it    *)
(* asked for in it that covers the topic, and no other (publish(),          *)
(* subscribe(), unsubscribe()).                                             *)
THEOREM AlwaysDeliveredAsAsked == BrokerSpec => DeliveredAsAsked
<1>. DEFINE Reached ==
       \A t \in Topics \cup ToSet(ids) :
         publish(t) => \A c \in BrokerClients : gen[c] > 0 =>
           copies'[deliver(c)] = IF c \in up THEN Cardinality({s \in want[c] : Covers(s.filter, t)}) ELSE 0
<1>1. BrokerInv => Reached
  <2>. SUFFICES ASSUME BrokerInv, NEW t \in Topics \cup ToSet(ids), publish(t),
                       NEW c \in BrokerClients, gen[c] > 0
                PROVE  copies'[deliver(c)] =
                         IF c \in up THEN Cardinality({s \in want[c] : Covers(s.filter, t)}) ELSE 0
    OBVIOUS
  <2>1. Len(t) \in Nat
    <3>1. \A x \in Names : Len(x) \in Nat
      <4>1. \A x \in Filters \cup Topics : Len(x) \in Nat
        BY BrokerConstants, LenProperties
      <4>2. \A i \in 1..MaxIds : Len(<<ToString(i)>>) = 1
        OBVIOUS
      <4>. QED  BY <4>1, <4>2 DEF Names
    <3>2. ids \in Seq(Names)
      BY DEF BrokerInv, BrokerTypeOK, Names
    <3>3. t \in Names
      BY <3>2, ElementOfSeq, LenProperties DEF ToSet, Names
    <3>. QED  BY <3>1, <3>3
  <2>2. deliver(c) \in Delivers
    BY DEF deliver, Delivers, BrokerInv, BrokerTypeOK
  <2>3. copies'[deliver(c)] = Cardinality({s \in Matching(t) : s.to = deliver(c)})
    BY <2>2 DEF publish
  <2>4. \A s \in subs : topicMatches(s.filter, t) <=> Covers(s.filter, t)
    <3>1. \A s \in subs : s.filter \in Filters
      BY DEF BrokerInv, BrokerTypeOK, Subs
    <3>. QED  BY <2>1, <3>1, MatchesCovered
  <2>5. {s \in Matching(t) : s.to = deliver(c)} = {s \in Mine(c) : Covers(s.filter, t)}
    BY <2>4 DEF Matching, Mine
  <2>6. Mine(c) = IF c \in up THEN want[c] ELSE {}
    BY DEF BrokerInv
  <2>. QED  BY <2>3, <2>5, <2>6, FS_EmptySet
<1>. HIDE DEF Reached
<1>2. BrokerSpec => [][Reached]_brokerVars
  BY <1>1, BrokerAlways, PTL DEF BrokerSpec
<1>. QED  BY <1>2, PTL DEF DeliveredAsAsked, Reached

(* An id goes on meaning the topic it was given for, which has no other     *)
(* (idFor()).                                                               *)
THEOREM IdsAlwaysLast == BrokerSpec => IdsLast
<1>1. BrokerInv => BrokerTypeOK
  BY DEF BrokerInv
<1>2. BrokerInv /\ [BrokerNext]_brokerVars =>
        /\ \A i \in DOMAIN ids : i \in DOMAIN ids' /\ ids'[i] = ids[i]
        /\ \A i, j \in DOMAIN ids' : ids'[i] = ids'[j] => i = j
  BY BrokerStep DEF BrokerInv
<1>. QED  BY <1>1, <1>2, BrokerAlways, PTL DEF BrokerSpec, IdsLast

-----------------------------------------------------------------------------
(***************************************************************************)
(* The FTP server.                                                         *)
(***************************************************************************)
Jobs == [s : Sessions, kind : {"send", "store", "append"}, path : Paths, done : 0..1]
Conns == [job : 0..MaxJobs, parts : Seq(1..MaxData), open : BOOLEAN]
Entries == [is : {"absent", "dir", "file", "undefined"}, body : Seq(1..MaxData)]

Ascending(q) == \A i, k \in DOMAIN q : i < k => q[i] < q[k]

(* Queues of numbers in ascending order: taking the first one, and adding   *)
(* one that is higher than all.                                             *)
LEMMA TakenFirst ==
  ASSUME NEW n \in Nat, NEW q \in Seq(1..n), Ascending(q), q # <<>>
  PROVE  /\ Tail(q) \in Seq(1..n) /\ Ascending(Tail(q))
         /\ q[1] \in ToSet(q) /\ q[1] \in 1..n
         /\ ToSet(Tail(q)) = ToSet(q) \ {q[1]}
         /\ \A x \in ToSet(Tail(q)) : q[1] < x
<1>1. Len(q) \in Nat \ {0} /\ DOMAIN q = 1..Len(q)
  BY EmptySeq, LenProperties
<1>2. Tail(q) \in Seq(1..n) /\ Len(Tail(q)) = Len(q) - 1 /\ \A i \in 1..Len(Tail(q)) : Tail(q)[i] = q[i + 1]
  BY HeadTailProperties
<1>3. DOMAIN Tail(q) = 1..(Len(q) - 1)
  BY <1>2
<1>4. Ascending(Tail(q))
  BY <1>1, <1>2, <1>3 DEF Ascending
<1>5. 1 \in DOMAIN q /\ q[1] \in 1..n
  BY <1>1
<1>6. \A x \in ToSet(Tail(q)) : x \in ToSet(q) /\ q[1] < x
  BY <1>1, <1>2, <1>3, <1>5 DEF ToSet, Ascending
<1>7. \A x \in ToSet(q) : x = q[1] \/ x \in ToSet(Tail(q))
  <2>. SUFFICES ASSUME NEW i \in 1..Len(q), i # 1 PROVE q[i] \in ToSet(Tail(q))
    BY <1>1 DEF ToSet
  <2>1. i - 1 \in DOMAIN Tail(q) /\ Tail(q)[i - 1] = q[i]
    BY <1>1, <1>2, <1>3
  <2>. QED  BY <2>1 DEF ToSet
<1>8. q[1] \notin ToSet(Tail(q))
  BY <1>5, <1>6
<1>. QED
  BY <1>2, <1>4, <1>5, <1>6, <1>7, <1>8 DEF ToSet

(* Adding one that is higher than all.                                      *)
LEMMA AddedLast ==
  ASSUME NEW n \in Nat, NEW q \in Seq(1..n), Ascending(q), NEW x \in Nat, n < x
  PROVE  /\ Append(q, x) \in Seq(1..x) /\ Ascending(Append(q, x))
         /\ ToSet(Append(q, x)) = ToSet(q) \cup {x}
         /\ Append(q, x) # <<>>
<1>1. q \in Seq(1..x) /\ Len(q) \in Nat /\ DOMAIN q = 1..Len(q) /\ \A i \in 1..Len(q) : q[i] \in 1..n
  BY LenProperties, ElementOfSeq, SeqMonotonic
<1>2. /\ Append(q, x) \in Seq(1..x) /\ Append(q, x) # <<>>
      /\ Len(Append(q, x)) = Len(q) + 1
      /\ Append(q, x)[Len(q) + 1] = x
      /\ \A i \in 1..Len(q) : Append(q, x)[i] = q[i]
  BY <1>1, AppendProperties
<1>3. DOMAIN Append(q, x) = 1..(Len(q) + 1)
  BY <1>2
<1>4. Ascending(Append(q, x))
  BY <1>1, <1>2, <1>3 DEF Ascending
<1>5. ToSet(Append(q, x)) \subseteq ToSet(q) \cup {x}
  BY <1>1, <1>2, <1>3 DEF ToSet
<1>6. x \in ToSet(Append(q, x))
  <2>1. Len(q) + 1 \in DOMAIN Append(q, x)
    BY <1>1, <1>3
  <2>. QED  BY <1>2, <2>1 DEF ToSet
<1>7. ToSet(q) \subseteq ToSet(Append(q, x))
  <2>. SUFFICES ASSUME NEW i \in 1..Len(q) PROVE q[i] \in ToSet(Append(q, x))
    BY <1>1 DEF ToSet
  <2>1. i \in DOMAIN Append(q, x) /\ Append(q, x)[i] = q[i]
    BY <1>1, <1>2, <1>3
  <2>. QED  BY <2>1 DEF ToSet
<1>. QED
  BY <1>2, <1>4, <1>5, <1>6, <1>7

(* A queue of numbers up to n, as a set.                                    *)
LEMMA InQueue ==
  ASSUME NEW n \in Nat, NEW q \in Seq(1..n)
  PROVE  ToSet(q) \subseteq 1..n /\ (q = <<>> <=> ToSet(q) = {})
  BY LenProperties, ElementOfSeq, EmptySeq DEF ToSet

-----------------------------------------------------------------------------
(* Transfers and connections, with some of them waiting (W) or early (E).   *)
Listed(js, ds) ==
  /\ js \in Seq(Jobs) /\ Len(js) <= MaxJobs
  /\ ds \in Seq(Conns) /\ Len(ds) <= MaxData

Agree(js, ds, W, E) ==
  /\ W \subseteq 1..Len(js) /\ E \subseteq 1..Len(ds)
  /\ \A d \in 1..Len(ds) : ds[d].job <= Len(js)
  /\ \A d, e \in 1..Len(ds) : (d < e /\ ds[d].job # 0 /\ ds[e].job # 0) => ds[d].job < ds[e].job
  /\ \A w \in W, d \in 1..Len(ds) : ds[d].job < w
  /\ \A e \in E, d \in 1..Len(ds) : ds[d].job # 0 => d < e
  /\ \A j \in 1..Len(js) : j \in W \/ \E d \in 1..Len(ds) : ds[d].job = j
  /\ \A w \in W : js[w].done = 0
  /\ \A d \in 1..Len(ds) : ds[d].job # 0
       => /\ js[ds[d].job].done = 0 => js[ds[d].job].kind # "send"
          /\ ds[d].open => js[ds[d].job].done = 0

(* A connection is given to the transfer that waited longest.               *)
LEMMA PairedUp ==
  ASSUME NEW js, NEW ds, NEW W, NEW E, NEW j \in W, NEW d \in E,
         Listed(js, ds), Agree(js, ds, W, E),
         \A w \in W \ {j} : j < w, \A e \in E \ {d} : d < e,
         Serve(j, d, js, ds)
  PROVE  Listed(jobs', data') /\ Agree(jobs', data', W \ {j}, E \ {d})
         /\ Len(jobs') = Len(js) /\ Len(data') = Len(ds)
<1>. USE FtpConstants
<1>1. /\ Len(js) \in Nat /\ DOMAIN js = 1..Len(js) /\ j \in 1..Len(js)
      /\ Len(ds) \in Nat /\ DOMAIN ds = 1..Len(ds) /\ d \in 1..Len(ds)
  BY LenProperties DEF Listed, Agree
<1>2. /\ \A i \in 1..Len(js) : js[i] \in Jobs
      /\ \A i \in 1..Len(ds) : ds[i] \in Conns
  BY ElementOfSeq DEF Listed
<1>3. /\ ds[d].job = 0
      /\ js[j].done = 0
  <2>1. ds[d].job \in Nat /\ (ds[d].job # 0 => d < d)
    BY <1>1, <1>2 DEF Agree, Conns
  <2>. QED  BY <1>1, <2>1 DEF Agree
<1>4. /\ jobs' \in Seq(Jobs) /\ Len(jobs') = Len(js)
      /\ \A i \in 1..Len(js) : i # j => jobs'[i] = js[i]
      /\ jobs'[j].kind = js[j].kind /\ jobs'[j].done = (IF js[j].kind = "send" THEN 1 ELSE 0)
  <2>1. CASE js[j].kind = "send"
    <3>1. jobs' = [js EXCEPT ![j] = [js[j] EXCEPT !.done = 1]]
      BY <2>1, <1>3 DEF Serve
    <3>2. [js[j] EXCEPT !.done = 1] \in Jobs
      BY <1>1, <1>2 DEF Jobs
    <3>3. jobs' \in Seq(Jobs) /\ Len(jobs') = Len(js)
      BY <3>1, <3>2, <1>1, ExceptSeq DEF Listed
    <3>. QED  BY <3>1, <3>3, <1>1, <1>2, <2>1 DEF Jobs
  <2>2. CASE js[j].kind # "send"
    BY <2>2, <1>3 DEF Serve, Listed
  <2>. QED  BY <2>1, <2>2
<1>5. /\ data' \in Seq(Conns) /\ Len(data') = Len(ds)
      /\ \A i \in 1..Len(ds) : i # d => data'[i] = ds[i]
      /\ data'[d].job = j /\ (data'[d].open => js[j].kind # "send")
  <2>. DEFINE new == IF js[j].kind = "send" THEN [ds[d] EXCEPT !.job = j, !.open = FALSE]
                                            ELSE [ds[d] EXCEPT !.job = j]
  <2>1. data' = [ds EXCEPT ![d] = new]
    BY DEF Serve
  <2>2. j \in 0..MaxJobs
    BY <1>1 DEF Listed
  <2>3. new \in Conns /\ new.job = j /\ (new.open => js[j].kind # "send")
    BY <2>2, <1>1, <1>2 DEF Conns
  <2>. HIDE DEF new
  <2>4. data' \in Seq(Conns) /\ Len(data') = Len(ds)
    BY <2>1, <2>3, <1>1, ExceptSeq DEF Listed
  <2>. QED  BY <2>1, <2>3, <2>4, <1>1
<1>6. Listed(jobs', data')
  BY <1>4, <1>5 DEF Listed
<1>7. \A i \in 1..Len(ds) : ds[i].job \in Nat
  BY <1>2 DEF Conns
<1>8. \A i \in 1..Len(ds) : ds[i].job < j /\ (ds[i].job # 0 => i < d)
  BY <1>1 DEF Agree
<1>9. /\ W \ {j} \subseteq 1..Len(jobs') /\ E \ {d} \subseteq 1..Len(data')
      /\ \A i \in 1..Len(data') : data'[i].job <= Len(jobs')
  <2>1. W \subseteq 1..Len(js) /\ E \subseteq 1..Len(ds) /\ \A i \in 1..Len(ds) : ds[i].job <= Len(js)
    BY DEF Agree
  <2>2. \A i \in 1..Len(ds) : data'[i].job <= Len(js)
    <3>. TAKE i \in 1..Len(ds)
    <3>1. CASE i = d
      BY <3>1, <1>1, <1>5
    <3>2. CASE i # d
      BY <3>2, <2>1, <1>5
    <3>. QED  BY <3>1, <3>2
  <2>. QED  BY <2>1, <2>2, <1>4, <1>5
<1>14. \A i, e \in 1..Len(data') : (i < e /\ data'[i].job # 0 /\ data'[e].job # 0) => data'[i].job < data'[e].job
  <2>. SUFFICES ASSUME NEW i \in 1..Len(ds), NEW e \in 1..Len(ds), i < e, data'[i].job # 0, data'[e].job # 0
                PROVE  data'[i].job < data'[e].job
    BY <1>5
  <2>1. i # d
    <3>. SUFFICES ASSUME i = d PROVE FALSE
      OBVIOUS
    <3>1. e # d /\ data'[e] = ds[e]
      BY <1>1, <1>5
    <3>. QED  BY <3>1, <1>1, <1>8
  <2>2. data'[i] = ds[i] /\ ds[i].job < j
    BY <2>1, <1>5, <1>8
  <2>3. CASE e = d
    BY <2>2, <2>3, <1>5
  <2>4. CASE e # d
    BY <2>2, <2>4, <1>5 DEF Agree
  <2>. QED  BY <2>3, <2>4
<1>10. /\ \A w \in W \ {j}, i \in 1..Len(data') : data'[i].job < w
       /\ \A e \in E \ {d}, i \in 1..Len(data') : data'[i].job # 0 => i < e
  BY <1>1, <1>4, <1>5, <1>7, <1>8 DEF Agree
<1>11. \A i \in 1..Len(jobs') : i \in W \ {j} \/ \E e \in 1..Len(data') : data'[e].job = i
  <2>. SUFFICES ASSUME NEW i \in 1..Len(js), i \notin W \ {j}
                PROVE  \E e \in 1..Len(data') : data'[e].job = i
    BY <1>4
  <2>1. CASE i = j
    BY <2>1, <1>1, <1>5
  <2>2. CASE i # j
    <3>1. PICK e \in 1..Len(ds) : ds[e].job = i
      BY <2>2 DEF Agree
    <3>2. e # d
      BY <3>1, <1>3, <1>1
    <3>. QED  BY <3>1, <3>2, <1>5
  <2>. QED  BY <2>1, <2>2
<1>12. \A w \in W \ {j} : jobs'[w].done = 0
  BY <1>4 DEF Agree
<1>13. \A i \in 1..Len(data') : data'[i].job # 0
         => /\ jobs'[data'[i].job].done = 0 => jobs'[data'[i].job].kind # "send"
            /\ data'[i].open => jobs'[data'[i].job].done = 0
  <2>. TAKE i \in 1..Len(data')
  <2>1. CASE i = d
    BY <2>1, <1>4, <1>5
  <2>2. CASE i # d
    <3>1. data'[i] = ds[i] /\ i \in 1..Len(ds)
      BY <2>2, <1>5
    <3>2. ds[i].job # j /\ (ds[i].job # 0 => ds[i].job \in 1..Len(js))
      BY <3>1, <1>1, <1>7, <1>8 DEF Agree
    <3>3. ds[i].job # 0 => jobs'[ds[i].job] = js[ds[i].job]
      BY <3>2, <1>4
    <3>. QED  BY <3>1, <3>3 DEF Agree
  <2>. QED  BY <2>1, <2>2
<1>. QED
  BY <1>4, <1>5, <1>6, <1>9, <1>10, <1>11, <1>12, <1>13, <1>14 DEF Agree

-----------------------------------------------------------------------------
(* Files, transfers and connections agree, and the two queues are kept in  *)
(* the order in which what waits there came.                                *)
FtpInv ==
  /\ tree \in [Paths -> Entries] /\ renaming \in [Sessions -> Paths \cup {Root}]
  /\ Listed(jobs, data)
  /\ waiting \in Seq(1..Len(jobs)) /\ early \in Seq(1..Len(data))
  /\ Ascending(waiting) /\ Ascending(early)
  /\ Agree(jobs, data, ToSet(waiting), ToSet(early))
  /\ NeitherWaitsForOther

(* No transfer and no connection at first.                                  *)
LEMMA FtpInitially == FtpInit => FtpInv
<1>. SUFFICES ASSUME FtpInit PROVE FtpInv
  OBVIOUS
<1>1. tree \in [Paths -> Entries]
  <2>1. \A p \in Paths : Tree0[p] \in Entries
    BY FtpConstants DEF Entries
  <2>. QED  BY <2>1, FtpConstants DEF FtpInit
<1>2. renaming \in [Sessions -> Paths \cup {Root}]
  BY DEF FtpInit
<1>3. \A S : <<>> \in Seq(S)
  BY EmptySeq
<1>4. Len(<<>>) = 0 /\ ToSet(<<>>) = {} /\ DOMAIN <<>> = {}
  BY DEF ToSet
<1>. QED
  BY <1>1, <1>2, <1>3, <1>4, FtpConstants DEF FtpInit, FtpInv, Listed, Agree, Ascending, NeitherWaitsForOther

(* A transfer that has just been accepted is as good as waiting.            *)
LEMMA NewJob ==
  ASSUME FtpInv, Len(jobs) < MaxJobs, NEW job \in Jobs, job.done = 0
  PROVE  LET js == Append(jobs, job) IN
           /\ Listed(js, data) /\ Len(js) = Len(jobs) + 1
           /\ Agree(js, data, ToSet(waiting) \cup {Len(jobs) + 1}, ToSet(early))
<1>. DEFINE js == Append(jobs, job)
            n  == Len(jobs)
<1>1. n \in Nat /\ Len(data) \in Nat /\ ToSet(waiting) \subseteq 1..n /\ jobs \in Seq(Jobs)
  BY InQueue, LenProperties DEF FtpInv, Listed
<1>2. js \in Seq(Jobs) /\ Len(js) = n + 1 /\ js[n + 1] = job /\ \A i \in 1..n : js[i] = jobs[i]
  BY <1>1, AppendProperties
<1>. HIDE DEF js, n
<1>3. Listed(js, data)
  BY <1>1, <1>2, FtpConstants DEF FtpInv, Listed, n
<1>4. Agree(jobs, data, ToSet(waiting), ToSet(early)) /\ Len(jobs) = n
  BY DEF FtpInv, n
<1>5. \A d \in 1..Len(data) : data[d].job \in Nat /\ data[d].job <= n
  <2>1. \A d \in 1..Len(data) : data[d] \in Conns
    BY <1>1, ElementOfSeq DEF FtpInv, Listed
  <2>. QED  BY <2>1, <1>4, FtpConstants DEF Agree, Conns
<1>6. /\ ToSet(waiting) \cup {n + 1} \subseteq 1..Len(js) /\ ToSet(early) \subseteq 1..Len(data)
      /\ \A d \in 1..Len(data) : data[d].job <= Len(js)
      /\ \A w \in ToSet(waiting) \cup {n + 1}, d \in 1..Len(data) : data[d].job < w
  BY <1>1, <1>2, <1>4, <1>5 DEF Agree
<1>7. \A j \in 1..Len(js) : j \in ToSet(waiting) \cup {n + 1} \/ \E d \in 1..Len(data) : data[d].job = j
  <2>. SUFFICES ASSUME NEW j \in 1..n, j \notin ToSet(waiting)
                PROVE  \E d \in 1..Len(data) : data[d].job = j
    BY <1>1, <1>2
  <2>. QED  BY <1>4 DEF Agree
<1>8. \A w \in ToSet(waiting) \cup {n + 1} : js[w].done = 0
  BY <1>1, <1>2, <1>4 DEF Agree
<1>9. \A d \in 1..Len(data) : data[d].job # 0
            => /\ js[data[d].job].done = 0 => js[data[d].job].kind # "send"
               /\ data[d].open => js[data[d].job].done = 0
  <2>. TAKE d \in 1..Len(data)
  <2>1. data[d].job # 0 => js[data[d].job] = jobs[data[d].job]
    BY <1>1, <1>2, <1>5
  <2>. QED  BY <2>1, <1>4 DEF Agree
<1>10. Agree(js, data, ToSet(waiting) \cup {n + 1}, ToSet(early))
  BY <1>4, <1>6, <1>7, <1>8, <1>9 DEF Agree
<1>. QED  BY <1>2, <1>3, <1>10 DEF js, n

(* A data connection that has just come is as good as early.                *)
LEMMA NewConnection ==
  ASSUME FtpInv, Len(data) < MaxData
  PROVE  LET ds == Append(data, [job |-> 0, parts |-> <<>>, open |-> TRUE]) IN
           /\ Listed(jobs, ds) /\ Len(ds) = Len(data) + 1
           /\ Agree(jobs, ds, ToSet(waiting), ToSet(early) \cup {Len(data) + 1})
<1>. DEFINE c  == [job |-> 0, parts |-> <<>>, open |-> TRUE]
            ds == Append(data, c)
            n  == Len(data)
<1>0. c \in Conns /\ c.job = 0
  BY EmptySeq, FtpConstants DEF Conns
<1>1. n \in Nat /\ Len(jobs) \in Nat /\ ToSet(early) \subseteq 1..n /\ ToSet(waiting) \subseteq 1..Len(jobs)
      /\ data \in Seq(Conns)
  BY InQueue, LenProperties DEF FtpInv, Listed
<1>. HIDE DEF c
<1>2. ds \in Seq(Conns) /\ Len(ds) = n + 1 /\ ds[n + 1] = c /\ \A i \in 1..n : ds[i] = data[i]
  BY <1>0, <1>1, AppendProperties
<1>. HIDE DEF ds, n
<1>3. Listed(jobs, ds)
  BY <1>1, <1>2, FtpConstants DEF FtpInv, Listed, n
<1>4. Agree(jobs, data, ToSet(waiting), ToSet(early)) /\ Len(data) = n
  BY DEF FtpInv, n
<1>5. \A d \in 1..n : data[d].job \in Nat
  <2>1. \A d \in 1..Len(data) : data[d] \in Conns
    BY <1>1, ElementOfSeq DEF FtpInv, Listed
  <2>. QED  BY <2>1, <1>4, FtpConstants DEF Conns
<1>6. \A d \in 1..(n + 1) : d = n + 1 \/ d \in 1..n
  BY <1>1
<1>7. \A d \in 1..(n + 1) : (ds[d].job # 0 => d \in 1..n) /\ (d \in 1..n => ds[d] = data[d])
  BY <1>0, <1>2, <1>6
<1>8. /\ ToSet(waiting) \subseteq 1..Len(jobs) /\ ToSet(early) \cup {n + 1} \subseteq 1..Len(ds)
      /\ \A d \in 1..Len(ds) : ds[d].job <= Len(jobs)
      /\ \A d, e \in 1..Len(ds) : (d < e /\ ds[d].job # 0 /\ ds[e].job # 0) => ds[d].job < ds[e].job
  BY <1>0, <1>1, <1>2, <1>4, <1>6, <1>7 DEF Agree
<1>9. /\ \A w \in ToSet(waiting), d \in 1..Len(ds) : ds[d].job < w
      /\ \A e \in ToSet(early) \cup {n + 1}, d \in 1..Len(ds) : ds[d].job # 0 => d < e
  BY <1>0, <1>1, <1>2, <1>4, <1>6, <1>7 DEF Agree
<1>10. \A j \in 1..Len(jobs) : j \in ToSet(waiting) \/ \E d \in 1..Len(ds) : ds[d].job = j
  <2>. SUFFICES ASSUME NEW j \in 1..Len(jobs), j \notin ToSet(waiting)
                PROVE  \E d \in 1..Len(ds) : ds[d].job = j
    OBVIOUS
  <2>1. PICK d \in 1..n : data[d].job = j
    BY <1>4 DEF Agree
  <2>. QED  BY <2>1, <1>1, <1>2
<1>11. /\ \A w \in ToSet(waiting) : jobs[w].done = 0
       /\ \A d \in 1..Len(ds) : ds[d].job # 0
            => /\ jobs[ds[d].job].done = 0 => jobs[ds[d].job].kind # "send"
               /\ ds[d].open => jobs[ds[d].job].done = 0
  BY <1>2, <1>4, <1>7 DEF Agree
<1>12. Agree(jobs, ds, ToSet(waiting), ToSet(early) \cup {n + 1})
  BY <1>8, <1>9, <1>10, <1>11 DEF Agree
<1>. QED  BY <1>2, <1>3, <1>12 DEF ds, n, c

-----------------------------------------------------------------------------
(* RETR, STOR and APPE: a transfer takes an early connection, or waits.     *)
LEMMA AcceptedStep ==
  ASSUME FtpInv, NEW job \in Jobs, job.done = 0, withData(job)
  PROVE  FtpInv'
<1>. PICK js : js = Append(jobs, job)
  OBVIOUS
<1>. PICK n : n = Len(jobs) + 1
  OBVIOUS
<1>1. Listed(js, data) /\ Len(js) = n /\ Agree(js, data, ToSet(waiting) \cup {n}, ToSet(early))
  BY NewJob DEF withData
<1>2. /\ waiting \in Seq(1..Len(jobs)) /\ early \in Seq(1..Len(data))
      /\ Ascending(waiting) /\ Ascending(early) /\ NeitherWaitsForOther
      /\ Len(data) \in Nat /\ Len(jobs) \in Nat
  BY LenProperties DEF FtpInv, Listed
<1>3. tree' \in [Paths -> Entries] /\ renaming' \in [Sessions -> Paths \cup {Root}]
  BY DEF FtpInv, withData
<1>4. CASE early # <<>>
  <2>1. Serve(n, early[1], js, data) /\ early' = Tail(early) /\ waiting' = waiting
    BY <1>4 DEF withData, NextEarly
  <2>2. waiting = <<>> /\ ToSet(waiting) = {}
    BY <1>4, <1>2 DEF NeitherWaitsForOther, ToSet
  <2>3. /\ Tail(early) \in Seq(1..Len(data)) /\ Ascending(Tail(early))
        /\ early[1] \in ToSet(early)
        /\ ToSet(Tail(early)) = ToSet(early) \ {early[1]}
        /\ \A x \in ToSet(Tail(early)) : early[1] < x
    BY <1>2, <1>4, TakenFirst
  <2>4. /\ Listed(jobs', data') /\ Agree(jobs', data', {}, ToSet(early) \ {early[1]})
        /\ Len(jobs') = Len(js) /\ Len(data') = Len(data)
    <3>1. n \in {n} /\ {n} \ {n} = {} /\ ToSet(waiting) \cup {n} = {n}
      BY <2>2
    <3>2. Agree(js, data, {n}, ToSet(early))
      BY <1>1, <3>1
    <3>3. \A w \in {n} \ {n} : n < w
      OBVIOUS
    <3>. PICK E, f, ds : E = ToSet(early) /\ f = early[1] /\ ds = data
      OBVIOUS
    <3>4. f \in E /\ \A x \in E \ {f} : f < x
      BY <2>3
    <3>5. Listed(js, ds) /\ Agree(js, ds, {n}, E) /\ Serve(n, f, js, ds)
      BY <1>1, <2>1, <3>2
    <3>6. /\ Listed(jobs', data') /\ Agree(jobs', data', {n} \ {n}, E \ {f})
          /\ Len(jobs') = Len(js) /\ Len(data') = Len(ds)
      <4>. PICK W : W = {n}
        OBVIOUS
      <4>1. n \in W /\ (\A w \in W \ {n} : n < w) /\ Agree(js, ds, W, E)
        BY <3>3, <3>5
      <4>3. \A W1, E1 : \A j1 \in W1, d1 \in E1 :
              /\ Listed(js, ds) /\ Agree(js, ds, W1, E1)
              /\ \A w \in W1 \ {j1} : j1 < w
              /\ \A e \in E1 \ {d1} : d1 < e
              /\ Serve(j1, d1, js, ds)
              => /\ Listed(jobs', data') /\ Agree(jobs', data', W1 \ {j1}, E1 \ {d1})
                 /\ Len(jobs') = Len(js) /\ Len(data') = Len(ds)
        BY PairedUp
      <4>2. /\ Listed(jobs', data') /\ Agree(jobs', data', W \ {n}, E \ {f})
            /\ Len(jobs') = Len(js) /\ Len(data') = Len(ds)
        BY <3>4, <3>5, <4>1, <4>3
      <4>. QED  BY <4>2
    <3>. QED  BY <3>1, <3>6
  <2>5. waiting' = <<>> /\ ToSet(waiting') = {} /\ waiting' \in Seq(1..Len(jobs')) /\ Ascending(waiting')
    BY <2>1, <2>2, EmptySeq DEF Ascending
  <2>6. early' \in Seq(1..Len(data')) /\ Ascending(early') /\ ToSet(early') = ToSet(early) \ {early[1]}
    BY <2>1, <2>3, <2>4
  <2>. QED  BY <1>3, <2>4, <2>5, <2>6 DEF FtpInv, NeitherWaitsForOther
<1>5. CASE early = <<>>
  <2>1. waiting' = Append(waiting, n) /\ jobs' = js /\ data' = data /\ early' = early
    BY <1>5 DEF withData
  <2>2. /\ Append(waiting, n) \in Seq(1..n) /\ Ascending(Append(waiting, n))
        /\ ToSet(Append(waiting, n)) = ToSet(waiting) \cup {n}
    BY <1>2, AddedLast
  <2>3. /\ waiting' \in Seq(1..Len(jobs')) /\ Ascending(waiting') /\ ToSet(waiting') = ToSet(waiting) \cup {n}
        /\ early' \in Seq(1..Len(data')) /\ Ascending(early') /\ ToSet(early') = ToSet(early)
    BY <1>1, <1>2, <2>1, <2>2
  <2>4. Listed(jobs', data') /\ Agree(jobs', data', ToSet(waiting'), ToSet(early'))
    BY <1>1, <2>1, <2>3
  <2>. QED  BY <1>3, <1>5, <2>1, <2>3, <2>4 DEF FtpInv, NeitherWaitsForOther
<1>. QED  BY <1>4, <1>5

(* A data connection comes in: it takes a waiting transfer, or is early.    *)
LEMMA DataStep == ASSUME FtpInv, acceptData PROVE FtpInv'
<1>. PICK ds : ds = Append(data, [job |-> 0, parts |-> <<>>, open |-> TRUE])
  OBVIOUS
<1>. PICK n : n = Len(data) + 1
  OBVIOUS
<1>1. Listed(jobs, ds) /\ Len(ds) = n /\ Agree(jobs, ds, ToSet(waiting), ToSet(early) \cup {n})
  BY NewConnection DEF acceptData
<1>2. /\ waiting \in Seq(1..Len(jobs)) /\ early \in Seq(1..Len(data))
      /\ Ascending(waiting) /\ Ascending(early) /\ NeitherWaitsForOther
      /\ Len(data) \in Nat /\ Len(jobs) \in Nat
  BY LenProperties DEF FtpInv, Listed
<1>3. tree' \in [Paths -> Entries] /\ renaming' \in [Sessions -> Paths \cup {Root}]
  BY DEF FtpInv, acceptData
<1>4. CASE waiting # <<>>
  <2>1. Serve(waiting[1], n, jobs, ds) /\ waiting' = Tail(waiting) /\ early' = early
    BY <1>4 DEF acceptData
  <2>2. early = <<>> /\ ToSet(early) = {}
    BY <1>4, <1>2 DEF NeitherWaitsForOther, ToSet
  <2>3. /\ Tail(waiting) \in Seq(1..Len(jobs)) /\ Ascending(Tail(waiting))
        /\ waiting[1] \in ToSet(waiting)
        /\ ToSet(Tail(waiting)) = ToSet(waiting) \ {waiting[1]}
        /\ \A x \in ToSet(Tail(waiting)) : waiting[1] < x
    BY <1>2, <1>4, TakenFirst
  <2>4. /\ Listed(jobs', data') /\ Agree(jobs', data', ToSet(waiting) \ {waiting[1]}, {})
        /\ Len(jobs') = Len(jobs) /\ Len(data') = Len(ds)
    <3>1. n \in {n} /\ {n} \ {n} = {} /\ ToSet(early) \cup {n} = {n}
      BY <2>2
    <3>2. Agree(jobs, ds, ToSet(waiting), {n})
      BY <1>1, <3>1
    <3>3. \A w \in {n} \ {n} : n < w
      OBVIOUS
    <3>. PICK W, f, js : W = ToSet(waiting) /\ f = waiting[1] /\ js = jobs
      OBVIOUS
    <3>4. f \in W /\ \A x \in W \ {f} : f < x
      BY <2>3
    <3>5. Listed(js, ds) /\ Agree(js, ds, W, {n}) /\ Serve(f, n, js, ds)
      BY <1>1, <2>1, <3>2
    <3>6. /\ Listed(jobs', data') /\ Agree(jobs', data', W \ {f}, {n} \ {n})
          /\ Len(jobs') = Len(js) /\ Len(data') = Len(ds)
      BY <3>3, <3>4, <3>5, <3>1, PairedUp
    <3>. QED  BY <3>1, <3>6
  <2>5. early' = <<>> /\ ToSet(early') = {} /\ early' \in Seq(1..Len(data')) /\ Ascending(early')
    BY <2>1, <2>2, EmptySeq DEF Ascending
  <2>6. waiting' \in Seq(1..Len(jobs')) /\ Ascending(waiting') /\ ToSet(waiting') = ToSet(waiting) \ {waiting[1]}
    BY <2>1, <2>3, <2>4
  <2>. QED  BY <1>3, <2>4, <2>5, <2>6 DEF FtpInv, NeitherWaitsForOther
<1>5. CASE waiting = <<>>
  <2>1. early' = Append(early, n) /\ data' = ds /\ jobs' = jobs /\ waiting' = waiting
    BY <1>5 DEF acceptData
  <2>2. /\ Append(early, n) \in Seq(1..n) /\ Ascending(Append(early, n))
        /\ ToSet(Append(early, n)) = ToSet(early) \cup {n}
    BY <1>2, AddedLast
  <2>3. /\ early' \in Seq(1..Len(data')) /\ Ascending(early') /\ ToSet(early') = ToSet(early) \cup {n}
        /\ waiting' \in Seq(1..Len(jobs')) /\ Ascending(waiting') /\ ToSet(waiting') = ToSet(waiting)
    BY <1>1, <1>2, <2>1, <2>2
  <2>4. Listed(jobs', data') /\ Agree(jobs', data', ToSet(waiting'), ToSet(early'))
    BY <1>1, <2>1, <2>3
  <2>. QED  BY <1>3, <1>5, <2>1, <2>3, <2>4 DEF FtpInv, NeitherWaitsForOther
<1>. QED  BY <1>4, <1>5

(* Data arrives on a connection.                                            *)
LEMMA ChunkStep == ASSUME FtpInv, NEW d \in DOMAIN data, dataChunk(d) PROVE FtpInv'
<1>1. /\ data \in Seq(Conns) /\ Len(data) \in Nat /\ DOMAIN data = 1..Len(data) /\ data[d] \in Conns
      /\ Len(data) <= MaxData
  BY LenProperties, ElementOfSeq DEF FtpInv, Listed
<1>. DEFINE new == [data[d] EXCEPT !.parts = Append(<<>>, d)]
<1>2. new \in Conns /\ new.job = data[d].job /\ new.open = data[d].open
  <2>1. <<>> \in Seq(1..MaxData) /\ d \in 1..MaxData
    BY <1>1, EmptySeq, FtpConstants
  <2>2. Append(<<>>, d) \in Seq(1..MaxData)
    BY <2>1, AppendProperties
  <2>. QED  BY <2>2, <1>1 DEF Conns
<1>3. data' = [data EXCEPT ![d] = new]
  BY <1>1 DEF dataChunk
<1>. HIDE DEF new
<1>4. data' \in Seq(Conns) /\ Len(data') = Len(data)
  BY <1>1, <1>2, <1>3, ExceptSeq
<1>5. \A i \in 1..Len(data) : data'[i].job = data[i].job /\ data'[i].open = data[i].open
  BY <1>1, <1>2, <1>3
<1>6. UNCHANGED <<tree, renaming, jobs, waiting, early>>
  BY DEF dataChunk
<1>7. Listed(jobs', data')
  BY <1>1, <1>4, <1>6 DEF FtpInv, Listed
<1>8. Agree(jobs', data', ToSet(waiting'), ToSet(early'))
  <2>1. Agree(jobs, data, ToSet(waiting), ToSet(early))
    BY DEF FtpInv
  <2>2. Agree(jobs, data', ToSet(waiting), ToSet(early))
    BY <2>1, <1>4, <1>5 DEF Agree
  <2>. QED  BY <2>2, <1>6
<1>. QED
  BY <1>4, <1>6, <1>7, <1>8 DEF FtpInv, NeitherWaitsForOther

(* The end of a data connection: what is stored goes behind what is there.  *)
LEMMA EndStep ==
  ASSUME FtpInv, NEW d \in DOMAIN data, dataEnd(d)
  PROVE  /\ FtpInv'
         /\ \A p \in Paths : tree'[p] = tree[p]
              \/ \E j \in DOMAIN jobs :
                   /\ jobs[j].path = p /\ jobs'[j].done > jobs[j].done
                   /\ \/ jobs[j].kind = "store"
                      \/ \E parts \in Seq(1..MaxData) : tree'[p] = File(tree[p].body \o parts)
<1>1. /\ data \in Seq(Conns) /\ Len(data) \in Nat /\ DOMAIN data = 1..Len(data) /\ data[d] \in Conns
      /\ jobs \in Seq(Jobs) /\ Len(jobs) \in Nat /\ DOMAIN jobs = 1..Len(jobs)
      /\ \A j \in 1..Len(jobs) : jobs[j] \in Jobs
      /\ \A i \in 1..Len(data) : data[i] \in Conns
  BY LenProperties, ElementOfSeq DEF FtpInv, Listed
<1>. PICK j : j = data[d].job
  OBVIOUS
<1>. DEFINE new == [data[d] EXCEPT !.open = FALSE]
<1>2. new \in Conns /\ new.job = j /\ ~new.open
  BY <1>1 DEF Conns
<1>3. data' = [data EXCEPT ![d] = new] /\ data[d].open
  BY DEF dataEnd, Ended
<1>. HIDE DEF new
<1>4. data' \in Seq(Conns) /\ Len(data') = Len(data)
  BY <1>1, <1>2, <1>3, ExceptSeq
<1>5. \A i \in 1..Len(data) : data'[i].job = data[i].job /\ (data'[i].open => data[i].open /\ i # d)
  BY <1>1, <1>2, <1>3
<1>6. UNCHANGED <<renaming, waiting, early>>
  BY DEF dataEnd
<1>7. Agree(jobs, data, ToSet(waiting), ToSet(early)) /\ Len(jobs) <= MaxJobs /\ Len(data) <= MaxData
      /\ tree \in [Paths -> Entries]
  BY DEF FtpInv, Listed
<1>8. CASE j = 0
  <2>1. tree' = tree /\ jobs' = jobs
    BY <1>8 DEF dataEnd
  <2>2. Agree(jobs, data', ToSet(waiting), ToSet(early))
    BY <1>4, <1>5, <1>7 DEF Agree
  <2>3. Agree(jobs', data', ToSet(waiting'), ToSet(early')) /\ Listed(jobs', data')
    BY <2>1, <2>2, <1>1, <1>4, <1>6, <1>7 DEF Listed
  <2>. QED  BY <2>1, <2>3, <1>4, <1>6 DEF FtpInv, NeitherWaitsForOther
<1>9. CASE j # 0
  <2>1. /\ tree' = [tree EXCEPT ![jobs[j].path] = File(Before(j) \o data[d].parts)]
        /\ jobs' = [jobs EXCEPT ![j].done = @ + 1]
    BY <1>9 DEF dataEnd
  <2>2. j \in 1..Len(jobs) /\ jobs[j].done = 0 /\ jobs[j].kind # "send"
    <3>1. j \in 1..Len(jobs)
      BY <1>1, <1>7, <1>9 DEF Agree, Conns
    <3>. QED  BY <3>1, <1>1, <1>3, <1>7, <1>9 DEF Agree
  <2>3. jobs' = [jobs EXCEPT ![j] = [jobs[j] EXCEPT !.done = 1]]
    BY <2>1, <2>2
  <2>4. /\ [jobs[j] EXCEPT !.done = 1] \in Jobs
    BY <2>2, <1>1 DEF Jobs
  <2>5. jobs' \in Seq(Jobs) /\ Len(jobs') = Len(jobs)
    BY <2>2, <2>3, <2>4, <1>1, ExceptSeq
  <2>6. /\ \A i \in 1..Len(jobs) : i # j => jobs'[i] = jobs[i]
        /\ jobs'[j].done = 1
    BY <2>2, <2>3, <1>1 DEF Jobs
  <2>7. \A i \in 1..Len(data) : i # d /\ data[i].job # 0 => data[i].job # j
    <3>. SUFFICES ASSUME NEW i \in 1..Len(data), i # d, data[i].job = j PROVE FALSE
      BY <1>9
    <3>1. \A a, b \in 1..Len(data) : (a < b /\ data[a].job # 0 /\ data[b].job # 0) => data[a].job < data[b].job
      BY <1>7 DEF Agree
    <3>2. j \in Nat /\ i \in Nat /\ d \in Nat /\ (i < d \/ d < i)
      BY <2>2, <1>1
    <3>. QED  BY <3>1, <3>2, <1>1, <1>9
  <2>8. \A w \in ToSet(waiting) : jobs'[w].done = 0
    <3>. TAKE w \in ToSet(waiting)
    <3>1. w \in 1..Len(jobs) /\ data[d].job < w /\ jobs[w].done = 0
      BY <1>1, <1>7 DEF Agree
    <3>2. w # j
      BY <3>1, <2>2
    <3>. QED  BY <3>1, <3>2, <2>6
  <2>9. \A i \in 1..Len(data') : data'[i].job # 0
            => /\ jobs'[data'[i].job].done = 0 => jobs'[data'[i].job].kind # "send"
               /\ data'[i].open => jobs'[data'[i].job].done = 0
    <3>. SUFFICES ASSUME NEW i \in 1..Len(data), data[i].job # 0
                  PROVE  /\ jobs'[data[i].job].done = 0 => jobs'[data[i].job].kind # "send"
                         /\ data'[i].open => jobs'[data[i].job].done = 0
      BY <1>4, <1>5
    <3>1. CASE i = d
      BY <3>1, <1>5, <2>6
    <3>2. CASE i # d
      <4>1. data[i].job \in 1..Len(jobs) /\ data[i].job # j
        BY <3>2, <2>7, <1>1, <1>7 DEF Agree, Conns
      <4>2. jobs'[data[i].job] = jobs[data[i].job]
        BY <4>1, <2>6
      <4>. QED  BY <4>2, <1>5, <1>7 DEF Agree
    <3>. QED  BY <3>1, <3>2
  <2>10. Agree(jobs', data', ToSet(waiting), ToSet(early))
    BY <2>5, <2>8, <2>9, <1>4, <1>5, <1>7 DEF Agree
  <2>11. Before(j) \in Seq(1..MaxData) /\ data[d].parts \in Seq(1..MaxData)
    <3>1. jobs[j].path \in Paths /\ data[d].parts \in Seq(1..MaxData)
      BY <2>2, <1>1 DEF Jobs, Conns
    <3>2. tree[jobs[j].path].body \in Seq(1..MaxData)
      BY <3>1, <1>7 DEF Entries
    <3>. QED  BY <3>1, <3>2, EmptySeq DEF Before
  <2>12. tree' \in [Paths -> Entries]
    <3>1. Before(j) \o data[d].parts \in Seq(1..MaxData)
      BY <2>11, ConcatProperties
    <3>2. File(Before(j) \o data[d].parts) \in Entries
      BY <3>1 DEF File, Entries
    <3>. QED  BY <2>1, <3>2, <1>7
  <2>13. FtpInv'
    <3>1. Agree(jobs', data', ToSet(waiting'), ToSet(early')) /\ Listed(jobs', data')
      BY <2>5, <2>10, <1>4, <1>6, <1>7 DEF Listed
    <3>. QED  BY <3>1, <2>5, <2>12, <1>4, <1>6 DEF FtpInv, NeitherWaitsForOther
  <2>14. ASSUME NEW p \in Paths, tree'[p] # tree[p]
         PROVE  /\ jobs[j].path = p /\ jobs'[j].done > jobs[j].done
                /\ \/ jobs[j].kind = "store"
                   \/ \E parts \in Seq(1..MaxData) : tree'[p] = File(tree[p].body \o parts)
    <3>1. jobs[j].path = p /\ tree'[p] = File(Before(j) \o data[d].parts)
      BY <2>1, <2>14, <1>7
    <3>2. jobs'[j].done > jobs[j].done
      BY <2>2, <2>6
    <3>3. jobs[j].kind \in {"store", "append"}
      BY <2>2, <1>1 DEF Jobs
    <3>4. jobs[j].kind = "append" => tree'[p] = File(tree[p].body \o data[d].parts)
      BY <3>1 DEF Before
    <3>. QED  BY <3>1, <3>2, <3>3, <3>4, <2>11
  <2>. QED  BY <2>2, <2>13, <2>14, <1>1
<1>. QED  BY <1>8, <1>9

(* Commands change names, and no transfer.                                  *)
LEMMA NamesStep ==
  ASSUME FtpInv, NEW s \in Sessions, NEW p \in Paths,
         DELE(s, p) \/ MKD(s, p) \/ RMD(s, p) \/ RNFR(s, p) \/ RNTO(s, p)
  PROVE  /\ FtpInv'
         /\ \A q \in Paths : (tree[q].is = "file" /\ tree'[q].is = "file") => tree'[q] = tree[q]
<1>1. tree \in [Paths -> Entries] /\ renaming \in [Sessions -> Paths \cup {Root}]
  BY DEF FtpInv
<1>2. Absent \in Entries /\ Dir \in Entries /\ [is |-> "undefined", body |-> <<>>] \in Entries
      /\ Absent.is = "absent" /\ Dir.is = "dir"
  BY EmptySeq DEF Absent, Dir, Entries
<1>3. UNCHANGED <<jobs, data, waiting, early>>
  BY DEF DELE, MKD, RMD, RNFR, RNTO, Changing
<1>4. /\ tree' \in [Paths -> Entries] /\ renaming' \in [Sessions -> Paths \cup {Root}]
      /\ \A q \in Paths : (tree[q].is = "file" /\ tree'[q].is = "file") => tree'[q] = tree[q]
  <2>1. CASE DELE(s, p)
    BY <2>1, <1>1, <1>2 DEF DELE
  <2>2. CASE MKD(s, p)
    BY <2>2, <1>1, <1>2 DEF MKD
  <2>3. CASE RMD(s, p)
    BY <2>3, <1>1, <1>2 DEF RMD
  <2>4. CASE RNFR(s, p)
    BY <2>4, <1>1 DEF RNFR
  <2>5. CASE RNTO(s, p)
    <3>. PICK o : o = renaming[s]
      OBVIOUS
    <3>1. o \in Paths /\ tree[o] \in Entries
      BY <2>5, <1>1 DEF RNTO
    <3>. PICK e : e = IF tree[o] = Absent THEN [is |-> "undefined", body |-> <<>>] ELSE tree[o]
      OBVIOUS
    <3>2. e \in Entries
      BY <3>1, <1>2
    <3>3. tree' = [tree EXCEPT ![p] = e, ![o] = Absent]
      BY <2>5 DEF RNTO
    <3>4. tree' \in [Paths -> Entries]
      BY <3>2, <3>3, <1>1, <1>2
    <3>5. p # Root /\ tree[p].is = "absent"
      BY <2>5, FtpConstants DEF RNTO, has
    <3>6. \A q \in Paths : tree'[q] = (IF q = o THEN Absent ELSE IF q = p THEN e ELSE tree[q])
      BY <3>3, <3>1, <1>1
    <3>7. renaming' \in [Sessions -> Paths \cup {Root}]
      BY <2>5, <1>1 DEF RNTO
    <3>. QED  BY <3>4, <3>5, <3>6, <3>7, <1>2
  <2>. QED  BY <2>1, <2>2, <2>3, <2>4, <2>5
<1>5. Agree(jobs', data', ToSet(waiting'), ToSet(early')) /\ Listed(jobs', data')
  BY <1>3 DEF FtpInv
<1>. QED  BY <1>3, <1>4, <1>5 DEF FtpInv, NeitherWaitsForOther

(* Each step keeps the invariant.                                           *)
LEMMA FtpStep ==
  ASSUME FtpInv, [FtpNext]_ftpVars
  PROVE  FtpInv'
<1>1. CASE UNCHANGED ftpVars
  <2>1. UNCHANGED <<tree, renaming, jobs, data, waiting, early>>
    BY <1>1 DEF ftpVars
  <2>2. Agree(jobs', data', ToSet(waiting'), ToSet(early')) /\ Listed(jobs', data')
    BY <2>1 DEF FtpInv
  <2>. QED  BY <2>1, <2>2 DEF FtpInv, NeitherWaitsForOther
<1>2. ASSUME NEW s \in Sessions, NEW p \in Paths,
             RETR(s, p) \/ STOR(s, p, "store") \/ STOR(s, p, "append")
      PROVE  FtpInv'
  <2>1. PICK kind \in {"send", "store", "append"} :
          withData([s |-> s, kind |-> kind, path |-> p, done |-> 0])
    BY <1>2 DEF RETR, STOR
  <2>2. [s |-> s, kind |-> kind, path |-> p, done |-> 0] \in Jobs
    BY DEF Jobs
  <2>. QED  BY <2>1, <2>2, AcceptedStep
<1>3. ASSUME NEW s \in Sessions, NEW p \in Paths,
             DELE(s, p) \/ MKD(s, p) \/ RMD(s, p) \/ RNFR(s, p) \/ RNTO(s, p)
      PROVE  FtpInv'
  BY <1>3, NamesStep
<1>4. CASE acceptData
  BY <1>4, DataStep
<1>5. ASSUME NEW d \in DOMAIN data, dataChunk(d) \/ dataEnd(d) PROVE FtpInv'
  BY <1>5, ChunkStep, EndStep
<1>. QED
  BY <1>1, <1>2, <1>3, <1>4, <1>5 DEF FtpNext

(* The invariant is what is asked.                                          *)
LEMMA InvariantPairs == FtpInv => TransfersPaired
<1>. SUFFICES ASSUME FtpInv PROVE TransfersPaired
  OBVIOUS
<1>1. /\ data \in Seq(Conns) /\ Len(data) \in Nat /\ DOMAIN data = 1..Len(data) /\ Len(data) <= MaxData
      /\ jobs \in Seq(Jobs) /\ Len(jobs) \in Nat /\ DOMAIN jobs = 1..Len(jobs) /\ Len(jobs) <= MaxJobs
      /\ \A i \in 1..Len(data) : data[i] \in Conns
      /\ Agree(jobs, data, ToSet(waiting), ToSet(early))
  BY LenProperties, ElementOfSeq DEF FtpInv, Listed
<1>2. waiting \in Seq(1..MaxJobs) /\ early \in Seq(1..MaxData)
  <2>1. 1..Len(jobs) \subseteq 1..MaxJobs /\ 1..Len(data) \subseteq 1..MaxData
    BY <1>1, FtpConstants
  <2>. QED  BY <2>1, SeqMonotonic DEF FtpInv
<1>3. FtpTypeOK
  BY <1>1, <1>2 DEF FtpInv, FtpTypeOK, Jobs, Conns, Entries
<1>4. \A i \in 1..Len(data) : data[i].job \in Nat
  BY <1>1, FtpConstants DEF Conns
<1>5. ASSUME NEW j \in DOMAIN jobs
      PROVE  LET on == {d \in DOMAIN data : data[d].job = j}
             IN IF j \in ToSet(waiting) THEN on = {} /\ jobs[j].done = 0
                ELSE \E d \in DOMAIN data : on = {d} /\ (jobs[j].done = 0 => jobs[j].kind # "send")
  <2>. DEFINE on == {d \in DOMAIN data : data[d].job = j}
  <2>1. CASE j \in ToSet(waiting)
    <3>1. \A d \in DOMAIN data : data[d].job < j /\ data[d].job # j
      BY <2>1, <1>1, <1>4 DEF Agree
    <3>. QED  BY <2>1, <3>1, <1>1 DEF Agree
  <2>2. CASE j \notin ToSet(waiting)
    <3>1. PICK d \in 1..Len(data) : data[d].job = j
      BY <2>2, <1>1 DEF Agree
    <3>2. ASSUME NEW e \in 1..Len(data), data[e].job = j, e # d PROVE FALSE
      <4>1. \A a, b \in 1..Len(data) : (a < b /\ data[a].job # 0 /\ data[b].job # 0) => data[a].job < data[b].job
        BY <1>1 DEF Agree
      <4>2. (d < e \/ e < d) /\ j # 0 /\ ~(j < j)
        BY <1>1, <3>2
      <4>. QED  BY <4>1, <4>2, <3>1, <3>2
    <3>3. on = {d}
      BY <3>1, <3>2, <1>1
    <3>4. jobs[j].done = 0 => jobs[j].kind # "send"
      BY <3>1, <1>1 DEF Agree
    <3>. QED  BY <2>2, <3>1, <3>3, <3>4, <1>1
  <2>. QED  BY <2>1, <2>2
<1>6. OneEach
  <2>1. \A d, e \in DOMAIN data : (d < e /\ data[d].job # 0 /\ data[e].job # 0) => data[d].job < data[e].job
    BY <1>1 DEF Agree
  <2>. QED  BY <1>5, <2>1 DEF OneEach
<1>. QED  BY <1>3, <1>6 DEF TransfersPaired, FtpInv

(* The invariant holds throughout.                                          *)
LEMMA FtpAlways == FtpSpec => []FtpInv
  BY FtpInitially, FtpStep, PTL DEF FtpSpec

(* withData() and the data port of the FTP server: however transfers and    *)
(* data connections interleave, each transfer gets one connection, in turn, *)
(* and is answered at most once.                                            *)
THEOREM TransfersAlwaysPaired == FtpSpec => []TransfersPaired
  BY FtpAlways, InvariantPairs, PTL

(* What one step does to a file that stays.                                 *)
LEMMA FilesKeep ==
  ASSUME FtpInv, [FtpNext]_ftpVars, NEW p \in Paths, tree[p].is = "file", tree'[p].is = "file",
         ~IsPrefix(tree[p].body, tree'[p].body)
  PROVE  \E j \in DOMAIN jobs : /\ jobs[j].kind = "store" /\ jobs[j].path = p
                                /\ jobs'[j].done > jobs[j].done
<1>1. tree[p] \in Entries /\ tree[p].body \in Seq(1..MaxData)
  BY DEF FtpInv, Entries
<1>2. \A parts \in Seq(1..MaxData) : IsPrefix(tree[p].body, tree[p].body \o parts)
  <2>. TAKE parts \in Seq(1..MaxData)
  <2>. PICK b \in Seq(1..MaxData) : b = tree[p].body
    BY <1>1
  <2>1. /\ Len(b) \in Nat /\ Len(parts) \in Nat /\ Len(b \o parts) = Len(b) + Len(parts)
        /\ SubSeq(b, 1, Len(b)) = b /\ SubSeq(b \o parts, 1, Len(b)) = b
    BY LenProperties, ConcatProperties, SubSeqFull, SubSeqOfConcat1, Z3
  <2>. QED  BY <2>1 DEF IsPrefix
<1>3. tree'[p] # tree[p]
  <2>1. tree[p].body \o <<>> = tree[p].body
    BY <1>1, ConcatEmptySeq
  <2>2. IsPrefix(tree[p].body, tree[p].body)
    BY <1>2, <2>1, EmptySeq
  <2>. QED  BY <2>2
<1>4. CASE UNCHANGED tree
  BY <1>3, <1>4
<1>5. CASE \E d \in DOMAIN data : dataEnd(d)
  <2>1. PICK d \in DOMAIN data : dataEnd(d)
    BY <1>5
  <2>2. PICK j \in DOMAIN jobs :
          /\ jobs[j].path = p /\ jobs'[j].done > jobs[j].done
          /\ \/ jobs[j].kind = "store"
             \/ \E parts \in Seq(1..MaxData) : tree'[p] = File(tree[p].body \o parts)
    BY <2>1, <1>3, EndStep
  <2>3. ASSUME NEW parts \in Seq(1..MaxData), tree'[p] = File(tree[p].body \o parts) PROVE FALSE
    BY <2>3, <1>2 DEF File
  <2>. QED  BY <2>2, <2>3
<1>6. ASSUME NEW s \in Sessions, NEW q \in Paths,
             DELE(s, q) \/ MKD(s, q) \/ RMD(s, q) \/ RNFR(s, q) \/ RNTO(s, q)
      PROVE  FALSE
  BY <1>3, <1>6, NamesStep
<1>7. (\E s \in Sessions, q \in Paths : RETR(s, q) \/ STOR(s, q, "store") \/ STOR(s, q, "append"))
        \/ acceptData \/ (\E d \in DOMAIN data : dataChunk(d)) \/ UNCHANGED ftpVars
      => UNCHANGED tree
  BY DEF RETR, STOR, withData, acceptData, dataChunk, ftpVars
<1>. QED
  BY <1>4, <1>5, <1>6, <1>7 DEF FtpNext

(* data.onEnd of receive(): an upload that appends to a file goes behind    *)
(* what the file is when the upload ends, whatever changed it meanwhile.    *)
THEOREM AppendsAlwaysKeep == FtpSpec => AppendsKeep
<1>. DEFINE Kept == \A p \in Paths :
       (tree[p].is = "file" /\ tree'[p].is = "file" /\ ~IsPrefix(tree[p].body, tree'[p].body))
         => \E j \in DOMAIN jobs : /\ jobs[j].kind = "store" /\ jobs[j].path = p
                                   /\ jobs'[j].done > jobs[j].done
<1>1. FtpInv /\ [FtpNext]_ftpVars => [Kept]_ftpVars
  BY FilesKeep
<1>. QED
  BY <1>1, FtpAlways, PTL DEF FtpSpec, AppendsKeep

-----------------------------------------------------------------------------
(***************************************************************************)
(* The streams.  A message is read as it was written, for every length the *)
(* code can write (FramesRead, CoapRead, MqttRead); the rest is where the  *)
(* connection stands in the dialog, and what is owed up to there.          *)
(***************************************************************************)
(* Two bytes are a number below 2^16, four one below 2^32 (frame() and      *)
(* coapTcpEncode()).                                                        *)
LEMMA TwoBytes ==
  ASSUME NEW n \in Nat, n < 65536
  PROVE  Byte(n, 256) \in Nat /\ Byte(n, 1) \in Nat /\ Byte(n, 256) * 256 + Byte(n, 1) = n
  BY SMT DEF Byte

(* See TwoBytes.                                                            *)
LEMMA FourBytes ==
  ASSUME NEW n \in Nat, n <= 2147483647
  PROVE  Byte(n, 16777216) * 16777216 + Byte(n, 65536) * 65536 + Byte(n, 256) * 256 + Byte(n, 1) = n
<1> DEFINE a == n \div 256  b == a \div 256  c == b \div 256
<1>1. n \div 65536 = b /\ n \div 16777216 = c
  BY SMT
<1>2. n = a * 256 + Byte(n, 1) /\ a = b * 256 + Byte(n, 256) /\ b = c * 256 + Byte(n, 65536)
  BY SMT, <1>1 DEF Byte
<1>3. c = Byte(n, 16777216)
  BY SMT, <1>1 DEF Byte
<1> HIDE DEF a, b, c
<1> QED
  BY SMT, <1>2, <1>3 DEF Byte

(* A websocket's frame is read as it was written, whatever its length.      *)
LEMMA FramesRead ==
  ASSUME NEW n \in Nat, n <= 2147483647, NEW have \in Nat
  PROVE  wsDecode(Header("ws", n), have) = IF have < Size("ws", n) THEN 0 ELSE Size("ws", n)
<1> DEFINE h == Header("ws", n)  len == Len(LengthOf("ws", n))
<1>1. Size("ws", n) = len + 5 + n
  BY SMT DEF Size, Body, Around
<1>2. LengthOf("ws", n) = wsLen(n)
  BY DEF LengthOf
<1>3. h = [i \in 1..(Len(wsLen(n)) + 1) |->
             IF i = 1 THEN 0 ELSE IF i = 2 THEN wsLen(n)[1] + 128 ELSE wsLen(n)[i - 1]]
  BY SMT, <1>2 DEF Header
<1>4. CASE n < 126
  <2>1. wsLen(n) = <<n>> /\ Len(wsLen(n)) = 1 /\ wsLen(n)[1] = n
    BY SMT, <1>4 DEF wsLen
  <2>2. h[2] = n + 128
    BY SMT, <2>1, <1>3
  <2>3. len = 1
    BY SMT, <2>1, <1>2
  <2> HIDE DEF len
  <2>4. Size("ws", n) = 6 + n
    BY SMT, <2>3, <1>1
  <2>5. h[2] % 128 = n
    BY SMT, <2>2, <1>4
  <2> HIDE DEF h
  <2>6. wsDecode(h, have) = IF have < 6 + n THEN 0 ELSE 6 + n
    BY SMT, <2>5, <1>4 DEF wsDecode, Whole
  <2> QED
    BY SMT, <2>6, <2>4 DEF h
<1>5. CASE n >= 126 /\ n < 65536
  <2> DEFINE x == Byte(n, 256)  y == Byte(n, 1)
  <2>1. wsLen(n) = <<126, x, y>> /\ Len(wsLen(n)) = 3
    BY SMT, <1>5 DEF wsLen
  <2>2. h[2] = 254 /\ h[3] = x /\ h[4] = y
    BY SMT, <2>1, <1>3
  <2>3. len = 3
    BY SMT, <2>1, <1>2
  <2> HIDE DEF len
  <2>4. Size("ws", n) = 8 + n
    BY SMT, <2>3, <1>1
  <2>5. x * 256 + y = n
    BY SMT, <1>5, TwoBytes
  <2> HIDE DEF h, x, y
  <2>6. wsDecode(h, have) = IF have < 8 + n THEN 0 ELSE 8 + n
    BY SMT, <2>2, <2>5, <1>5 DEF wsDecode, Whole
  <2> QED
    BY SMT, <2>6, <2>4 DEF h
<1>6. CASE n >= 65536
  <2> DEFINE x == Byte(n, 16777216)  y == Byte(n, 65536)  z == Byte(n, 256)  w == Byte(n, 1)
  <2>1. wsLen(n) = <<127, 0, 0, 0, 0, x, y, z, w>> /\ Len(wsLen(n)) = 9
    BY SMT, <1>6 DEF wsLen
  <2>2. h[2] = 255 /\ h[7] = x /\ h[8] = y /\ h[9] = z /\ h[10] = w
    BY SMT, <2>1, <1>3
  <2>3. len = 9
    BY SMT, <2>1, <1>2
  <2> HIDE DEF len
  <2>4. Size("ws", n) = 14 + n
    BY SMT, <2>3, <1>1
  <2>5. x * 16777216 + y * 65536 + z * 256 + w = n
    BY SMT, <1>6, FourBytes
  <2> HIDE DEF h, x, y, z, w
  <2>6. wsDecode(h, have) = IF have < 14 + n THEN 0 ELSE 14 + n
    BY SMT, <2>2, <2>5, <1>6 DEF wsDecode, Whole
  <2> QED
    BY SMT, <2>6, <2>4 DEF h
<1> QED
  BY SMT, <1>4, <1>5, <1>6

(* A CoAP message is read as it was written.                                *)
LEMMA CoapRead ==
  ASSUME NEW n \in Nat, n <= 2147483647, NEW have \in Nat
  PROVE  coapDecode(Header("coap", n), have) = IF have < Size("coap", n) THEN 0 ELSE Size("coap", n)
<1> DEFINE h == Header("coap", n)  l == coapLen(n)  len == Len(LengthOf("coap", n))
<1>1. Size("coap", n) = len + 2 + n
  BY SMT DEF Size, Body, Around
<1>2. LengthOf("coap", n) = l
  BY DEF LengthOf
<1>3. h = [i \in 1..Len(l) |-> IF i = 1 THEN l[1] * 16 + 1 ELSE l[i]]
  BY SMT, <1>2 DEF Header
<1>4. CASE n < 13
  <2>1. Len(l) = 1 /\ l[1] = n
    BY SMT, <1>4 DEF coapLen
  <2>2. h[1] = n * 16 + 1
    BY SMT, <2>1, <1>3
  <2>3. len = 1
    BY SMT, <2>1, <1>2
  <2> HIDE DEF len
  <2>4. Size("coap", n) = 3 + n
    BY SMT, <2>3, <1>1
  <2>5. h[1] \div 16 = n /\ h[1] % 16 = 1
    BY SMT, <2>2, <1>4
  <2>6. coapBase(n) = n
    BY SMT, <1>4 DEF coapBase
  <2> HIDE DEF h, l
  <2>7. coapDecode(h, have) = IF have < 3 + n THEN 0 ELSE 3 + n
    BY SMT, <2>5, <2>6, <1>4 DEF coapDecode, Whole
  <2> QED
    BY SMT, <2>7, <2>4 DEF h
<1>5. CASE n >= 13 /\ n < 269
  <2>1. Len(l) = 2 /\ l[1] = 13 /\ l[2] = n - 13
    BY SMT, <1>5 DEF coapLen
  <2>2. h[1] = 209 /\ h[2] = n - 13
    BY SMT, <2>1, <1>3
  <2>3. len = 2
    BY SMT, <2>1, <1>2
  <2> HIDE DEF len
  <2>4. Size("coap", n) = 4 + n
    BY SMT, <2>3, <1>1
  <2>5. h[1] \div 16 = 13 /\ h[1] % 16 = 1 /\ coapBase(13) = 13
    BY SMT, <2>2 DEF coapBase
  <2> HIDE DEF h, l
  <2>6. coapDecode(h, have) = IF have < 4 + n THEN 0 ELSE 4 + n
    BY SMT, <2>5, <2>2, <1>5 DEF coapDecode, Whole
  <2> QED
    BY SMT, <2>6, <2>4 DEF h
<1>6. CASE n >= 269 /\ n < 65805
  <2> DEFINE x == Byte(n - 269, 256)  y == Byte(n - 269, 1)
  <2>1. l = <<14, x, y>> /\ Len(l) = 3
    BY SMT, <1>6 DEF coapLen
  <2>2. h[1] = 225 /\ h[2] = x /\ h[3] = y
    BY SMT, <2>1, <1>3
  <2>3. len = 3
    BY SMT, <2>1, <1>2
  <2> HIDE DEF len
  <2>4. Size("coap", n) = 5 + n
    BY SMT, <2>3, <1>1
  <2>5. h[1] \div 16 = 14 /\ h[1] % 16 = 1 /\ coapBase(14) = 269
    BY SMT, <2>2 DEF coapBase
  <2>6. x * 256 + y = n - 269
    BY SMT, <1>6, TwoBytes
  <2> HIDE DEF h, l, x, y
  <2>7. coapDecode(h, have) = IF have < 5 + n THEN 0 ELSE 5 + n
    BY SMT, <2>5, <2>2, <2>6, <1>6 DEF coapDecode, Whole
  <2> QED
    BY SMT, <2>7, <2>4 DEF h
<1>7. CASE n >= 65805
  <2> DEFINE m == n - 65805  x == Byte(m, 16777216)  y == Byte(m, 65536)  z == Byte(m, 256)  w == Byte(m, 1)
  <2>1. l = <<15, x, y, z, w>> /\ Len(l) = 5
    BY SMT, <1>7 DEF coapLen
  <2>2. h[1] = 241 /\ h[2] = x /\ h[3] = y /\ h[4] = z /\ h[5] = w
    BY SMT, <2>1, <1>3
  <2>3. len = 5
    BY SMT, <2>1, <1>2
  <2> HIDE DEF len
  <2>4. Size("coap", n) = 7 + n
    BY SMT, <2>3, <1>1
  <2>5. h[1] \div 16 = 15 /\ h[1] % 16 = 1 /\ coapBase(15) = 65805
    BY SMT, <2>2 DEF coapBase
  <2>6. x * 16777216 + y * 65536 + z * 256 + w = n - 65805
    BY SMT, <1>7, FourBytes
  <2> HIDE DEF h, l, x, y, z, w
  <2>7. coapDecode(h, have) = IF have < 7 + n THEN 0 ELSE 7 + n
    BY SMT, <2>5, <2>2, <2>6, <1>7 DEF coapDecode, Whole
  <2> QED
    BY SMT, <2>7, <2>4 DEF h
<1> QED
  BY SMT, <1>4, <1>5, <1>6, <1>7

(* The bytes of an MQTT length are its digits to the base 128 (mqttPacket()). *)
LEMMA Digits ==
  ASSUME NEW n \in Nat, n <= 268435455
  PROVE  LET d(u) == (n \div u) % 128
         IN /\ d(1) \in Nat /\ d(128) \in Nat /\ d(16384) \in Nat /\ d(2097152) \in Nat
            /\ d(1) < 128 /\ d(128) < 128 /\ d(16384) < 128 /\ d(2097152) < 128
            /\ n = d(1) + d(128) * 128 + d(16384) * 16384 + d(2097152) * 2097152
<1> DEFINE d(u) == (n \div u) % 128  a == n \div 128  b == a \div 128  c == b \div 128
<1>1. n \div 16384 = b /\ n \div 2097152 = c /\ n \div 1 = n
  BY SMT
<1>2. n = a * 128 + d(1) /\ a = b * 128 + d(128) /\ b = c * 128 + d(16384)
  BY SMT, <1>1
<1>3. c = d(2097152)
  BY SMT, <1>1
<1>4. /\ d(1) \in Nat /\ d(128) \in Nat /\ d(16384) \in Nat /\ d(2097152) \in Nat
      /\ d(1) < 128 /\ d(128) < 128 /\ d(16384) < 128 /\ d(2097152) < 128
  BY SMT
<1> HIDE DEF a, b, c, d
<1>5. n = d(1) + d(128) * 128 + d(16384) * 16384 + d(2097152) * 2097152
  BY SMT, <1>2, <1>3, <1>4
<1> QED
  BY SMT, <1>4, <1>5 DEF d

(* The first byte of the length without its top bit is the last, as         *)
(* mqttDecode() finds it.                                                   *)
LEMMA LastDigit ==
  ASSUME NEW h, NEW k \in 2..5, h[k] < 128, \A i \in 2..k : h[i] \in Nat,
         \A j \in 2..(k - 1) : h[j] >= 128
  PROVE  (CHOOSE i \in 2..5 : h[i] < 128 /\ \A j \in 2..(i - 1) : h[j] >= 128) = k
<1> DEFINE P(i) == i \in 2..5 /\ h[i] < 128 /\ \A j \in 2..(i - 1) : h[j] >= 128
<1>1. P(k)
  OBVIOUS
<1>2. ASSUME NEW i, P(i)  PROVE i = k
  <2>1. ~(i < k)
    BY <1>2
  <2>2. ~(k < i)
    <3>1. SUFFICES ASSUME k < i  PROVE FALSE
      OBVIOUS
    <3>2. k \in 2..(i - 1)
      BY <3>1, <1>2
    <3>3. h[k] >= 128 /\ h[k] \in Nat
      BY <3>2, <1>2
    <3> QED
      BY <3>3
  <2> QED
    BY <2>1, <2>2, <1>2
<1> QED
  BY <1>1, <1>2

(* A byte without its top bit.                                              *)
LEMMA LowBits ==
  ASSUME NEW x \in Nat, x < 128
  PROVE  x % 128 = x /\ (x + 128) % 128 = x
  OBVIOUS

(* An MQTT packet is read as it was written.                                *)
LEMMA MqttRead ==
  ASSUME NEW n \in Nat, n <= 268435455, NEW have \in Nat
  PROVE  mqttDecode(Header("mqtt", n), have) = IF have < Size("mqtt", n) THEN 0 ELSE Size("mqtt", n)
<1> DEFINE h == Header("mqtt", n)  l == mqttLen(n)  len == Len(LengthOf("mqtt", n))
<1>1. LengthOf("mqtt", n) = l /\ Size("mqtt", n) = len + 1 + n
  BY SMT DEF LengthOf, Size, Body, Around
<1>2. h = [i \in 1..(Len(l) + 1) |-> IF i = 1 THEN 0 ELSE l[i - 1]]
  BY SMT, <1>1 DEF Header
<1> DEFINE last == CHOOSE i \in 2..5 : h[i] < 128 /\ \A j \in 2..(i - 1) : h[j] >= 128
<1> DEFINE lengthRead == (h[2] % 128) + (IF last > 2 THEN (h[3] % 128) * 128 ELSE 0)
                         + (IF last > 3 THEN (h[4] % 128) * 16384 ELSE 0)
                         + (IF last > 4 THEN (h[5] % 128) * 2097152 ELSE 0)
<1>3. mqttDecode(h, have) = IF have < last THEN 0 ELSE Whole(last + lengthRead, have)
  BY SMT DEF mqttDecode
<1> DEFINE d(u) == (n \div u) % 128
<1>4. /\ d(1) \in Nat /\ d(128) \in Nat /\ d(16384) \in Nat /\ d(2097152) \in Nat
      /\ d(1) < 128 /\ d(128) < 128 /\ d(16384) < 128 /\ d(2097152) < 128
      /\ n = d(1) + d(128) * 128 + d(16384) * 16384 + d(2097152) * 2097152
  BY SMT, Digits
<1>5. CASE n < 128
  <2>1. Digit(n, 1) = d(1)
    BY SMT, <1>5 DEF Digit
  <2>2. l = <<d(1)>> /\ Len(l) = 1
    BY SMT, <2>1, <1>5 DEF mqttLen
  <2>3. len = 1
    BY SMT, <2>2, <1>1
  <2>4. h[2] = d(1)
    BY SMT, <2>2, <1>2
  <2>5. d(128) = 0 /\ d(16384) = 0 /\ d(2097152) = 0
    BY SMT, <1>5
  <2> HIDE DEF len, l, h, d, last
  <2>6. /\ h[2] < 128 /\ \A i \in 2..2 : h[i] \in Nat
        /\ \A j \in 2..(2 - 1) : h[j] >= 128
    BY SMT, <2>4, <1>4
  <2>7. last = 2
    BY SMT, <2>6, LastDigit DEF last
  <2>8. h[2] % 128 = d(1)
    BY SMT, <2>4, <1>4, LowBits
  <2>9. n = d(1)
    BY SMT, <1>4, <2>5
  <2>10. lengthRead = n
    BY SMT, <2>7, <2>8, <2>9, <1>4
  <2> HIDE DEF lengthRead
  <2>11. Size("mqtt", n) = 2 + n
    BY SMT, <2>3, <1>1
  <2> QED
    BY SMT, <1>3, <2>7, <2>10, <2>11 DEF Whole, h
<1>6. CASE n >= 128 /\ n < 16384
  <2>1. Digit(n, 1) = d(1) + 128 /\ Digit(n, 128) = d(128)
    BY SMT, <1>6 DEF Digit
  <2>2. l = <<d(1) + 128, d(128)>> /\ Len(l) = 2
    BY SMT, <2>1, <1>6 DEF mqttLen
  <2>3. len = 2
    BY SMT, <2>2, <1>1
  <2>4. h[2] = d(1) + 128 /\ h[3] = d(128)
    BY SMT, <2>2, <1>2
  <2>5. d(16384) = 0 /\ d(2097152) = 0
    BY SMT, <1>6
  <2> HIDE DEF len, l, h, d, last
  <2>6. /\ h[3] < 128 /\ \A i \in 2..3 : h[i] \in Nat
        /\ \A j \in 2..(3 - 1) : h[j] >= 128
    BY SMT, <2>4, <1>4
  <2>7. last = 3
    BY SMT, <2>6, LastDigit DEF last
  <2>8. h[2] % 128 = d(1) /\ h[3] % 128 = d(128)
    BY SMT, <2>4, <1>4, LowBits
  <2>9. n = d(1) + d(128) * 128
    BY SMT, <1>4, <2>5
  <2>10. lengthRead = n
    BY SMT, <2>7, <2>8, <2>9, <1>4
  <2> HIDE DEF lengthRead
  <2>11. Size("mqtt", n) = 3 + n
    BY SMT, <2>3, <1>1
  <2> QED
    BY SMT, <1>3, <2>7, <2>10, <2>11 DEF Whole, h
<1>7. CASE n >= 16384 /\ n < 2097152
  <2>1. Digit(n, 1) = d(1) + 128 /\ Digit(n, 128) = d(128) + 128 /\ Digit(n, 16384) = d(16384)
    BY SMT, <1>7 DEF Digit
  <2>2. l = <<d(1) + 128, d(128) + 128, d(16384)>> /\ Len(l) = 3
    BY SMT, <2>1, <1>7 DEF mqttLen
  <2>3. len = 3
    BY SMT, <2>2, <1>1
  <2>4. h[2] = d(1) + 128 /\ h[3] = d(128) + 128 /\ h[4] = d(16384)
    BY SMT, <2>2, <1>2
  <2>5. d(2097152) = 0
    BY SMT, <1>7
  <2> HIDE DEF len, l, h, d, last
  <2>6. /\ h[4] < 128 /\ \A i \in 2..4 : h[i] \in Nat
        /\ \A j \in 2..(4 - 1) : h[j] >= 128
    BY SMT, <2>4, <1>4
  <2>7. last = 4
    BY SMT, <2>6, LastDigit DEF last
  <2>8. h[2] % 128 = d(1) /\ h[3] % 128 = d(128) /\ h[4] % 128 = d(16384)
    BY SMT, <2>4, <1>4, LowBits
  <2>9. n = d(1) + d(128) * 128 + d(16384) * 16384
    BY SMT, <1>4, <2>5
  <2>10. lengthRead = n
    BY SMT, <2>7, <2>8, <2>9, <1>4
  <2> HIDE DEF lengthRead
  <2>11. Size("mqtt", n) = 4 + n
    BY SMT, <2>3, <1>1
  <2> QED
    BY SMT, <1>3, <2>7, <2>10, <2>11 DEF Whole, h
<1>8. CASE n >= 2097152
  <2>1. /\ Digit(n, 1) = d(1) + 128 /\ Digit(n, 128) = d(128) + 128
        /\ Digit(n, 16384) = d(16384) + 128 /\ Digit(n, 2097152) = d(2097152)
    BY SMT, <1>8 DEF Digit
  <2>2. l = <<d(1) + 128, d(128) + 128, d(16384) + 128, d(2097152)>> /\ Len(l) = 4
    BY SMT, <2>1, <1>8 DEF mqttLen
  <2>3. len = 4
    BY SMT, <2>2, <1>1
  <2>4. h[2] = d(1) + 128 /\ h[3] = d(128) + 128 /\ h[4] = d(16384) + 128 /\ h[5] = d(2097152)
    BY SMT, <2>2, <1>2
  <2> HIDE DEF len, l, h, d, last
  <2>5. /\ h[5] < 128 /\ \A i \in 2..5 : h[i] \in Nat
        /\ \A j \in 2..(5 - 1) : h[j] >= 128
    BY SMT, <2>4, <1>4
  <2>6. last = 5
    BY SMT, <2>5, LastDigit DEF last
  <2>7. h[2] % 128 = d(1) /\ h[3] % 128 = d(128) /\ h[4] % 128 = d(16384) /\ h[5] % 128 = d(2097152)
    BY SMT, <2>4, <1>4, LowBits
  <2>8. lengthRead = n
    BY SMT, <2>6, <2>7, <1>4
  <2> HIDE DEF lengthRead
  <2>9. Size("mqtt", n) = 5 + n
    BY SMT, <2>3, <1>1
  <2> QED
    BY SMT, <1>3, <2>6, <2>8, <2>9 DEF Whole, h
<1> QED
  BY SMT, <1>5, <1>6, <1>7, <1>8

-----------------------------------------------------------------------------
(* What a client is owed, and a message it has begun.                       *)
Replies == [kind : {"101", "page", "whole", "pong", "bye"}, n : Nat]
Debts == [answers : Seq(Replies), text : Nat, over : BOOLEAN]
Messages == [kind : Kinds, n : Nat, at : Nat, before : Debts]

(* Where the first k messages end, and what is owed for them.               *)
EndOf(k) == IF k = 0 THEN Request ELSE End(dialog[k])
Owes(k)  == IF k = 0 THEN Owed0 ELSE Owed(dialog[k])

(* The messages lie end to end in the stream, and once the connection is    *)
(* over no later message adds to what is owed.                              *)
ScriptOK ==
  /\ dialog \in Seq(Messages) /\ (dialog # <<>> => proto # "http")
  /\ \A i \in 1..Len(dialog) : /\ dialog[i].n <= LongestOf(proto)
                               /\ dialog[i].at = EndOf(i - 1) /\ dialog[i].before = Owes(i - 1)
  /\ \A i \in 0..Len(dialog) : \A j \in i..Len(dialog) :
       /\ EndOf(i) <= EndOf(j)
       /\ Owes(i).over => Owes(j).over /\ Owes(j).answers = Owes(i).answers
  /\ sent <= EndOf(Len(dialog)) /\ (dialog # <<>> => EndOf(Len(dialog) - 1) <= sent)

(* Before the request has come there is nothing; after it the connection    *)
(* stands where the message it has come to starts, with what is owed for    *)
(* those before it; and between two calls that message has not come whole.  *)
StreamInv ==
  /\ StreamTypeOK /\ ScriptOK
  /\ nextMsg = 0 =>
       /\ ~reading /\ taken = 0 /\ gathered = 0 /\ (Request > 0 => dialog = <<>>)
       /\ IF arrived < Request \/ arrived = 0 THEN out = <<>> /\ ~ending
          ELSE proto = "http" /\ out = Greeting
  /\ nextMsg > 0 =>
       /\ proto # "http" /\ arrived >= Request /\ arrived > 0 /\ taken = EndOf(nextMsg - 1)
       /\ out = Owes(nextMsg - 1).answers /\ gathered = Owes(nextMsg - 1).text
       /\ ending = Owes(nextMsg - 1).over
       /\ ~reading => ending \/ nextMsg > Len(dialog) \/ arrived < EndOf(nextMsg)

(* A stream message is read as it was written (decode(), over Header).      *)
LEMMA Decodes ==
  ASSUME NEW p \in Protos \ {"http"}, NEW n \in Nat, n <= LongestOf(p), NEW have \in Nat
  PROVE  decode(p, Header(p, n), have) = IF have < Size(p, n) THEN 0 ELSE Size(p, n)
<1>1. CASE p = "ws"
  BY SMT, <1>1, FramesRead DEF decode, LongestOf
<1>2. CASE p = "coap"
  BY SMT, <1>2, CoapRead DEF decode, LongestOf
<1>3. CASE p = "mqtt"
  BY SMT, <1>3, MqttRead DEF decode, LongestOf
<1> QED
  BY <1>1, <1>2, <1>3 DEF Protos

(* A message is a number of bytes, one at least.                            *)
LEMMA Sized ==
  ASSUME NEW p \in Protos \ {"http"}, NEW n \in Nat
  PROVE  Size(p, n) \in Nat \ {0} /\ Body(p, n) \in Nat
<1> DEFINE len == Len(LengthOf(p, n))
<1>1. len \in Nat
  <2>1. CASE p = "ws"
    BY SMT, <2>1 DEF LengthOf, wsLen
  <2>2. CASE p = "coap"
    BY SMT, <2>2 DEF LengthOf, coapLen
  <2>3. CASE p = "mqtt"
    BY SMT, <2>3 DEF LengthOf, mqttLen
  <2> QED
    BY <2>1, <2>2, <2>3 DEF Protos
<1>2. Around(p) \in Nat \ {0}
  BY SMT DEF Around, Protos
<1>3. Body(p, n) = len + Around(p) /\ Size(p, n) = len + Around(p) + n
  BY DEF Body, Size
<1> HIDE DEF len
<1> QED
  BY <1>1, <1>2, <1>3

(* What is owed for a message, of its parts.                                *)
LEMMA OwedFor ==
  ASSUME proto \in Protos, NEW m \in Messages
  PROVE  /\ Owed(m) \in Debts
         /\ m.before.over => Owed(m).over /\ Owed(m).answers = m.before.answers
<1> DEFINE w == m.before
           answer == CASE m.kind = "whole" -> <<Line("whole", w.text + m.n)>>
                       [] m.kind = "ping" -> <<Line("pong", IF proto = "ws" THEN m.n ELSE 0)>>
                       [] m.kind = "bye" /\ proto = "ws" -> <<Line("bye", 0)>>
                       [] OTHER -> <<>>
<1>1. w \in Debts /\ m.n \in Nat /\ m.kind \in Kinds
  BY DEF Messages
<1>2. w.answers \in Seq(Replies) /\ w.text \in Nat /\ w.over \in BOOLEAN
  BY <1>1 DEF Debts
<1>3. answer \in Seq(Replies)
  <2>1. \A n \in Nat : /\ Line("whole", n) \in Replies /\ Line("pong", n) \in Replies
                      /\ Line("bye", n) \in Replies
    BY DEF Line, Replies
  <2>2. \A x \in Replies : <<x>> \in Seq(Replies)
    OBVIOUS
  <2>3. /\ w.text + m.n \in Nat /\ (IF proto = "ws" THEN m.n ELSE 0) \in Nat /\ 0 \in Nat
        /\ <<>> \in Seq(Replies)
    BY <1>1, <1>2
  <2> HIDE DEF w
  <2>4. CASE m.kind = "whole"
    BY <2>1, <2>2, <2>3, <2>4
  <2>5. CASE m.kind = "ping"
    BY <2>1, <2>2, <2>3, <2>5
  <2>6. CASE m.kind = "bye"
    BY <2>1, <2>2, <2>3, <2>6
  <2>7. CASE m.kind = "part"
    BY <2>3, <2>7
  <2> QED
    BY <1>1, <2>4, <2>5, <2>6, <2>7 DEF Kinds
<1>4. w.answers \o answer \in Seq(Replies)
  BY <1>2, <1>3, ConcatProperties
<1>5. /\ Owed(m).answers = IF w.over THEN w.answers ELSE w.answers \o answer
      /\ Owed(m).text = CASE m.kind = "part" -> w.text + m.n [] m.kind = "whole" -> 0 [] OTHER -> w.text
      /\ Owed(m).over = (w.over \/ m.kind = "bye")
      /\ Owed(m) = [answers |-> Owed(m).answers, text |-> Owed(m).text, over |-> Owed(m).over]
  BY DEF Owed
<1> HIDE DEF answer, w
<1>6. Owed(m).answers \in Seq(Replies)
  BY <1>2, <1>4, <1>5
<1>7. Owed(m).text \in Nat
  BY SMT, <1>1, <1>2, <1>5
<1>8. Owed(m).over \in BOOLEAN
  BY <1>5
<1>9. Owed(m) \in Debts
  BY <1>5, <1>6, <1>7, <1>8 DEF Debts
<1> QED
  BY <1>5, <1>9, <1>2 DEF w

(* What is owed, and where a message ends, is a matter of the dialog.       *)
LEMMA OwesType ==
  ASSUME proto \in Protos, dialog \in Seq(Messages), dialog # <<>> => proto # "http",
         NEW k \in 0..Len(dialog)
  PROVE  Owes(k) \in Debts /\ EndOf(k) \in Nat
<1>1. CASE k = 0
  <2>1. Greeting \in Seq(Replies)
    <3>1. Line("page", 0) \in Replies /\ Line("101", 0) \in Replies
      BY DEF Line, Replies
    <3>2. \A x \in Replies : <<x>> \in Seq(Replies)
      OBVIOUS
    <3> QED
      BY <3>1, <3>2 DEF Greeting, Protos
  <2>2. Owes(0) \in Debts
    BY <2>1 DEF Owes, Owed0, Debts
  <2>3. EndOf(0) \in Nat
    BY StreamConstants DEF EndOf, Request
  <2> QED
    BY <1>1, <2>2, <2>3
<1>2. CASE k # 0
  <2>1. dialog[k] \in Messages /\ dialog # <<>>
    BY <1>2, ElementOfSeq
  <2>2. Owes(k) \in Debts
    BY <1>2, <2>1, OwedFor DEF Owes
  <2>3. dialog[k].at \in Nat /\ dialog[k].n \in Nat
    BY <2>1 DEF Messages
  <2>4. Size(proto, dialog[k].n) \in Nat
    BY <2>1, <2>3, Sized
  <2> QED
    BY <1>2, <2>2, <2>3, <2>4 DEF EndOf, End
<1> QED
  BY <1>1, <1>2

(* See OwesType: only the service matters to one message.                   *)
LEMMA OwedUnchanged ==
  ASSUME proto' = proto
  PROVE  /\ \A m : Owed(m)' = Owed(m) /\ End(m)' = End(m)
         /\ Request' = Request /\ Owed0' = Owed0 /\ Greeting' = Greeting
<1>1. Request' = Request /\ Greeting' = Greeting
  BY DEF Request, Greeting
<1>2. Owed0' = Owed0
  BY <1>1 DEF Owed0
<1>3. \A m : Owed(m)' = Owed(m)
  BY DEF Owed
<1>4. \A m : End(m)' = End(m)
  BY DEF End
<1> QED
  BY <1>1, <1>2, <1>3, <1>4

(* See OwesType.                                                            *)
LEMMA OwesUnchanged ==
  ASSUME UNCHANGED <<proto, dialog>>
  PROVE  \A k : Owes(k)' = Owes(k) /\ EndOf(k)' = EndOf(k)
  BY OwedUnchanged DEF Owes, EndOf

(* A connection has just been made.                                         *)
LEMMA StreamStarts == StreamInit => StreamInv
<1> SUFFICES ASSUME StreamInit PROVE StreamInv
  OBVIOUS
<1> USE DEF StreamInit
<1>1. Request \in Nat
  BY StreamConstants DEF Request
<1>2. out \in Seq([kind : {"101", "page", "whole", "pong", "bye"}, n : Nat])
  OBVIOUS
<1>3. StreamTypeOK
  <2>1. /\ sent \in Nat /\ arrived \in 0..sent /\ taken \in 0..arrived
        /\ nextMsg \in 0..(Len(dialog) + 1) /\ gathered \in Nat
    OBVIOUS
  <2>2. ending \in BOOLEAN /\ reading \in BOOLEAN
    OBVIOUS
  <2> QED
    BY <1>2, <2>1, <2>2 DEF StreamTypeOK
<1>4. ScriptOK
  <2>1. dialog \in Seq(Messages) /\ Len(dialog) = 0
    OBVIOUS
  <2>2. EndOf(0) = Request
    BY DEF EndOf
  <2> QED
    BY <2>1, <2>2, <1>1 DEF ScriptOK
<1> QED
  BY <1>3, <1>4, <1>1 DEF StreamInv

(* The client begins a message where the one before it ends.                *)
LEMMA BeginsKeeps ==
  ASSUME StreamInv, NEW kind \in Kinds, NEW n \in Sizes[proto], begins(kind, n)
  PROVE  StreamInv'
<1> PICK L, q : L = Len(dialog) /\ q = nextMsg
  OBVIOUS
<1> DEFINE x == [kind |-> kind, n |-> n, at |-> sent,
                 before |-> IF dialog = <<>> THEN Owed0 ELSE Owed(dialog[Len(dialog)])]
<1>1. /\ proto \in Protos \ {"http"} /\ proto' = proto /\ ~reading /\ sent = EndOf(L)
      /\ dialog \in Seq(Messages) /\ dialog' = Append(dialog, x) /\ L \in Nat
      /\ UNCHANGED <<proto, sent, arrived, reading, taken, nextMsg, gathered, ending, out>>
      /\ Request > 0 => nextMsg > 0
  <2>1. dialog = <<>> => L = 0
    OBVIOUS
  <2>2. dialog # <<>> => L # 0
    BY EmptySeq DEF StreamInv, ScriptOK
  <2>3. Begun = EndOf(L)
    BY <2>1, <2>2 DEF Begun, EndOf
  <2> QED
    BY <2>3 DEF begins, StreamInv, ScriptOK, StreamTypeOK
<1>2. n \in Nat /\ n <= LongestOf(proto)
  BY <1>1, StreamConstants
<1>3. \A k \in 0..L : Owes(k) \in Debts /\ EndOf(k) \in Nat
  BY <1>1, OwesType
<1>4. x.before = Owes(L) /\ x.at = sent /\ x.n = n
  <2>1. dialog = <<>> => L = 0
    OBVIOUS
  <2>2. dialog # <<>> => L # 0
    BY <1>1, EmptySeq
  <2> QED
    BY <2>1, <2>2 DEF Owes
<1>5. x \in Messages
  BY <1>1, <1>2, <1>3, <1>4 DEF Messages
<1> HIDE DEF x
<1>6. /\ dialog' \in Seq(Messages) /\ Len(dialog') = L + 1 /\ dialog'[L + 1] = x
      /\ \A i \in 1..L : dialog'[i] = dialog[i]
  BY <1>1, <1>5, AppendProperties
<1>7. \A k \in 0..L : Owes(k)' = Owes(k) /\ EndOf(k)' = EndOf(k)
  BY <1>1, <1>6, OwedUnchanged DEF Owes, EndOf
<1>8. Owes(L + 1)' = Owed(x) /\ EndOf(L + 1)' = sent + Size(proto, n)
  <2>1. End(x) = sent + Size(proto, n)
    BY <1>4 DEF End
  <2>2. L + 1 # 0
    BY <1>1
  <2> QED
    BY <1>1, <1>6, <2>1, <2>2, OwedUnchanged DEF Owes, EndOf
<1>9. Size(proto, n) \in Nat \ {0}
  BY <1>1, <1>2, Sized
<1>10. Owes(L).over => Owed(x).over /\ Owed(x).answers = Owes(L).answers
  BY <1>1, <1>4, <1>5, OwedFor
<1>11. sent \in Nat /\ arrived \in 0..sent
  BY DEF StreamInv, StreamTypeOK
<1>12. ScriptOK'
  <2>1. dialog' # <<>>
    BY <1>6
  <2>2. ASSUME NEW i \in 1..(L + 1)
        PROVE  /\ dialog'[i].n <= LongestOf(proto)
               /\ dialog'[i].at = EndOf(i - 1)' /\ dialog'[i].before = Owes(i - 1)'
    <3>1. CASE i \in 1..L
      <4>1. i - 1 \in 0..L
        BY <3>1, <1>1
      <4> QED
        BY <3>1, <4>1, <1>6, <1>7 DEF StreamInv, ScriptOK
    <3>2. CASE i = L + 1
      <4>1. i - 1 = L /\ L \in 0..L
        BY <3>2, <1>1
      <4> QED
        BY <3>2, <4>1, <1>1, <1>2, <1>4, <1>6, <1>7
    <3> QED
      BY <3>1, <3>2, <1>1
  <2>3. ASSUME NEW i \in 0..(L + 1), NEW j \in i..(L + 1)
        PROVE  /\ EndOf(i)' <= EndOf(j)'
               /\ Owes(i)'.over => Owes(j)'.over /\ Owes(j)'.answers = Owes(i)'.answers
    <3>1. CASE j \in 0..L
      <4>1. i \in 0..L /\ j \in i..L
        BY <3>1, <1>1
      <4> QED
        BY <4>1, <3>1, <1>7 DEF StreamInv, ScriptOK
    <3>2. CASE j = L + 1 /\ i \in 0..L
      <4>1. L \in 0..L /\ L \in i..L
        BY <3>2, <1>1
      <4>2. EndOf(i) <= EndOf(L) /\ (Owes(i).over => Owes(L).over /\ Owes(L).answers = Owes(i).answers)
        BY <4>1, <3>2 DEF StreamInv, ScriptOK
      <4>3. EndOf(i)' <= EndOf(j)'
        BY SMT, <3>2, <4>2, <1>1, <1>3, <1>7, <1>8, <1>9
      <4>4. Owes(i)' = Owes(i) /\ Owes(j)' = Owed(x)
        BY <3>2, <1>7, <1>8
      <4> QED
        BY <4>2, <4>3, <4>4, <1>10
    <3>3. CASE i = L + 1 /\ j = L + 1
      <4>1. EndOf(L + 1)' \in Nat
        BY <1>8, <1>9, <1>11
      <4> QED
        BY <3>3, <4>1
    <3> QED
      BY <3>1, <3>2, <3>3, <1>1
  <2>4. sent' <= EndOf(L + 1)' /\ EndOf(L)' <= sent'
    <3>1. L \in 0..L
      BY <1>1
    <3>2. sent' = sent /\ EndOf(L)' = sent
      BY <3>1, <1>1, <1>7
    <3> QED
      BY <3>2, <1>8, <1>9, <1>11
  <2>5. Len(dialog') - 1 = L
    BY <1>6, <1>1
  <2> QED
    BY <2>1, <2>2, <2>3, <2>4, <2>5, <1>1, <1>6 DEF ScriptOK
<1>13. StreamTypeOK'
  <2>1. nextMsg \in 0..(L + 2)
    BY <1>1 DEF StreamInv, StreamTypeOK
  <2>2. nextMsg' \in 0..(Len(dialog)' + 1)
    BY <2>1, <1>1, <1>6
  <2> QED
    BY <2>2, <1>1 DEF StreamInv, StreamTypeOK
<1>14. q \in 0..(L + 1) /\ nextMsg' = q /\ Len(dialog') = L + 1
  BY <1>1, <1>6 DEF StreamInv, StreamTypeOK
<1>15. q > 0 => EndOf(q - 1)' = EndOf(q - 1) /\ Owes(q - 1)' = Owes(q - 1)
  <2>1. q > 0 => q - 1 \in 0..L
    BY <1>14, <1>1
  <2> QED
    BY <2>1, <1>7
<1>16. q > 0 => ending \/ q > L + 1 \/ arrived < EndOf(q)'
  <2>1. SUFFICES ASSUME q > 0, ~ending  PROVE arrived < EndOf(q)'
    OBVIOUS
  <2>2. q > L \/ arrived < EndOf(q)
    BY <2>1, <1>1 DEF StreamInv
  <2>3. CASE q \in 0..L
    <3>1. arrived < EndOf(q)
      BY <2>2, <2>3, <1>1
    <3> QED
      BY <3>1, <2>3, <1>7
  <2>4. CASE q = L + 1
    <3>1. EndOf(q)' = sent + Size(proto, n)
      BY <2>4, <1>8
    <3> QED
      BY <3>1, <1>9, <1>11
  <2> QED
    BY <2>3, <2>4, <1>1, <1>14
<1>17. Request' = Request /\ Greeting' = Greeting /\ Request \in Nat
  BY <1>1, OwedUnchanged, StreamConstants DEF Request
<1>18. q = 0 => Request = 0 /\ taken = 0 /\ gathered = 0 /\ ~reading
                /\ IF arrived < Request \/ arrived = 0 THEN out = <<>> /\ ~ending
                   ELSE proto = "http" /\ out = Greeting
  BY <1>1, <1>17, <1>14 DEF StreamInv
<1>19. q > 0 => /\ arrived >= Request /\ arrived > 0 /\ taken = EndOf(q - 1)
                /\ out = Owes(q - 1).answers /\ gathered = Owes(q - 1).text /\ ending = Owes(q - 1).over
  BY DEF StreamInv
<1>20. q = 0 =>
         /\ ~reading' /\ taken' = 0 /\ gathered' = 0 /\ (Request' > 0 => dialog' = <<>>)
         /\ IF arrived' < Request' \/ arrived' = 0 THEN out' = <<>> /\ ~ending'
            ELSE proto' = "http" /\ out' = Greeting'
  BY <1>1, <1>17, <1>18
<1>21. q > 0 =>
         /\ proto' # "http" /\ arrived' >= Request' /\ arrived' > 0 /\ taken' = EndOf(q - 1)'
         /\ out' = Owes(q - 1)'.answers /\ gathered' = Owes(q - 1)'.text
         /\ ending' = Owes(q - 1)'.over
  BY <1>1, <1>15, <1>17, <1>19
<1>22. q > 0 => ending' \/ q > Len(dialog') \/ arrived' < EndOf(q)'
  BY <1>16, <1>1, <1>6
<1> QED
  BY <1>12, <1>13, <1>14, <1>20, <1>21, <1>22 DEF StreamInv

(* What the client has begun stays.                                         *)
LEMMA ScriptStays ==
  ASSUME ScriptOK, UNCHANGED <<proto, dialog, sent>>
  PROVE  ScriptOK'
<1>1. \A k : Owes(k)' = Owes(k) /\ EndOf(k)' = EndOf(k)
  BY OwesUnchanged
<1>2. Len(dialog') = Len(dialog) /\ EndOf(Len(dialog))' = EndOf(Len(dialog))
      /\ EndOf(Len(dialog) - 1)' = EndOf(Len(dialog) - 1)
  BY OwedUnchanged DEF EndOf
<1> QED
  BY <1>1, <1>2 DEF ScriptOK

(* The client sends some more of the message it has begun.                  *)
LEMMA SendsKeeps ==
  ASSUME StreamInv, NEW upto, sends(upto)
  PROVE  StreamInv'
<1> PICK L, q : L = Len(dialog) /\ q = nextMsg
  OBVIOUS
<1>1. /\ UNCHANGED <<proto, dialog, arrived, reading, taken, nextMsg, gathered, ending, out>>
      /\ sent' = upto /\ upto \in (sent + 1)..Begun /\ sent \in Nat /\ proto \in Protos
      /\ dialog \in Seq(Messages) /\ (dialog # <<>> => proto # "http") /\ L \in Nat /\ nextMsg' = q
  BY DEF sends, StreamInv, ScriptOK, StreamTypeOK
<1>2. \A k : Owes(k)' = Owes(k) /\ EndOf(k)' = EndOf(k)
  BY <1>1, OwesUnchanged
<1>3. Request' = Request /\ Greeting' = Greeting
  BY <1>1, OwedUnchanged
<1>4. Begun = EndOf(L) /\ EndOf(L) \in Nat
  <2>1. dialog = <<>> => L = 0
    OBVIOUS
  <2>2. dialog # <<>> => L # 0
    BY <1>1, EmptySeq
  <2>3. EndOf(L) \in Nat
    BY <1>1, OwesType
  <2> QED
    BY <2>1, <2>2, <2>3 DEF Begun, EndOf
<1>5. sent' \in Nat /\ sent' <= EndOf(L) /\ sent < sent'
  BY <1>1, <1>4
<1>6. StreamTypeOK'
  BY <1>1, <1>5 DEF StreamInv, StreamTypeOK
<1>7. ScriptOK'
  <2>1. dialog # <<>> => EndOf(L - 1)' <= sent'
    <3>1. SUFFICES ASSUME dialog # <<>>  PROVE EndOf(L - 1)' <= sent'
      OBVIOUS
    <3>2. L - 1 \in 0..L
      BY <3>1, <1>1, EmptySeq
    <3>3. EndOf(L - 1) \in Nat
      BY <3>2, <1>1, OwesType
    <3>4. EndOf(L - 1) <= sent
      BY <3>1 DEF StreamInv, ScriptOK
    <3> QED
      BY <3>3, <3>4, <1>1, <1>2, <1>5
  <2>2. sent' <= EndOf(L)' /\ Len(dialog') = L
    BY <1>1, <1>2, <1>5
  <2> QED
    BY <1>1, <1>2, <2>1, <2>2 DEF StreamInv, ScriptOK
<1>8. q > 0 => /\ proto # "http" /\ arrived >= Request /\ arrived > 0 /\ taken = EndOf(q - 1)
               /\ out = Owes(q - 1).answers /\ gathered = Owes(q - 1).text /\ ending = Owes(q - 1).over
               /\ ~reading => ending \/ q > L \/ arrived < EndOf(q)
  BY DEF StreamInv
<1>9. q > 0 => /\ proto' # "http" /\ arrived' >= Request' /\ arrived' > 0 /\ taken' = EndOf(q - 1)'
               /\ out' = Owes(q - 1)'.answers /\ gathered' = Owes(q - 1)'.text
               /\ ending' = Owes(q - 1)'.over
               /\ ~reading' => ending' \/ q > Len(dialog') \/ arrived' < EndOf(q)'
  BY <1>1, <1>2, <1>3, <1>8
<1>10. q = 0 => /\ ~reading' /\ taken' = 0 /\ gathered' = 0 /\ (Request' > 0 => dialog' = <<>>)
                /\ IF arrived' < Request' \/ arrived' = 0 THEN out' = <<>> /\ ~ending'
                   ELSE proto' = "http" /\ out' = Greeting'
  BY <1>1, <1>3 DEF StreamInv
<1> QED
  BY <1>1, <1>6, <1>7, <1>9, <1>10 DEF StreamInv

(* What has been sent arrives, and the request of a service that has one is *)
(* answered once it is whole.                                               *)
LEMMA OnDataKeeps ==
  ASSUME StreamInv, onData
  PROVE  StreamInv'
<1> PICK L, q : L = Len(dialog) /\ q = nextMsg
  OBVIOUS
<1>1. /\ UNCHANGED <<proto, dialog, sent, gathered>> /\ arrived' = sent /\ sent > arrived /\ ~reading
      /\ sent \in Nat /\ arrived \in Nat /\ proto \in Protos /\ reading' = (nextMsg' > 0)
      /\ dialog \in Seq(Messages) /\ L \in Nat /\ q \in 0..(L + 1) /\ taken \in 0..arrived /\ gathered \in Nat
      /\ ScriptOK /\ StreamTypeOK
  BY DEF onData, StreamInv, ScriptOK, StreamTypeOK
<1>2. \A k : Owes(k)' = Owes(k) /\ EndOf(k)' = EndOf(k)
  BY <1>1, OwesUnchanged
<1>3. Request' = Request /\ Greeting' = Greeting /\ Request \in Nat
  BY <1>1, OwedUnchanged, StreamConstants DEF Request
<1>4. ScriptOK'
  BY <1>1, ScriptStays
<1>5. CASE q > 0
  <2>1. UNCHANGED <<out, ending, nextMsg, taken>> /\ reading' /\ nextMsg' = q
    <3>1. ~(nextMsg = 0 /\ sent >= Request)
      BY <1>5
    <3>2. UNCHANGED <<out, ending, nextMsg, taken>>
      BY <3>1 DEF onData
    <3>3. nextMsg' = q /\ nextMsg' > 0
      BY <3>2, <1>5
    <3> QED
      BY <3>2, <3>3, <1>1
  <2>2. StreamTypeOK'
    <3>1. reading' \in BOOLEAN
      BY <2>1
    <3>2. arrived' \in 0..sent' /\ taken' \in 0..arrived' /\ sent' \in Nat
      BY <1>1, <2>1
    <3> QED
      BY <1>1, <2>1, <3>1, <3>2 DEF StreamTypeOK
  <2>3. /\ proto # "http" /\ arrived >= Request /\ arrived > 0 /\ taken = EndOf(q - 1)
        /\ out = Owes(q - 1).answers /\ gathered = Owes(q - 1).text /\ ending = Owes(q - 1).over
    BY <1>5 DEF StreamInv
  <2>4. /\ proto' # "http" /\ arrived' >= Request' /\ arrived' > 0 /\ taken' = EndOf(q - 1)'
        /\ out' = Owes(q - 1)'.answers /\ gathered' = Owes(q - 1)'.text /\ ending' = Owes(q - 1)'.over
    BY <2>1, <2>3, <1>1, <1>2, <1>3
  <2> QED
    BY <1>4, <1>5, <2>1, <2>2, <2>4 DEF StreamInv
<1>6. CASE q = 0 /\ sent < Request
  <2>1. UNCHANGED <<out, ending, nextMsg, taken>> /\ ~reading' /\ nextMsg' = 0
    <3>1. ~(nextMsg = 0 /\ sent >= Request)
      BY <1>6, <1>1, <1>3
    <3>2. UNCHANGED <<out, ending, nextMsg, taken>>
      BY <3>1 DEF onData
    <3>3. nextMsg' = 0 /\ ~(nextMsg' > 0)
      BY <3>2, <1>6
    <3> QED
      BY <3>2, <3>3, <1>1
  <2>2. StreamTypeOK'
    <3>1. reading' \in BOOLEAN
      BY <2>1, <1>1
    <3>2. arrived' \in 0..sent' /\ taken' \in 0..arrived' /\ sent' \in Nat
      BY <1>1, <2>1
    <3> QED
      BY <1>1, <2>1, <3>1, <3>2 DEF StreamTypeOK
  <2>3. /\ taken = 0 /\ gathered = 0 /\ (Request > 0 => dialog = <<>>) /\ out = <<>> /\ ~ending
    BY <1>6, <1>1, <1>3 DEF StreamInv
  <2> QED
    BY <1>1, <1>3, <1>4, <1>6, <2>1, <2>2, <2>3 DEF StreamInv
<1>7. CASE q = 0 /\ sent >= Request
  <2>1. upgrade
    BY <1>7 DEF onData
  <2>2. taken = 0 /\ gathered = 0 /\ (Request > 0 => dialog = <<>>)
    BY <1>7 DEF StreamInv
  <2>3. arrived < Request \/ arrived = 0
    <3>1. SUFFICES ASSUME ~(arrived < Request \/ arrived = 0)  PROVE FALSE
      OBVIOUS
    <3>2. proto = "http" /\ dialog = <<>> /\ L = 0
      BY <3>1, <1>7, <1>1 DEF StreamInv, ScriptOK
    <3>3. sent <= Request
      BY <3>2, <1>1 DEF ScriptOK, EndOf
    <3> QED
      BY <3>1, <3>3, <1>1, <1>3
  <2>4. out = <<>> /\ ~ending
    BY <1>7, <2>3 DEF StreamInv
  <2>5. EndOf(0) = Request /\ Owes(0) = Owed0 /\ Owed0.answers = Greeting /\ Owed0.text = 0 /\ ~Owed0.over
    BY DEF EndOf, Owes, Owed0
  <2>6. out' = Greeting
    <3>1. \A r : Append(<<>>, r) = <<r>>
      OBVIOUS
    <3>2. out' = CASE proto = "http" -> Answer("page", 0) [] proto = "ws" -> Answer("101", 0) [] OTHER -> out
      BY <2>1 DEF upgrade
    <3>3. Answer("page", 0) = <<Line("page", 0)>> /\ Answer("101", 0) = <<Line("101", 0)>>
      BY <2>4, <3>1 DEF Answer
    <3> QED
      BY <3>2, <3>3, <2>4 DEF Greeting
  <2>7. Greeting \in Seq([kind : {"101", "page", "whole", "pong", "bye"}, n : Nat])
    <3>1. 0 \in 0..Len(dialog) /\ (dialog # <<>> => proto # "http")
      BY <1>1 DEF ScriptOK
    <3>2. Owes(0) \in Debts
      BY <1>1, <3>1, OwesType
    <3> QED
      BY <3>2, <2>5 DEF Debts, Replies
  <2>8. CASE proto = "http"
    <3>1. nextMsg' = 0 /\ taken' = 0 /\ ending' /\ ~reading'
      <4>1. nextMsg' = 0 /\ taken' = 0 /\ ~(nextMsg' > 0)
        BY <2>1, <2>2, <2>8 DEF upgrade
      <4>2. ending'
        BY <2>1, <2>8 DEF upgrade
      <4> QED
        BY <4>1, <4>2, <1>1
    <3>2. StreamTypeOK'
      <4>1. reading' \in BOOLEAN /\ ending' \in BOOLEAN
        BY <3>1, <1>1
      <4>2. /\ arrived' \in 0..sent' /\ taken' \in 0..arrived' /\ sent' \in Nat
            /\ nextMsg' \in 0..(Len(dialog') + 1)
        BY <1>1, <3>1
      <4> QED
        BY <1>1, <2>6, <2>7, <4>1, <4>2 DEF StreamTypeOK
    <3>3. ~(arrived' < Request' \/ arrived' = 0)
      BY <1>1, <1>3, <1>7
    <3> QED
      BY <3>1, <3>2, <3>3, <1>1, <1>3, <1>4, <2>2, <2>6, <2>8 DEF StreamInv
  <2>9. CASE proto # "http"
    <3>1. nextMsg' = 1 /\ (ending' <=> FALSE) /\ reading' /\ taken' = Request
      <4>1. taken' = IF proto = "ws" THEN HeadLen ELSE taken
        BY <2>1 DEF upgrade
      <4>2. taken' = Request
        BY <4>1, <2>2, <2>9, <1>1 DEF Request
      <4>3. nextMsg' = 1 /\ nextMsg' > 0
        BY <2>1, <2>9 DEF upgrade
      <4>4. ending' <=> FALSE
        BY <2>1, <2>4, <2>9 DEF upgrade
      <4> QED
        BY <1>1, <4>2, <4>3, <4>4
    <3>2. StreamTypeOK'
      <4>1. reading' \in BOOLEAN /\ ending' \in BOOLEAN
        BY <3>1, <2>1, <1>1 DEF upgrade, StreamTypeOK
      <4>2. /\ arrived' \in 0..sent' /\ taken' \in 0..arrived' /\ sent' \in Nat
            /\ nextMsg' \in 0..(Len(dialog') + 1)
        BY <1>1, <1>3, <1>7, <3>1
      <4> QED
        BY <1>1, <2>6, <2>7, <4>1, <4>2 DEF StreamTypeOK
    <3>3. taken' = EndOf(0)' /\ out' = Owes(0)'.answers /\ gathered' = Owes(0)'.text
      BY <1>1, <1>2, <2>2, <2>5, <2>6, <3>1
    <3>4. ending' = Owes(0)'.over
      <4>1. Owes(0)'.over = FALSE
        BY <1>2, <2>5 DEF Owed0
      <4>2. ending' = FALSE
        BY <3>1, <3>2 DEF StreamTypeOK
      <4> QED
        BY <4>1, <4>2
    <3>5. arrived' >= Request' /\ arrived' > 0
      BY <1>1, <1>3, <1>7
    <3>6. nextMsg' - 1 = 0
      BY <3>1
    <3> QED
      BY <3>1, <3>2, <3>3, <3>4, <3>5, <3>6, <1>1, <1>4, <2>9 DEF StreamInv
  <2> QED
    BY <2>8, <2>9
<1> QED
  BY <1>5, <1>6, <1>7, <1>1, <1>3

(* A step of the loop takes the next message off whole, and answers it as   *)
(* it is owed.                                                              *)
LEMMA TakesKeeps ==
  ASSUME StreamInv, takes
  PROVE  StreamInv'
<1> PICK L, q : L = Len(dialog) /\ q = nextMsg
  OBVIOUS
<1>1. /\ UNCHANGED <<proto, dialog, sent, arrived>> /\ reading /\ Got # 0
      /\ taken' = taken + Got /\ nextMsg' = q + 1 /\ handle(dialog[q])
      /\ reading' = (dialog[q].kind # "bye" \/ proto = "ws")
      /\ sent \in Nat /\ arrived \in 0..sent /\ proto \in Protos /\ taken \in 0..arrived
      /\ dialog \in Seq(Messages) /\ L \in Nat /\ q \in 0..(L + 1) /\ ScriptOK
  BY DEF takes, StreamInv, ScriptOK, StreamTypeOK
<1>2. \A k : Owes(k)' = Owes(k) /\ EndOf(k)' = EndOf(k)
  BY <1>1, OwesUnchanged
<1>3. Request' = Request
  BY <1>1, OwedUnchanged
<1>4. q > 0 /\ q <= L
  <2>1. q # 0
    BY <1>1 DEF StreamInv
  <2>2. q <= L
    BY <1>1 DEF Got
  <2> QED
    BY <2>1, <2>2, <1>1
<1> DEFINE m == dialog[q]  w == m.before
<1>5. /\ proto # "http" /\ arrived >= Request /\ arrived > 0 /\ taken = EndOf(q - 1)
      /\ out = Owes(q - 1).answers /\ gathered = Owes(q - 1).text /\ ending = Owes(q - 1).over
  BY <1>4 DEF StreamInv
<1>6. m \in Messages /\ m.n \in Nat /\ m.kind \in Kinds /\ w \in Debts
  <2>1. m \in Messages
    BY <1>1, <1>4, ElementOfSeq
  <2> QED
    BY <2>1 DEF Messages
<1>7. m.n <= LongestOf(proto) /\ m.at = EndOf(q - 1) /\ w = Owes(q - 1)
  <2>1. q \in 1..Len(dialog)
    BY <1>1, <1>4
  <2> QED
    BY <2>1, <1>1 DEF ScriptOK
<1>8. Got = Size(proto, m.n) /\ Size(proto, m.n) <= arrived - taken /\ Size(proto, m.n) \in Nat
  <2>1. proto \in Protos \ {"http"} /\ arrived - taken \in Nat
    BY <1>1, <1>5
  <2>2. Size(proto, m.n) \in Nat
    BY <2>1, <1>6, Sized
  <2>3. Got = decode(proto, Header(proto, m.n), arrived - taken)
    BY <1>1, <1>4 DEF Got
  <2>4. Got = IF arrived - taken < Size(proto, m.n) THEN 0 ELSE Size(proto, m.n)
    BY SMT, <2>1, <2>3, <1>6, <1>7, Decodes
  <2> QED
    BY <2>1, <2>2, <2>4, <1>1
<1>9. taken' = EndOf(q) /\ taken' \in 0..arrived
  <2>1. EndOf(q) = m.at + Size(proto, m.n)
    BY <1>4 DEF EndOf, End
  <2> QED
    BY <2>1, <1>1, <1>5, <1>7, <1>8
<1>10. Owes(q) = Owed(m) /\ Owed(m) \in Debts
  BY <1>1, <1>4, <1>6, OwedFor DEF Owes
<1>11. w.answers = out /\ w.text = gathered /\ w.over = ending /\ out \in Seq(Replies)
  <2>1. w.answers = out /\ w.text = gathered /\ w.over = ending
    BY <1>5, <1>7
  <2> QED
    BY <2>1, <1>6 DEF Debts
<1>12. out' = Owed(m).answers
  <2>1. \A n \in Nat : /\ Line("whole", n) \in Replies /\ Line("pong", n) \in Replies
                      /\ Line("bye", n) \in Replies
    BY DEF Line, Replies
  <2>2. \A r \in Replies : Append(out, r) = out \o <<r>>
    BY <1>11
  <2>3. out \o <<>> = out
    BY <1>11
  <2>4. w.text + m.n = gathered + m.n /\ gathered + m.n \in Nat /\ 0 \in Nat
        /\ (IF proto = "ws" THEN m.n ELSE 0) \in Nat
    BY <1>6, <1>11 DEF Debts
  <2> DEFINE pong == IF proto = "ws" THEN m.n ELSE 0
  <2> HIDE DEF m, w
  <2>5. CASE m.kind = "whole"
    <3>1. out' = Answer("whole", gathered + m.n)
      BY <2>5, <1>1 DEF handle, m
    <3>2. Owed(m).answers = IF ending THEN out ELSE out \o <<Line("whole", gathered + m.n)>>
      BY <2>5, <1>11, <2>4 DEF Owed, w
    <3> QED
      BY <3>1, <3>2, <2>1, <2>2, <2>4 DEF Answer
  <2>6. CASE m.kind = "ping"
    <3>1. out' = Answer("pong", pong)
      BY <2>6, <1>1 DEF handle, m
    <3>2. Owed(m).answers = IF ending THEN out ELSE out \o <<Line("pong", pong)>>
      BY <2>6, <1>11, <2>4 DEF Owed, w
    <3> QED
      BY <3>1, <3>2, <2>1, <2>2, <2>4 DEF Answer
  <2>7. CASE m.kind = "bye" /\ proto = "ws"
    <3>1. out' = Answer("bye", 0)
      BY <2>7, <1>1 DEF handle, m
    <3>2. Owed(m).answers = IF ending THEN out ELSE out \o <<Line("bye", 0)>>
      BY <2>7, <1>11, <2>4 DEF Owed, w
    <3> QED
      BY <3>1, <3>2, <2>1, <2>2, <2>4 DEF Answer
  <2>8. CASE m.kind = "part" \/ (m.kind = "bye" /\ proto # "ws")
    <3>1. out' = out
      BY <2>8, <1>1 DEF handle, m
    <3>2. Owed(m).answers = IF ending THEN out ELSE out \o <<>>
      BY <2>8, <1>11, <2>4 DEF Owed, w
    <3> QED
      BY <3>1, <3>2, <2>3
  <2>9. m.kind \in {"part", "whole", "ping", "bye"}
    BY <1>6 DEF Kinds
  <2> QED
    BY <2>5, <2>6, <2>7, <2>8, <2>9
<1>13. gathered' = Owed(m).text
  BY <1>1, <1>11 DEF handle, Owed
<1>14. ending' = Owed(m).over
  BY <1>1, <1>11 DEF handle, Owed
<1>15. out' = Owes(q)'.answers /\ gathered' = Owes(q)'.text /\ ending' = Owes(q)'.over /\ taken' = EndOf(q)'
  BY <1>2, <1>9, <1>10, <1>12, <1>13, <1>14
<1>16. StreamTypeOK'
  <2>1. out' \in Seq([kind : {"101", "page", "whole", "pong", "bye"}, n : Nat]) /\ gathered' \in Nat
        /\ ending' \in BOOLEAN
    BY <1>10, <1>12, <1>13, <1>14 DEF Debts, Replies
  <2>2. reading' \in BOOLEAN
    BY <1>1
  <2>3. sent' \in Nat /\ arrived' \in 0..sent' /\ taken' \in 0..arrived' /\ nextMsg' \in 0..(Len(dialog') + 1)
    BY <1>1, <1>4, <1>9
  <2> QED
    BY <1>1, <2>1, <2>2, <2>3 DEF StreamTypeOK
<1>17. ScriptOK'
  BY <1>1, ScriptStays
<1>18. ~reading' => ending'
  <2>1. SUFFICES ASSUME ~reading'  PROVE ending'
    OBVIOUS
  <2>2. m.kind = "bye"
    BY <2>1, <1>1
  <2> QED
    BY <2>2, <1>1 DEF handle
<1>19. nextMsg' - 1 = q /\ nextMsg' > 0
  BY <1>1, <1>4
<1> HIDE DEF m, w
<1> QED
  BY <1>1, <1>3, <1>5, <1>15, <1>16, <1>17, <1>18, <1>19 DEF StreamInv

(* The loop ends where the next message has not come whole.                 *)
LEMMA WaitsKeeps ==
  ASSUME StreamInv, waits
  PROVE  StreamInv'
<1> PICK L, q : L = Len(dialog) /\ q = nextMsg
  OBVIOUS
<1>1. /\ UNCHANGED <<proto, dialog, sent, arrived, taken, nextMsg, gathered, ending, out>>
      /\ reading /\ Got = 0 /\ reading' = FALSE /\ nextMsg' = q
      /\ sent \in Nat /\ arrived \in 0..sent /\ proto \in Protos /\ taken \in 0..arrived
      /\ dialog \in Seq(Messages) /\ L \in Nat /\ q \in 0..(L + 1) /\ ScriptOK /\ StreamTypeOK
  BY DEF waits, StreamInv, ScriptOK, StreamTypeOK
<1>2. \A k : Owes(k)' = Owes(k) /\ EndOf(k)' = EndOf(k)
  BY <1>1, OwesUnchanged
<1>3. Request' = Request
  BY <1>1, OwedUnchanged
<1>4. q > 0
  BY <1>1 DEF StreamInv
<1>5. /\ proto # "http" /\ arrived >= Request /\ arrived > 0 /\ taken = EndOf(q - 1)
      /\ out = Owes(q - 1).answers /\ gathered = Owes(q - 1).text /\ ending = Owes(q - 1).over
  BY <1>4 DEF StreamInv
<1>6. q > L \/ arrived < EndOf(q)
  <2>1. SUFFICES ASSUME q <= L  PROVE arrived < EndOf(q)
    BY <1>1
  <2> DEFINE m == dialog[q]
  <2>2. m \in Messages
    BY <1>1, <1>4, <2>1, ElementOfSeq
  <2>3. m.n \in Nat /\ m.at \in Nat
    BY <2>2 DEF Messages
  <2>4. m.n <= LongestOf(proto) /\ m.at = EndOf(q - 1)
    BY <1>1, <1>4, <2>1 DEF ScriptOK
  <2>5. proto \in Protos \ {"http"} /\ arrived - taken \in Nat
    BY <1>1, <1>5
  <2>6. Size(proto, m.n) \in Nat \ {0}
    BY <2>3, <2>5, Sized
  <2>7. Got = decode(proto, Header(proto, m.n), arrived - taken)
    BY <2>1 DEF Got
  <2>8. Got = IF arrived - taken < Size(proto, m.n) THEN 0 ELSE Size(proto, m.n)
    BY SMT, <2>3, <2>4, <2>5, <2>7, Decodes
  <2>9. EndOf(q) = m.at + Size(proto, m.n)
    BY <1>4 DEF EndOf, End
  <2> QED
    BY <1>1, <1>5, <2>3, <2>4, <2>5, <2>6, <2>8, <2>9
<1>7. StreamTypeOK'
  BY <1>1 DEF StreamTypeOK
<1>8. ScriptOK'
  BY <1>1, ScriptStays
<1>9. /\ proto' # "http" /\ arrived' >= Request' /\ arrived' > 0 /\ taken' = EndOf(q - 1)'
      /\ out' = Owes(q - 1)'.answers /\ gathered' = Owes(q - 1)'.text /\ ending' = Owes(q - 1)'.over
      /\ q > Len(dialog') \/ arrived' < EndOf(q)'
  BY <1>1, <1>2, <1>3, <1>5, <1>6
<1> QED
  BY <1>1, <1>4, <1>7, <1>8, <1>9 DEF StreamInv

(* Every step of a stream keeps StreamInv.                                  *)
LEMMA StreamKeeps == StreamInv /\ [StreamNext]_streamVars => StreamInv'
<1> SUFFICES ASSUME StreamInv, [StreamNext]_streamVars  PROVE StreamInv'
  OBVIOUS
<1>1. CASE \E kind \in Kinds, n \in Sizes[proto] : begins(kind, n)
  BY <1>1, BeginsKeeps
<1>2. CASE \E upto \in CutsNow : sends(upto)
  BY <1>2, SendsKeeps
<1>3. CASE onData
  BY <1>3, OnDataKeeps
<1>4. CASE takes
  BY <1>4, TakesKeeps
<1>5. CASE waits
  BY <1>5, WaitsKeeps
<1>6. CASE UNCHANGED streamVars
  <2> PICK L, q : L = Len(dialog) /\ q = nextMsg
    OBVIOUS
  <2>1. UNCHANGED <<proto, dialog, sent, arrived, reading, taken, nextMsg, gathered, ending, out>>
    BY <1>6 DEF streamVars
  <2>2. \A k : Owes(k)' = Owes(k) /\ EndOf(k)' = EndOf(k)
    BY <2>1, OwesUnchanged
  <2>3. Request' = Request /\ Greeting' = Greeting
    BY <2>1, OwedUnchanged
  <2>4. ScriptOK'
    BY <2>1, ScriptStays DEF StreamInv
  <2>5. StreamTypeOK'
    BY <2>1 DEF StreamInv, StreamTypeOK
  <2>6. nextMsg' = q /\ Len(dialog') = L
    BY <2>1
  <2>7. q > 0 => /\ proto' # "http" /\ arrived' >= Request' /\ arrived' > 0 /\ taken' = EndOf(q - 1)'
                 /\ out' = Owes(q - 1)'.answers /\ gathered' = Owes(q - 1)'.text
                 /\ ending' = Owes(q - 1)'.over
                 /\ ~reading' => ending' \/ q > L \/ arrived' < EndOf(q)'
    BY <2>1, <2>2, <2>3 DEF StreamInv
  <2>8. q = 0 => /\ ~reading' /\ taken' = 0 /\ gathered' = 0 /\ (Request' > 0 => dialog' = <<>>)
                 /\ IF arrived' < Request' \/ arrived' = 0 THEN out' = <<>> /\ ~ending'
                    ELSE proto' = "http" /\ out' = Greeting'
    BY <2>1, <2>3 DEF StreamInv
  <2> QED
    BY <2>4, <2>5, <2>6, <2>7, <2>8 DEF StreamInv
<1> QED
  BY <1>1, <1>2, <1>3, <1>4, <1>5, <1>6 DEF StreamNext

(* What StreamInv says of the answers: between two calls they are those to  *)
(* the messages that have come whole.                                       *)
LEMMA StreamAnswers == StreamInv => AnswersTheStream
<1> SUFFICES ASSUME StreamInv  PROVE AnswersTheStream
  OBVIOUS
<1> PICK L, q : L = Len(dialog) /\ q = nextMsg
  OBVIOUS
<1>1. /\ StreamTypeOK /\ ScriptOK /\ L \in Nat /\ q \in 0..(L + 1) /\ arrived \in Nat /\ taken \in 0..arrived
      /\ dialog \in Seq(Messages) /\ proto \in Protos /\ (dialog # <<>> => proto # "http")
  BY DEF StreamInv, StreamTypeOK, ScriptOK
<1>2. SUFFICES ASSUME ~reading
      PROVE  IF arrived < Request \/ arrived = 0 THEN out = <<>>
             ELSE \A k \in 0..L : (k > 0 => End(dialog[k]) <= arrived)
                                  /\ (k < L => arrived < End(dialog[k + 1])) => out = AnswersDue(k)
  BY <1>1 DEF AnswersTheStream
<1>3. Request \in Nat
  BY StreamConstants DEF Request
<1>4. \A k \in 0..L : AnswersDue(k) = Owes(k).answers /\ EndOf(k) \in Nat
  <2>1. \A k \in 0..L : AnswersDue(k) = Owes(k).answers
    BY DEF AnswersDue, Owes, Owed0
  <2> QED
    BY <2>1, <1>1, OwesType
<1>5. CASE q = 0
  <2>1. IF arrived < Request \/ arrived = 0 THEN out = <<>> ELSE proto = "http" /\ out = Greeting
    BY <1>5 DEF StreamInv
  <2>2. proto = "http" => L = 0
    BY <1>1
  <2>3. AnswersDue(0) = Greeting
    BY DEF AnswersDue
  <2> QED
    BY <2>1, <2>2, <2>3, <1>1
<1>6. CASE q > 0
  <2>1. /\ arrived >= Request /\ arrived > 0 /\ taken = EndOf(q - 1)
        /\ out = Owes(q - 1).answers /\ ending = Owes(q - 1).over
        /\ ending \/ q > L \/ arrived < EndOf(q)
    BY <1>2, <1>6 DEF StreamInv
  <2>2. SUFFICES ASSUME NEW k \in 0..L, k > 0 => End(dialog[k]) <= arrived,
                        k < L => arrived < End(dialog[k + 1])
                 PROVE  out = AnswersDue(k)
    BY <2>1, <1>1, <1>3
  <2>3. q - 1 \in 0..L /\ EndOf(q - 1) \in Nat
    BY <1>1, <1>4, <1>6
  <2>4. k >= q - 1
    <3>1. SUFFICES ASSUME k < q - 1  PROVE FALSE
      BY <2>3
    <3>2. k < L /\ k + 1 \in 0..L /\ q - 1 \in (k + 1)..L
      BY <3>1, <2>3, <1>1
    <3>3. EndOf(k + 1) <= EndOf(q - 1)
      BY <3>2, <1>1 DEF ScriptOK
    <3>4. arrived < EndOf(k + 1)
      BY <3>2, <2>2 DEF EndOf
    <3>5. EndOf(k + 1) \in Nat
      BY <3>2, <1>4
    <3> QED
      BY <3>3, <3>4, <3>5, <2>1, <2>3, <1>1
  <2>5. CASE k = q - 1
    BY <2>5, <2>1, <1>4
  <2>6. CASE k > q - 1
    <3>1. q \in 0..L /\ k \in q..L /\ k \in (q - 1)..L
      BY <2>6, <2>3, <1>1
    <3>2. EndOf(q) <= EndOf(k) /\ EndOf(k) <= arrived
      BY <3>1, <1>1, <1>6, <2>2 DEF ScriptOK, EndOf
    <3>3. EndOf(q) \in Nat /\ EndOf(k) \in Nat
      BY <3>1, <1>4
    <3>4. ~(arrived < EndOf(q)) /\ ~(q > L)
      BY <3>1, <3>2, <3>3, <1>1
    <3>5. Owes(q - 1).over
      BY <3>4, <2>1
    <3>6. Owes(k).answers = Owes(q - 1).answers
      BY <3>1, <3>5, <2>3, <1>1 DEF ScriptOK
    <3> QED
      BY <3>6, <2>1, <1>4
  <2> QED
    BY <2>3, <2>4, <2>5, <2>6
<1> QED
  BY <1>1, <1>5, <1>6

(* Whatever the lengths of its messages and wherever the stream is cut, a   *)
(* client of the websocket echo, the CoAP server or the broker gets the     *)
(* answers to exactly the messages that have come whole, in order, and of   *)
(* http() its page once.                                                    *)
THEOREM StreamAlwaysAnswered == StreamSpec => []AnswersTheStream
<1>1. StreamInit => StreamInv
  BY StreamStarts
<1>2. StreamInv /\ [StreamNext]_streamVars => StreamInv'
  BY StreamKeeps
<1>3. StreamInv => AnswersTheStream
  BY StreamAnswers
<1> QED
  BY <1>1, <1>2, <1>3, PTL DEF StreamSpec
=============================================================================

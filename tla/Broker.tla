------------------------------- MODULE Broker -------------------------------
(***************************************************************************)
(* The broker of the simulated LAN and its two front ends (Broker, mqtt()  *)
(* and mqttSn() of src/host/lan_services.mjs): MQTT over TCP, where each   *)
(* connection has one subscriber function, and MQTT-SN over UDP, where     *)
(* each CONNECT makes one and topics go by ids the gateway hands out.      *)
(* Datagrams may be lost and repeated: a client's message is an action     *)
(* that may happen at any time, as often as it likes.                      *)
(***************************************************************************)
EXTENDS Naturals, Sequences, FiniteSets, SequencesExt

CONSTANTS MqttClients, SnClients,
          Filters,    \* topic filters: sequences of levels, "+" and "#" among them
          Topics,     \* topics: sequences of levels
          MaxSubs,    \* bound: subscriptions the broker holds
          MaxIds,     \* bound: ids a client publishes by
          MaxGens     \* bound: sessions of one client

(* A split makes at least one level, and MQTT has "#" come last.            *)
ASSUME BrokerConstants ==
  /\ Filters \subseteq Seq(STRING) \ {<<>>} /\ Topics \subseteq Seq(STRING)
  /\ \A f \in Filters : \A i \in DOMAIN f : f[i] = "#" => i = Len(f)
  /\ MaxSubs \in Nat /\ MaxIds \in Nat /\ MaxGens \in Nat

BrokerClients == MqttClients \cup SnClients

VARIABLES subs,    \* broker.subs: [filter, to, k], `to` a subscriber function; k tells
                   \* two alike apart, and the order makes no difference here
          gen,     \* how many subscriber functions a client has had
          up,      \* the clients with a session: an open connection, a key in `clients`
          ids,     \* ids and names of mqttSn(): the name of each id, from 1 up
          copies,  \* what each subscriber function got of a publish, until the next step
          want     \* the subscriptions each client made in its session

brokerVars == <<subs, gen, up, ids, copies, want>>

deliver(c) == [client |-> c, gen |-> gen[c]]
Delivers   == [client : BrokerClients, gen : 1..MaxGens]
Subs       == [filter : Filters, to : Delivers, k : 1..MaxSubs]
NoCopies   == [d \in Delivers |-> 0]

BrokerInit ==
  /\ subs = {} /\ ids = <<>> /\ up = {}
  /\ gen = [c \in BrokerClients |-> 0]
  /\ copies = NoCopies
  /\ want = [c \in BrokerClients |-> {}]

-----------------------------------------------------------------------------
(* As topicMatches, but a filter that is a prefix of the topic is enough.   *)
topicMatches_Prefix(f, t) ==
  \A i \in DOMAIN f : f[i] = "#" \/ (i <= Len(t) /\ f[i] \in {"+", t[i]})

(* topicMatches(): the first level that differs, or a "#", decides.         *)
topicMatches(f, t) ==
  LET wrong == {i \in DOMAIN f : ~(i <= Len(t) /\ f[i] \in {"+", t[i]})}
      rest  == {i \in DOMAIN f : f[i] = "#"}
  IN IF rest # {} /\ \A i \in wrong : Min(rest) <= i THEN TRUE
     ELSE wrong = {} /\ Len(f) = Len(t)

Matching(topic) == {s \in subs : topicMatches(s.filter, topic)}

unsubscribe(d) == {s \in subs : s.to # d}

(* As idFor, but an id that is in use is given out again.                   *)
idFor_Clash(name) == IF name \in ToSet(ids) THEN ids ELSE <<name>> \o ids

(* idFor(): the ids after the name has one.                                 *)
idFor(name) == IF name \in ToSet(ids) THEN ids ELSE Append(ids, name)

(* publish(): a copy for every subscription that matches; a subscriber of   *)
(* the gateway is told the topic by its id, which may be a new one.         *)
publish(topic) ==
  /\ copies' = [d \in Delivers |-> Cardinality({s \in Matching(topic) : s.to = d})]
  /\ ids' = IF \E s \in Matching(topic) : s.to.client \in SnClients
            THEN idFor(topic) ELSE ids
  /\ UNCHANGED <<subs, gen, up, want>>

-----------------------------------------------------------------------------
(* A connection to port 1883, or CONNECT to the gateway, which also a       *)
(* client that has a session may send: the new subscriber function takes    *)
(* the place of the old one, whose subscriptions stay.                      *)
brokerConnect(c) ==
  /\ gen[c] < MaxGens /\ (c \in MqttClients => c \notin up)
  /\ gen' = [gen EXCEPT ![c] = @ + 1]
  /\ up' = up \cup {c}
  /\ want' = [want EXCEPT ![c] = {}]
  /\ copies' = NoCopies /\ UNCHANGED <<subs, ids>>

(* SUBSCRIBE.  MQTT-SN answers with an id for the filter.                   *)
brokerSubscribe(c, filter, k) ==
  /\ c \in up /\ \A s \in subs : s.k # k
  /\ LET new == [filter |-> filter, to |-> deliver(c), k |-> k]
     IN subs' = subs \cup {new} /\ want' = [want EXCEPT ![c] = @ \cup {new}]
  /\ ids' = IF c \in SnClients THEN idFor(filter) ELSE ids
  /\ copies' = NoCopies /\ UNCHANGED <<gen, up>>

(* UNSUBSCRIBE, whatever topic it names; and DISCONNECT, or the end of the  *)
(* connection, which also end the session.                                  *)
brokerUnsubscribe(c, leaves) ==
  /\ c \in up
  /\ subs' = unsubscribe(deliver(c))
  /\ up' = IF leaves THEN up \ {c} ELSE up
  /\ want' = [want EXCEPT ![c] = {}]
  /\ copies' = NoCopies /\ UNCHANGED <<gen, ids>>

(* PUBLISH over TCP, by name.                                               *)
mqttPublish(c, topic) == c \in up /\ publish(topic)

(* REGISTER: an id for a topic.                                             *)
snRegister(c, topic) ==
  /\ c \in up
  /\ ids' = idFor(topic)
  /\ copies' = NoCopies /\ UNCHANGED <<subs, gen, up, want>>

(* PUBLISH over UDP, by id: one the gateway does not know makes a name of   *)
(* its own, "#" and the id.                                                 *)
snTopic(id) == IF id \in DOMAIN ids THEN ids[id] ELSE <<ToString(id)>>

snPublish(c, id) == c \in up /\ publish(snTopic(id))

BrokerNext ==
  \/ \E c \in BrokerClients : \/ brokerConnect(c)
                              \/ \E f \in Filters, k \in 1..MaxSubs : brokerSubscribe(c, f, k)
                              \/ \E b \in BOOLEAN : brokerUnsubscribe(c, b)
  \/ \E c \in MqttClients, t \in Topics : mqttPublish(c, t)
  \/ \E c \in SnClients : \/ \E t \in Topics : snRegister(c, t)
                          \/ \E id \in 1..MaxIds : id <= Len(ids) + 1 /\ snPublish(c, id)

BrokerSpec == BrokerInit /\ [][BrokerNext]_brokerVars

-----------------------------------------------------------------------------
(* The type of the state: every id stands for a topic or a filter.          *)
BrokerTypeOK ==
  /\ subs \subseteq Subs
  /\ gen \in [BrokerClients -> 0..MaxGens]
  /\ up \subseteq BrokerClients
  /\ ids \in Seq(Filters \cup Topics \cup {<<ToString(i)>> : i \in 1..MaxIds})
  /\ copies \in [Delivers -> 0..MaxSubs]
  /\ want \in [BrokerClients -> SUBSET Subs]

(* What MQTT says a filter stands for: "#", which comes last, for any       *)
(* number of levels, none of them too.                                      *)
Covers(f, t) ==
  LET n == IF Last(f) = "#" THEN Len(f) - 1 ELSE Len(f)
  IN /\ \A i \in 1..n : i <= Len(t) /\ (f[i] = "+" \/ f[i] = t[i])
     /\ Last(f) # "#" => Len(t) = n

(* A publish, by name or by id, reaches each client with a session once for *)
(* every filter it has asked for in that session since its last UNSUBSCRIBE *)
(* (which takes all of them, whatever it names), and a client that has left *)
(* not at all, whoever else came, went and asked in between                 *)
(* (subscribe(), unsubscribe() and publish() of the broker).  A session     *)
(* that a second CONNECT has replaced is left out: its subscriptions stay.  *)
DeliveredAsAsked ==
  [][\A t \in Topics \cup ToSet(ids) :
       publish(t) => \A c \in BrokerClients : gen[c] > 0 =>
         copies'[deliver(c)] = IF c \in up
                               THEN Cardinality({s \in want[c] : Covers(s.filter, t)})
                               ELSE 0]_brokerVars

(* An id that a client was told goes on meaning the same topic, and a topic *)
(* has one id: clients keep them (idFor() of mqttSn()).                     *)
IdsLast ==
  /\ []BrokerTypeOK
  /\ [][/\ \A i \in DOMAIN ids : i \in DOMAIN ids' /\ ids'[i] = ids[i]
        /\ \A i, j \in DOMAIN ids' : ids'[i] = ids'[j] => i = j]_brokerVars
=============================================================================

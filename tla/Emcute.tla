------------------------------- MODULE Emcute -------------------------------
(***************************************************************************)
(* The two parties the publisher talks to, neither of which has its source *)
(* in the repository: RIOT's `emcute` MQTT-SN client library, and the      *)
(* MQTT-SN gateway behind an unreliable datagram network.                  *)
(*                                                                         *)
(* They are modelled from how mqttsn_publisher.c uses them: four blocking  *)
(* calls (emcute_con, emcute_reg, emcute_pub with EMCUTE_QOS_1,            *)
(* emcute_discon) that return EMCUTE_OK or an error.  What a call leaves   *)
(* behind on an error (session open or closed, lock held or not) follows   *)
(* the code linked in app/bin/avr-rss2/mqttsn_publisher.elf.               *)
(*                                                                         *)
(* A call puts one request in flight.  emcute repeats an unanswered        *)
(* request; a repetition is a request that stays in flight after the       *)
(* gateway took it.  Datagrams may be lost, duplicated, delayed beyond the *)
(* call that sent them, and reordered.                                     *)
(***************************************************************************)
EXTENDS Naturals, FiniteSets

CONSTANTS
  IdMod,      \* message ids run from 1 to IdMod and wrap (2^16 in emcute)
  TopicIds,   \* the topic ids a gateway can grant
  MaxReport,  \* bound: reports from number MaxReport on share that number
  NetCap      \* bound: datagrams in flight in each direction

ASSUME EmcuteAssumption ==
  /\ IdMod \in Nat \ {0}
  /\ MaxReport \in Nat \ {0}
  /\ NetCap \in Nat \ {0}
  /\ TopicIds # {} /\ TopicIds \subseteq Nat \ {0}

VARIABLES
  port,       \* gateway.port # 0: emcute believes it has a session
  txlock,     \* emcute's transmit mutex is held
  call,       \* the request the calling thread is blocked on, or NoCall
  ret,        \* what the last call returned, until its caller has used it
  idNext,     \* the next message id
  topicId,    \* the id field of the caller's mqpub_topic_t, 0 when unset
  up,         \* requests in flight to the gateway
  down,       \* answers in flight to the node
  gwSession,  \* the gateway has a session for this node
  gwTopic,    \* the topic id granted in that session, 0 for none
  delivered,  \* history: reports the gateway passed on to the broker
  healed      \* the network is reliable from now on, and the gateway stays up

libVars == <<port, txlock, call, ret, idNext, topicId>>
netVars == <<up, down, gwSession, gwTopic, delivered, healed>>
emVars  == <<libVars, netVars>>

Ops     == {"CONNECT", "REGISTER", "PUBLISH", "DISCONNECT"}
Codes   == {"OK", "NOGW", "REJECT", "TIMEOUT"}
Reports == 0..MaxReport
Ids     == 0..IdMod          \* 0 in the messages that carry no id
Topics  == TopicIds \cup {0}

Requests == [op : Ops, id : Ids, tid : Topics, rep : Reports]
Answers  == [op : Ops, id : Ids, tid : Topics, rc : {"ACCEPT", "REJECT"}]

Request(op, id, tid, r) == [op |-> op, id |-> id, tid |-> tid, rep |-> r]
Answer(q, rc, t) == [op |-> q.op, id |-> q.id, tid |-> t, rc |-> rc]

\* The value of `call` while no thread is in emcute.
NoCall == [op |-> "NONE", id |-> 0, tid |-> 0, rep |-> 0]

EmcuteTypeOK ==
  /\ port \in BOOLEAN
  /\ txlock \in BOOLEAN
  /\ call \in Requests \cup {NoCall}
  /\ ret \in Codes \cup {"none"}
  /\ idNext \in Ids \ {0}
  /\ topicId \in Topics
  /\ up \subseteq Requests
  /\ down \subseteq Answers
  /\ gwSession \in BOOLEAN
  /\ gwTopic \in Topics
  /\ delivered \subseteq Reports
  /\ healed \in BOOLEAN

EmcuteInit ==
  /\ port = FALSE /\ txlock = FALSE
  /\ call = NoCall /\ ret = "none"
  /\ idNext = 1 /\ topicId = 0
  /\ up = {} /\ down = {}
  /\ gwSession = FALSE /\ gwTopic = 0
  /\ delivered = {} /\ healed = FALSE

-----------------------------------------------------------------------------
(* The calls, made in the caller's thread.                                 *)

\* Sending m into the datagrams in flight: a full network drops another one.
Into(flight, m) ==
  IF Cardinality(flight \cup {m}) <= NetCap
  THEN {flight \cup {m}}
  ELSE {(flight \ {x}) \cup {m} : x \in flight \ {m}}

\* syncsend: send the request and wait.  The caller holds txlock meanwhile.
Syncsend(q) ==
  /\ call' = q
  /\ up' \in Into(up, q)
  /\ UNCHANGED <<ret, down>>

\* Mutant: message ids that do not wrap.
SyncsendIdNoWrap(op, tid, r) ==
  LET q == Request(op, idNext, tid, r) IN
  /\ call' = q
  /\ up' \in Into({m \in up : m.id # idNext}, q)
  /\ down' = {m \in down : m.id # idNext}
  /\ idNext' = idNext + 1
  /\ UNCHANGED ret

\* The same for a request with a fresh message id.  No datagram lives for a
\* whole cycle of ids, so none with this id is still in flight.
SyncsendId(op, tid, r) ==
  LET q == Request(op, idNext, tid, r) IN
  /\ call' = q
  /\ up' \in Into({m \in up : m.id # idNext}, q)
  /\ down' = {m \in down : m.id # idNext}
  /\ idNext' = IF idNext = IdMod THEN 1 ELSE idNext + 1
  /\ UNCHANGED ret

\* Mutant: a connect that does not look whether a session is open.
EmcuteConReopens ==
  /\ ~txlock
  /\ txlock' = TRUE
  /\ port' = TRUE
  /\ Syncsend(Request("CONNECT", 0, 0, 0))
  /\ UNCHANGED <<idNext, topicId, gwSession, gwTopic, delivered, healed>>

\* emcute_con(&gw, true, ...).  A session that is already open makes it return
\* EMCUTE_NOGW at once, and on that path it does not release txlock.
EmcuteCon ==
  /\ ~txlock
  /\ txlock' = TRUE
  /\ port' = TRUE
  /\ IF port
     THEN /\ ret' = "NOGW"
          /\ UNCHANGED <<call, up, down>>
     ELSE Syncsend(Request("CONNECT", 0, 0, 0))
  /\ UNCHANGED <<idNext, topicId, gwSession, gwTopic, delivered, healed>>

\* emcute_reg(topic) and emcute_pub(topic, ...) need an open session.
WithSession(op, tid, r) ==
  /\ IF port
     THEN /\ ~txlock
          /\ txlock' = TRUE
          /\ SyncsendId(op, tid, r)
     ELSE /\ ret' = "NOGW"
          /\ UNCHANGED <<txlock, call, idNext, up, down>>
  /\ UNCHANGED <<port, topicId, gwSession, gwTopic, delivered, healed>>

EmcuteReg    == WithSession("REGISTER", 0, 0)
EmcutePub(r) == WithSession("PUBLISH", topicId, r)

\* emcute_discon().
EmcuteDiscon ==
  /\ IF port
     THEN /\ ~txlock
          /\ txlock' = TRUE
          /\ Syncsend(Request("DISCONNECT", 0, 0, 0))
     ELSE /\ ret' = "NOGW"
          /\ UNCHANGED <<txlock, call, up, down>>
  /\ UNCHANGED <<port, idNext, topicId, gwSession, gwTopic, delivered, healed>>

-----------------------------------------------------------------------------
(* The end of a call.                                                      *)

\* Mutant: a call that ends and keeps the mutex.
ReturnLocked(code) ==
  /\ ret' = code
  /\ call' = NoCall
  /\ port' = IF call.op = "CONNECT" THEN code = "OK"
             ELSE port /\ call.op # "DISCONNECT"
  /\ UNCHANGED <<txlock, idNext, up, gwSession, gwTopic, delivered, healed>>

\* A connection attempt that fails, and a disconnection that succeeds or times
\* out, leave the session closed; the other calls leave it as it is.
Return(code) ==
  /\ ret' = code
  /\ call' = NoCall
  /\ txlock' = FALSE
  /\ port' = IF call.op = "CONNECT" THEN code = "OK"
             ELSE port /\ call.op # "DISCONNECT"
  /\ UNCHANGED <<idNext, up, gwSession, gwTopic, delivered, healed>>

\* Mutant: answers are told apart by their kind alone.
AnswersOfKind(q) == {m \in down : m.op = q.op}

AnswersTo(q) == {m \in down : m.op = q.op /\ m.id = q.id}

\* emcute's receiver thread got the answer the caller waits for.
Answered ==
  /\ call # NoCall
  /\ \E m \in AnswersTo(call) :
       /\ Return(IF m.rc = "ACCEPT" THEN "OK" ELSE "REJECT")
       /\ down' = down \ {m}
       /\ topicId' = IF m.op = "REGISTER" /\ m.rc = "ACCEPT"
                     THEN m.tid ELSE topicId

\* No answer after the last repetition.  Once the network is healed this only
\* happens when the gateway has nothing to say.
TimedOut ==
  /\ call # NoCall
  /\ healed => call \notin up /\ AnswersTo(call) = {}
  /\ Return("TIMEOUT")
  /\ UNCHANGED <<topicId, down>>

-----------------------------------------------------------------------------
(* The gateway and the network.                                            *)

\* Request q reaches the gateway; a repeated or duplicated one stays in flight.
Arrives(q) ==
  /\ q \in up
  /\ up' \in {up \ {q}} \cup (IF healed THEN {} ELSE {up})
  /\ UNCHANGED <<libVars, healed>>

Reply(q, rc, t) == down' \in Into(down, Answer(q, rc, t))

\* The gateway refuses q, which it does not do to a client with a session once
\* it is up for good.
Refuses(q, may) ==
  /\ may \/ ~healed
  /\ Reply(q, "REJECT", 0)
  /\ UNCHANGED <<gwSession, gwTopic, delivered>>

\* The gateway ignores q.
Ignores(q, may) ==
  /\ may
  /\ UNCHANGED <<down, gwSession, gwTopic, delivered>>

\* A clean session forgets the topics registered before.
GwConnect(q) ==
  /\ q.op = "CONNECT"
  /\ Arrives(q)
  /\ \/ /\ gwSession' = TRUE /\ gwTopic' = 0
        /\ Reply(q, "ACCEPT", 0)
        /\ UNCHANGED delivered
     \/ Refuses(q, FALSE)

GwRegister(q) ==
  /\ q.op = "REGISTER"
  /\ Arrives(q)
  /\ \/ /\ gwSession
        /\ gwTopic' \in IF gwTopic = 0 THEN TopicIds ELSE {gwTopic}
        /\ Reply(q, "ACCEPT", gwTopic')
        /\ UNCHANGED <<gwSession, delivered>>
     \/ Refuses(q, ~gwSession)
     \/ Ignores(q, ~gwSession)

\* A report is passed on to the broker before it is acknowledged.
GwPublish(q) ==
  LET known == gwSession /\ gwTopic # 0 /\ q.tid = gwTopic IN
  /\ q.op = "PUBLISH"
  /\ Arrives(q)
  /\ \/ /\ known
        /\ delivered' = delivered \cup {q.rep}
        /\ Reply(q, "ACCEPT", 0)
        /\ UNCHANGED <<gwSession, gwTopic>>
     \/ Refuses(q, ~known)
     \/ Ignores(q, ~known)

GwDisconnect(q) ==
  /\ q.op = "DISCONNECT"
  /\ Arrives(q)
  /\ gwSession' = FALSE /\ gwTopic' = 0
  /\ Reply(q, "ACCEPT", 0)
  /\ UNCHANGED delivered

Gateway == \E q \in up : GwConnect(q) \/ GwRegister(q) \/ GwPublish(q) \/ GwDisconnect(q)

\* The gateway restarts, or lets the session expire.
GwForgets ==
  /\ ~healed /\ gwSession
  /\ gwSession' = FALSE /\ gwTopic' = 0
  /\ UNCHANGED <<libVars, up, down, delivered, healed>>

Lose ==
  /\ ~healed
  /\ \/ \E q \in up : up' = up \ {q} /\ UNCHANGED down
     \/ \E m \in down : down' = down \ {m} /\ UNCHANGED up
  /\ UNCHANGED <<libVars, gwSession, gwTopic, delivered, healed>>

\* The last fault is over, and the datagrams it held back have died out.
Heal ==
  /\ ~healed
  /\ healed' = TRUE
  /\ up' = {} /\ down' = {}
  /\ UNCHANGED <<libVars, gwSession, gwTopic, delivered>>

Environment == Answered \/ TimedOut \/ Gateway \/ GwForgets \/ Lose \/ Heal
=============================================================================

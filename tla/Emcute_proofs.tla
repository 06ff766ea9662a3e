--------------------------- MODULE Emcute_proofs ---------------------------
(***************************************************************************)
(* Lemmas about the library, the network and the gateway, for any thread   *)
(* that calls the library: the types they keep, what a call and its end do *)
(* to the session and the mutex, and what an acknowledgement needs.        *)
(***************************************************************************)
EXTENDS Emcute, TLAPS

-----------------------------------------------------------------------------
(* The operators the library's model is built from.                        *)

\* A send adds one datagram, and may cost another.
LEMMA IntoBounds ==
  ASSUME NEW S, NEW m, NEW T \in Into(S, m)
  PROVE  T \subseteq S \cup {m}
BY DEF Into

LEMMA Messages ==
  /\ \A op \in Ops, id \in Ids, t \in Topics, r \in Reports :
        Request(op, id, t, r) \in Requests
  /\ \A q \in Requests, rc \in {"ACCEPT", "REJECT"}, t \in Topics :
        Answer(q, rc, t) \in Answers
BY DEF Request, Requests, Answer, Answers

LEMMA SmallIds ==
  /\ 0 \in Ids /\ 0 \in Topics /\ 0 \in Reports
  /\ 1 \in Ids \ {0}
  /\ \A i \in Ids \ {0} : (IF i = IdMod THEN 1 ELSE i + 1) \in Ids \ {0}
  /\ \A r \in Reports : (IF r = MaxReport THEN MaxReport ELSE r + 1) \in Reports
BY EmcuteAssumption DEF Ids, Topics, Reports

-----------------------------------------------------------------------------
(* Type correctness.                                                       *)

LEMMA SyncsendType ==
  ASSUME EmcuteTypeOK, NEW q \in Requests, Syncsend(q)
  PROVE  /\ call' \in Requests /\ up' \subseteq Requests
         /\ down' \subseteq Answers /\ ret' = ret
<1>1. up' \subseteq up \cup {q}
  BY IntoBounds DEF Syncsend
<1> QED
  BY <1>1 DEF Syncsend, EmcuteTypeOK

LEMMA SyncsendIdType ==
  ASSUME EmcuteTypeOK, NEW op \in Ops, NEW t \in Topics, NEW r \in Reports,
         SyncsendId(op, t, r)
  PROVE  /\ call' \in Requests /\ up' \subseteq Requests
         /\ down' \subseteq Answers /\ ret' = ret /\ idNext' \in Ids \ {0}
<1> DEFINE q == Request(op, idNext, t, r)
<1>1. q \in Requests
  BY Messages DEF EmcuteTypeOK
<1>2. up' \subseteq {m \in up : m.id # idNext} \cup {q}
  BY IntoBounds DEF SyncsendId
<1>3. idNext' \in Ids \ {0}
  BY SmallIds DEF SyncsendId, EmcuteTypeOK
<1> QED
  BY <1>1, <1>2, <1>3 DEF SyncsendId, EmcuteTypeOK

LEMMA ConType ==
  ASSUME EmcuteTypeOK, EmcuteCon
  PROVE  EmcuteTypeOK'
<1>1. Request("CONNECT", 0, 0, 0) \in Requests
  BY Messages, SmallIds DEF Ops
<1>2. CASE port
  BY <1>2 DEF EmcuteCon, EmcuteTypeOK, Codes
<1>3. CASE ~port
  <2>1. Syncsend(Request("CONNECT", 0, 0, 0))
    BY <1>3 DEF EmcuteCon
  <2> QED
    BY <2>1, <1>1, <1>3, SyncsendType DEF EmcuteCon, EmcuteTypeOK
<1> QED
  BY <1>2, <1>3 DEF EmcuteTypeOK

LEMMA WithSessionType ==
  ASSUME EmcuteTypeOK, NEW op \in Ops, NEW t \in Topics, NEW r \in Reports,
         WithSession(op, t, r)
  PROVE  EmcuteTypeOK'
<1>1. CASE port
  <2>1. SyncsendId(op, t, r) /\ txlock' = TRUE
    BY <1>1 DEF WithSession
  <2> QED
    BY <2>1, SyncsendIdType DEF WithSession, EmcuteTypeOK
<1>2. CASE ~port
  BY <1>2 DEF WithSession, EmcuteTypeOK, Codes
<1> QED
  BY <1>1, <1>2 DEF EmcuteTypeOK

LEMMA DisconType ==
  ASSUME EmcuteTypeOK, EmcuteDiscon
  PROVE  EmcuteTypeOK'
<1>1. Request("DISCONNECT", 0, 0, 0) \in Requests
  BY Messages, SmallIds DEF Ops
<1>2. CASE ~port
  BY <1>2 DEF EmcuteDiscon, EmcuteTypeOK, Codes
<1>3. CASE port
  <2>1. Syncsend(Request("DISCONNECT", 0, 0, 0)) /\ txlock' = TRUE
    BY <1>3 DEF EmcuteDiscon
  <2> QED
    BY <2>1, <1>1, <1>3, SyncsendType DEF EmcuteDiscon, EmcuteTypeOK
<1> QED
  BY <1>2, <1>3 DEF EmcuteTypeOK

\* What the end of a call, the gateway and the network do keeps the types.
LEMMA EnvironmentType ==
  ASSUME EmcuteTypeOK, Environment
  PROVE  EmcuteTypeOK'
<1>1. ASSUME NEW code \in Codes, Return(code), down' \subseteq down,
             topicId' \in Topics
      PROVE  EmcuteTypeOK'
  <2>1. port' \in BOOLEAN
    BY <1>1 DEF Return, EmcuteTypeOK
  <2> QED
    BY <1>1, <2>1 DEF Return, EmcuteTypeOK
<1>2. CASE Answered
  <2>1. PICK m \in AnswersTo(call) :
          /\ Return(IF m.rc = "ACCEPT" THEN "OK" ELSE "REJECT")
          /\ down' = down \ {m}
          /\ topicId' = IF m.op = "REGISTER" /\ m.rc = "ACCEPT"
                        THEN m.tid ELSE topicId
    BY <1>2 DEF Answered
  <2>2. m \in Answers
    BY DEF AnswersTo, EmcuteTypeOK
  <2>3. topicId' \in Topics
    BY <2>1, <2>2 DEF Answers, EmcuteTypeOK
  <2> QED
    BY <1>1, <2>1, <2>3 DEF Codes
<1>3. CASE TimedOut
  BY <1>1, <1>3 DEF TimedOut, Codes, EmcuteTypeOK
<1>4. CASE Gateway
  <2>1. PICK q \in up : GwConnect(q) \/ GwRegister(q) \/ GwPublish(q) \/ GwDisconnect(q)
    BY <1>4 DEF Gateway
  <2>2. q \in Requests
    BY DEF EmcuteTypeOK
  <2>3. Arrives(q)
    BY <2>1 DEF GwConnect, GwRegister, GwPublish, GwDisconnect
  <2>4. up' \subseteq up /\ UNCHANGED <<libVars, healed>>
    BY <2>3 DEF Arrives
  <2>5. ASSUME NEW rc \in {"ACCEPT", "REJECT"}, NEW t \in Topics, Reply(q, rc, t)
        PROVE  down' \subseteq Answers
    BY <2>2, <2>5, IntoBounds, Messages DEF Reply, EmcuteTypeOK
  <2>6. /\ down' \subseteq Answers /\ gwSession' \in BOOLEAN
        /\ gwTopic' \in Topics /\ delivered' \subseteq Reports
    <3>1. CASE GwConnect(q)
      BY <3>1, <2>5, SmallIds DEF GwConnect, Refuses, EmcuteTypeOK
    <3>2. CASE GwRegister(q)
      <4>1. CASE /\ gwTopic' \in IF gwTopic = 0 THEN TopicIds ELSE {gwTopic}
                 /\ Reply(q, "ACCEPT", gwTopic')
                 /\ UNCHANGED <<gwSession, delivered>>
        <5>1. gwTopic' \in Topics
          BY <4>1 DEF Topics, EmcuteTypeOK
        <5> QED
          BY <4>1, <5>1, <2>5 DEF EmcuteTypeOK
      <4>2. CASE Refuses(q, ~gwSession) \/ Ignores(q, ~gwSession)
        BY <4>2, <2>5, SmallIds DEF Refuses, Ignores, EmcuteTypeOK
      <4> QED
        BY <3>2, <4>1, <4>2 DEF GwRegister
    <3>3. CASE GwPublish(q)
      <4>1. q.rep \in Reports
        BY <2>2 DEF Requests
      <4> QED
        BY <3>3, <4>1, <2>5, SmallIds DEF GwPublish, Refuses, Ignores, EmcuteTypeOK
    <3>4. CASE GwDisconnect(q)
      BY <3>4, <2>5, SmallIds DEF GwDisconnect, EmcuteTypeOK
    <3> QED
      BY <2>1, <3>1, <3>2, <3>3, <3>4
  <2> QED
    BY <2>4, <2>6 DEF EmcuteTypeOK, libVars
<1>5. CASE GwForgets
  BY <1>5, SmallIds DEF GwForgets, EmcuteTypeOK, libVars
<1>6. CASE Lose
  BY <1>6 DEF Lose, EmcuteTypeOK, libVars
<1>7. CASE Heal
  BY <1>7 DEF Heal, EmcuteTypeOK, libVars
<1> QED
  BY <1>2, <1>3, <1>4, <1>5, <1>6, <1>7 DEF Environment

-----------------------------------------------------------------------------
(* Calls and sessions.                                                     *)

\* The environment touches the library's variables only to end a call.
LEMMA EnvironmentEffect ==
  ASSUME Environment
  PROVE  \/ \E code \in {"OK", "REJECT", "TIMEOUT"} : call # NoCall /\ Return(code)
         \/ UNCHANGED libVars
<1>1. CASE Answered
  BY <1>1 DEF Answered
<1>2. CASE TimedOut
  BY <1>2 DEF TimedOut
<1>3. CASE Gateway
  BY <1>3 DEF Gateway, GwConnect, GwRegister, GwPublish, GwDisconnect, Arrives
<1>4. CASE GwForgets \/ Lose \/ Heal
  BY <1>4 DEF GwForgets, Lose, Heal
<1> QED
  BY <1>1, <1>2, <1>3, <1>4 DEF Environment

\* What the four calls do to the library, made as the thread makes them.
LEMMA RequestIsNoNoCall ==
  \A op \in Ops : \A id, t, r :
    Request(op, id, t, r) # NoCall /\ Request(op, id, t, r).op = op
BY DEF Request, NoCall, Ops

LEMMA ConCall ==
  ASSUME EmcuteCon, ~port
  PROVE  call' # NoCall /\ call'.op = "CONNECT" /\ ret' = ret /\ txlock' /\ port'
BY RequestIsNoNoCall DEF EmcuteCon, Syncsend, Ops

LEMMA WithSessionCall ==
  ASSUME NEW op \in Ops, NEW t, NEW r, WithSession(op, t, r), port
  PROVE  call' # NoCall /\ call'.op = op /\ ret' = ret /\ txlock' /\ port'
BY RequestIsNoNoCall DEF WithSession, SyncsendId

LEMMA DisconCall ==
  ASSUME EmcuteDiscon, port
  PROVE  call' # NoCall /\ call'.op = "DISCONNECT" /\ ret' = ret /\ txlock' /\ port'
BY RequestIsNoNoCall DEF EmcuteDiscon, Syncsend, Ops

-----------------------------------------------------------------------------
(* Reports and their acknowledgements.                                     *)

\* What the network and the gateway may do: deliver what was in flight, and
\* accept a publication only as they deliver it.
LEMMA EnvironmentNet ==
  ASSUME Environment
  PROVE  /\ up' \subseteq up
         /\ delivered \subseteq delivered'
         /\ \A r \in delivered' \ delivered : \E q \in up : q.op = "PUBLISH" /\ q.rep = r
         /\ \A m \in down' \ down : m.op = "PUBLISH" /\ m.rc = "ACCEPT" =>
              \E q \in up : q.op = "PUBLISH" /\ q.id = m.id /\ q.rep \in delivered'
<1>1. CASE Answered
  BY <1>1 DEF Answered, Return
<1>2. CASE TimedOut
  BY <1>2 DEF TimedOut, Return
<1>3. CASE GwForgets \/ Lose \/ Heal
  BY <1>3 DEF GwForgets, Lose, Heal
<1>4. CASE Gateway
  <2>1. PICK q \in up : GwConnect(q) \/ GwRegister(q) \/ GwPublish(q) \/ GwDisconnect(q)
    BY <1>4 DEF Gateway
  <2>2. up' \subseteq up
    BY <2>1 DEF GwConnect, GwRegister, GwPublish, GwDisconnect, Arrives
  <2>3. ASSUME NEW rc, NEW t, Reply(q, rc, t)
        PROVE  \A m \in down' \ down : m.op = q.op /\ m.id = q.id /\ m.rc = rc
    BY <2>3, IntoBounds DEF Reply, Answer
  <2>4. CASE q.op # "PUBLISH"
    <3>1. delivered' = delivered
      BY <2>1, <2>4 DEF GwConnect, GwRegister, GwPublish, GwDisconnect, Refuses, Ignores
    <3>2. \A m \in down' \ down : m.op = q.op
      BY <2>1, <2>3, <2>4 DEF GwConnect, GwRegister, GwPublish, GwDisconnect, Refuses, Ignores
    <3> QED
      BY <2>2, <2>4, <3>1, <3>2
  <2>5. CASE GwPublish(q)
    <3>1. CASE delivered' = delivered \cup {q.rep} /\ Reply(q, "ACCEPT", 0)
      BY <2>2, <2>3, <2>5, <3>1 DEF GwPublish
    <3>2. CASE Refuses(q, ~(gwSession /\ gwTopic # 0 /\ q.tid = gwTopic))
      BY <2>2, <2>3, <3>2 DEF Refuses
    <3>3. CASE Ignores(q, ~(gwSession /\ gwTopic # 0 /\ q.tid = gwTopic))
      BY <2>2, <3>3 DEF Ignores
    <3> QED
      BY <2>5, <3>1, <3>2, <3>3 DEF GwPublish
  <2> QED
    BY <2>1, <2>4, <2>5 DEF GwConnect, GwRegister, GwDisconnect
<1> QED
  BY <1>1, <1>2, <1>3, <1>4 DEF Environment

\* A publication that ends well was answered by an answer with its id.
LEMMA EnvironmentOk ==
  ASSUME Environment, ret = "none", ret' = "OK"
  PROVE  \E m \in down : m.op = call.op /\ m.id = call.id /\ m.rc = "ACCEPT"
<1>1. CASE Answered
  BY <1>1 DEF Answered, AnswersTo, Return
<1>2. CASE TimedOut
  BY <1>2 DEF TimedOut, Return
<1>3. CASE Gateway
  BY <1>3 DEF Gateway, GwConnect, GwRegister, GwPublish, GwDisconnect, Arrives, libVars
<1>4. CASE GwForgets \/ Lose \/ Heal
  BY <1>4 DEF GwForgets, Lose, Heal, libVars
<1> QED
  BY <1>1, <1>2, <1>3, <1>4 DEF Environment

\* A request with a fresh id leaves nothing else with that id in flight.
LEMMA FreshId ==
  ASSUME NEW op, NEW t, NEW r, SyncsendId(op, t, r)
  PROVE  /\ call'.id = idNext /\ call'.rep = r /\ call'.op = op
         /\ \A q \in up' : q \in up \/ q = call'
         /\ \A q \in up' : q.id = idNext => q = call'
         /\ \A m \in down' : m \in down /\ m.id # idNext
<1>1. up' \subseteq {m \in up : m.id # idNext} \cup {Request(op, idNext, t, r)}
  BY IntoBounds DEF SyncsendId
<1> QED
  BY <1>1 DEF SyncsendId, Request

LEMMA EnvironmentDelivers ==
  ASSUME Environment
  PROVE  \/ delivered' = delivered
         \/ \E q \in up : q.op = "PUBLISH" /\ delivered' = delivered \cup {q.rep}
<1>1. CASE Answered \/ TimedOut
  BY <1>1 DEF Answered, TimedOut, Return
<1>2. CASE Gateway
  BY <1>2 DEF Gateway, GwConnect, GwRegister, GwPublish, GwDisconnect, Refuses, Ignores
<1>3. CASE GwForgets \/ Lose \/ Heal
  BY <1>3 DEF GwForgets, Lose, Heal
<1> QED
  BY <1>1, <1>2, <1>3 DEF Environment
=============================================================================

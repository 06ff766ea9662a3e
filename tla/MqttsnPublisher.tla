--------------------------- MODULE MqttsnPublisher ---------------------------
(***************************************************************************)
(* The publisher thread of mqttsn_publisher.c: a three-state machine       *)
(* (NOT_CONNECTED, CONNECTED, PUBLISHING) that connects to the MQTT-SN     *)
(* gateway, registers its topic, and publishes one sensor report per turn  *)
(* of its loop; every failure sends it back to NOT_CONNECTED.              *)
(*                                                                         *)
(* The thread blocks in four places, the emcute calls, so one turn of the  *)
(* loop is the steps between those calls.  `pc` says where the thread is:  *)
(*   switch   at the head of the loop;                                     *)
(*   con, reg, pub, discon   inside that emcute call;                      *)
(*   failed   at the call of mqpub_reset;                                  *)
(*   sleep    in xtimer_sleep.                                             *)
(***************************************************************************)
EXTENDS Emcute

CONSTANTS
  CountMod,         \* the statistics are counted modulo CountMod (2^16)
  STATE_INTERVAL,   \* MQPUB_STATE_INTERVAL, in seconds
  PUBLISH_INTERVAL  \* MQTTSN_PUBLISH_INTERVAL, in seconds

ASSUME PublisherAssumption ==
  /\ CountMod \in Nat \ {0}
  /\ STATE_INTERVAL \in Nat \ {0}
  /\ PUBLISH_INTERVAL \in Nat \ {0}

VARIABLES
  pc,         \* where the thread is
  state,      \* the state of the machine
  sleepsecs,  \* how long the loop sleeps next
  stats,      \* mqttsn_stats
  rep,        \* history: the number of the report made last, up to MaxReport
  acked       \* history: the reports mqpub_pub counted in publish_ok

thVars == <<pc, state, sleepsecs, stats, rep, acked>>
vars   == <<thVars, emVars>>

States   == {"NOT_CONNECTED", "CONNECTED", "PUBLISHING"}
Calls    == {"con", "reg", "pub", "discon"}
Places   == Calls \cup {"switch", "failed", "sleep"}
Counters == {"connect_ok", "connect_fail", "register_ok", "register_fail",
             "publish_ok", "publish_fail", "reset"}

TypeOK ==
  /\ EmcuteTypeOK
  /\ pc \in Places
  /\ state \in States
  /\ sleepsecs \in {STATE_INTERVAL, PUBLISH_INTERVAL}
  /\ stats \in [Counters -> 0..CountMod - 1]
  /\ rep \in Reports
  /\ acked \subseteq Reports

Init ==
  /\ EmcuteInit
  /\ pc = "switch"
  /\ state = "NOT_CONNECTED"
  /\ sleepsecs = STATE_INTERVAL
  /\ stats = [c \in Counters |-> 0]
  /\ rep = 0
  /\ acked = {}

\* Mutant: a counter that does not wrap.
Plus1NoWrap(n) == n + 1

\* `mqttsn_stats.c += 1` on a uint16_t.
Plus1(n) == IF n = CountMod - 1 THEN 0 ELSE n + 1
Count(c) == stats' = [stats EXCEPT ![c] = Plus1(@)]

\* The emcute call the thread was in has returned.
Returned == call = NoCall /\ ret # "none"
Consume  == /\ ret' = "none"
            /\ UNCHANGED <<port, txlock, call, idNext, topicId, netVars>>

-----------------------------------------------------------------------------
(* NOT_CONNECTED: mqpub_con.                                               *)

\* _resolve_v6addr fails: no counter moves, and the loop sleeps.  The lookups
\* are part of what heals.
Unresolved ==
  /\ pc = "switch" /\ state = "NOT_CONNECTED"
  /\ ~healed
  /\ pc' = "sleep"
  /\ UNCHANGED <<state, sleepsecs, stats, rep, acked, emVars>>

Connect ==
  /\ pc = "switch" /\ state = "NOT_CONNECTED"
  /\ pc' = "con"
  /\ EmcuteCon
  /\ UNCHANGED <<state, sleepsecs, stats, rep, acked>>

\* Mutant: a failed connection, too, is tried `again` without a sleep.
ConReturnAgain ==
  /\ pc = "con" /\ Returned
  /\ IF ret = "OK"
     THEN Count("connect_ok") /\ state' = "CONNECTED" /\ pc' = "sleep"
     ELSE Count("connect_fail") /\ pc' = "switch" /\ UNCHANGED state
  /\ Consume
  /\ UNCHANGED <<sleepsecs, rep, acked>>

ConReturn ==
  /\ pc = "con" /\ Returned
  /\ IF ret = "OK"
     THEN Count("connect_ok") /\ state' = "CONNECTED"
     ELSE Count("connect_fail") /\ UNCHANGED state
  /\ pc' = "sleep"
  /\ Consume
  /\ UNCHANGED <<sleepsecs, rep, acked>>

-----------------------------------------------------------------------------
(* CONNECTED: mqpub_reg, and mqpub_reset when it fails.                    *)

Register ==
  /\ pc = "switch" /\ state = "CONNECTED"
  /\ pc' = "reg"
  /\ EmcuteReg
  /\ UNCHANGED <<state, sleepsecs, stats, rep, acked>>

RegOk ==
  /\ pc = "reg" /\ Returned /\ ret = "OK"
  /\ Count("register_ok")
  /\ state' = "PUBLISHING"
  /\ pc' = "sleep"
  /\ Consume
  /\ UNCHANGED <<sleepsecs, rep, acked>>

\* A failed emcute_reg or emcute_pub is counted, and mqpub_reset called.
FailAndReset(c) ==
  /\ Returned /\ ret # "OK"
  /\ Count(c)
  /\ pc' = "failed"
  /\ Consume
  /\ UNCHANGED <<state, sleepsecs, rep, acked>>

\* Mutant: a failed registration falls back without mqpub_reset.
RegFailNoReset ==
  /\ pc = "reg" /\ Returned /\ ret # "OK"
  /\ Count("register_fail")
  /\ state' = "NOT_CONNECTED" /\ pc' = "sleep"
  /\ Consume
  /\ UNCHANGED <<sleepsecs, rep, acked>>

\* Mutant: a failed registration is tried again in the same session.
RegFailRetries ==
  /\ pc = "reg" /\ Returned /\ ret # "OK"
  /\ Count("register_fail")
  /\ pc' = "sleep"
  /\ Consume
  /\ UNCHANGED <<state, sleepsecs, rep, acked>>

RegFail == pc = "reg" /\ FailAndReset("register_fail")

-----------------------------------------------------------------------------
(* PUBLISHING: makereport, mqpub_pub, and mqpub_reset when it fails.       *)

\* The number of the report after the last one.
NextReport == IF rep = MaxReport THEN MaxReport ELSE rep + 1

\* Mutant: the buffer is published before the new report is made.
PublishStale ==
  /\ pc = "switch" /\ state = "PUBLISHING"
  /\ EmcutePub(rep)
  /\ rep' = NextReport
  /\ pc' = "pub"
  /\ UNCHANGED <<state, sleepsecs, stats, acked>>

Publish ==
  /\ pc = "switch" /\ state = "PUBLISHING"
  /\ rep' = NextReport
  /\ pc' = "pub"
  /\ EmcutePub(rep')
  /\ UNCHANGED <<state, sleepsecs, stats, acked>>

\* Mutant: mqpub_pub does not look at what emcute_pub returned.
PubOkUnchecked ==
  /\ pc = "pub" /\ Returned
  /\ Count("publish_ok")
  /\ acked' = acked \cup {rep}
  /\ sleepsecs' = PUBLISH_INTERVAL
  /\ pc' = "sleep"
  /\ Consume
  /\ UNCHANGED <<state, rep>>

PubOk ==
  /\ pc = "pub" /\ Returned /\ ret = "OK"
  /\ Count("publish_ok")
  /\ acked' = acked \cup {rep}
  /\ sleepsecs' = PUBLISH_INTERVAL
  /\ pc' = "sleep"
  /\ Consume
  /\ UNCHANGED <<state, rep>>

\* Mutant: a failed publication is counted, and the session kept.
PubFailIgnored ==
  /\ pc = "pub" /\ Returned /\ ret # "OK"
  /\ Count("publish_fail")
  /\ pc' = "sleep"
  /\ Consume
  /\ UNCHANGED <<state, sleepsecs, rep, acked>>

PubFail == pc = "pub" /\ FailAndReset("publish_fail")

-----------------------------------------------------------------------------
(* mqpub_reset, and what its two callers do after it.                      *)

Disconnect ==
  /\ pc = "failed"
  /\ pc' = "discon"
  /\ EmcuteDiscon
  /\ UNCHANGED <<state, sleepsecs, stats, rep, acked>>

\* Mutant: after a failed publication `break` in the place of `goto again`.
ResetWithoutAgain ==
  /\ pc = "discon" /\ Returned
  /\ Count("reset")
  /\ state' = "NOT_CONNECTED" /\ pc' = "sleep"
  /\ Consume
  /\ UNCHANGED <<sleepsecs, rep, acked>>

\* Mutant: only a reset whose disconnection succeeded is counted.
ResetCountedIfOk ==
  /\ pc = "discon" /\ Returned
  /\ IF ret = "OK" THEN Count("reset") ELSE UNCHANGED stats
  /\ state' = "NOT_CONNECTED"
  /\ IF state = "PUBLISHING"
     THEN sleepsecs' = STATE_INTERVAL /\ pc' = "switch"
     ELSE pc' = "sleep" /\ UNCHANGED sleepsecs
  /\ Consume
  /\ UNCHANGED <<rep, acked>>

\* Whatever emcute_discon returned, the reset is counted and the machine is
\* NOT_CONNECTED.  After a failed registration the loop sleeps; after a failed
\* publication `goto again` restarts it at once.
Reset ==
  /\ pc = "discon" /\ Returned
  /\ Count("reset")
  /\ state' = "NOT_CONNECTED"
  /\ IF state = "PUBLISHING"
     THEN sleepsecs' = STATE_INTERVAL /\ pc' = "switch"
     ELSE pc' = "sleep" /\ UNCHANGED sleepsecs
  /\ Consume
  /\ UNCHANGED <<rep, acked>>

\* xtimer_sleep returns.
Wake ==
  /\ pc = "sleep"
  /\ pc' = "switch"
  /\ UNCHANGED <<state, sleepsecs, stats, rep, acked, emVars>>

-----------------------------------------------------------------------------
Thread ==
  \/ Unresolved \/ Connect \/ ConReturn
  \/ Register \/ RegOk \/ RegFail
  \/ Publish \/ PubOk \/ PubFail
  \/ Disconnect \/ Reset
  \/ Wake

Outside == Environment /\ UNCHANGED thVars

Next == Thread \/ Outside

Spec == Init /\ [][Next]_vars

\* The scheduler runs the thread when it can run, a call ends after its last
\* repetition at the latest, the gateway handles what arrives.
Fairness ==
  /\ WF_vars(Thread)
  /\ WF_vars((Answered \/ TimedOut) /\ UNCHANGED thVars)
  /\ WF_vars(Gateway /\ UNCHANGED thVars)

FairSpec == Spec /\ Fairness

\* The same in a network whose faults end some day.
HealingSpec == FairSpec /\ WF_vars(Heal /\ UNCHANGED thVars)

-----------------------------------------------------------------------------
(* Safety.                                                                 *)

\* The machine and the library agree on whether a session is open whenever the
\* thread is not in a call, no call is ever made in the wrong session state
\* (EMCUTE_NOGW), and no call is made while the transmit mutex is held: a
\* connect in an open session would return with the mutex locked for good.
SessionDiscipline ==
  /\ pc \in {"switch", "sleep"} => (port <=> state # "NOT_CONNECTED")
  /\ pc \notin Calls => ~txlock
  /\ ret # "NOGW"

\* Equal modulo CountMod, for a and b that are less than two CountMods apart.
SameCount(a, b) == a = b \/ a = b + CountMod \/ b = a + CountMod

Resetting == pc \in {"failed", "discon"}

\* The seven counters of mqttsn_stats tell one story, whatever has wrapped: all
\* sessions but the open one were reset, all registrations but the current one
\* ended in a failed publication, and every failure was followed by one reset.
StatsBalance ==
  /\ stats["connect_ok"] = IF state = "NOT_CONNECTED"
                           THEN stats["reset"] ELSE Plus1(stats["reset"])
  /\ stats["register_ok"] = IF state = "PUBLISHING" /\ ~Resetting
                            THEN Plus1(stats["publish_fail"])
                            ELSE stats["publish_fail"]
  /\ SameCount(stats["register_fail"] + stats["publish_fail"],
               stats["reset"] + IF Resetting THEN 1 ELSE 0)

\* A report counted in publish_ok was passed on by the gateway: an answer to an
\* earlier publication, lost session or other request is never taken for it.
AckedDelivered == acked \subseteq delivered

\* Outside PUBLISHING the loop polls at the short interval, also after it fell
\* back from PUBLISHING.
ShortIntervalUntilPublishing ==
  state # "PUBLISHING" => sleepsecs = STATE_INTERVAL

(* The inductive invariant behind them.                                    *)

\* The request each place of the thread waits for.
OpOf == [con |-> "CONNECT", reg |-> "REGISTER", pub |-> "PUBLISH", discon |-> "DISCONNECT"]

\* A call is in progress, or has returned, or the thread is elsewhere.
Waiting == call # NoCall
Over    == call = NoCall /\ ret # "none"
Away    == call = NoCall /\ ret = "none"

CallInv ==
  /\ pc \in Calls => \/ Waiting /\ call.op = OpOf[pc] /\ ret = "none" /\ txlock
                     \/ Over /\ ret # "NOGW" /\ ~txlock
  /\ pc \notin Calls => Away /\ ~txlock

SessionInv ==
  /\ pc \in {"switch", "sleep"} => (port <=> state # "NOT_CONNECTED")
  /\ pc = "con" => state = "NOT_CONNECTED" /\ (port <=> Waiting \/ ret = "OK")
  /\ pc = "reg" => state = "CONNECTED" /\ port
  /\ pc = "pub" => state = "PUBLISHING" /\ port
  /\ pc \in {"failed", "discon"} => state # "NOT_CONNECTED"
  /\ pc = "failed" => port
  /\ pc = "discon" => (port <=> Waiting)

\* An answer in flight, or a request still under way, that bears the id of the
\* publication in progress belongs to that publication.
AckInv ==
  /\ AckedDelivered
  /\ pc = "pub" /\ Waiting =>
       /\ call.rep = rep
       /\ \A q \in up : q.op = "PUBLISH" /\ q.id = call.id => q.rep = rep
       /\ \A m \in down : m.op = "PUBLISH" /\ m.id = call.id /\ m.rc = "ACCEPT"
                            => rep \in delivered
  /\ pc = "pub" /\ Over /\ ret = "OK" => rep \in delivered

\* Nothing is published, or in flight to be published, that was not made.
MadeInv ==
  /\ delivered \subseteq 1..rep
  /\ \A q \in up : q.op = "PUBLISH" => q.rep \in 1..rep

\* All of these: the steps of every actor preserve their conjunction, which says
\* at each place what is open, locked, in flight, delivered and acknowledged.
IInv == TypeOK /\ CallInv /\ SessionInv /\ AckInv /\ MadeInv

(* Refinement.                                                             *)

Rep == INSTANCE Reporter
         WITH made <- rep, offered <- pc = "pub", confirmed <- acked

\* The thread, the library, the network and the gateway together keep the
\* promise of Reporter: no report is confirmed that was not passed on, none is
\* passed on that was not made, and one is offered at a time.
ImplementsReporter == Rep!RSpec

(* Liveness.                                                               *)

\* The thread never gets stuck in a call, and never goes round through `goto again`
\* without sleeping, also if the faults of network and gateway never end: under
\* FairSpec, which makes neither Heal nor any answer happen.
KeepsTurning == []<>(pc = "sleep")

\* Once the faults end the machine is PUBLISHING for good: it notices a session
\* the gateway lost, and no leftover of an old session throws it out again.
Recovers == <>[](state = "PUBLISHING")

\* And it keeps publishing: reports go on being acknowledged.
KeepsPublishing == []<><<PubOk>>_vars
=============================================================================

------------------------------- MODULE OneShot -------------------------------
(***************************************************************************)
(* mqpub_pubtopic of mqttsn_publisher.c, the "one-stop" call: connect,     *)
(* register the topic, publish one report, disconnect.  An application     *)
(* thread calls it again and again; the network and the gateway are those  *)
(* of Emcute.                                                              *)
(***************************************************************************)
EXTENDS Emcute

VARIABLES
  at,      \* "idle" outside the call, else the emcute call the thread is in
  rep,     \* the number of the report the call publishes
  result,  \* what the call returned last: "none", "ok" or "failed"
  failedAt \* history: the step at which the last call gave up, or "none"

shVars == <<at, rep, result, failedAt>>
vars   == <<shVars, emVars>>

Steps  == {"con", "reg", "pub", "discon"}   \* in a call
Places == Steps \cup {"idle", "register", "publish", "reset"}

TypeOK ==
  /\ EmcuteTypeOK
  /\ at \in Places
  /\ rep \in Reports
  /\ result \in {"none", "ok", "failed"}
  /\ failedAt \in Steps \cup {"none"}

Init ==
  /\ EmcuteInit
  /\ at = "idle" /\ rep = 0
  /\ result = "none" /\ failedAt = "none"

Returned == call = NoCall /\ ret # "none"
Consume  == /\ ret' = "none"
            /\ UNCHANGED <<port, txlock, call, idNext, topicId, netVars>>

\* mqpub_pubtopic is entered, and calls mqpub_con: a host name that does not
\* resolve ends it at once.
Unresolved ==
  /\ at = "idle"
  /\ result' = "failed" /\ failedAt' = "con"
  /\ UNCHANGED <<at, rep, emVars>>

Enter ==
  /\ at = "idle"
  /\ at' = "con"
  /\ rep' = IF rep = MaxReport THEN MaxReport ELSE rep + 1
  /\ result' = "none" /\ failedAt' = "none"
  /\ EmcuteCon

\* Mutant: a failed connection is followed by mqpub_reset.
GiveUpResets(step) ==
  /\ at = step /\ Returned /\ ret # "OK"
  /\ result' = "failed" /\ failedAt' = step
  /\ at' = IF step = "con" THEN "reset" ELSE "idle"
  /\ Consume
  /\ UNCHANGED rep

\* A call before the publication failed: return res.
GiveUp(step) ==
  /\ at = step /\ Returned /\ ret # "OK"
  /\ result' = "failed" /\ failedAt' = step
  /\ at' = "idle"
  /\ Consume
  /\ UNCHANGED rep

\* It succeeded: go on to the next call.  (A return value is consumed as the
\* next call is made, in a step of its own.)
Succeeded(step) == at = step /\ Returned /\ ret = "OK"

Advance(step, next) ==
  /\ Succeeded(step)
  /\ at' = next
  /\ Consume
  /\ UNCHANGED <<rep, result, failedAt>>

Connected  == Advance("con", "register")
Registered == Advance("reg", "publish")

Register ==
  /\ at = "register" /\ at' = "reg"
  /\ EmcuteReg
  /\ UNCHANGED <<rep, result, failedAt>>

Publish ==
  /\ at = "publish" /\ at' = "pub"
  /\ EmcutePub(rep)
  /\ UNCHANGED <<rep, result, failedAt>>

\* Mutant: a failed publication returns before mqpub_reset.
PublishedNoReset ==
  /\ at = "pub" /\ Returned
  /\ at' = IF ret = "OK" THEN "reset" ELSE "idle"
  /\ result' = IF ret = "OK" THEN "ok" ELSE "failed"
  /\ failedAt' = IF ret = "OK" THEN "none" ELSE "pub"
  /\ Consume
  /\ UNCHANGED rep

\* mqpub_pub returned; its result is that of the call, after mqpub_reset.
Published ==
  /\ at = "pub" /\ Returned
  /\ at' = "reset"
  /\ result' = IF ret = "OK" THEN "ok" ELSE "failed"
  /\ failedAt' = IF ret = "OK" THEN "none" ELSE "pub"
  /\ Consume
  /\ UNCHANGED rep

Disconnect ==
  /\ at = "reset" /\ at' = "discon"
  /\ EmcuteDiscon
  /\ UNCHANGED <<rep, result, failedAt>>

\* Mutant: the result of mqpub_reset is returned in the place of mqpub_pub's.
LeaveWithReset ==
  /\ at = "discon" /\ Returned
  /\ at' = "idle"
  /\ result' = IF ret = "OK" THEN "ok" ELSE "failed"
  /\ Consume
  /\ UNCHANGED <<rep, failedAt>>

Leave ==
  /\ at = "discon" /\ Returned
  /\ at' = "idle"
  /\ Consume
  /\ UNCHANGED <<rep, result, failedAt>>

\* The steps of a call that has been entered.
InCall ==
  \/ GiveUp("con") \/ GiveUp("reg")
  \/ Connected \/ Register \/ Registered \/ Publish \/ Published
  \/ Disconnect \/ Leave

Caller == Unresolved \/ Enter \/ InCall

Next == Caller \/ (Environment /\ UNCHANGED shVars)

Spec == Init /\ [][Next]_vars

\* The application calls again and again and its host name resolves now and then; a
\* call takes its steps, and ends after emcute's last repetition at the latest.
Fairness ==
  /\ WF_vars(Enter)
  /\ WF_vars(InCall)
  /\ WF_vars((Answered \/ TimedOut) /\ UNCHANGED shVars)
  /\ WF_vars(Gateway /\ UNCHANGED shVars)

FairSpec == Spec /\ Fairness

-----------------------------------------------------------------------------
\* "connect, register topic, publish and disconnect": every call closes its
\* session but one whose registration failed, or a later one that ran into the
\* session it left open.
OpenOnlyAfterRegFail ==
  at = "idle" /\ port => failedAt \in {"reg", "con"}

\* A session left open is never closed again: every later call fails at its
\* connection, and never gets as far as the mqpub_reset that would close it.
LeftOpenForever ==
  [](at = "idle" /\ port => [](port /\ result # "ok" /\ at \in {"idle", "con"}))

\* It costs the application its library: one more call returns, refused, and leaves
\* the mutex locked; the one after that never gets into emcute_con.
SecondCallBlocks == (at = "idle" /\ port) ~> [](at = "idle" /\ txlock)

\* A call that returns 0 has handed its report to the broker.
OkMeansDelivered == at = "idle" /\ result = "ok" => rep \in delivered

-----------------------------------------------------------------------------
(* What holds at each place of the call.                                   *)

Waiting == call # NoCall
Away    == call = NoCall /\ ret = "none"
OpOf    == [con |-> "CONNECT", reg |-> "REGISTER", pub |-> "PUBLISH", discon |-> "DISCONNECT"]

\* A connection that found an open session: refused, and the mutex kept.
Refused == Returned /\ ret = "NOGW" /\ txlock /\ port

\* In an emcute call the mutex is held, after it released, but for Refused; outside
\* it is free, but for what Refused has left behind.
CallInv ==
  /\ at \in Steps => \/ Waiting /\ call.op = OpOf[at] /\ ret = "none" /\ txlock
                     \/ Returned /\ ret # "NOGW" /\ ~txlock
                     \/ at = "con" /\ Refused
  /\ at \notin Steps => Away
  /\ at \in {"register", "publish", "reset"} => ~txlock
  /\ at = "idle" /\ txlock => port

\* Between calls a session is open only after the failures that leave it so.
SessionInv ==
  /\ at = "con" => (port <=> Waiting \/ ret \in {"OK", "NOGW"})
  /\ at \in {"register", "reg", "publish", "pub", "reset"} => port
  /\ at = "discon" => (port <=> Waiting)
  /\ at = "idle" /\ port => failedAt \in {"reg", "con"} /\ result = "failed"

\* An answer in flight, or a request under way, with the id of the publication in
\* progress belongs to it.
AckInv ==
  /\ at \in {"con", "register", "reg", "publish", "pub"} => result = "none"
  /\ result = "ok" => rep \in delivered
  /\ at = "pub" /\ Waiting =>
       /\ call.rep = rep
       /\ \A q \in up : q.op = "PUBLISH" /\ q.id = call.id => q.rep = rep
       /\ \A m \in down : m.op = "PUBLISH" /\ m.id = call.id /\ m.rc = "ACCEPT"
                            => rep \in delivered
  /\ at = "pub" /\ Returned /\ ret = "OK" => rep \in delivered

ShotInv == CallInv /\ SessionInv /\ AckInv
=============================================================================

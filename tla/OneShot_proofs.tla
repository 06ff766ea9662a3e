--------------------------- MODULE OneShot_proofs ---------------------------
(***************************************************************************)
(* Theorems about mqpub_pubtopic called again and again, for every number  *)
(* of message ids, topic ids, reports and datagrams in flight.             *)
(***************************************************************************)
EXTENDS OneShot, Emcute_proofs

-----------------------------------------------------------------------------
(* Type correctness.                                                       *)

LEMMA InitType == Init => TypeOK
<1> SUFFICES ASSUME Init PROVE TypeOK
  OBVIOUS
<1>1. EmcuteTypeOK
  BY SmallIds DEF Init, EmcuteInit, EmcuteTypeOK
<1> QED
  BY <1>1, SmallIds DEF Init, TypeOK, Places

LEMMA ConsumeType ==
  ASSUME EmcuteTypeOK, Consume
  PROVE  EmcuteTypeOK'
BY DEF Consume, EmcuteTypeOK, netVars, Codes

LEMMA StepType == TypeOK /\ [Next]_vars => TypeOK'
<1> SUFFICES ASSUME TypeOK, [Next]_vars PROVE TypeOK'
  OBVIOUS
<1> USE DEF TypeOK, Places, Steps
<1>1. CASE Unresolved \/ UNCHANGED vars
  BY <1>1 DEF Unresolved, vars, shVars, emVars, libVars, netVars, EmcuteTypeOK
<1>2. CASE Enter
  BY <1>2, ConType, SmallIds DEF Enter
<1>3. CASE GiveUp("con") \/ GiveUp("reg")
  BY <1>3, ConsumeType DEF GiveUp
<1>4. CASE Connected \/ Registered
  BY <1>4, ConsumeType DEF Connected, Registered, Advance, Succeeded
<1>5. CASE Register
  BY <1>5, WithSessionType, SmallIds DEF Register, EmcuteReg, Ops
<1>6. CASE Publish
  <2>1. EmcuteTypeOK'
    BY <1>6, WithSessionType DEF Publish, EmcutePub, Ops, EmcuteTypeOK
  <2> QED
    BY <1>6, <2>1 DEF Publish
<1>7. CASE Published
  BY <1>7, ConsumeType DEF Published
<1>8. CASE Disconnect
  BY <1>8, DisconType DEF Disconnect
<1>9. CASE Leave
  BY <1>9, ConsumeType DEF Leave
<1>10. CASE Environment /\ UNCHANGED shVars
  BY <1>10, EnvironmentType DEF shVars
<1> QED
  BY <1>1, <1>2, <1>3, <1>4, <1>5, <1>6, <1>7, <1>8, <1>9, <1>10 DEF Next, Caller, InCall

\* The variables of the caller, the library, the network and the gateway only ever
\* hold values of their kinds.
THEOREM TypeCorrect == Spec => []TypeOK
BY InitType, StepType, PTL DEF Spec

-----------------------------------------------------------------------------
(* Calls and sessions.                                                     *)

LEMMA InitCall == Init => CallInv /\ SessionInv
BY DEF Init, EmcuteInit, CallInv, SessionInv, Steps, Away

\* A connection with a session open is refused at once.
LEMMA ConRefused ==
  ASSUME EmcuteCon, port
  PROVE  call' = call /\ ret' = "NOGW" /\ txlock' /\ port'
BY DEF EmcuteCon

LEMMA StepCall ==
  TypeOK /\ CallInv /\ SessionInv /\ [Next]_vars => CallInv' /\ SessionInv'
<1> SUFFICES ASSUME TypeOK, CallInv, SessionInv, [Next]_vars
             PROVE  CallInv' /\ SessionInv'
  OBVIOUS
<1> USE DEF CallInv, SessionInv, Steps, Waiting, Returned, Away, Refused, OpOf
<1>1. CASE Unresolved \/ UNCHANGED vars
  BY <1>1 DEF Unresolved, vars, shVars, emVars, libVars
<1>2. CASE Enter
  <2>1. at = "idle" /\ at' = "con" /\ Away /\ EmcuteCon
    BY <1>2 DEF Enter
  <2>2. CASE port
    BY <2>1, <2>2, ConRefused
  <2>3. CASE ~port
    BY <2>1, <2>3, ConCall
  <2> QED
    BY <2>2, <2>3
<1>3. CASE GiveUp("con")
  BY <1>3 DEF GiveUp, Consume
<1>4. CASE GiveUp("reg")
  BY <1>4 DEF GiveUp, Consume
<1>5. CASE Connected \/ Registered
  BY <1>5 DEF Connected, Registered, Advance, Succeeded, Consume
<1>6. CASE Register
  BY <1>6, WithSessionCall DEF Register, EmcuteReg, Ops
<1>7. CASE Publish
  BY <1>7, WithSessionCall DEF Publish, EmcutePub, Ops
<1>8. CASE Published
  BY <1>8 DEF Published, Consume
<1>9. CASE Disconnect
  BY <1>9, DisconCall DEF Disconnect
<1>10. CASE Leave
  BY <1>10 DEF Leave, Consume
<1>11. CASE Environment /\ UNCHANGED shVars
  <2>1. CASE UNCHANGED libVars
    BY <1>11, <2>1 DEF libVars, shVars
  <2>2. CASE \E code \in {"OK", "REJECT", "TIMEOUT"} : call # NoCall /\ Return(code)
    <3>1. PICK code \in {"OK", "REJECT", "TIMEOUT"} : call # NoCall /\ Return(code)
      BY <2>2
    <3>2. at \in Steps /\ call.op = OpOf[at] /\ UNCHANGED <<at, result, failedAt>>
      BY <1>11, <3>1 DEF shVars
    <3>3. /\ call' = NoCall /\ ret' = code /\ ~txlock'
          /\ call.op = "CONNECT" => (port' <=> code = "OK")
          /\ call.op = "DISCONNECT" => ~port'
          /\ call.op \in {"REGISTER", "PUBLISH"} => (port' <=> port)
      BY <3>1 DEF Return
    <3> QED
      BY <3>1, <3>2, <3>3
  <2> QED
    BY <1>11, <2>1, <2>2, EnvironmentEffect
<1> QED
  BY <1>1, <1>2, <1>3, <1>4, <1>5, <1>6, <1>7, <1>8, <1>9, <1>10, <1>11
     DEF Next, Caller, InCall

LEMMA CallsAndSessions == Spec => [](TypeOK /\ CallInv /\ SessionInv)
BY InitType, InitCall, StepType, StepCall, PTL DEF Spec

\* mqpub_pubtopic leaves a session open only when its registration failed, or when it
\* ran into a session that an earlier call left open.
THEOREM SessionsLeftOpen == Spec => []OpenOnlyAfterRegFail
<1>1. SessionInv => OpenOnlyAfterRegFail
  BY DEF SessionInv, OpenOnlyAfterRegFail
<1> QED
  BY <1>1, CallsAndSessions, PTL

-----------------------------------------------------------------------------
(* The session that is left open.                                          *)

\* From the end of the call that left its session open: no call gets past its
\* connection.
Stuck == port /\ result # "ok" /\ (at = "idle" \/ (at = "con" /\ Refused))

LEMMA StepStuck == CallInv /\ Stuck /\ [Next]_vars => Stuck'
<1> SUFFICES ASSUME CallInv, Stuck, [Next]_vars PROVE Stuck'
  OBVIOUS
<1> USE DEF CallInv, Stuck, Steps, Waiting, Returned, Away, Refused
<1>1. CASE Unresolved \/ UNCHANGED vars
  BY <1>1 DEF Unresolved, vars, shVars, emVars, libVars
<1>2. CASE Enter
  BY <1>2, ConRefused DEF Enter
<1>3. CASE GiveUp("con") \/ GiveUp("reg")
  BY <1>3 DEF GiveUp, Consume
<1>4. CASE Connected \/ Registered
  BY <1>4 DEF Connected, Registered, Advance, Succeeded
<1>5. CASE Register \/ Publish \/ Published \/ Disconnect \/ Leave
  BY <1>5 DEF Register, Publish, Published, Disconnect, Leave
<1>6. CASE Environment /\ UNCHANGED shVars
  <2>1. UNCHANGED libVars
    BY <1>6, EnvironmentEffect
  <2> QED
    BY <1>6, <2>1 DEF libVars, shVars
<1> QED
  BY <1>1, <1>2, <1>3, <1>4, <1>5, <1>6 DEF Next, Caller, InCall

\* A session that a call has left open stays open, no later call succeeds, and none
\* gets past its connection.
THEOREM OpenForEver == Spec => LeftOpenForever
<1>1. SessionInv /\ at = "idle" /\ port => Stuck
  BY DEF SessionInv, Stuck
<1>2. Stuck => port /\ result # "ok" /\ at \in {"idle", "con"}
  BY DEF Stuck
<1> QED
  BY <1>1, <1>2, StepStuck, CallsAndSessions, PTL DEF Spec, LeftOpenForever

-----------------------------------------------------------------------------
(* What success means.                                                     *)

LEMMA InitAck == Init => AckInv
BY DEF Init, AckInv

LEMMA StepAck ==
  TypeOK /\ CallInv /\ SessionInv /\ AckInv /\ [Next]_vars => AckInv'
<1> SUFFICES ASSUME TypeOK, CallInv, SessionInv, AckInv, [Next]_vars
             PROVE  AckInv'
  OBVIOUS
<1> USE DEF AckInv
<1>1. CASE Unresolved \/ UNCHANGED vars
  BY <1>1 DEF Unresolved, vars, shVars, emVars, libVars, netVars, Waiting, Returned
<1>2. CASE Enter \/ Register \/ Disconnect
  BY <1>2 DEF Enter, Register, Disconnect, EmcuteCon, EmcuteReg, WithSession, EmcuteDiscon
<1>3. CASE GiveUp("con") \/ GiveUp("reg")
  BY <1>3 DEF GiveUp, Consume, netVars
<1>4. CASE Connected \/ Registered
  BY <1>4 DEF Connected, Registered, Advance, Succeeded, Consume, netVars
<1>5. CASE Publish
  <2>1. port /\ at' = "pub" /\ result' = "none" /\ rep' = rep
    BY <1>5 DEF Publish, SessionInv
  <2>2. SyncsendId("PUBLISH", topicId, rep) /\ delivered' = delivered
    BY <1>5, <2>1 DEF Publish, EmcutePub, WithSession
  <2>3. ret' = "none"
    BY <1>5, <2>2 DEF Publish, CallInv, Steps, Away, SyncsendId
  <2> QED
    BY <2>1, <2>2, <2>3, FreshId DEF Returned
<1>6. CASE Published
  BY <1>6 DEF Published, Consume, netVars
<1>7. CASE Leave
  BY <1>7 DEF Leave, Consume, netVars
<1>8. CASE Environment /\ UNCHANGED shVars
  <2>1. Environment /\ UNCHANGED <<at, rep, result>>
    BY <1>8 DEF shVars
  <2>2. /\ at' \in {"con", "register", "reg", "publish", "pub"} => result' = "none"
        /\ result' = "ok" => rep' \in delivered'
    BY <2>1, EnvironmentNet
  <2>3. CASE UNCHANGED libVars
    <3>1. UNCHANGED <<call, ret>>
      BY <2>3 DEF libVars
    <3>2. ASSUME at = "pub", Waiting, NEW m \in down', m.op = "PUBLISH",
                 m.id = call.id, m.rc = "ACCEPT"
          PROVE  rep \in delivered'
      BY <2>1, <3>2, EnvironmentNet
    <3>3. (\A q \in up' : q \in up) /\ delivered \subseteq delivered'
      BY <2>1, EnvironmentNet
    <3> QED
      BY <2>1, <2>2, <3>1, <3>2, <3>3 DEF Waiting, Returned
  <2>4. CASE \E code \in {"OK", "REJECT", "TIMEOUT"} : call # NoCall /\ Return(code)
    <3>1. call # NoCall /\ call' = NoCall /\ delivered' = delivered
      BY <2>4 DEF Return
    <3>2. ASSUME at = "pub", ret' = "OK"
          PROVE  rep \in delivered
      <4>1. Waiting /\ call.op = "PUBLISH" /\ ret = "none"
        BY <3>1, <3>2 DEF CallInv, Steps, Waiting, Returned, Refused, OpOf
      <4>2. PICK m \in down : m.op = call.op /\ m.id = call.id /\ m.rc = "ACCEPT"
        BY <2>1, <3>2, <4>1, EnvironmentOk
      <4> QED
        BY <3>2, <4>1, <4>2
    <3> QED
      BY <2>1, <2>2, <3>1, <3>2 DEF Waiting, Returned
  <2> QED
    BY <2>1, <2>3, <2>4, EnvironmentEffect
<1> QED
  BY <1>1, <1>2, <1>3, <1>4, <1>5, <1>6, <1>7, <1>8 DEF Next, Caller, InCall

\* The inductive invariant behind the theorems of this module.
THEOREM InductiveInvariant == Spec => [](TypeOK /\ ShotInv)
<1>1. Init => TypeOK /\ ShotInv
  BY InitType, InitCall, InitAck DEF ShotInv
<1>2. TypeOK /\ ShotInv /\ [Next]_vars => TypeOK' /\ ShotInv'
  BY StepType, StepCall, StepAck DEF ShotInv
<1> QED
  BY <1>1, <1>2, PTL DEF Spec

\* A call of mqpub_pubtopic that returns 0 has handed its report to the broker,
\* whatever the network does and whatever earlier calls have left in flight.
THEOREM SuccessIsDelivery == Spec => []OkMeansDelivered
<1>1. ShotInv => OkMeansDelivered
  BY DEF ShotInv, AckInv, OkMeansDelivered
<1> QED
  BY <1>1, InductiveInvariant, PTL
=============================================================================

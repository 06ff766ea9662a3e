----------------------- MODULE MqttsnPublisher_proofs -----------------------
(***************************************************************************)
(* Theorems about the publisher thread, for every number of message ids,   *)
(* topic ids, reports, datagrams in flight and every counter width.        *)
(***************************************************************************)
EXTENDS MqttsnPublisher, Emcute_proofs

-----------------------------------------------------------------------------
(* Type correctness.                                                       *)

LEMMA SmallNumbers ==
  /\ 0 \in 0..CountMod - 1
  /\ \A n \in 0..CountMod - 1 : Plus1(n) \in 0..CountMod - 1
BY PublisherAssumption DEF Plus1

LEMMA InitType == Init => TypeOK
<1> SUFFICES ASSUME Init PROVE TypeOK
  OBVIOUS
<1>1. EmcuteTypeOK
  BY SmallNumbers, SmallIds DEF Init, EmcuteInit, EmcuteTypeOK
<1>2. stats \in [Counters -> 0..CountMod - 1]
  BY SmallNumbers, SmallIds DEF Init
<1> QED
  BY <1>1, <1>2, SmallNumbers, SmallIds DEF Init, TypeOK, Places, Calls, States

LEMMA CountType ==
  ASSUME TypeOK, NEW c \in Counters, Count(c)
  PROVE  stats' \in [Counters -> 0..CountMod - 1]
BY SmallNumbers, SmallIds DEF TypeOK, Count

LEMMA ConsumeType ==
  ASSUME EmcuteTypeOK, Consume
  PROVE  EmcuteTypeOK'
BY DEF Consume, EmcuteTypeOK, netVars, Codes

LEMMA StepType == TypeOK /\ [Next]_vars => TypeOK'
<1> SUFFICES ASSUME TypeOK, [Next]_vars PROVE TypeOK'
  OBVIOUS
<1> USE DEF TypeOK, Places, Calls, States
<1>1. CASE Unresolved
  BY <1>1 DEF Unresolved, emVars, libVars, netVars, EmcuteTypeOK
<1>2. CASE Connect
  BY <1>2, ConType DEF Connect
<1>3. CASE ConReturn
  <2>1. stats' \in [Counters -> 0..CountMod - 1]
    BY <1>3, CountType DEF ConReturn, Counters
  <2> QED
    BY <1>3, <2>1, ConsumeType DEF ConReturn
<1>4. CASE Register
  BY <1>4, WithSessionType, SmallNumbers, SmallIds DEF Register, EmcuteReg, Ops
<1>5. CASE RegOk
  BY <1>5, CountType, ConsumeType DEF RegOk, Counters
<1>6. CASE RegFail
  BY <1>6, CountType, ConsumeType DEF RegFail, FailAndReset, Counters
<1>7. CASE Publish
  <2>1. rep' \in Reports
    BY <1>7, SmallNumbers, SmallIds DEF Publish, NextReport
  <2>2. EmcuteTypeOK'
    BY <1>7, <2>1, WithSessionType DEF Publish, EmcutePub, Ops, EmcuteTypeOK
  <2> QED
    BY <1>7, <2>1, <2>2 DEF Publish
<1>8. CASE PubOk
  BY <1>8, CountType, ConsumeType DEF PubOk, Counters
<1>9. CASE PubFail
  BY <1>9, CountType, ConsumeType DEF PubFail, FailAndReset, Counters
<1>10. CASE Disconnect
  BY <1>10, DisconType DEF Disconnect
<1>11. CASE Reset
  BY <1>11, CountType, ConsumeType DEF Reset, Counters
<1>12. CASE Wake
  BY <1>12 DEF Wake, emVars, libVars, netVars, EmcuteTypeOK
<1>13. CASE Outside
  BY <1>13, EnvironmentType DEF Outside, thVars
<1>14. CASE UNCHANGED vars
  BY <1>14 DEF vars, thVars, emVars, libVars, netVars, EmcuteTypeOK
<1> QED
  BY <1>1, <1>2, <1>3, <1>4, <1>5, <1>6, <1>7, <1>8, <1>9, <1>10, <1>11,
     <1>12, <1>13, <1>14 DEF Next, Thread

\* The variables of the thread, the library, the network and the gateway only
\* ever hold values of their kinds.
THEOREM TypeCorrect == Spec => []TypeOK
BY InitType, StepType, PTL DEF Spec

-----------------------------------------------------------------------------
(* Calls and sessions.                                                     *)

LEMMA InitCall == Init => CallInv /\ SessionInv
BY DEF Init, EmcuteInit, CallInv, SessionInv, Calls, Away

LEMMA StepCall ==
  TypeOK /\ CallInv /\ SessionInv /\ [Next]_vars => CallInv' /\ SessionInv'
<1> SUFFICES ASSUME TypeOK, CallInv, SessionInv, [Next]_vars
             PROVE  CallInv' /\ SessionInv'
  OBVIOUS
<1> USE DEF CallInv, SessionInv, Calls, Waiting, Over, Away, OpOf
<1>1. CASE Unresolved \/ Wake \/ UNCHANGED vars
  BY <1>1 DEF Unresolved, Wake, vars, thVars, emVars, libVars
<1>2. CASE Connect
  BY <1>2, ConCall DEF Connect
<1>3. CASE Register
  BY <1>3, WithSessionCall DEF Register, EmcuteReg, Ops
<1>4. CASE Publish
  BY <1>4, WithSessionCall DEF Publish, EmcutePub, Ops
<1>5. CASE Disconnect
  BY <1>5, DisconCall DEF Disconnect
<1>6. CASE ConReturn
  BY <1>6 DEF ConReturn, Returned, Consume
<1>7. CASE RegOk \/ RegFail \/ PubOk \/ PubFail
  BY <1>7 DEF RegOk, RegFail, PubOk, PubFail, FailAndReset, Returned, Consume
<1>8. CASE Reset
  BY <1>8 DEF Reset, Returned, Consume
<1>9. CASE Outside
  <2>1. Environment /\ UNCHANGED thVars
    BY <1>9 DEF Outside
  <2>2. CASE UNCHANGED libVars
    BY <2>1, <2>2 DEF libVars, thVars
  <2>3. CASE \E code \in {"OK", "REJECT", "TIMEOUT"} : call # NoCall /\ Return(code)
    <3>1. PICK code \in {"OK", "REJECT", "TIMEOUT"} : call # NoCall /\ Return(code)
      BY <2>3
    <3>2. pc \in Calls /\ call.op = OpOf[pc] /\ UNCHANGED <<pc, state>>
      BY <2>1, <3>1 DEF thVars
    <3>3. /\ call' = NoCall /\ ret' = code /\ ~txlock'
          /\ call.op = "CONNECT" => (port' <=> code = "OK")
          /\ call.op = "DISCONNECT" => ~port'
          /\ call.op \in {"REGISTER", "PUBLISH"} => (port' <=> port)
      BY <3>1 DEF Return
    <3> QED
      BY <3>1, <3>2, <3>3
  <2> QED
    BY <2>1, <2>2, <2>3, EnvironmentEffect
<1> QED
  BY <1>1, <1>2, <1>3, <1>4, <1>5, <1>6, <1>7, <1>8, <1>9 DEF Next, Thread

LEMMA CallsAndSessions == Spec => [](TypeOK /\ CallInv /\ SessionInv)
BY InitType, InitCall, StepType, StepCall, PTL DEF Spec

\* Whatever the network loses, repeats or reorders and however often the gateway
\* forgets the node, the state machine's idea of the session is the library's,
\* no call finds the session in the wrong state, and the mutex is never leaked.
THEOREM SessionsDisciplined == Spec => []SessionDiscipline
<1>1. TypeOK /\ CallInv /\ SessionInv => SessionDiscipline
  BY DEF CallInv, SessionInv, SessionDiscipline, Calls, TypeOK, Places, Waiting, Over, Away
<1> QED
  BY <1>1, CallsAndSessions, PTL

-----------------------------------------------------------------------------
(* Reports and their acknowledgements.                                     *)

LEMMA InitAck == Init => AckInv /\ MadeInv
BY DEF Init, EmcuteInit, AckInv, AckedDelivered, MadeInv

LEMMA StepAck ==
  TypeOK /\ CallInv /\ SessionInv /\ AckInv /\ [Next]_vars => AckInv'
<1> SUFFICES ASSUME TypeOK, CallInv, SessionInv, AckInv, [Next]_vars
             PROVE  AckInv'
  OBVIOUS
<1> USE DEF AckInv, AckedDelivered
<1>1. CASE Unresolved \/ Wake \/ UNCHANGED vars
  BY <1>1 DEF Unresolved, Wake, vars, thVars, emVars, libVars, netVars, Waiting, Over
<1>2. CASE Connect \/ Register \/ Disconnect
  BY <1>2 DEF Connect, Register, Disconnect, EmcuteCon, EmcuteReg, WithSession, EmcuteDiscon
<1>3. CASE Publish
  <2>1. port /\ pc' = "pub" /\ acked' = acked
    BY <1>3 DEF Publish, SessionInv
  <2>2. SyncsendId("PUBLISH", topicId, rep') /\ delivered' = delivered
    BY <1>3, <2>1 DEF Publish, EmcutePub, WithSession
  <2>3. ret' = "none"
    BY <1>3, <2>2 DEF Publish, CallInv, Calls, Away, SyncsendId
  <2> QED
    BY <2>1, <2>2, <2>3, FreshId DEF Over
<1>4. CASE ConReturn \/ RegOk \/ RegFail \/ PubFail \/ Reset
  BY <1>4 DEF ConReturn, RegOk, RegFail, PubFail, FailAndReset, Reset, Consume, netVars
<1>5. CASE PubOk
  BY <1>5 DEF PubOk, Returned, Consume, netVars, Over
<1>6. CASE Outside
  <2>1. Environment /\ UNCHANGED <<pc, rep, acked>>
    BY <1>6 DEF Outside, thVars
  <2>2. AckedDelivered'
    BY <2>1, EnvironmentNet
  <2>3. CASE UNCHANGED libVars
    <3>1. UNCHANGED <<call, ret>>
      BY <2>3 DEF libVars
    <3>2. ASSUME pc = "pub", Waiting, NEW m \in down', m.op = "PUBLISH",
                 m.id = call.id, m.rc = "ACCEPT"
          PROVE  rep \in delivered'
      BY <2>1, <3>2, EnvironmentNet
    <3>3. \A q \in up' : q \in up
      BY <2>1, EnvironmentNet
    <3>4. delivered \subseteq delivered'
      BY <2>1, EnvironmentNet
    <3> QED
      BY <2>1, <2>2, <3>1, <3>2, <3>3, <3>4 DEF Waiting, Over
  <2>4. CASE \E code \in {"OK", "REJECT", "TIMEOUT"} : call # NoCall /\ Return(code)
    <3>1. call # NoCall /\ call' = NoCall /\ delivered' = delivered
      BY <2>4 DEF Return
    <3>2. ASSUME pc = "pub", ret' = "OK"
          PROVE  rep \in delivered
      <4>1. Waiting /\ call.op = "PUBLISH" /\ ret = "none"
        BY <3>1, <3>2 DEF CallInv, Calls, Waiting, Over, OpOf
      <4>2. PICK m \in down : m.op = call.op /\ m.id = call.id /\ m.rc = "ACCEPT"
        BY <2>1, <3>2, <4>1, EnvironmentOk
      <4> QED
        BY <3>2, <4>1, <4>2
    <3> QED
      BY <2>1, <2>2, <3>1, <3>2 DEF Waiting, Over
  <2> QED
    BY <2>1, <2>3, <2>4, EnvironmentEffect
<1> QED
  BY <1>1, <1>2, <1>3, <1>4, <1>5, <1>6 DEF Next, Thread

LEMMA Acknowledgements == Spec => []AckInv
BY InitType, InitCall, InitAck, StepType, StepCall, StepAck, PTL DEF Spec

\* For every number of ids and of datagrams in flight: publish_ok counts only
\* reports that the gateway really passed on.
THEOREM AckedAreDelivered == Spec => []AckedDelivered
<1>1. AckInv => AckedDelivered
  BY DEF AckInv
<1> QED
  BY <1>1, Acknowledgements, PTL

-----------------------------------------------------------------------------
(* The promise of Reporter.                                                *)

LEMMA StepMade == TypeOK /\ SessionInv /\ MadeInv /\ [Next]_vars => MadeInv'
<1> SUFFICES ASSUME TypeOK, SessionInv, MadeInv, [Next]_vars PROVE MadeInv'
  OBVIOUS
<1> USE DEF MadeInv
<1>1. CASE Unresolved \/ Wake \/ UNCHANGED vars
  BY <1>1 DEF Unresolved, Wake, vars, thVars, emVars, libVars, netVars
<1>2. CASE ConReturn \/ RegOk \/ RegFail \/ PubOk \/ PubFail \/ Reset
  BY <1>2 DEF ConReturn, RegOk, RegFail, PubOk, PubFail, FailAndReset, Reset, Consume, netVars
<1>3. CASE Connect \/ Disconnect
  <2>1. \A q \in up' : q \in up \/ q.op \in {"CONNECT", "DISCONNECT"}
    BY <1>3, IntoBounds DEF Connect, Disconnect, EmcuteCon, EmcuteDiscon, Syncsend, Request
  <2>2. UNCHANGED <<rep, delivered>>
    BY <1>3 DEF Connect, Disconnect, EmcuteCon, EmcuteDiscon
  <2> QED
    BY <2>1, <2>2
<1>4. CASE Register
  <2>1. port /\ UNCHANGED <<rep, delivered>>
    BY <1>4 DEF Register, EmcuteReg, WithSession, SessionInv
  <2>2. SyncsendId("REGISTER", 0, 0)
    BY <1>4, <2>1 DEF Register, EmcuteReg, WithSession
  <2> QED
    BY <2>1, <2>2, FreshId
<1>5. CASE Publish
  <2>1. port /\ rep' = NextReport /\ delivered' = delivered
    BY <1>5 DEF Publish, EmcutePub, WithSession, SessionInv
  <2>2. SyncsendId("PUBLISH", topicId, rep')
    BY <1>5, <2>1 DEF Publish, EmcutePub, WithSession
  <2>3. rep' \in Nat \ {0} /\ rep \in Nat /\ rep <= rep'
    BY <2>1, EmcuteAssumption DEF NextReport, TypeOK, Reports
  <2> QED
    BY <2>1, <2>2, <2>3, FreshId
<1>6. CASE Outside
  BY <1>6, EnvironmentNet, EnvironmentDelivers DEF Outside, thVars
<1> QED
  BY <1>1, <1>2, <1>3, <1>4, <1>5, <1>6 DEF Next, Thread

\* The invariant that makes the four theorems about requests and reports inductive.
THEOREM InductiveInvariant == Spec => []IInv
<1>1. Init => IInv
  BY InitType, InitCall, InitAck DEF IInv
<1>2. IInv /\ [Next]_vars => IInv'
  BY StepType, StepCall, StepAck, StepMade DEF IInv
<1> QED
  BY <1>1, <1>2, PTL DEF Spec

LEMMA StepReporter == IInv /\ [Next]_vars => [Rep!RNext]_(Rep!rvars)
<1> SUFFICES ASSUME IInv, [Next]_vars PROVE [Rep!RNext]_(Rep!rvars)
  OBVIOUS
<1> USE DEF Rep!RNext, Rep!rvars
<1>1. CASE Unresolved \/ Wake \/ UNCHANGED vars
  BY <1>1 DEF Unresolved, Wake, vars, thVars, emVars, netVars
<1>2. CASE Connect \/ Register \/ Disconnect
  BY <1>2 DEF Connect, Register, Disconnect, EmcuteCon, EmcuteReg, WithSession, EmcuteDiscon
<1>3. CASE ConReturn \/ RegOk \/ RegFail \/ Reset
  BY <1>3 DEF ConReturn, RegOk, RegFail, FailAndReset, Reset, Consume, netVars
<1>4. CASE Publish
  <2>1. Rep!Make
    BY <1>4 DEF Publish, NextReport, EmcutePub, WithSession, Rep!Make
  <2> QED
    BY <2>1
<1>5. CASE PubOk
  <2>1. rep \in delivered
    BY <1>5 DEF PubOk, Returned, IInv, AckInv, Over
  <2>2. Rep!Confirm
    BY <1>5, <2>1 DEF PubOk, Consume, netVars, Rep!Confirm
  <2> QED
    BY <2>2
<1>6. CASE PubFail
  <2>1. Rep!GiveUp
    BY <1>6 DEF PubFail, FailAndReset, Consume, netVars, Rep!GiveUp
  <2> QED
    BY <2>1
<1>7. CASE Outside
  <2>1. Environment /\ UNCHANGED <<pc, rep, acked>>
    BY <1>7 DEF Outside, thVars
  <2>2. CASE delivered' = delivered
    BY <2>1, <2>2
  <2>3. CASE \E q \in up : q.op = "PUBLISH" /\ delivered' = delivered \cup {q.rep}
    <3>1. Rep!Deliver
      BY <2>1, <2>3 DEF Rep!Deliver, Rep!PassOn, IInv, MadeInv
    <3> QED
      BY <3>1
  <2> QED
    BY <2>1, <2>2, <2>3, EnvironmentDelivers
<1> QED
  BY <1>1, <1>2, <1>3, <1>4, <1>5, <1>6, <1>7 DEF Next, Thread

\* The publisher implements Reporter: seen through the reports alone, whatever
\* the thread, the library, the network and the gateway do is one of the four
\* steps of Reporter or none.
THEOREM PublisherImplementsReporter == Spec => ImplementsReporter
<1>1. Init => Rep!RInit
  BY DEF Init, EmcuteInit, Rep!RInit
<1> QED
  BY <1>1, InductiveInvariant, StepReporter, PTL DEF Spec, ImplementsReporter, Rep!RSpec

-----------------------------------------------------------------------------
(* The statistics.                                                         *)

\* The counters when none, or exactly one, of them was counted.
LEMMA CountOne ==
  ASSUME TypeOK, NEW c \in Counters, Count(c)
  PROVE  /\ stats'[c] = Plus1(stats[c])
         /\ \A d \in Counters \ {c} : stats'[d] = stats[d]
BY DEF TypeOK, Count

LEMMA StepBalance == TypeOK /\ CallInv /\ SessionInv /\ StatsBalance /\ [Next]_vars => StatsBalance'
<1> SUFFICES ASSUME TypeOK, CallInv, SessionInv, StatsBalance, [Next]_vars
             PROVE  StatsBalance'
  OBVIOUS
<1> USE PublisherAssumption DEF StatsBalance, SameCount, Resetting
<1>1. CASE Unresolved \/ Connect \/ Register \/ Publish \/ Wake \/ UNCHANGED vars
  BY <1>1 DEF Unresolved, Connect, Register, Publish, Wake, vars, thVars
<1>2. CASE Disconnect \/ Outside
  BY <1>2 DEF Disconnect, Outside, thVars
<1>3. \A c \in Counters : stats[c] \in 0..CountMod - 1
  BY DEF TypeOK
<1>4. CASE ConReturn
  <2>1. CASE ret = "OK"
    BY <1>4, <2>1, CountOne DEF ConReturn, Counters, SessionInv
  <2>2. CASE ret # "OK"
    BY <1>4, <2>2, CountOne DEF ConReturn, Counters, SessionInv
  <2> QED
    BY <2>1, <2>2
<1>5. CASE RegOk
  BY <1>5, CountOne DEF RegOk, Counters, SessionInv
<1>6. CASE RegFail
  BY <1>6, <1>3, CountOne DEF RegFail, FailAndReset, Counters, SessionInv, Plus1
<1>7. CASE PubOk
  BY <1>7, CountOne DEF PubOk, Counters, SessionInv
<1>8. CASE PubFail
  BY <1>8, <1>3, CountOne DEF PubFail, FailAndReset, Counters, SessionInv, Plus1
<1>9. CASE Reset
  <2>1. stats'["reset"] = Plus1(stats["reset"]) /\ \A d \in Counters \ {"reset"} : stats'[d] = stats[d]
    BY <1>9, CountOne DEF Reset, Counters
  <2>2. /\ stats'["reset"] = Plus1(stats["reset"])
        /\ stats'["connect_ok"] = stats["connect_ok"]
        /\ stats'["register_ok"] = stats["register_ok"]
        /\ stats'["register_fail"] = stats["register_fail"]
        /\ stats'["publish_fail"] = stats["publish_fail"]
    BY <2>1 DEF Counters
  <2>3. Resetting /\ ~Resetting' /\ state # "NOT_CONNECTED" /\ state' = "NOT_CONNECTED"
    BY <1>9 DEF Reset, SessionInv
  <2>4. /\ stats["register_fail"] \in 0..CountMod - 1
        /\ stats["publish_fail"] \in 0..CountMod - 1
        /\ stats["reset"] \in 0..CountMod - 1
    BY <1>3 DEF Counters
  <2>5. SameCount(stats["register_fail"] + stats["publish_fail"], Plus1(stats["reset"]))
    BY <2>3, <2>4 DEF Plus1
  <2>6. stats["connect_ok"] = Plus1(stats["reset"]) /\ stats["register_ok"] = stats["publish_fail"]
    BY <2>3
  <2>7. Plus1(stats["reset"]) + 0 = Plus1(stats["reset"])
    BY <2>4 DEF Plus1
  <2> QED
    BY <2>2, <2>3, <2>5, <2>6, <2>7
<1> QED
  BY <1>1, <1>2, <1>4, <1>5, <1>6, <1>7, <1>8, <1>9 DEF Next, Thread

\* For every width of the counters, before and after any of them wraps.
THEOREM StatisticsBalance == Spec => []StatsBalance
<1>1. Init => StatsBalance
  BY SmallNumbers, PublisherAssumption
     DEF Init, StatsBalance, SameCount, Resetting, Counters
<1>2. TypeOK /\ CallInv /\ SessionInv /\ StatsBalance /\ [Next]_vars => StatsBalance'
  BY StepBalance
<1> QED
  BY <1>1, <1>2, CallsAndSessions, PTL DEF Spec

\* The interval goes back to the short one whenever PUBLISHING is left.
THEOREM ShortIntervals == Spec => []ShortIntervalUntilPublishing
<1>1. Init => ShortIntervalUntilPublishing
  BY DEF Init, ShortIntervalUntilPublishing
<1>2. TypeOK /\ SessionInv /\ ShortIntervalUntilPublishing /\ [Next]_vars
        => ShortIntervalUntilPublishing'
  BY DEF ShortIntervalUntilPublishing, Next, Thread, Unresolved, Connect, ConReturn,
         Register, RegOk, RegFail, Publish, PubOk, PubFail, FailAndReset, Disconnect,
         Reset, Wake, Outside, vars, thVars, SessionInv, TypeOK, States
<1> QED
  BY <1>1, <1>2, CallsAndSessions, PTL DEF Spec
=============================================================================

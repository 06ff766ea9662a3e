-------------------------- MODULE MailAlert_proofs --------------------------
(***************************************************************************)
(* Theorems about the way from the broker to the database and the mail     *)
(* alert, for any number of reports, messages and entries in a window.     *)
(***************************************************************************)
EXTENDS MailAlert, TLAPS

LEMMA SeqWiden ==
  ASSUME NEW S, NEW T, S \subseteq T, NEW s \in Seq(S)
  PROVE  s \in Seq(T)
OBVIOUS

LEMMA SeqPrefix ==
  ASSUME NEW S, NEW s \in Seq(S), NEW k \in 0..Len(s)
  PROVE  /\ SubSeq(s, 1, k) \in Seq(S) /\ Len(SubSeq(s, 1, k)) = k
         /\ \A i \in 1..k : SubSeq(s, 1, k)[i] = s[i]
OBVIOUS

LEMMA SeqAppend ==
  ASSUME NEW S, NEW s \in Seq(S), NEW e \in S
  PROVE  /\ Append(s, e) \in Seq(S) /\ Len(Append(s, e)) = Len(s) + 1
         /\ \A i \in 1..Len(s) : Append(s, e)[i] = s[i]
         /\ Append(s, e)[Len(s) + 1] = e
OBVIOUS

LEMMA SeqTail ==
  ASSUME NEW S, NEW s \in Seq(S), s # <<>>
  PROVE  /\ Head(s) = s[1] /\ Head(s) \in S
         /\ Tail(s) \in Seq(S) /\ Len(Tail(s)) = Len(s) - 1 /\ Len(s) > 0
         /\ \A i \in 1..Len(Tail(s)) : Tail(s)[i] = s[i + 1]
OBVIOUS
-----------------------------------------------------------------------------
(* The actions, without the variables of the others.                       *)

\* What a step of the whole is for the subscriber and what it reads.
SubStep ==
  \/ UNCHANGED subVars
  \/ \E r \in 1..made : Publish(r)
  \/ BrokerSubscribes \/ Disconnected \/ Heal
  \/ Run \/ Subscribe \/ Reconnect \/ OnMessage \/ Posted \/ PostFails \/ Stop

LEMMA StepIsSubStep == [Next]_vars => SubStep
BY DEF Next, vars, SubNext, Program, SubStep

MadeInv == made \in 0..MaxReport

\* What is under way is newer than what was stored, and in order.
Order ==
  /\ posting # 0 <=> proc = "post"
  /\ posting # 0 => Promise!Newest < posting
  /\ \A k \in 1..Len(inbox) : Promise!Newest < inbox[k] /\ posting < inbox[k]
  /\ \A j, k \in 1..Len(inbox) : j < k => inbox[j] < inbox[k]

LEMMA StepMade == MadeInv /\ [Next]_vars => MadeInv'
<1> USE SubscriberAssumption DEF MadeInv
<1> SUFFICES ASSUME MadeInv, [Next]_vars PROVE MadeInv'
  OBVIOUS
<1>1. CASE Make
  BY <1>1 DEF Make
<1>2. CASE Confirm \/ GiveUp \/ UNCHANGED rvars
  BY <1>2 DEF Confirm, GiveUp, rvars
<1>3. CASE \E r \in 1..made : Publish(r)
  BY <1>3 DEF Publish, PassOn
<1> QED
  BY <1>1, <1>2, <1>3 DEF Next, vars, SubNext, Node

\* Dies, Posted, PostFails and Stop store nothing but the message being posted.
LEMMA StoreType ==
  ASSUME SubTypeOK, posting \in Messages, db' \in {db, Append(db, posting)}
  PROVE  db' \in Seq(Messages)
BY SeqAppend DEF SubTypeOK

LEMMA StepSubType == MadeInv /\ SubTypeOK /\ Order /\ [Next]_vars => SubTypeOK'
<1> SUFFICES ASSUME MadeInv, SubTypeOK, Order, SubStep PROVE SubTypeOK'
  BY StepIsSubStep
<1> USE DEF Messages
<1>1. CASE UNCHANGED subVars
  BY <1>1 DEF SubTypeOK, subVars, programVars, connVars
<1>2. ASSUME NEW r \in 1..made, Publish(r) PROVE SubTypeOK'
  <2> DEFINE n == Len(passed)
  <2>1. r \in 1..MaxReport
    BY SubscriberAssumption DEF MadeInv
  <2>2. passed' \in Seq(1..MaxReport) /\ Len(passed') = n + 1 /\ n \in Nat
    BY <1>2, <2>1, SeqAppend DEF Publish, SubTypeOK
  <2>3. 1..n \subseteq 1..n + 1 /\ n + 1 \in 1..n + 1
    BY <2>2
  <2>4. inbox \in Seq(1..n + 1) /\ db \in Seq(1..n + 1)
    BY <2>3, SeqWiden DEF SubTypeOK
  <2>5. inbox' \in Seq(1..n + 1)
    BY <1>2, <2>3, <2>4, SeqAppend DEF Publish
  <2> QED
    BY <1>2, <2>2, <2>3, <2>4, <2>5 DEF Publish, programVars, SubTypeOK
<1>3. CASE BrokerSubscribes
  <2>1. Len(passed) \in 1..Len(passed) \cup {0}
    BY DEF SubTypeOK
  <2> QED
    BY <1>3, <2>1 DEF BrokerSubscribes, programVars, SubTypeOK
<1>4. CASE Disconnected
  <2>1. PICK k \in 0..Len(inbox) : inbox' = SubSeq(inbox, 1, k)
    BY <1>4 DEF Disconnected
  <2>2. inbox' \in Seq(1..Len(passed))
    BY <2>1, SeqPrefix DEF SubTypeOK
  <2> QED
    BY <1>4, <2>2 DEF Disconnected, programVars, SubTypeOK
<1>5. CASE Heal \/ Run \/ Subscribe \/ Reconnect
  BY <1>5 DEF Heal, Run, Subscribe, Reconnect, programVars, connVars, SubTypeOK
<1>6. CASE OnMessage
  <2>1. posting' \in 1..Len(passed) /\ inbox' \in Seq(1..Len(passed))
    BY <1>6, SeqTail DEF OnMessage, SubTypeOK
  <2> QED
    BY <1>6, <2>1 DEF OnMessage, SubTypeOK
<1>7. CASE Posted
  <2>1. db' \in Seq(1..Len(passed))
    BY <1>7, StoreType DEF Posted, Order, SubTypeOK
  <2> QED
    BY <1>7, <2>1 DEF Posted, connVars, SubTypeOK
<1>8. CASE PostFails \/ Stop
  <2>1. db' \in Seq(1..Len(passed))
    BY <1>8, StoreType DEF PostFails, Stop, Order, SubTypeOK
  <2>2. Dies /\ UNCHANGED <<passed, since, healed>>
    BY <1>8 DEF PostFails, Stop, Dies
  <2>3. <<>> \in Seq(1..Len(passed))
    OBVIOUS
  <2>4. since \in 1..Len(passed) \cup {0} /\ healed \in BOOLEAN /\ passed \in Seq(1..MaxReport)
    BY DEF SubTypeOK
  <2>5. Len(passed') = Len(passed)
    BY <2>2
  <2> QED
    BY <2>1, <2>2, <2>3, <2>4, <2>5 DEF Dies, SubTypeOK
<1> QED
  BY <1>1, <1>2, <1>3, <1>4, <1>5, <1>6, <1>7, <1>8 DEF SubStep

LEMMA NewestBound == SubTypeOK => Promise!Newest \in 0..Len(passed)
BY DEF SubTypeOK, Messages, Promise!Newest

\* Once the message being posted is stored, it is the newest.
LEMMA StoreNewest ==
  ASSUME SubTypeOK, posting \in Messages, db' = Append(db, posting)
  PROVE  Promise!Newest' = posting
<1>1. db' \in Seq(Messages) /\ Len(db') = Len(db) + 1 /\ db'[Len(db) + 1] = posting
  BY SeqAppend DEF SubTypeOK
<1>2. Len(db) \in Nat
  BY DEF SubTypeOK
<1>3. db' # <<>>
  BY <1>1, <1>2
<1> QED
  BY <1>1, <1>3 DEF Promise!Newest

LEMMA StepOrder == SubTypeOK /\ Order /\ [Next]_vars => Order'
<1> SUFFICES ASSUME SubTypeOK, Order, SubStep PROVE Order'
  BY StepIsSubStep
<1> USE DEF Messages
<1> DEFINE n == Len(passed)
<1>0. /\ n \in Nat /\ Promise!Newest \in 0..n /\ posting \in 0..n
      /\ inbox \in Seq(1..n) /\ Len(inbox) \in Nat
      /\ \A k \in 1..Len(inbox) : inbox[k] \in 1..n
  BY NewestBound DEF SubTypeOK
<1> HIDE DEF n
<1>1. CASE UNCHANGED subVars
  BY <1>1 DEF Order, Promise!Newest, subVars, programVars, connVars
<1>2. ASSUME NEW r \in 1..made, Publish(r) PROVE Order'
  <2>1. UNCHANGED <<proc, posting, db>>
    BY <1>2 DEF Publish, programVars
  <2>2. Promise!Newest' = Promise!Newest
    BY <2>1 DEF Promise!Newest
  <2>3. CASE inbox' = inbox
    BY <2>1, <2>2, <2>3 DEF Order
  <2>4. CASE inbox' = Append(inbox, n + 1)
    <3>1. inbox \in Seq(Nat) /\ n + 1 \in Nat
      BY <1>0, SeqWiden
    <3>2. /\ Len(inbox') = Len(inbox) + 1
          /\ \A k \in 1..Len(inbox) : inbox'[k] = inbox[k]
          /\ inbox'[Len(inbox) + 1] = n + 1
      BY <2>4, <3>1, SeqAppend
    <3>0. \A k \in 1..Len(inbox') :
            (k \in 1..Len(inbox) /\ inbox'[k] \in 1..n) \/ (k = Len(inbox) + 1 /\ inbox'[k] = n + 1)
      BY <1>0, <3>2
    <3>3. \A k \in 1..Len(inbox') : Promise!Newest < inbox'[k] /\ posting < inbox'[k]
      <4> SUFFICES ASSUME NEW k \in 1..Len(inbox')
                   PROVE  Promise!Newest < inbox'[k] /\ posting < inbox'[k]
        OBVIOUS
      <4>1. CASE k \in 1..Len(inbox)
        BY <3>2, <4>1 DEF Order
      <4>2. CASE inbox'[k] = n + 1
        BY <1>0, <4>2
      <4> QED
        BY <3>0, <4>1, <4>2
    <3>4. \A j, k \in 1..Len(inbox') : j < k => inbox'[j] < inbox'[k]
      <4> SUFFICES ASSUME NEW j \in 1..Len(inbox'), NEW k \in 1..Len(inbox'), j < k
                   PROVE  inbox'[j] < inbox'[k]
        OBVIOUS
      <4>1. j \in 1..Len(inbox)
        BY <1>0, <3>2
      <4> QED
        BY <1>0, <3>2, <3>0, <4>1 DEF Order
    <3> QED
      BY <2>1, <2>2, <3>3, <3>4 DEF Order
  <2> QED
    BY <1>2, <2>3, <2>4 DEF Publish, n
<1>3. CASE BrokerSubscribes \/ Heal \/ Reconnect
  BY <1>3 DEF BrokerSubscribes, Heal, Reconnect, connVars, programVars, Order, Promise!Newest
<1>4. CASE Disconnected
  <2>1. PICK k \in 0..Len(inbox) : inbox' = SubSeq(inbox, 1, k)
    BY <1>4 DEF Disconnected
  <2>2. Len(inbox') = k /\ \A i \in 1..k : inbox'[i] = inbox[i]
    BY <1>0, <2>1, SeqPrefix
  <2>3. UNCHANGED <<proc, posting, db>> /\ Promise!Newest' = Promise!Newest
    BY <1>4 DEF Disconnected, programVars, Promise!Newest
  <2>4. 1..k \subseteq 1..Len(inbox)
    BY <1>0
  <2> QED
    BY <2>2, <2>3, <2>4 DEF Order
<1>5. CASE Run \/ Subscribe
  BY <1>5 DEF Run, Subscribe, Order, Promise!Newest
<1>6. CASE OnMessage
  <2>1. /\ posting' = inbox[1] /\ Len(inbox) > 0 /\ Len(inbox') = Len(inbox) - 1
        /\ \A i \in 1..Len(inbox') : inbox'[i] = inbox[i + 1]
    BY <1>0, <1>6, SeqTail DEF OnMessage
  <2>2. proc' = "post" /\ Promise!Newest' = Promise!Newest
    BY <1>6 DEF OnMessage, Promise!Newest
  <2>3. 1 \in 1..Len(inbox) /\ \A i \in 1..Len(inbox') : i + 1 \in 1..Len(inbox)
    BY <1>0, <2>1
  <2>4. posting' # 0 /\ Promise!Newest < posting'
    BY <1>0, <2>1, <2>3 DEF Order
  <2>5. \A k \in 1..Len(inbox') : Promise!Newest < inbox'[k] /\ posting' < inbox'[k]
    <3> SUFFICES ASSUME NEW k \in 1..Len(inbox')
                 PROVE  Promise!Newest < inbox'[k] /\ posting' < inbox'[k]
      OBVIOUS
    <3>1. 1 < k + 1
      BY <1>0, <2>1
    <3> QED
      BY <2>1, <2>3, <3>1 DEF Order
  <2>6. \A j, k \in 1..Len(inbox') : j < k => inbox'[j] < inbox'[k]
    <3> SUFFICES ASSUME NEW j \in 1..Len(inbox'), NEW k \in 1..Len(inbox'), j < k
                 PROVE  inbox'[j] < inbox'[k]
      OBVIOUS
    <3>1. j + 1 < k + 1
      BY <1>0, <2>1
    <3> QED
      BY <2>1, <2>3, <3>1 DEF Order
  <2> QED
    BY <2>2, <2>4, <2>5, <2>6 DEF Order
<1>7. CASE Posted
  <2>1. posting \in 1..n /\ db' = Append(db, posting)
    BY <1>0, <1>7 DEF Posted, Order
  <2>2. Promise!Newest' = posting
    BY <2>1, StoreNewest DEF n
  <2>3. posting' = 0 /\ proc' = "loop" /\ inbox' = inbox
    BY <1>7 DEF Posted, connVars
  <2> QED
    BY <1>0, <2>2, <2>3 DEF Order
<1>8. CASE PostFails \/ Stop
  BY <1>8 DEF PostFails, Stop, Dies, Order
<1> QED
  BY <1>1, <1>2, <1>3, <1>4, <1>5, <1>6, <1>7, <1>8 DEF SubStep

-----------------------------------------------------------------------------
(* The theorems.                                                           *)

Inv == MadeInv /\ SubTypeOK /\ Order

LEMMA InitInv == Init => Inv
<1> SUFFICES ASSUME Init PROVE Inv
  OBVIOUS
<1>1. /\ passed = <<>> /\ inbox = <<>> /\ db = <<>> /\ posting = 0 /\ proc = "off"
      /\ made = 0 /\ since = 0
      /\ conn = FALSE /\ request = FALSE /\ subscribed = FALSE /\ healed = FALSE
  BY DEF Init, SubInit, RInit
<1>2. MadeInv
  BY <1>1, SubscriberAssumption DEF MadeInv
<1>3. SubTypeOK
  <2>1. \A S : <<>> \in Seq(S)
    OBVIOUS
  <2> QED
    BY <1>1, <2>1 DEF SubTypeOK
<1>4. Order
  BY <1>1 DEF Order
<1> QED
  BY <1>2, <1>3, <1>4 DEF Inv

LEMMA Invariant == Spec => []Inv
<1>1. Inv /\ [Next]_vars => Inv'
  BY StepMade, StepSubType, StepOrder DEF Inv
<1> QED
  BY <1>1, InitInv, PTL DEF Spec

\* Type correctness of the composition; and a start of the mail alert sends one mail at
\* most.
THEOREM TypeCorrect == Spec => []TypeOK
<1> DEFINE Count == mails \in 0..2
           Flag  == /\ mailer \in {"off", "poll", "send"}
                    /\ Sent_flag \in BOOLEAN
                    /\ mailer # "off" => (Sent_flag <=> mails = 0)
                    /\ mailer = "send" => Sent_flag
<1>1. Init => Count
  BY DEF Init
<1>2. Init => Flag
  BY Zenon DEF Init
<1>3. ASSUME Count PROVE Plus1(mails) \in 0..2 /\ Plus1(mails) # 0
  BY <1>3 DEF Plus1
<1>5. [Next]_vars => Mailer \/ UNCHANGED mailVars
  BY DEF Next, vars
<1>6. Count /\ [Next]_vars => Count'
  <2> SUFFICES ASSUME Count, Mailer \/ UNCHANGED mailVars PROVE Count'
    BY <1>5
  <2>1. mails' \in {mails, 0, Plus1(mails)}
    BY DEF Mailer, mailVars, Start, PollEmpty, Poll, Sent, Ends
  <2> QED
    BY <1>3, <2>1
<1>7. Count /\ Flag /\ [Next]_vars => Flag'
  <2> SUFFICES ASSUME Count, Flag, Mailer \/ UNCHANGED mailVars PROVE Flag'
    BY <1>5
  <2>1. CASE UNCHANGED mailVars
    BY <2>1, Zenon DEF mailVars
  <2>2. CASE Start
    BY <2>2, Zenon DEF Start
  <2>3. CASE PollEmpty
    BY <2>3, Zenon DEF PollEmpty
  <2>4. CASE Poll
    BY <2>4, Zenon DEF Poll
  <2>5. CASE Sent
    BY <1>3, <2>5, Zenon DEF Sent
  <2>6. CASE Ends
    BY <2>6, Zenon DEF Ends
  <2> QED
    BY <2>1, <2>2, <2>3, <2>4, <2>5, <2>6 DEF Mailer
<1>8. Inv /\ Count /\ Flag => TypeOK
  BY DEF Inv, TypeOK
<1> QED
  BY <1>1, <1>2, <1>6, <1>7, <1>8, Invariant, PTL DEF Spec

\* In the words of MQTT/README.md each report is posted to the server: while the
\* subscription lives none is lost on the way, for any number of messages.
THEOREM NothingLost == Spec => []NoLossWhileSubscribed
<1>1. Init => NoLossWhileSubscribed
  BY DEF Init, SubInit, NoLossWhileSubscribed
<1>2. Inv /\ NoLossWhileSubscribed /\ [Next]_vars => NoLossWhileSubscribed'
  <2> SUFFICES ASSUME Inv, NoLossWhileSubscribed, SubStep, subscribed',
                      NEW i \in since' + 1..Len(passed')
               PROVE  Stored(i)' \/ posting' = i \/ \E k \in DOMAIN inbox' : inbox'[k] = i
    BY StepIsSubStep DEF NoLossWhileSubscribed
  <2>0. inbox \in Seq(Nat) /\ db \in Seq(Nat) /\ passed \in Seq(1..MaxReport) /\ since \in Nat
    BY SeqWiden DEF Inv, SubTypeOK, Messages
  <2>1. CASE UNCHANGED subVars
    BY <2>1 DEF subVars, connVars, programVars, NoLossWhileSubscribed, Stored
  <2>2. ASSUME NEW r \in 1..made, Publish(r)
        PROVE  Stored(i)' \/ posting' = i \/ \E k \in DOMAIN inbox' : inbox'[k] = i
    <3>1. /\ Len(passed') = Len(passed) + 1 /\ since' = since /\ subscribed
          /\ posting' = posting /\ db' = db /\ Len(passed) \in Nat
          /\ inbox' = Append(inbox, Len(passed) + 1)
      BY <2>0, <2>2 DEF Publish, programVars
    <3>2. /\ Len(inbox') = Len(inbox) + 1 /\ Len(inbox) \in Nat
          /\ \A k \in 1..Len(inbox) : inbox'[k] = inbox[k]
          /\ inbox'[Len(inbox) + 1] = Len(passed) + 1
          /\ DOMAIN inbox = 1..Len(inbox) /\ DOMAIN inbox' = 1..Len(inbox) + 1
      BY <2>0, <3>1, SeqAppend
    <3>3. CASE i = Len(passed) + 1
      BY <3>2, <3>3
    <3>4. CASE i \in since + 1..Len(passed)
      BY <3>1, <3>2, <3>4 DEF NoLossWhileSubscribed, Stored
    <3> QED
      BY <2>0, <3>1, <3>3, <3>4
  <2>3. CASE BrokerSubscribes
    BY <2>0, <2>3 DEF BrokerSubscribes
  <2>4. CASE Disconnected \/ PostFails \/ Stop
    BY <2>4 DEF Disconnected, PostFails, Stop, Dies
  <2>5. CASE Heal \/ Run \/ Subscribe \/ Reconnect
    BY <2>5 DEF Heal, Run, Subscribe, Reconnect, connVars, programVars,
                NoLossWhileSubscribed, Stored
  <2>6. CASE OnMessage
    <3>1. /\ posting' = inbox[1] /\ posting = 0 /\ db' = db /\ subscribed
          /\ since' = since /\ passed' = passed /\ inbox' = Tail(inbox)
      BY <2>0, <2>6, SeqTail DEF OnMessage, Inv, Order
    <3>2. /\ Len(inbox') = Len(inbox) - 1 /\ Len(inbox) \in Nat
          /\ DOMAIN inbox = 1..Len(inbox) /\ DOMAIN inbox' = 1..Len(inbox')
          /\ \A k \in 1..Len(inbox') : inbox'[k] = inbox[k + 1]
      BY <2>0, <2>6, <3>1, SeqTail DEF OnMessage
    <3>3. i # 0
      BY <2>0, <3>1
    <3>4. CASE \E k \in DOMAIN inbox : inbox[k] = i
      <4>1. PICK k \in 1..Len(inbox) : inbox[k] = i
        BY <3>2, <3>4
      <4>2. CASE k = 1
        BY <3>1, <4>1, <4>2
      <4>3. CASE k # 1
        <5>1. k - 1 \in DOMAIN inbox' /\ inbox'[k - 1] = inbox[k]
          BY <3>2, <4>3
        <5> QED
          BY <4>1, <5>1
      <4> QED
        BY <4>2, <4>3
    <3> QED
      BY <3>1, <3>3, <3>4 DEF NoLossWhileSubscribed, Stored
  <2>7. CASE Posted
    <3>1. /\ db' = Append(db, posting) /\ inbox' = inbox /\ subscribed
          /\ since' = since /\ passed' = passed /\ posting \in Nat
      BY <2>7 DEF Posted, connVars, Inv, SubTypeOK, Messages
    <3>2. /\ DOMAIN db = 1..Len(db) /\ DOMAIN db' = 1..Len(db) + 1 /\ Len(db) \in Nat
          /\ \A k \in 1..Len(db) : db'[k] = db[k]
          /\ db'[Len(db) + 1] = posting
      BY <2>0, <3>1, SeqAppend
    <3>3. \A j : Stored(j) \/ posting = j => Stored(j)'
      BY <3>2 DEF Stored
    <3> QED
      BY <3>1, <3>3 DEF NoLossWhileSubscribed
  <2> QED
    BY <2>1, <2>2, <2>3, <2>4, <2>5, <2>6, <2>7 DEF SubStep
<1> QED
  BY <1>1, <1>2, Invariant, PTL DEF Spec

\* A program that has lost its connection never hears a message again, until someone
\* starts it anew.
THEOREM DeafStays == Spec => DeafUntilRestart
<1>1. [Next]_vars => [Deaf => Deaf' \/ proc' = "off"]_subVars
  <2> SUFFICES ASSUME SubStep, Deaf PROVE Deaf' \/ proc' = "off" \/ UNCHANGED subVars
    BY StepIsSubStep
  <2>1. CASE \E r \in 1..made : Publish(r)
    BY <2>1 DEF Publish, programVars, Deaf
  <2>2. CASE BrokerSubscribes \/ Run \/ Subscribe
    BY <2>2 DEF BrokerSubscribes, Run, Subscribe, Deaf
  <2>3. CASE Disconnected \/ Heal \/ Reconnect
    BY <2>3 DEF Disconnected, Heal, Reconnect, programVars, connVars, Deaf
  <2>4. CASE OnMessage \/ Posted
    BY <2>4 DEF OnMessage, Posted, connVars, Deaf
  <2>5. CASE PostFails \/ Stop
    BY <2>5 DEF PostFails, Stop, Dies
  <2> QED
    BY <2>1, <2>2, <2>3, <2>4, <2>5 DEF SubStep
<1> QED
  BY <1>1, PTL DEF Spec, DeafUntilRestart

\* The database is an Archive: no message is stored twice, none overtakes another.
THEOREM SubscriberImplementsArchive == Spec => ImplementsArchive
<1>1. Init => Promise!AInit
  BY DEF Init, SubInit, Promise!AInit
<1>2. Inv /\ [Next]_vars => [Promise!Accept \/ Promise!Store]_Promise!avars
  <2> SUFFICES ASSUME Inv, SubStep
               PROVE  Promise!Accept \/ Promise!Store \/ UNCHANGED <<passed, db>>
    BY StepIsSubStep DEF Promise!avars
  <2>1. ASSUME NEW r \in 1..made, Publish(r) PROVE Promise!Accept
    <3>1. r \in 1..MaxReport
      BY SubscriberAssumption DEF Inv, MadeInv
    <3> QED
      BY <2>1, <3>1 DEF Publish, programVars, Promise!Accept
  <2>2. ASSUME proc = "post", db' = Append(db, posting), passed' = passed PROVE Promise!Store
    <3>1. Promise!Newest < posting /\ posting \in 1..Len(passed)
      BY <2>2 DEF Inv, Order, SubTypeOK, Messages
    <3>2. Promise!Newest \in Nat /\ Len(passed) \in Nat
      BY NewestBound DEF Inv, SubTypeOK
    <3>3. posting \in Promise!Newest + 1..Len(passed)
      BY <3>1, <3>2
    <3> QED
      BY <2>2, <3>3 DEF Promise!Store
  <2>3. CASE Posted \/ PostFails \/ Stop
    <3>1. passed' = passed /\ (db' = db \/ (proc = "post" /\ db' = Append(db, posting)))
      BY <2>3 DEF Posted, PostFails, Stop, Dies
    <3> QED
      BY <2>2, <3>1
  <2>4. CASE \/ BrokerSubscribes \/ Disconnected \/ Heal \/ Run \/ Subscribe
             \/ Reconnect \/ OnMessage \/ UNCHANGED subVars
    BY <2>4 DEF BrokerSubscribes, Disconnected, Heal, Run, Subscribe, Reconnect, OnMessage,
                programVars, connVars, subVars
  <2> QED
    BY <2>1, <2>3, <2>4 DEF SubStep
<1> QED
  BY <1>1, <1>2, Invariant, PTL DEF Spec, ImplementsArchive, Promise!ASpec
=============================================================================

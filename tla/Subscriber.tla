----------------------------- MODULE Subscriber -----------------------------
(***************************************************************************)
(* The program that writes the reports to the database (mqtt.py,           *)
(* store_Sensor_Data_to_DB.py), behind a node that keeps the promise of    *)
(* Reporter.  External: the broker, the paho client, the database service. *)
(* The program asks for a clean session (its client id is '') and for      *)
(* QoS 0: a subscription lives as long as its connection, and a message    *)
(* that is under way when the connection ends is lost.  loop_forever       *)
(* reconnects by itself; an exception in on_message ends it.               *)
(***************************************************************************)
EXTENDS Reporter, Sequences

CONSTANT MaxPassed  \* bound: messages the broker takes

ASSUME SubscriberAssumption == MaxReport \in Nat \ {0} /\ MaxPassed \in Nat

VARIABLES
  passed,      \* the reports the broker took, one for each message, in order
  proc,        \* where the program is: "off", "run", "loop" or "post"
  conn,        \* its connection is up
  request,     \* its SUBSCRIBE is under way
  subscribed,  \* the broker has its subscription
  inbox,       \* messages under way to it, each as its place in passed
  posting,     \* the message on_message is handling, 0 for none
  db,          \* the messages stored, each as its place in passed
  since,       \* history: the messages passed before the last subscription
  healed       \* connections and posts do not fail any more

programVars == <<proc, posting, db>>
connVars    == <<conn, request, subscribed, inbox, since>>
subVars     == <<passed, programVars, connVars, healed>>

Messages == 1..Len(passed)

SubTypeOK ==
  /\ passed \in Seq(1..MaxReport)
  /\ proc \in {"off", "run", "loop", "post"}
  /\ conn \in BOOLEAN /\ request \in BOOLEAN /\ subscribed \in BOOLEAN
  /\ inbox \in Seq(Messages)
  /\ posting \in Messages \cup {0}
  /\ db \in Seq(Messages)
  /\ since \in Messages \cup {0}
  /\ healed \in BOOLEAN

SubInit ==
  /\ RInit
  /\ passed = <<>> /\ proc = "off"
  /\ conn = FALSE /\ request = FALSE /\ subscribed = FALSE
  /\ inbox = <<>> /\ posting = 0 /\ db = <<>> /\ since = 0
  /\ healed = FALSE

-----------------------------------------------------------------------------
(* The node, and the broker.                                               *)

Node == Make \/ Confirm \/ GiveUp

\* The broker takes a message, and sends it on to its subscriber.
Publish(r) ==
  /\ Len(passed) < MaxPassed
  /\ PassOn(r)
  /\ passed' = Append(passed, r)
  /\ inbox' = IF subscribed THEN Append(inbox, Len(passed) + 1) ELSE inbox
  /\ UNCHANGED <<programVars, conn, request, subscribed, since, healed>>

BrokerSubscribes ==
  /\ conn /\ request
  /\ request' = FALSE /\ subscribed' = TRUE
  /\ since' = Len(passed)
  /\ UNCHANGED <<passed, programVars, conn, inbox, healed>>

\* The connection ends, and with it the session; some messages may have arrived.
Disconnected ==
  /\ conn /\ ~healed
  /\ conn' = FALSE /\ request' = FALSE /\ subscribed' = FALSE
  /\ \E k \in 0..Len(inbox) : inbox' = SubSeq(inbox, 1, k)
  /\ UNCHANGED <<passed, programVars, since, healed>>

Heal == healed' = TRUE /\ UNCHANGED <<passed, programVars, connVars>>

-----------------------------------------------------------------------------
(* The program.                                                            *)

\* The process ends: nothing of its connection is left.
Dies ==
  /\ proc' = "off" /\ posting' = 0
  /\ conn' = FALSE /\ request' = FALSE /\ subscribed' = FALSE /\ inbox' = <<>>
  /\ UNCHANGED <<passed, since, healed>>

\* run, started by hand: connect_mqtt raises an exception or connects.
Run ==
  /\ proc = "off"
  /\ proc' = "run" /\ conn' = TRUE
  /\ UNCHANGED <<passed, posting, db, request, subscribed, inbox, since, healed>>

\* subscribe, then loop_forever.  The result of client.subscribe is not looked
\* at: without a connection nothing is sent.
Subscribe ==
  /\ proc = "run"
  /\ proc' = "loop" /\ request' = conn
  /\ UNCHANGED <<passed, posting, db, conn, subscribed, inbox, since, healed>>

\* Mutant: each connection subscribes, as it would in on_connect.
ReconnectSubscribes ==
  /\ proc = "loop" /\ ~conn /\ inbox = <<>>
  /\ conn' = TRUE /\ request' = TRUE
  /\ UNCHANGED <<passed, programVars, subscribed, inbox, since, healed>>

\* loop_forever connects again.  on_connect prints, and does not subscribe.
Reconnect ==
  /\ proc = "loop" /\ ~conn /\ inbox = <<>>
  /\ conn' = TRUE
  /\ UNCHANGED <<passed, programVars, request, subscribed, inbox, since, healed>>

\* on_message, until the post is sent.
OnMessage ==
  /\ proc = "loop" /\ inbox # <<>>
  /\ proc' = "post" /\ posting' = Head(inbox) /\ inbox' = Tail(inbox)
  /\ UNCHANGED <<passed, db, conn, request, subscribed, since, healed>>

\* Mutant: client.loop, called once, in the place of loop_forever.
PostedOnce ==
  /\ proc = "post"
  /\ db' = Append(db, posting)
  /\ Dies

Posted ==
  /\ proc = "post"
  /\ proc' = "loop" /\ posting' = 0
  /\ db' = Append(db, posting)
  /\ UNCHANGED <<passed, connVars, healed>>

\* Mutant: a failed post is tried again.
PostFailsRetries ==
  /\ proc = "post" /\ ~healed
  /\ db' \in {db, Append(db, posting)}
  /\ UNCHANGED <<passed, proc, posting, connVars, healed>>

\* Mutant: the exception is caught in on_message, and the loop goes on.
PostFailsCaught ==
  /\ proc = "post" /\ ~healed
  /\ proc' = "loop" /\ posting' = 0
  /\ UNCHANGED <<passed, db, connVars, healed>>

\* The post raises an exception, before or after the entry was stored: nothing
\* catches it, on_message and loop_forever end.
PostFails ==
  /\ proc = "post" /\ ~healed
  /\ db' \in {db, Append(db, posting)}
  /\ Dies

\* Someone ends the program, or its host restarts.
Stop ==
  /\ proc # "off" /\ ~healed
  /\ db' \in IF proc = "post" THEN {db, Append(db, posting)} ELSE {db}
  /\ Dies

Program == Run \/ Subscribe \/ Reconnect \/ OnMessage \/ Posted \/ PostFails \/ Stop

SubNext ==
  \/ Node /\ UNCHANGED subVars
  \/ \E r \in 1..made : Publish(r)
  \/ (BrokerSubscribes \/ Disconnected \/ Heal \/ Program) /\ UNCHANGED rvars

\* A program that runs goes on running, and a broker that is connected answers.
\* Nothing starts the program: Run is not among the fair actions.
SubFairness ==
  /\ WF_subVars(BrokerSubscribes) /\ WF_subVars(Subscribe) /\ WF_subVars(Reconnect)
  /\ WF_subVars(OnMessage) /\ WF_subVars(Posted) /\ WF_subVars(Heal)

-----------------------------------------------------------------------------
Stored(i) == \E k \in DOMAIN db : db[k] = i

\* As long as a subscription lives, no message the broker took since is lost: it is
\* stored, being posted or under way.
NoLossWhileSubscribed ==
  subscribed => \A i \in since + 1..Len(passed) :
                  Stored(i) \/ posting = i \/ \E k \in DOMAIN inbox : inbox[k] = i

\* Once its connection was lost, the program is deaf until it is started anew: it
\* reconnects, looks well, and nothing tells anyone.
Deaf == proc \in {"loop", "post"} /\ ~subscribed /\ ~request
DeafUntilRestart == [][Deaf => Deaf' \/ proc' = "off"]_subVars

\* "this kind of data will be sent to broker and posted to the could server"
\* (MQTT/README.md), as far as it holds: what is taken by the broker while the
\* subscription lives is stored in the end, once connections and posts do not fail.
PendingStored ==
  \A i \in 1..MaxPassed :
    (healed /\ subscribed /\ i \in since + 1..Len(passed)) ~> Stored(i)

Promise == INSTANCE Archive

\* Every message is stored at most once, and in the order of the broker, whatever
\* connections, posts and the program do: what readers of the last entries rely on.
ImplementsArchive == Promise!ASpec
=============================================================================

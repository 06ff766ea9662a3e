------------------------------- MODULE Archive -------------------------------
(***************************************************************************)
(* What the subscriber promises to the readers of the database: the        *)
(* entries are messages of the broker, in the order in which the broker    *)
(* took them, none of them twice.  Some may be missing.                    *)
(***************************************************************************)
EXTENDS Naturals, Sequences

CONSTANT MaxReport

VARIABLES
  passed,  \* the reports the broker took, one for each message, in order
  db       \* the messages stored, each as its place in passed

avars == <<passed, db>>

AInit == passed = <<>> /\ db = <<>>

Accept ==
  /\ \E r \in 1..MaxReport : passed' = Append(passed, r)
  /\ UNCHANGED db

Newest == IF db = <<>> THEN 0 ELSE db[Len(db)]

Store ==
  /\ \E i \in Newest + 1..Len(passed) : db' = Append(db, i)
  /\ UNCHANGED passed

ASpec == AInit /\ [][Accept \/ Store]_avars
=============================================================================

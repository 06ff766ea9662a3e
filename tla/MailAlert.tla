------------------------------ MODULE MailAlert ------------------------------
(***************************************************************************)
(* The mail alert (sendmail.py): it polls the last entries of the database *)
(* and warns when all are high.  Composed with the program that writes     *)
(* them and the node.  External: the database's query, the mail service.   *)
(* A report is high when its PM0_3 is above 1000.                          *)
(***************************************************************************)
EXTENDS Subscriber

CONSTANTS
  Window,  \* entries in a query: limit_to_last(5) in the code
  High     \* the reports that are high

ASSUME MailAssumption == Window \in Nat \ {0} /\ High \subseteq 1..MaxReport

VARIABLES
  mailer,    \* "off", "poll" (also while it sleeps) or "send"
  Sent_flag, \* the code's: a warning may be sent
  mails      \* history: mails sent since the program was started, up to 2

mailVars == <<mailer, Sent_flag, mails>>
vars     == <<rvars, subVars, mailVars>>

TypeOK ==
  /\ SubTypeOK
  /\ mailer \in {"off", "poll", "send"}
  /\ Sent_flag \in BOOLEAN
  /\ mails \in 0..2
  /\ mailer # "off" => (Sent_flag <=> mails = 0)  \* one mail for each start

Init == SubInit /\ mailer = "off" /\ Sent_flag = FALSE /\ mails = 0

-----------------------------------------------------------------------------
\* ref.order_by_key().limit_to_last(Window).get()
LastEntries == SubSeq(db, IF Len(db) > Window THEN Len(db) - Window + 1 ELSE 1, Len(db))

\* min(PM0_3) > 1000: of fewer entries than Window, if there are no more.
Alarm == \A k \in DOMAIN LastEntries : passed[LastEntries[k]] \in High

\* The program's start: firebase_admin.initialize_app, Sent_flag = 1.
Start ==
  /\ mailer = "off"
  /\ mailer' = "poll" /\ Sent_flag' = TRUE /\ mails' = 0

\* An empty database gives None: data.values() raises an exception.
PollEmpty ==
  /\ mailer = "poll" /\ db = <<>>
  /\ mailer' = "off"
  /\ UNCHANGED <<Sent_flag, mails>>

\* Mutant: a warning waits for a full window.
PollFull ==
  /\ mailer = "poll" /\ db # <<>>
  /\ mailer' = IF Alarm /\ Len(db) >= Window /\ Sent_flag THEN "send" ELSE "poll"
  /\ UNCHANGED <<Sent_flag, mails>>

\* The entries are read, then compared: a mail is under way, or the sleep.
Poll ==
  /\ mailer = "poll" /\ db # <<>>
  /\ mailer' = IF Alarm /\ Sent_flag THEN "send" ELSE "poll"
  /\ UNCHANGED <<Sent_flag, mails>>

Plus1(n) == IF n = 2 THEN 2 ELSE n + 1

\* Mutant: the flag stays.
SentStaysArmed ==
  /\ mailer = "send"
  /\ mailer' = "poll" /\ mails' = Plus1(mails)
  /\ UNCHANGED Sent_flag

\* yag.send returns.
Sent ==
  /\ mailer = "send"
  /\ mailer' = "poll" /\ Sent_flag' = FALSE /\ mails' = Plus1(mails)

\* yag.send or the query raises an exception, or someone ends the program; a mail
\* under way may have been sent.
Ends ==
  /\ mailer # "off" /\ ~healed
  /\ mailer' = "off"
  /\ mails' \in IF mailer = "send" THEN {mails, Plus1(mails)} ELSE {mails}
  /\ UNCHANGED Sent_flag

Mailer == Start \/ PollEmpty \/ Poll \/ Sent \/ Ends

Next ==
  \/ SubNext /\ UNCHANGED mailVars
  \/ Mailer /\ UNCHANGED <<rvars, subVars>>

Spec == Init /\ [][Next]_vars

FairSpec == Spec /\ SubFairness /\ WF_mailVars(Poll) /\ WF_mailVars(Sent)

-----------------------------------------------------------------------------
\* An episode does not go by unnoticed: a program that stays on cannot stay armed,
\* once nothing fails any more, over a database whose last entries stay high.
\* (Only the first: after a mail the flag is never set again.)
WarnsOfTheFirst ==
  ~<>[](healed /\ mailer # "off" /\ db # <<>> /\ Alarm /\ mails = 0)
=============================================================================

------------------------------ MODULE Reporter ------------------------------
(***************************************************************************)
(* What the publisher promises to whoever counts its reports: one report   *)
(* at a time is made and offered; it is confirmed only when it was passed  *)
(* on, and is given up otherwise.  A report that was given up may still be *)
(* passed on, now or much later: the promise is "at least the confirmed",  *)
(* not "exactly the confirmed".                                            *)
(***************************************************************************)
EXTENDS Naturals

CONSTANT MaxReport  \* bound: reports from number MaxReport on share that number

VARIABLES
  made,       \* the number of the report made last, 0 before the first
  offered,    \* that report is still being offered
  confirmed,  \* the reports known to have been passed on
  delivered   \* the reports that were passed on

rvars == <<made, offered, confirmed, delivered>>

RInit ==
  /\ made = 0 /\ offered = FALSE
  /\ confirmed = {} /\ delivered = {}

Make ==
  /\ ~offered
  /\ made' = IF made = MaxReport THEN made ELSE made + 1
  /\ offered' = TRUE
  /\ UNCHANGED <<confirmed, delivered>>

\* Any report made so far, also one given up or passed on before.
PassOn(r) ==
  /\ delivered' = delivered \cup {r}
  /\ UNCHANGED <<made, offered, confirmed>>

Deliver == \E r \in 1..made : PassOn(r)

Confirm ==
  /\ offered /\ made \in delivered
  /\ confirmed' = confirmed \cup {made}
  /\ offered' = FALSE
  /\ UNCHANGED <<made, delivered>>

GiveUp ==
  /\ offered
  /\ offered' = FALSE
  /\ UNCHANGED <<made, confirmed, delivered>>

RNext == Make \/ Deliver \/ Confirm \/ GiveUp

RSpec == RInit /\ [][RNext]_rvars
=============================================================================

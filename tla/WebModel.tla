------------------------------ MODULE WebModel ------------------------------
(***************************************************************************)
(* The web application of one browser (data/model.js, Case1, Case2, App):  *)
(* pages that ask the model for entries, and database listeners that       *)
(* answer later and are never removed.  External: Firebase's client and    *)
(* React.  A listener's first event needs the data: it comes during the    *)
(* call that registers it if a listener of the same query, or one of all   *)
(* entries, has had them, and after an answer of the server if not.  A     *)
(* callback runs to its end.  Entries are numbered in the order of their   *)
(* keys.                                                                   *)
(***************************************************************************)
EXTENDS Integers, Sequences

CONSTANTS
  Values,      \* what PM0_3 can be
  Window,      \* getLatestValues' numOfVal, 12 in the code
  MaxEntries   \* bound: entries in the database

ASSUME WebAssumption == Window \in Nat \ {0} /\ MaxEntries \in Nat /\ Values # {}

Pages   == {"welcome", "case1", "case2", "case3"}
Queries == {"latest", "last", "all"}  \* of getLatestEntry, getLatestValues, getUpdatesFor
NoData  == -1

VARIABLES
  db,          \* PM0_3 of each entry the database has
  known,       \* how many entries the client has seen in each query's data, or NoData
  listening,   \* the queries with a listener
  page,        \* the page shown, or "blank" when rendering has failed
  status,      \* the page's state.status
  data,        \* Case1's array: the entries pushed to it
  events,      \* history: the events that pushed entries to it
  drawn,       \* the array, and events, when Case1 was rendered with it
  currentVal,  \* Case2's state.currentVal, or "null"
  shown        \* history: Case1 was shown with its values since the page was loaded

clientVars == <<known, listening, page, status, data, events, drawn, currentVal, shown>>
vars       == <<db, clientVars>>

NotDrawn == [data |-> <<>>, events |-> 0]

TypeOK ==
  /\ db \in Seq(Values) /\ Len(db) <= MaxEntries
  /\ known \in [Queries -> NoData..Len(db)]
  /\ listening \subseteq Queries
  /\ page \in Pages \cup {"blank"}
  /\ status \in {"LOADING", "LOADED", "UPDATED"}
  /\ data \in Seq(1..Len(db)) /\ drawn.data \in Seq(1..Len(db))
  /\ events \in 0..MaxEntries /\ drawn.events \in 0..events
  /\ currentVal \in Values \cup {"null"}
  /\ shown \in BOOLEAN
  /\ \A q \in Queries \ listening : known[q] = NoData

NoneKnown == [q \in Queries |-> NoData]

Init ==
  /\ db = <<>>
  /\ known = NoneKnown /\ listening = {}
  /\ page = "welcome" /\ status = "LOADING"
  /\ data = <<>> /\ events = 0 /\ drawn = NotDrawn
  /\ currentVal = "null" /\ shown = FALSE

-----------------------------------------------------------------------------
(* The model: data/model.js.                                               *)

\* The client's data for a query, also when it is asked for the first time.
Cached(q) == IF known["all"] = NoData THEN known[q] ELSE known["all"]

\* Mutant: the listeners of the page left are removed, their data are not.
RegisteredAlone(qs) ==
  /\ listening' = qs
  /\ known' = [q \in Queries |-> IF q \in qs THEN Cached(q) ELSE known[q]]

\* A listener for each query, on top of those there are.
Registered(qs) ==
  /\ listening' = listening \cup qs
  /\ known' = [q \in Queries |-> IF q \in qs THEN Cached(q) ELSE known[q]]

\* Mutant: one entry too many.
LastOfOneMore(n) == [k \in 1..IF n > Window THEN Window + 1 ELSE n |->
                        IF n > Window THEN n - Window + k - 1 ELSE k]

\* limitToLast(Window) of n entries; none without data.
LastOf(n) == [k \in 1..IF n > Window THEN Window ELSE n |->
                IF n > Window THEN n - Window + k ELSE k]

\* getLatestValues: an event pushes the query's entries, behind those it pushed before.
Pushes(n, old, count) ==
  /\ data' = old \o LastOf(n)
  /\ events' = IF n > 0 THEN count + 1 ELSE count

\* Mutant: only the first entry is passed on.
NotifyFirst(n) ==
  IF page' = "case2" /\ n > 0
  THEN currentVal' = db[1] /\ status' = "UPDATED"
  ELSE UNCHANGED <<currentVal, status>>

\* getUpdatesFor: an event notifies the observers of each entry in turn.  The page
\* shown is the only observer.  Case2.update keeps the last value; Case1 has no
\* update, and the exception ends the callback.
Notify(n) ==
  IF page' = "case2" /\ n > 0
  THEN currentVal' = db[n] /\ status' = "UPDATED"
  ELSE UNCHANGED <<currentVal, status>>

-----------------------------------------------------------------------------
(* Pages.                                                                  *)

\* Welcome and Case3 have no state.
OpenPlain(p) ==
  /\ page \notin {p, "blank"} /\ p \in {"welcome", "case3"}
  /\ page' = p /\ status' = "LOADING"
  /\ UNCHANGED <<db, known, listening, data, events, drawn, currentVal, shown>>

\* Case1: render calls getLatestEntry, then componentDidMount getLatestValues and
\* getAllEntries.
OpenCase1 ==
  /\ page \notin {"case1", "blank"}
  /\ page' = "case1" /\ status' = "LOADING"
  /\ Registered({"latest", "last"})
  /\ Pushes(Cached("last"), <<>>, 0) /\ drawn' = NotDrawn
  /\ UNCHANGED <<db, currentVal, shown>>

\* Mutant: the listener of getLatestEntry goes with its page.
OpenCase2Off ==
  /\ page \notin {"case2", "blank"}
  /\ page' = "case2"
  /\ listening' = (listening \ {"latest"}) \cup {"all"}
  /\ known' = [known EXCEPT !["latest"] = NoData]
  /\ IF known["all"] > 0
     THEN currentVal' = db[known["all"]] /\ status' = "UPDATED"
     ELSE currentVal' = "null" /\ status' = "LOADING"
  /\ UNCHANGED <<db, data, events, drawn, shown>>

\* Case2: componentDidMount calls getUpdatesFor.
OpenCase2 ==
  /\ page \notin {"case2", "blank"}
  /\ page' = "case2"
  /\ Registered({"all"})
  /\ IF known["all"] > 0
     THEN currentVal' = db[known["all"]] /\ status' = "UPDATED"
     ELSE currentVal' = "null" /\ status' = "LOADING"
  /\ UNCHANGED <<db, data, events, drawn, shown>>

\* getAllEntries' promise; its own catch lets a failure through as a success.  Case1
\* is rendered anew, and getLatestEntry returns null unless its event comes during
\* the call: then currentValues.PM2_5 throws, and React takes the page down.
Loaded ==
  /\ page = "case1" /\ status = "LOADING"
  /\ status' = "LOADED"
  /\ IF Cached("latest") > 0
     THEN page' = page /\ shown' = TRUE /\ drawn' = [data |-> data, events |-> events]
     ELSE page' = "blank" /\ UNCHANGED <<shown, drawn>>
  /\ UNCHANGED <<db, known, listening, data, events, currentVal>>

\* The address is entered or the page reloaded: the client begins anew.
Reload ==
  /\ known' = NoneKnown /\ listening' = {}
  /\ page' = "welcome" /\ status' = "LOADING"
  /\ data' = <<>> /\ events' = 0 /\ drawn' = NotDrawn
  /\ currentVal' = "null" /\ shown' = FALSE
  /\ UNCHANGED db

-----------------------------------------------------------------------------
(* The database.                                                           *)

Post(v) ==
  /\ Len(db) < MaxEntries
  /\ db' = Append(db, v)
  /\ UNCHANGED clientVars

\* The queries whose data an answer to q brings up to date.
Served(q) == IF q = "all" THEN listening ELSE {q}

\* The server's data for a query arrive: the first, or the news.  Answers come in
\* order, so none is older than what the client has.  Once it has all entries, its
\* other queries are served from them.
Answer(q, n) ==
  /\ q \in listening /\ known[q] < n
  /\ \A p \in Queries : known[p] <= n
  /\ q # "all" => known["all"] = NoData
  /\ known' = [p \in Queries |-> IF p \in Served(q) /\ known[p] < n THEN n ELSE known[p]]
  /\ IF page = "case1" /\ known'["last"] # known["last"]
     THEN Pushes(n, data, events)
     ELSE UNCHANGED <<data, events>>
  /\ page' = page
  /\ IF q = "all" THEN Notify(n) ELSE UNCHANGED <<currentVal, status>>
  /\ UNCHANGED <<db, listening, drawn, shown>>

Answers(q) == \E n \in 0..Len(db) : Answer(q, n)

Next ==
  \/ \E p \in Pages : OpenPlain(p)
  \/ OpenCase1 \/ OpenCase2 \/ Loaded \/ Reload
  \/ \E v \in Values : Post(v)
  \/ \E q \in Queries : Answers(q)

Spec == Init /\ [][Next]_vars

\* The server answers, in the end with what it has.
FairSpec == Spec /\ \A q \in Queries : WF_vars(Answers(q))

-----------------------------------------------------------------------------
\* A browser that has shown Case1 once never finds it blank again until it is
\* reloaded: what makes getLatestEntry return its value is a listener that an
\* earlier call has left behind.
NeverBlankAgain == [][shown => page' # "blank"]_vars

\* Consecutive entries, no more than Window.
IsWindow(s) == Len(s) <= Window /\ \A k \in DOMAIN s : s[k] = s[1] + k - 1

\* The graph of Case1 shows the last values, each once, exactly if the entries came
\* in one event before it was drawn; each further event has appended a window.
GraphOfOneEvent ==
  page = "case1" /\ status = "LOADED" => (IsWindow(drawn.data) <=> drawn.events <= 1)

\* Who stays on Case2 comes to see the newest value, however often the page was left
\* and opened before, and whatever the other pages have left behind.
Case2Follows ==
  <>[](page = "case2" /\ db # <<>>)
    => <>[](status = "UPDATED" /\ currentVal = db[Len(db)])

-----------------------------------------------------------------------------
(* checkCAQI: the risk of a concentration, from 1 (very low) to 5 (very    *)
(* high); 0 is "error".                                                    *)

Limits(pType) == IF pType = "2.5" THEN <<15, 30, 55, 110>> ELSE <<25, 50, 90, 180>>

CheckCAQI(pType, pVal) ==
  IF pType \notin {"2.5", "10"} THEN 0
  ELSE LET lim == Limits(pType) IN
       IF pVal <= lim[1] THEN 1
       ELSE IF lim[1] < pVal /\ pVal <= lim[2] THEN 2
       ELSE IF lim[2] < pVal /\ pVal <= lim[3] THEN 3
       ELSE IF lim[3] < pVal /\ pVal <= lim[4] THEN 4
       ELSE IF lim[4] < pVal THEN 5
       ELSE 0
=============================================================================

-------------------------- MODULE WebModel_proofs --------------------------
(***************************************************************************)
(* Theorems about the web application: for any number of entries and any   *)
(* window.                                                                 *)
(***************************************************************************)
EXTENDS WebModel, TLAPS

\* The client's data: the listener of getLatestEntry stays and its data do not shrink;
\* with all entries known, each query is served from them.
CacheInv ==
  /\ Len(db) \in Nat
  /\ listening \subseteq Queries
  /\ known \in [Queries -> Int]
  /\ \A q \in Queries : NoData <= known[q]
  /\ \A q \in Queries : q \notin listening => known[q] = NoData
  /\ known["all"] # NoData => \A q \in listening : known[q] = known["all"]
  /\ page = "case1" => "latest" \in listening
  /\ shown => known["latest"] > 0

LEMMA InitCache == Init => CacheInv
BY DEF Init, NoneKnown, NoData, Queries, CacheInv

\* A query is asked for, the first time or again.
LEMMA RegisteredCache ==
  ASSUME CacheInv, NEW qs \in SUBSET Queries, Registered(qs), UNCHANGED <<db, shown>>,
         page' = "case1" => "latest" \in qs
  PROVE  CacheInv'
<1> USE DEF Queries, NoData
<1>1. \A q \in Queries : Cached(q) \in Int /\ NoData <= Cached(q)
  BY DEF Cached, CacheInv
<1>2. \A q \in listening : Cached(q) = known[q]
  BY DEF Cached, CacheInv
<1>3. Cached("all") = known["all"]
  BY DEF Cached
<1>4. /\ known' = [q \in Queries |-> IF q \in qs THEN Cached(q) ELSE known[q]]
      /\ listening' = listening \cup qs
  BY DEF Registered
<1>5. known' \in [Queries -> Int] /\ \A q \in Queries : NoData <= known'[q]
  BY <1>1, <1>4 DEF CacheInv
<1>6. \A q \in Queries : q \notin listening' => known'[q] = NoData
  BY <1>4 DEF CacheInv
<1>7. known'["all"] = known["all"]
  BY <1>3, <1>4
<1>8. known'["all"] # NoData => \A q \in listening' : known'[q] = known'["all"]
  <2> SUFFICES ASSUME known["all"] # NoData, NEW q \in listening'
               PROVE  known'[q] = known["all"]
    BY <1>7
  <2>1. q \in Queries /\ (q \in qs \/ q \in listening)
    BY <1>4 DEF CacheInv
  <2>2. q \in qs => known'[q] = known["all"]
    BY <1>4, <2>1 DEF Cached
  <2>3. q \in listening => known[q] = known["all"]
    BY DEF CacheInv
  <2>4. q \notin qs => known'[q] = known[q]
    BY <1>4, <2>1
  <2> QED
    BY <2>1, <2>2, <2>3, <2>4
<1>9. shown' => known'["latest"] > 0
  <2> SUFFICES ASSUME shown PROVE known'["latest"] > 0
    OBVIOUS
  <2>1. known["latest"] > 0 /\ "latest" \in listening
    BY DEF CacheInv
  <2>2. known'["latest"] = known["latest"]
    BY <1>2, <1>4, <2>1
  <2> QED
    BY <2>1, <2>2
<1> QED
  BY <1>4, <1>5, <1>6, <1>8, <1>9 DEF CacheInv

\* The server answers.
LEMMA AnswerCache ==
  ASSUME CacheInv, NEW q \in Queries, NEW n \in 0..Len(db), Answer(q, n)
  PROVE  CacheInv'
<1> USE DEF Queries, NoData
<1>1. /\ known' = [p \in Queries |-> IF p \in Served(q) /\ known[p] < n THEN n ELSE known[p]]
      /\ UNCHANGED <<db, listening, shown, page>>
      /\ \A p \in Queries : known[p] <= n
      /\ q \in listening /\ known[q] < n
      /\ q # "all" => known["all"] = NoData
  BY DEF Answer
<1>2. n \in Int /\ n >= 0 /\ Len(db) \in Nat
  BY DEF CacheInv
<1>3. known' \in [Queries -> Int] /\ \A p \in Queries : NoData <= known'[p] /\ known[p] <= known'[p]
  BY <1>1, <1>2 DEF CacheInv
<1>4. Served(q) \subseteq listening
  BY <1>1 DEF Served
<1>5. \A p \in Queries : p \notin listening' => known'[p] = NoData
  BY <1>1, <1>4 DEF CacheInv
<1>6. known'["all"] # NoData => \A p \in listening' : known'[p] = known'["all"]
  <2>1. CASE q = "all"
    <3>1. \A p \in listening : p \in Queries /\ (known[p] < n \/ known[p] = n)
      BY <1>1, <1>2 DEF CacheInv
    <3>2. \A p \in listening : known'[p] = n
      BY <1>1, <2>1, <3>1 DEF Served
    <3> QED
      BY <1>1, <2>1, <3>2
  <2>2. CASE q # "all"
    BY <1>1, <2>2 DEF Served
  <2> QED
    BY <2>1, <2>2
<1>7. shown' => known'["latest"] > 0
  <2>1. shown => known["latest"] > 0
    BY DEF CacheInv
  <2>2. known["latest"] \in Int /\ known'["latest"] \in Int /\ known["latest"] <= known'["latest"]
    BY <1>3 DEF CacheInv
  <2> QED
    BY <1>1, <2>1, <2>2
<1> QED
  BY <1>1, <1>2, <1>3, <1>5, <1>6, <1>7 DEF CacheInv

LEMMA StepCache == CacheInv /\ [Next]_vars => CacheInv'
<1> SUFFICES ASSUME CacheInv, [Next]_vars PROVE CacheInv'
  OBVIOUS
<1>1. CASE UNCHANGED <<db, known, listening, shown>> /\ page' \in {page, "welcome", "case3"}
  BY <1>1 DEF CacheInv
<1>2. CASE OpenCase1
  BY <1>2, RegisteredCache DEF OpenCase1, Queries
<1>3. CASE OpenCase2
  BY <1>3, RegisteredCache DEF OpenCase2, Queries
<1>4. CASE Loaded
  <2>1. /\ UNCHANGED <<db, known, listening>> /\ page = "case1"
        /\ shown' = shown \/ Cached("latest") > 0
    BY <1>4 DEF Loaded
  <2>2. Cached("latest") > 0 => known["latest"] > 0
    <3>1. CASE known["all"] = NoData
      BY <3>1 DEF Cached
    <3>2. CASE known["all"] # NoData /\ "latest" \in listening
      BY <3>2 DEF Cached, CacheInv
    <3> QED
      BY <2>1, <3>1, <3>2 DEF CacheInv
  <2> QED
    BY <2>1, <2>2 DEF CacheInv
<1>5. CASE Reload
  BY <1>5 DEF Reload, NoneKnown, NoData, Queries, CacheInv
<1>6. ASSUME NEW v \in Values, Post(v) PROVE CacheInv'
  <2>1. UNCHANGED <<known, listening, shown, page>>
    BY <1>6 DEF Post, clientVars
  <2>2. Len(db') \in Nat
    BY <1>6 DEF Post, CacheInv
  <2> QED
    BY <2>1, <2>2 DEF CacheInv
<1>7. ASSUME NEW q \in Queries, Answers(q) PROVE CacheInv'
  BY <1>7, AnswerCache DEF Answers
<1> QED
  BY <1>1, <1>2, <1>3, <1>4, <1>5, <1>6, <1>7 DEF Next, OpenPlain, vars, clientVars

\* A browser that has shown Case1 finds it blank no more: the data of a listener left
\* behind never shrink, and a query for which they came is never without.
THEOREM ShownStaysShown == Spec => NeverBlankAgain
<1> DEFINE Visible == shown => page # "blank"
<1>1. Init => Visible
  BY DEF Init
<1>2. CacheInv /\ Visible /\ [Next]_vars => (shown => page' # "blank") /\ Visible'
  <2> SUFFICES ASSUME CacheInv, Visible, [Next]_vars
               PROVE  (shown => page' # "blank") /\ Visible'
    OBVIOUS
  <2>1. CASE Loaded
    <3>1. page = "case1" /\ "latest" \in listening
      BY <2>1 DEF Loaded, CacheInv
    <3>2. shown => Cached("latest") > 0
      BY <3>1 DEF CacheInv, Cached
    <3>3. Cached("latest") > 0 => page' = "case1"
      BY <2>1, <3>1 DEF Loaded
    <3>4. ~(Cached("latest") > 0) => shown' = shown
      BY <2>1 DEF Loaded
    <3> QED
      BY <3>2, <3>3, <3>4
  <2>2. CASE UNCHANGED <<page, shown>>
    BY <2>2
  <2>3. CASE page' \in Pages
    BY <2>3 DEF Pages
  <2> QED
    BY <2>1, <2>2, <2>3
    DEF Next, vars, clientVars, OpenPlain, OpenCase1, OpenCase2, Reload, Post, Answers, Answer, Pages
<1>3. CacheInv /\ Visible /\ [Next]_vars => [shown => page' # "blank"]_vars
  BY <1>2
<1> QED
  BY <1>1, <1>2, <1>3, InitCache, StepCache, PTL DEF Spec, NeverBlankAgain

-----------------------------------------------------------------------------
(* The graph.                                                              *)

\* What an event pushes: the entries up to the last, no more than a window.
LEMMA LastOfWindow ==
  ASSUME NEW n \in Int
  PROVE  /\ LastOf(n) \in Seq(Int)
         /\ n <= 0 => LastOf(n) = <<>>
         /\ n > 0 => /\ Len(LastOf(n)) = IF n > Window THEN Window ELSE n
                     /\ LastOf(n)[1] = n - Len(LastOf(n)) + 1
                     /\ \A k \in 1..Len(LastOf(n)) : LastOf(n)[k] = n - Len(LastOf(n)) + k
         /\ IsWindow(LastOf(n))
<1> DEFINE len == IF n > Window THEN Window ELSE n
<1> USE WebAssumption
<1>1. CASE n <= 0
  <2>1. 1..len = {}
    BY <1>1
  <2>2. LastOf(n) = <<>>
    BY <2>1 DEF LastOf
  <2> QED
    BY <1>1, <2>2 DEF IsWindow
<1>2. CASE n > 0
  <2>1. len \in Nat /\ len > 0 /\ len <= Window /\ len <= n
    BY <1>2
  <2>2. LastOf(n) = [k \in 1..len |-> n - len + k]
    BY DEF LastOf
  <2> HIDE DEF len
  <2>3. LastOf(n) \in Seq(Int) /\ Len(LastOf(n)) = len
    BY <2>1, <2>2
  <2>4. DOMAIN LastOf(n) = 1..len /\ \A k \in 1..len : LastOf(n)[k] = n - len + k
    BY <2>2
  <2>5. LastOf(n)[1] = n - len + 1
    BY <2>1, <2>4
  <2> QED
    BY <1>2, <2>1, <2>3, <2>4, <2>5 DEF IsWindow, len
<1> QED
  BY <1>1, <1>2

\* What is no window does not become one by pushing more.
LEMMA NoWindowGrows ==
  ASSUME NEW s \in Seq(Int), NEW t \in Seq(Int), ~IsWindow(s)
  PROVE  ~IsWindow(s \o t)
<1>1. /\ Len(s) \in Nat /\ Len(t) \in Nat /\ Len(s \o t) = Len(s) + Len(t)
      /\ \A k \in 1..Len(s) : (s \o t)[k] = s[k]
      /\ DOMAIN s = 1..Len(s) /\ DOMAIN (s \o t) = 1..Len(s \o t)
  OBVIOUS
<1>2. CASE Len(s) > Window
  BY <1>1, <1>2, WebAssumption DEF IsWindow
<1>3. CASE ~(Len(s) > Window)
  <2>1. PICK k \in 1..Len(s) : s[k] # s[1] + k - 1
    BY <1>1, <1>3, WebAssumption DEF IsWindow
  <2>2. (s \o t)[k] # (s \o t)[1] + k - 1 /\ k \in DOMAIN (s \o t)
    BY <1>1, <2>1
  <2> QED
    BY <2>2 DEF IsWindow
<1> QED
  BY <1>2, <1>3

LEMMA Concatenated ==
  ASSUME NEW s \in Seq(Int), NEW t \in Seq(Int)
  PROVE  /\ Len(s \o t) = Len(s) + Len(t) /\ DOMAIN (s \o t) = 1..Len(s \o t)
         /\ \A k \in 1..Len(s) : (s \o t)[k] = s[k]
         /\ \A k \in 1..Len(t) : (s \o t)[Len(s) + k] = t[k]
OBVIOUS

\* Two events never push one window: either it gets too long, or it begins anew.
LEMMA TwoEvents ==
  ASSUME NEW m \in Nat \ {0}, NEW n \in Nat, m < n
  PROVE  ~IsWindow(LastOf(m) \o LastOf(n))
<1> DEFINE s == LastOf(m)
           t == LastOf(n)
<1>1. /\ s \in Seq(Int) /\ t \in Seq(Int)
      /\ Len(s) = IF m > Window THEN Window ELSE m
      /\ Len(t) = IF n > Window THEN Window ELSE n
      /\ s[1] = m - Len(s) + 1 /\ t[1] = n - Len(t) + 1
  BY LastOfWindow
<1> HIDE DEF s, t
<1>2. /\ Len(s \o t) = Len(s) + Len(t) /\ DOMAIN (s \o t) = 1..Len(s \o t)
      /\ Len(s) \in Nat \ {0} /\ Len(t) \in Nat \ {0}
      /\ (s \o t)[1] = s[1] /\ (s \o t)[Len(s) + 1] = t[1]
  <2>1. Len(s) \in Nat \ {0} /\ Len(t) \in Nat \ {0}
    BY <1>1, WebAssumption
  <2>2. 1 \in 1..Len(s) /\ 1 \in 1..Len(t)
    BY <2>1
  <2> QED
    BY <1>1, <2>1, <2>2, Concatenated
<1>3. CASE n >= Window
  <2>1. Len(s \o t) > Window
    BY <1>1, <1>2, <1>3, WebAssumption
  <2> QED
    BY <1>2, <2>1, WebAssumption DEF IsWindow, s, t
<1>4. CASE n < Window
  <2>1. s[1] = 1 /\ t[1] = 1
    BY <1>1, <1>4, WebAssumption
  <2>2. (s \o t)[Len(s) + 1] # (s \o t)[1] + (Len(s) + 1) - 1
    BY <1>2, <2>1
  <2>3. Len(s) + 1 \in DOMAIN (s \o t)
    BY <1>2
  <2> QED
    BY <2>2, <2>3 DEF IsWindow, s, t
<1> QED
  BY <1>3, <1>4, WebAssumption

\* Case1's array holds what the events since it was opened have pushed.
GraphInv ==
  page = "case1" =>
    /\ data \in Seq(Int) /\ events \in Nat
    /\ events = 0 => data = <<>> /\ known["last"] <= 0
    /\ events = 1 => known["last"] > 0 /\ data = LastOf(known["last"])
    /\ events > 1 => ~IsWindow(data) /\ known["last"] > 0

\* An event of its listener, for entries newer than those of the last one.
LEMMA PushesGraph ==
  ASSUME CacheInv, GraphInv, page = "case1", NEW n \in Nat, known["last"] < n,
         Pushes(n, data, events)
  PROVE  /\ data' \in Seq(Int) /\ events' \in Nat
         /\ events' = 0 => data' = <<>> /\ n <= 0
         /\ events' = 1 => n > 0 /\ data' = LastOf(n)
         /\ events' > 1 => ~IsWindow(data') /\ n > 0
<1>1. data' = data \o LastOf(n) /\ events' = IF n > 0 THEN events + 1 ELSE events
  BY DEF Pushes
<1>2. LastOf(n) \in Seq(Int) /\ data \in Seq(Int) /\ events \in Nat
  BY LastOfWindow DEF GraphInv
<1>3. known["last"] \in Int
  BY DEF CacheInv, Queries
<1>4. CASE n = 0
  <2>1. events = 0 /\ data = <<>>
    BY <1>2, <1>3, <1>4 DEF GraphInv
  <2> QED
    BY <1>1, <1>4, <2>1, LastOfWindow
<1>5. CASE n > 0 /\ events = 0
  BY <1>1, <1>2, <1>5 DEF GraphInv
<1>6. CASE n > 0 /\ events = 1
  BY <1>1, <1>2, <1>3, <1>6, TwoEvents DEF GraphInv
<1>7. CASE n > 0 /\ events > 1
  BY <1>1, <1>2, <1>7, NoWindowGrows DEF GraphInv
<1> QED
  BY <1>2, <1>4, <1>5, <1>6, <1>7

LEMMA StepGraph == CacheInv /\ GraphInv /\ [Next]_vars => GraphInv'
<1> SUFFICES ASSUME CacheInv, GraphInv, [Next]_vars, page' = "case1"
             PROVE  GraphInv'
  BY DEF GraphInv
<1>0. known["last"] \in Int /\ known["all"] \in Int
  BY DEF CacheInv, Queries
<1>1. CASE UNCHANGED <<known, data, events>> /\ page' = page
  BY <1>1 DEF GraphInv
<1>2. CASE OpenCase1
  <2>1. PICK c \in Int : c = Cached("last")
    BY <1>0 DEF Cached
  <2>2. known'["last"] = c
    BY <1>2, <2>1 DEF OpenCase1, Registered, Queries
  <2>3. data' = <<>> \o LastOf(c) /\ events' = IF c > 0 THEN 1 ELSE 0
    BY <1>2, <2>1 DEF OpenCase1, Pushes
  <2>4. LastOf(c) \in Seq(Int) /\ (c <= 0 => LastOf(c) = <<>>)
    BY LastOfWindow
  <2>5. data' = LastOf(c)
    BY <2>3, <2>4
  <2>6. CASE c > 0
    BY <2>2, <2>3, <2>4, <2>5, <2>6 DEF GraphInv
  <2>7. CASE c <= 0
    BY <2>2, <2>3, <2>4, <2>5, <2>7 DEF GraphInv
  <2> QED
    BY <2>6, <2>7
<1>3. ASSUME NEW q \in Queries, NEW n \in 0..Len(db), Answer(q, n)
      PROVE  GraphInv'
  <2>1. page = "case1" /\ n \in Nat
    BY <1>3 DEF Answer, CacheInv
  <2>2. CASE known'["last"] = known["last"]
    BY <1>3, <2>1, <2>2 DEF Answer, GraphInv
  <2>3. CASE known'["last"] # known["last"]
    <3>1. known'["last"] = n /\ known["last"] < n
      BY <1>3, <2>3 DEF Answer, Queries
    <3>2. Pushes(n, data, events)
      BY <1>3, <2>1, <2>3 DEF Answer
    <3> QED
      BY <2>1, <3>1, <3>2, PushesGraph DEF GraphInv
  <2> QED
    BY <2>2, <2>3
<1>4. CASE Loaded \/ (\E v \in Values : Post(v)) \/ UNCHANGED vars
  BY <1>1, <1>4 DEF Loaded, Post, vars, clientVars
<1>5. CASE OpenCase2 \/ Reload \/ \E p \in Pages : OpenPlain(p)
  BY <1>5 DEF OpenCase2, Reload, OpenPlain
<1> QED
  BY <1>2, <1>3, <1>4, <1>5 DEF Next, Answers

\* The graph that Case1 shows is one window exactly if no second event came before it
\* was drawn, for any window, any number of entries and any earlier visits.
THEOREM GraphNeedsOneEvent == Spec => []GraphOfOneEvent
<1>1. Init => GraphInv /\ GraphOfOneEvent
  BY DEF Init, GraphInv, GraphOfOneEvent
<1>2. CacheInv /\ GraphInv /\ GraphOfOneEvent /\ [Next]_vars => GraphOfOneEvent'
  <2> SUFFICES ASSUME CacheInv, GraphInv, GraphOfOneEvent, [Next]_vars,
                      page' = "case1", status' = "LOADED"
               PROVE  IsWindow(drawn'.data) <=> drawn'.events <= 1
    BY DEF GraphOfOneEvent, IsWindow
  <2>1. CASE UNCHANGED <<page, status, drawn>>
    BY <2>1 DEF GraphOfOneEvent
  <2>2. CASE Loaded
    <3>1. page = "case1" /\ drawn' = [data |-> data, events |-> events]
      BY <2>2 DEF Loaded
    <3>2. IsWindow(data) <=> events <= 1
      <4>1. events = 0 => IsWindow(data)
        BY <3>1, WebAssumption DEF GraphInv, IsWindow
      <4>2. events = 1 => IsWindow(data)
        <5>1. known["last"] \in Int
          BY DEF CacheInv, Queries
        <5> QED
          BY <3>1, <5>1, LastOfWindow DEF GraphInv
      <4> QED
        BY <3>1, <4>1, <4>2 DEF GraphInv
    <3> QED
      BY <3>1, <3>2
  <2>3. CASE OpenCase1 \/ OpenCase2 \/ Reload \/ \E p \in Pages : OpenPlain(p)
    BY <2>3 DEF OpenCase1, OpenCase2, Reload, OpenPlain
  <2>4. CASE (\E v \in Values : Post(v)) \/ UNCHANGED vars
    BY <2>1, <2>4 DEF Post, vars, clientVars
  <2>5. CASE \E q \in Queries : Answers(q)
    BY <2>1, <2>5 DEF Answers, Answer, Notify
  <2> QED
    BY <2>2, <2>3, <2>4, <2>5 DEF Next
<1> QED
  BY <1>1, <1>2, InitCache, StepCache, StepGraph, PTL DEF Spec

-----------------------------------------------------------------------------
(* Types.                                                                  *)

\* Each event of Case1's listener has brought at least one entry more.
EventsInv == events > 0 => events <= known["last"]

\* An event pushes numbers of entries that the client knows.
LEMMA LastOfType ==
  ASSUME NEW m \in Nat, NEW n \in Int, n <= m
  PROVE  LastOf(n) \in Seq(1..m)
<1> DEFINE len == IF n > Window THEN Window ELSE n
<1>1. CASE n <= 0
  BY <1>1, LastOfWindow
<1>2. CASE n > 0
  <2>1. len \in Nat /\ len <= n
    BY <1>2, WebAssumption
  <2>2. LastOf(n) = [k \in 1..len |-> n - len + k]
    BY WebAssumption DEF LastOf
  <2> HIDE DEF len
  <2>3. \A k \in 1..len : n - len + k \in 1..m
    BY <2>1
  <2> QED
    BY <2>1, <2>2, <2>3
<1> QED
  BY <1>1, <1>2

LEMMA MoreEntries ==
  ASSUME NEW m \in Nat, NEW n \in Nat, m <= n, NEW s \in Seq(1..m)
  PROVE  s \in Seq(1..n)
OBVIOUS

LEMMA CachedType ==
  ASSUME TypeOK, NEW q \in Queries
  PROVE  Cached(q) \in NoData..Len(db)
BY DEF TypeOK, Cached, Queries

LEMMA RegisteredType ==
  ASSUME TypeOK, NEW qs \in SUBSET Queries, Registered(qs), db' = db
  PROVE  /\ known' \in [Queries -> NoData..Len(db')]
         /\ listening' \subseteq Queries
         /\ \A q \in Queries \ listening' : known'[q] = NoData
<1>1. \A q \in Queries : Cached(q) \in NoData..Len(db)
  BY CachedType
<1> QED
  BY <1>1 DEF Registered, TypeOK

LEMMA PushesType ==
  ASSUME Len(db) \in Nat, NEW n \in Int, n <= Len(db),
         NEW old \in Seq(1..Len(db)), NEW count \in Nat, Pushes(n, old, count)
  PROVE  /\ data' \in Seq(1..Len(db))
         /\ events' = IF n > 0 THEN count + 1 ELSE count
<1>1. LastOf(n) \in Seq(1..Len(db))
  BY LastOfType
<1> QED
  BY <1>1 DEF Pushes

LEMMA EntryType ==
  ASSUME TypeOK, NEW n \in 1..Len(db)
  PROVE  db[n] \in Values
BY DEF TypeOK

LEMMA OpenCase1Type ==
  ASSUME TypeOK, OpenCase1
  PROVE  TypeOK' /\ EventsInv'
<1> DEFINE c == Cached("last")
<1>1. c \in NoData..Len(db) /\ "last" \in Queries /\ {"latest", "last"} \subseteq Queries
  BY CachedType DEF Queries
<1>2. c \in Int /\ c <= Len(db) /\ Len(db) \in Nat /\ Len(db) <= MaxEntries
  BY <1>1 DEF TypeOK, NoData
<1>3. Registered({"latest", "last"}) /\ Pushes(c, <<>>, 0) /\ UNCHANGED <<db, currentVal, shown>>
      /\ page' = "case1" /\ status' = "LOADING" /\ drawn' = NotDrawn
  BY DEF OpenCase1
<1>4. known'["last"] = c
  BY <1>1, <1>3 DEF Registered
<1> HIDE DEF c
<1>5. data' \in Seq(1..Len(db)) /\ events' = IF c > 0 THEN 1 ELSE 0
  <2>1. LastOf(c) \in Seq(1..Len(db))
    BY <1>2, LastOfType
  <2>2. data' = LastOf(c)
    BY <1>3, <2>1 DEF Pushes
  <2> QED
    BY <1>2, <1>3, <2>1, <2>2 DEF Pushes
<1>6. drawn'.data \in Seq(1..Len(db)) /\ drawn'.events = 0
  BY <1>3 DEF NotDrawn
<1>7. /\ known' \in [Queries -> NoData..Len(db')] /\ listening' \subseteq Queries
      /\ \A q \in Queries \ listening' : known'[q] = NoData
  BY <1>1, <1>3, RegisteredType
<1>8. events' \in 0..MaxEntries /\ drawn'.events \in 0..events' /\ EventsInv'
  BY <1>2, <1>4, <1>5, <1>6, WebAssumption DEF EventsInv
<1> QED
  BY <1>3, <1>5, <1>6, <1>7, <1>8 DEF TypeOK, Pages

LEMMA OpenCase2Type ==
  ASSUME TypeOK, EventsInv, OpenCase2
  PROVE  TypeOK' /\ EventsInv'
<1>1. Registered({"all"}) /\ UNCHANGED <<db, data, events, drawn, shown>> /\ page' = "case2"
  BY DEF OpenCase2
<1>2. /\ known' \in [Queries -> NoData..Len(db')] /\ listening' \subseteq Queries
      /\ \A q \in Queries \ listening' : known'[q] = NoData
  BY <1>1, RegisteredType DEF Queries
<1>3. known'["last"] = known["last"]
  BY <1>1 DEF Registered, Queries
<1>4. currentVal' \in Values \cup {"null"} /\ status' \in {"LOADING", "LOADED", "UPDATED"}
  <2>1. CASE known["all"] > 0
    <3>1. known["all"] \in 1..Len(db)
      BY <2>1 DEF TypeOK, Queries, NoData
    <3> QED
      BY <2>1, <3>1, EntryType DEF OpenCase2
  <2>2. CASE ~(known["all"] > 0)
    BY <2>2 DEF OpenCase2
  <2> QED
    BY <2>1, <2>2
<1> QED
  BY <1>1, <1>2, <1>3, <1>4 DEF TypeOK, EventsInv, Pages

LEMMA PostType ==
  ASSUME TypeOK, EventsInv, NEW v \in Values, Post(v)
  PROVE  TypeOK' /\ EventsInv'
<1>1. db' = Append(db, v) /\ UNCHANGED clientVars /\ Len(db) < MaxEntries
  BY DEF Post
<1>2. /\ db' \in Seq(Values) /\ Len(db') = Len(db) + 1 /\ Len(db) \in Nat
  BY <1>1 DEF TypeOK
<1>3. Len(db') \in Nat /\ Len(db) <= Len(db') /\ Len(db') <= MaxEntries
  BY <1>1, <1>2, WebAssumption
<1>4. data \in Seq(1..Len(db')) /\ drawn.data \in Seq(1..Len(db'))
  BY <1>2, <1>3, MoreEntries DEF TypeOK
<1>5. known \in [Queries -> NoData..Len(db')]
  BY <1>2, <1>3 DEF TypeOK, NoData
<1> QED
  BY <1>1, <1>2, <1>3, <1>4, <1>5 DEF clientVars, TypeOK, EventsInv

LEMMA AnswerType ==
  ASSUME TypeOK, EventsInv, NEW q \in Queries, NEW n \in 0..Len(db), Answer(q, n)
  PROVE  TypeOK' /\ EventsInv'
<1>1. /\ known' = [p \in Queries |-> IF p \in Served(q) /\ known[p] < n THEN n ELSE known[p]]
      /\ q \in listening /\ UNCHANGED <<db, listening, drawn, shown, page>>
  BY DEF Answer
<1>2. n \in Nat /\ n <= Len(db) /\ Len(db) \in Nat /\ Len(db) <= MaxEntries /\ n \in NoData..Len(db)
  BY DEF TypeOK, NoData
<1>3. known' \in [Queries -> NoData..Len(db')]
  BY <1>1, <1>2 DEF TypeOK
<1>4. \A p \in Queries \ listening' : known'[p] = NoData
  BY <1>1 DEF Served, TypeOK
<1>5. currentVal' \in Values \cup {"null"} /\ status' \in {"LOADING", "LOADED", "UPDATED"}
  <2>1. CASE q = "all" /\ page' = "case2" /\ n > 0
    <3>1. n \in 1..Len(db)
      BY <1>2, <2>1
    <3> QED
      BY <2>1, <3>1, EntryType DEF Answer, Notify
  <2>2. CASE ~(q = "all" /\ page' = "case2" /\ n > 0)
    BY <2>2 DEF Answer, Notify, TypeOK
  <2> QED
    BY <2>1, <2>2
<1>6. /\ data' \in Seq(1..Len(db)) /\ events' \in 0..MaxEntries
      /\ drawn.events \in 0..events' /\ EventsInv'
  <2>1. known["last"] \in Int /\ events \in Nat /\ events <= MaxEntries /\ drawn.events \in 0..events
    BY DEF TypeOK, Queries, NoData
  <2>2. known'["last"] = IF "last" \in Served(q) /\ known["last"] < n THEN n ELSE known["last"]
    BY <1>1 DEF Queries
  <2>3. CASE UNCHANGED <<data, events>>
    BY <1>2, <2>1, <2>2, <2>3 DEF TypeOK, EventsInv
  <2>4. CASE Pushes(n, data, events) /\ known'["last"] # known["last"]
    <3>1. known'["last"] = n /\ known["last"] < n
      BY <2>2, <2>4
    <3>2. data' \in Seq(1..Len(db)) /\ events' = IF n > 0 THEN events + 1 ELSE events
      BY <1>2, <2>1, <2>4, PushesType DEF TypeOK
    <3>3. n > 0 => events + 1 <= n
      BY <1>2, <2>1, <3>1 DEF EventsInv
    <3>4. n = 0 => events = 0
      BY <2>1, <3>1 DEF EventsInv
    <3> QED
      BY <1>2, <2>1, <3>1, <3>2, <3>3, <3>4, WebAssumption DEF EventsInv
  <2> QED
    BY <2>3, <2>4 DEF Answer
<1> QED
  BY <1>1, <1>3, <1>4, <1>5, <1>6 DEF TypeOK

\* The client begins, or begins anew.
LEMMA FreshType ==
  ASSUME db' \in Seq(Values), Len(db') <= MaxEntries,
         known' = NoneKnown, listening' = {}, page' = "welcome", status' = "LOADING",
         data' = <<>>, events' = 0, drawn' = NotDrawn, currentVal' = "null", shown' = FALSE
  PROVE  TypeOK' /\ EventsInv'
<1>1. Len(db') \in Nat
  OBVIOUS
<1>2. known' \in [Queries -> NoData..Len(db')] /\ \A q \in Queries : known'[q] = NoData
  BY <1>1 DEF NoneKnown, NoData
<1>3. <<>> \in Seq(1..Len(db')) /\ drawn'.data = <<>> /\ drawn'.events = 0
  BY DEF NotDrawn
<1>4. 0 \in 0..MaxEntries /\ 0 \in 0..0
  BY WebAssumption
<1>5. events' \in 0..MaxEntries /\ drawn'.events \in 0..events' /\ EventsInv'
  BY <1>3, <1>4 DEF EventsInv
<1>6. data' \in Seq(1..Len(db')) /\ drawn'.data \in Seq(1..Len(db'))
  BY <1>3
<1> QED
  BY <1>2, <1>5, <1>6 DEF TypeOK, Pages

LEMMA StepType == TypeOK /\ EventsInv /\ [Next]_vars => TypeOK' /\ EventsInv'
<1> SUFFICES ASSUME TypeOK, EventsInv, [Next]_vars PROVE TypeOK' /\ EventsInv'
  OBVIOUS
<1>1. ASSUME NEW p \in Pages, OpenPlain(p) PROVE TypeOK' /\ EventsInv'
  BY <1>1 DEF OpenPlain, TypeOK, EventsInv
<1>2. CASE Loaded
  <2>1. UNCHANGED <<db, known, listening, data, events, currentVal>> /\ status' = "LOADED"
    BY <1>2 DEF Loaded
  <2>2. page' \in Pages \cup {"blank"} /\ shown' \in BOOLEAN
    BY <1>2 DEF Loaded, TypeOK
  <2>3. drawn'.data \in Seq(1..Len(db)) /\ drawn'.events \in 0..events
    BY <1>2 DEF Loaded, TypeOK
  <2> QED
    BY <2>1, <2>2, <2>3 DEF TypeOK, EventsInv
<1>3. CASE Reload
  BY <1>3, FreshType DEF Reload, TypeOK
<1>4. CASE UNCHANGED vars
  BY <1>4 DEF vars, clientVars, TypeOK, EventsInv
<1> QED
  BY <1>1, <1>2, <1>3, <1>4, OpenCase1Type, OpenCase2Type, PostType, AnswerType DEF Next, Answers

\* The client never knows of an entry that the database has not, and the array of
\* Case1, however often it is opened, only ever holds entries that exist.
THEOREM TypeCorrect == Spec => []TypeOK
<1>1. Init => TypeOK /\ EventsInv
  <2> SUFFICES ASSUME Init PROVE TypeOK /\ EventsInv
    OBVIOUS
  <2>1. Len(db) = 0 /\ db \in Seq(Values) /\ 0 <= MaxEntries /\ 0 \in 0..MaxEntries /\ 0 \in 0..0
    BY WebAssumption DEF Init
  <2>2. known \in [Queries -> NoData..0] /\ \A q \in Queries : known[q] = NoData
    BY DEF Init, NoneKnown, NoData
  <2>3. <<>> \in Seq(1..0) /\ drawn.data = <<>> /\ drawn.events = 0
    BY DEF Init, NotDrawn
  <2>4. events \in 0..MaxEntries /\ drawn.events \in 0..events /\ EventsInv
    BY <2>1, <2>3 DEF Init, EventsInv
  <2>5. data \in Seq(1..Len(db)) /\ drawn.data \in Seq(1..Len(db)) /\ known \in [Queries -> NoData..Len(db)]
    BY <2>1, <2>2, <2>3 DEF Init
  <2> QED
    BY <2>1, <2>2, <2>4, <2>5 DEF Init, TypeOK, Pages
<1> QED
  BY <1>1, StepType, PTL DEF Spec

-----------------------------------------------------------------------------
(* The risk.                                                               *)

\* checkCAQI answers for every concentration of its two particle sizes, and a higher
\* concentration never has a lower risk: the five ranges neither overlap nor leave gaps.
THEOREM RiskIsTotalAndMonotone ==
  ASSUME NEW pType \in {"2.5", "10"}, NEW v \in Int, NEW w \in Int, v <= w
  PROVE  /\ CheckCAQI(pType, v) \in 1..5
         /\ CheckCAQI(pType, v) <= CheckCAQI(pType, w)
<1>1. CASE pType = "2.5"
  BY <1>1 DEF CheckCAQI, Limits
<1>2. CASE pType = "10"
  BY <1>2 DEF CheckCAQI, Limits
<1> QED
  BY <1>1, <1>2
=============================================================================

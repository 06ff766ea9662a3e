------------------------ MODULE ReportRecords_proofs ------------------------
(***************************************************************************)
(* Theorems about the records and the generators made of them, for every   *)
(* room and every size of a record, and any number of RPL instances and of *)
(* parents.                                                                *)
(***************************************************************************)
EXTENDS ReportRecords, TLAPS, WellFoundedInduction, FiniteSetTheorems,
        SequenceTheorems

-----------------------------------------------------------------------------
(* A run of records.                                                       *)

\* Induction, with a set in the place of a predicate.
LEMMA InductionOverNat ==
  ASSUME NEW S, 0 \in S, \A n \in Nat : n \in S => n + 1 \in S
  PROVE  Nat \subseteq S
<1> DEFINE R   == OpToRel(<, Nat)
           Bad == Nat \ S
<1> SUFFICES ASSUME Bad # {} PROVE FALSE
  OBVIOUS
<1>1. IsWellFoundedOn(R, Nat)
  BY NatLessThanWellFounded
<1>2. \A x, y \in Nat : x < y => <<x, y>> \in R
  BY DEF OpToRel
<1>3. Bad \subseteq Nat
  OBVIOUS
<1> HIDE DEF R
<1>4. PICK x \in Bad : \A y \in Bad : ~(<<y, x>> \in R)
  <2> HIDE DEF Bad
  <2> QED
    BY <1>1, <1>3, WFMin
<1>5. x \in Nat /\ x # 0
  BY <1>4
<1> DEFINE p == x - 1
<1>6. p \in Nat /\ p < x /\ p + 1 = x
  BY <1>5
<1> HIDE DEF p
<1>7. p \in S
  BY <1>2, <1>4, <1>5, <1>6
<1> QED
  BY <1>4, <1>6, <1>7

\* f holds the run after each record up to the k-th.
Steps(f, from, k, size, room) ==
  f = [i \in from - 1..k |->
         IF i < from THEN [next |-> from, n |-> 0] ELSE Record(i, size, room, f[i - 1])]

LEMMA RunIsLast ==
  ASSUME NEW from, NEW to, NEW size, NEW room
  PROVE  Run(from, to, size, room) = (CHOOSE f : Steps(f, from, to, size, room))[to]
BY DEF Run, Steps

LEMMA StepsExist ==
  ASSUME NEW from \in Nat \ {0}, NEW size, NEW room, NEW to \in Nat, from <= to + 1
  PROVE  \E f : Steps(f, from, to, size, room)
<1> DEFINE W == {m \in Nat : \E f : Steps(f, from, from - 1 + m, size, room)}
<1>1. 0 \in W
  <2> DEFINE f == [i \in from - 1..from - 1 |-> [next |-> from, n |-> 0]]
  <2>1. f = [i \in from - 1..from - 1 |->
               IF i < from THEN [next |-> from, n |-> 0] ELSE Record(i, size, room, f[i - 1])]
    OBVIOUS
  <2>2. from - 1 + 0 = from - 1
    OBVIOUS
  <2> HIDE DEF f
  <2>3. Steps(f, from, from - 1 + 0, size, room)
    BY <2>1, <2>2 DEF Steps
  <2> QED
    BY <2>3
<1>2. ASSUME NEW m \in Nat, m \in W PROVE m + 1 \in W
  <2> DEFINE k == from + m
  <2>1. PICK f : Steps(f, from, k - 1, size, room)
    <3>1. from - 1 + m = k - 1
      OBVIOUS
    <3> QED
      BY <1>2, <3>1
  <2>2. k \in Nat /\ from <= k /\ from - 1 + (m + 1) = k
    OBVIOUS
  <2> HIDE DEF k
  <2> DEFINE g == [i \in from - 1..k |-> IF i = k THEN Record(k, size, room, f[k - 1]) ELSE f[i]]
  <2>3. ASSUME NEW i \in from - 1..k
        PROVE  g[i] = IF i < from THEN [next |-> from, n |-> 0] ELSE Record(i, size, room, g[i - 1])
    <3>1. CASE i = k
      <4>1. k - 1 \in from - 1..k /\ k - 1 # k
        BY <2>2
      <4> QED
        BY <2>2, <3>1, <4>1
    <3>2. CASE i # k
      <4>1. i \in from - 1..k - 1
        BY <2>2, <3>2
      <4>2. f[i] = IF i < from THEN [next |-> from, n |-> 0] ELSE Record(i, size, room, f[i - 1])
        BY <2>1, <4>1 DEF Steps
      <4>3. ~(i < from) => i - 1 \in from - 1..k /\ i - 1 # k
        BY <2>2, <4>1
      <4> QED
        BY <3>2, <4>2, <4>3
    <3> QED
      BY <3>1, <3>2
  <2>4. g = [i \in from - 1..k |->
               IF i < from THEN [next |-> from, n |-> 0] ELSE Record(i, size, room, g[i - 1])]
    BY <2>3
  <2> HIDE DEF g
  <2>5. Steps(g, from, k, size, room)
    BY <2>4 DEF Steps
  <2> QED
    BY <2>2, <2>5
<1> HIDE DEF W
<1>3. to + 1 - from \in W
  BY <1>1, <1>2, InductionOverNat
<1>4. from - 1 + (to + 1 - from) = to
  OBVIOUS
<1> QED
  BY <1>3, <1>4 DEF W

Lengths(size, from, to) == \A i \in from..to : size[i] \in Nat

\* A run stops inside its records or behind the last, and what it writes leaves room
\* for the terminating zero.
THEOREM RunFits ==
  ASSUME NEW from \in Nat \ {0}, NEW to \in Nat, from <= to + 1,
         NEW room \in Nat \ {0}, NEW size, Lengths(size, from, to)
  PROVE  /\ Run(from, to, size, room).next \in from..to + 1
         /\ Run(from, to, size, room).n \in 0..room - 1
<1> DEFINE f == CHOOSE f : Steps(f, from, to, size, room)
<1>1. Steps(f, from, to, size, room)
  BY StepsExist
<1> HIDE DEF f
<1> DEFINE Good(m) == /\ f[from - 1 + m].next \in from..from + m
                      /\ f[from - 1 + m].n \in 0..room - 1
           W == {m \in Nat : from - 1 + m <= to => Good(m)}
<1>2. \A i \in from - 1..to :
        f[i] = IF i < from THEN [next |-> from, n |-> 0] ELSE Record(i, size, room, f[i - 1])
  BY <1>1 DEF Steps
<1>3. 0 \in W
  <2>1. from - 1 + 0 = from - 1 /\ from - 1 \in from - 1..to /\ from - 1 < from
    OBVIOUS
  <2>2. f[from - 1] = [next |-> from, n |-> 0]
    BY <1>2, <2>1
  <2> QED
    BY <2>1, <2>2
<1>4. ASSUME NEW m \in Nat, m \in W PROVE m + 1 \in W
  <2> SUFFICES ASSUME from - 1 + (m + 1) <= to PROVE Good(m + 1)
    OBVIOUS
  <2> DEFINE i == from + m
             b == f[i - 1]
  <2>1. i \in from - 1..to /\ ~(i < from) /\ i \in from..to /\ i \in Nat
        /\ from - 1 + (m + 1) = i /\ from - 1 + m = i - 1 /\ from + (m + 1) = i + 1
    OBVIOUS
  <2>2. f[i] = Record(i, size, room, b)
    BY <1>2, <2>1
  <2>3. b.next \in from..i /\ b.n \in 0..room - 1
    BY <1>4, <2>1
  <2>4. size[i] \in Nat
    BY <2>1 DEF Lengths
  <2> HIDE DEF i, b
  <2>5. CASE b.next = i /\ size[i] < room - b.n
    <3>1. f[i].next = i + 1 /\ f[i].n = b.n + size[i]
      BY <2>2, <2>5 DEF Record, Fits
    <3>2. b.n + size[i] \in 0..room - 1
      BY <2>3, <2>4, <2>5
    <3>3. i + 1 \in from..i + 1
      BY <2>1
    <3> QED
      BY <2>1, <3>1, <3>2, <3>3
  <2>6. CASE ~(b.next = i /\ size[i] < room - b.n)
    <3>1. f[i] = b
      BY <2>2, <2>6 DEF Record, Fits
    <3>2. b.next \in from..i + 1
      BY <2>1, <2>3
    <3> QED
      BY <2>1, <2>3, <3>1, <3>2
  <2> QED
    BY <2>5, <2>6
<1> HIDE DEF W
<1>5. to + 1 - from \in W
  BY <1>3, <1>4, InductionOverNat
<1>6. from - 1 + (to + 1 - from) = to /\ from + (to + 1 - from) = to + 1
  OBVIOUS
<1>7. f[to].next \in from..to + 1 /\ f[to].n \in 0..room - 1
  BY <1>5, <1>6 DEF W
<1> QED
  BY <1>7, RunIsLast DEF f
-----------------------------------------------------------------------------
(* Generators that resume.                                                 *)

\* The records that gen has written when it was not finished with the last call.
Position ==
  CASE gen = "mqttsn_report" -> mqState - 1
    [] gen = "rpl_report"    -> IF rplState < 4 THEN rplState - 1 ELSE 2 + stState
    [] OTHER                 -> 0

First(g, m) == [k \in 1..m |-> Records(g)[k]]

\* The static states say how far the generator in work is, and are those of the
\* beginning for all others.
RecordsInv ==
  /\ reportno \in 0..ReportMod - 1
  /\ gen \in Generators \cup {"none"}
  /\ mqState \in 1..5 /\ rplState \in 1..4 /\ stState \in 1..4
  /\ last \in [len : 1..MaxLen, n : 0..MaxLen, finished : BOOLEAN]
  /\ last.n < last.len
  /\ gen = "none" => emitted = <<>>
  /\ gen # "none" => emitted = First(gen, IF last.finished THEN Len(Records(gen)) ELSE Position)
  /\ gen # "mqttsn_report" \/ last.finished => mqState = 1
  /\ gen # "rpl_report" \/ last.finished => rplState = 1 /\ stState = 1
  /\ rplState < 4 => stState = 1

LEMMA OwnElements ==
  ASSUME NEW n \in Nat, NEW s, s = [k \in 1..n |-> s[k]]
  PROVE  s \in Seq(ToSet(s)) /\ Len(s) = n
<1>1. DOMAIN s = 1..n
  OBVIOUS
<1>2. \A k \in 1..n : s[k] \in ToSet(s)
  BY <1>1 DEF ToSet
<1> DEFINE S == ToSet(s)
<1> HIDE DEF S
<1>3. s \in [1..n -> S]
  BY <1>2 DEF S
<1>4. s \in Seq(S) /\ Len(s) = n
  BY <1>3
<1> QED
  BY <1>4 DEF S

LEMMA RecordsLen ==
  /\ \A g \in Generators : Records(g) \in Seq(ToSet(Records(g)))
  /\ Len(Records("boot_report")) = 1
  /\ Len(Records("mqttsn_report")) = 5
  /\ Len(Records("rpl_report")) = 7
<1>1. Records("boot_report") = [k \in 1..1 |-> Records("boot_report")[k]]
  BY DEF Records
<1>2. Records("mqttsn_report") = [k \in 1..5 |-> Records("mqttsn_report")[k]]
  BY DEF Records
<1>3. Records("rpl_report") = [k \in 1..7 |-> Records("rpl_report")[k]]
  BY DEF Records
<1> QED
  BY <1>1, <1>2, <1>3, OwnElements DEF Generators

\* What is written next goes on where the first m records end.
LEMMA FirstGrows ==
  ASSUME NEW m \in Nat, NEW n \in Nat, m <= n
  PROVE  First(gen, m) \o Wrote(m + 1, n + 1) = First(gen, n)
<1> DEFINE r == Records(gen)
           s == [k \in 1..m |-> r[k]]
           t == [k \in 1..n - m |-> r[m + k]]
<1>1. Wrote(m + 1, n + 1) = t
  <2>1. (n + 1) - (m + 1) = n - m /\ \A k \in 1..n - m : (m + 1) + k - 1 = m + k
    OBVIOUS
  <2> QED
    BY <2>1 DEF Wrote
<1>2. First(gen, m) = s
  BY DEF First
<1> HIDE DEF r
<1>3. s \o t = [k \in 1..n |-> r[k]]
  <2>1. s \in Seq({r[k] : k \in 1..n}) /\ t \in Seq({r[k] : k \in 1..n})
    OBVIOUS
  <2>2. Len(s) = m /\ Len(t) = n - m
    OBVIOUS
  <2>3. s \o t \in Seq({r[k] : k \in 1..n}) /\ Len(s \o t) = n
    BY <2>1, <2>2
  <2>4. ASSUME NEW k \in 1..n PROVE (s \o t)[k] = r[k]
    <3>1. CASE k <= m
      BY <2>1, <2>2, <3>1
    <3>2. CASE k > m
      <4>1. (s \o t)[k] = t[k - m]
        BY <2>1, <2>2, <3>2
      <4>2. k - m \in 1..n - m /\ m + (k - m) = k
        BY <3>2
      <4> QED
        BY <4>1, <4>2
    <3> QED
      BY <3>1, <3>2
  <2> DEFINE u == s \o t
             v == [k \in 1..n |-> r[k]]
  <2>5. v \in Seq({r[k] : k \in 1..n}) /\ Len(v) = n /\ \A k \in 1..n : v[k] = r[k]
    OBVIOUS
  <2>6. \A k \in 1..n : u[k] = v[k]
    BY <2>4, <2>5
  <2> HIDE DEF u, v
  <2>7. u = v
    BY <2>3, <2>5, <2>6, SeqEqual DEF u
  <2> QED
    BY <2>7 DEF u, v
<1> QED
  BY <1>1, <1>2, <1>3 DEF First, r

LEMMA SizesAreLengths ==
  ASSUME NEW n \in Nat, NEW size \in [1..n -> Sizes], NEW from \in Nat \ {0}, NEW to \in 0..n
  PROVE  Lengths(size, from, to)
<1> SUFFICES ASSUME NEW i \in from..to PROVE size[i] \in Nat
  BY DEF Lengths
<1>1. i \in 1..n
  OBVIOUS
<1> QED
  BY <1>1, RecordsAssumption

\* After a call that returned early, and after the last.
LEMMA Early ==
  ASSUME RecordsInv, gen # "none", UNCHANGED <<reportno, gen>>,
         mqState' \in 1..5, rplState' \in 1..4, stState' \in 1..4, rplState' < 4 => stState' = 1,
         gen # "mqttsn_report" => mqState' = 1,
         gen # "rpl_report" => rplState' = 1 /\ stState' = 1,
         NEW l, NEW n, NEW fin, last' = [len |-> l, n |-> n, finished |-> fin], fin = FALSE,
         l \in 1..MaxLen, n \in 0..l - 1, emitted' = First(gen, Position')
  PROVE  RecordsInv'
<1>1. /\ last' \in [len : 1..MaxLen, n : 0..MaxLen, finished : BOOLEAN]
      /\ last'.n < last'.len /\ ~last'.finished
  <2>1. n \in 0..MaxLen /\ n < l
    BY RecordsAssumption
  <2>2. fin \in BOOLEAN /\ last'.finished = fin /\ last'.n = n /\ last'.len = l
    OBVIOUS
  <2>3. [len |-> l, n |-> n, finished |-> fin] \in [len : 1..MaxLen, n : 0..MaxLen, finished : BOOLEAN]
    BY <2>1, <2>2
  <2> QED
    BY <2>1, <2>2, <2>3
<1> QED
  BY <1>1 DEF RecordsInv

LEMMA Complete ==
  ASSUME RecordsInv, gen # "none", UNCHANGED <<reportno, gen>>,
         mqState' = 1, rplState' = 1, stState' = 1,
         NEW l, NEW n, NEW fin, last' = [len |-> l, n |-> n, finished |-> fin], fin = TRUE,
         l \in 1..MaxLen, n \in 0..l - 1, emitted' = First(gen, Len(Records(gen)))
  PROVE  RecordsInv'
<1>1. /\ last' \in [len : 1..MaxLen, n : 0..MaxLen, finished : BOOLEAN]
      /\ last'.n < last'.len /\ last'.finished
  BY RecordsAssumption
<1>2. emitted' = First(gen', IF last'.finished THEN Len(Records(gen')) ELSE Position')
  BY <1>1
<1>3. 1 \in 1..5 /\ 1 \in 1..4
  OBVIOUS
<1> QED
  BY <1>1, <1>2, <1>3 DEF RecordsInv

LEMMA MqttsnStep ==
  ASSUME RecordsInv, ~last.finished, NEW len \in 1..MaxLen,
         NEW size \in [1..Len(Records(gen)) -> Sizes], MqttsnReport(len, size),
         UNCHANGED <<reportno, gen, parents>>
  PROVE  RecordsInv'
<1> DEFINE r == Run(mqState, 5, size, len)
<1>1. gen = "mqttsn_report" /\ Len(Records(gen)) = 5 /\ mqState \in 1..5
  BY RecordsLen DEF MqttsnReport, RecordsInv
<1>2. /\ mqState' = IF r.next > 5 THEN 1 ELSE r.next
      /\ emitted' = emitted \o Wrote(mqState, r.next)
      /\ last' = [len |-> len, n |-> r.n, finished |-> r.next > 5]
      /\ UNCHANGED <<rplState, stState>>
  BY DEF MqttsnReport, Result
<1>3. r.next \in mqState..6 /\ r.n \in 0..len - 1
  <2>1. mqState \in Nat \ {0} /\ mqState <= 5 + 1 /\ 5 \in Nat /\ len \in Nat \ {0} /\ 5 + 1 = 6
    BY <1>1
  <2>2. Lengths(size, mqState, 5)
    BY <1>1, <2>1, SizesAreLengths
  <2> QED
    BY <2>1, <2>2, RunFits
<1> HIDE DEF r
<1>4. emitted' = First(gen, r.next - 1)
  <2>1. emitted = First(gen, mqState - 1)
    BY <1>1 DEF RecordsInv, Position
  <2>2. mqState - 1 \in Nat /\ r.next - 1 \in Nat /\ mqState - 1 <= r.next - 1
        /\ (mqState - 1) + 1 = mqState /\ (r.next - 1) + 1 = r.next
    BY <1>1, <1>3
  <2> QED
    BY <1>2, <2>1, <2>2, FirstGrows
<1>7. CASE r.next > 5
  <2>1. r.next - 1 = 5
    BY <1>3, <1>1, <1>7
  <2>2. (r.next > 5) = TRUE
    BY <1>7
  <2>3. mqState' = 1 /\ rplState' = 1 /\ stState' = 1
    BY <1>1, <1>2, <1>7 DEF RecordsInv
  <2> QED
    BY <1>1, <1>2, <1>3, <1>4, <2>1, <2>2, <2>3, Complete
<1>8. CASE ~(r.next > 5)
  <2>1. r.next \in 1..5
    BY <1>1, <1>3, <1>8
  <2>2. Position' = r.next - 1
    BY <1>1, <1>2, <1>8 DEF Position
  <2>3. (r.next > 5) = FALSE
    BY <1>8
  <2>4. /\ mqState' \in 1..5 /\ rplState' = 1 /\ stState' = 1
        /\ rplState' \in 1..4 /\ stState' \in 1..4
    BY <1>1, <1>2, <1>8, <2>1 DEF RecordsInv
  <2> QED
    BY <1>1, <1>2, <1>3, <1>4, <2>2, <2>3, <2>4, Early
<1> QED
  BY <1>7, <1>8

LEMMA BootStep ==
  ASSUME RecordsInv, ~last.finished, NEW len \in 1..MaxLen,
         NEW size \in [1..Len(Records(gen)) -> Sizes], BootReport(len, size),
         UNCHANGED <<reportno, gen, parents>>
  PROVE  RecordsInv'
<1> DEFINE r == Run(1, 1, size, len)
<1>1. gen = "boot_report" /\ Len(Records(gen)) = 1
  BY RecordsLen DEF BootReport
<1>2. /\ emitted' = emitted \o Wrote(1, r.next)
      /\ last' = [len |-> len, n |-> r.n, finished |-> r.next > 1]
      /\ UNCHANGED <<mqState, rplState, stState>>
  BY DEF BootReport, Result
<1>3. r.next \in 1..2 /\ r.n \in 0..len - 1
  <2>1. len \in Nat \ {0} /\ 1 \in Nat \ {0} /\ 1 <= 1 + 1 /\ 1 + 1 = 2
    OBVIOUS
  <2>2. Lengths(size, 1, 1)
    BY <1>1, <2>1, SizesAreLengths
  <2> QED
    BY <2>1, <2>2, RunFits
<1> HIDE DEF r
<1>4. emitted' = First(gen, r.next - 1)
  <2>1. emitted = First(gen, 0)
    BY <1>1 DEF RecordsInv, Position
  <2>2. r.next - 1 \in Nat /\ 0 <= r.next - 1 /\ 0 + 1 = 1 /\ (r.next - 1) + 1 = r.next
    BY <1>3
  <2> QED
    BY <1>2, <2>1, <2>2, FirstGrows
<1>5. mqState' = 1 /\ rplState' = 1 /\ stState' = 1 /\ 1 \in 1..5 /\ 1 \in 1..4
  BY <1>1, <1>2 DEF RecordsInv
<1>7. CASE r.next = 2
  <2>1. (r.next > 1) = TRUE /\ r.next - 1 = 1
    BY <1>7
  <2> QED
    BY <1>1, <1>2, <1>3, <1>4, <1>5, <2>1, Complete
<1>8. CASE r.next = 1
  <2>1. Position' = 0
    BY <1>1 DEF Position
  <2>2. (r.next > 1) = FALSE /\ r.next - 1 = 0
    BY <1>8
  <2> QED
    BY <1>1, <1>2, <1>3, <1>4, <1>5, <2>1, <2>2, Early
<1> QED
  BY <1>3, <1>7, <1>8

LEMMA Appending ==
  ASSUME NEW S, NEW a \in Seq(S), NEW b \in Seq(S), NEW c \in Seq(S)
  PROVE  (a \o b) \o c = a \o (b \o c)
BY ConcatAssociative

LEMMA RplReportStep ==
  ASSUME RecordsInv, ~last.finished, NEW len \in 1..MaxLen,
         NEW size \in [1..Len(Records(gen)) -> Sizes], RplReport(len, size),
         UNCHANGED <<reportno, gen, parents>>
  PROVE  RecordsInv'
<1> DEFINE own     == Run(rplState, 3, size, len)
           stats   == Stats(len - own.n, size)
           atStats == own.next > 3
           done    == atStats /\ stats.next > 4
<1>1. gen = "rpl_report" /\ Len(Records(gen)) = 7 /\ rplState \in 1..4 /\ stState \in 1..4
  BY RecordsLen DEF RplReport, RecordsInv
<1>2. /\ rplState' = IF done THEN 1 ELSE own.next
      /\ stState' = IF ~atStats THEN stState ELSE IF done THEN 1 ELSE stats.next
      /\ emitted' = emitted \o IF atStats
                               THEN Wrote(rplState, 4) \o Wrote(3 + stState, 3 + stats.next)
                               ELSE Wrote(rplState, own.next)
      /\ last' = [len |-> len, n |-> own.n + IF atStats THEN stats.n ELSE 0, finished |-> done]
      /\ UNCHANGED mqState
  BY DEF RplReport, Result
<1>3. own.next \in rplState..4 /\ own.n \in 0..len - 1
  <2>1. rplState \in Nat \ {0} /\ rplState <= 3 + 1 /\ 3 \in Nat /\ len \in Nat \ {0} /\ 3 + 1 = 4
    BY <1>1
  <2>2. Lengths(size, rplState, 3)
    <3>1. size \in [1..7 -> Sizes]
      BY <1>1
    <3>2. 7 \in Nat /\ 3 \in 0..7
      OBVIOUS
    <3> QED
      BY <2>1, <3>1, <3>2, SizesAreLengths
  <2> QED
    BY <2>1, <2>2, RunFits
<1>4. stats.next \in stState..5 /\ stats.n \in 0..(len - own.n) - 1
  <2> DEFINE rest == [i \in 1..4 |-> size[i + 3]]
  <2>1. stState \in Nat \ {0} /\ stState <= 4 + 1 /\ 4 \in Nat /\ len - own.n \in Nat \ {0} /\ 4 + 1 = 5
    BY <1>1, <1>3
  <2>2. rest \in [1..4 -> Sizes]
    <3>1. \A i \in 1..4 : i + 3 \in 1..7
      OBVIOUS
    <3>2. size \in [1..7 -> Sizes]
      BY <1>1
    <3> QED
      BY <3>1, <3>2
  <2>3. stats = Run(stState, 4, rest, len - own.n)
    BY DEF Stats
  <2> HIDE DEF rest, own, stats
  <2>4. Lengths(rest, stState, 4)
    <3>1. 4 \in Nat /\ 4 \in 0..4
      OBVIOUS
    <3> QED
      BY <2>1, <2>2, <3>1, SizesAreLengths
  <2> QED
    BY <2>1, <2>3, <2>4, RunFits
<1> HIDE DEF own, stats
<1>6. emitted = First(gen, Position) /\ Position = IF rplState < 4 THEN rplState - 1 ELSE 2 + stState
  BY <1>1 DEF RecordsInv, Position
<1> DEFINE n == own.n + IF atStats THEN stats.n ELSE 0
<1>7. n \in 0..len - 1
  BY <1>3, <1>4
<1> HIDE DEF n
<1>8. CASE ~atStats
  <2>1. rplState \in 1..3 /\ own.next \in 1..3 /\ own.next - 1 \in Nat /\ rplState - 1 \in Nat
        /\ rplState - 1 <= own.next - 1 /\ (rplState - 1) + 1 = rplState
        /\ (own.next - 1) + 1 = own.next
    BY <1>1, <1>3, <1>8
  <2>2. emitted' = First(gen, own.next - 1)
    <3>1. emitted = First(gen, rplState - 1)
      BY <1>6, <2>1
    <3>2. emitted' = First(gen, rplState - 1) \o Wrote((rplState - 1) + 1, (own.next - 1) + 1)
      BY <1>2, <1>8, <2>1, <3>1
    <3> QED
      BY <2>1, <3>2, FirstGrows
  <2>3. stState = 1 /\ stState' = 1 /\ rplState' = own.next /\ ~last'.finished
    BY <1>2, <1>8, <2>1 DEF RecordsInv
  <2>4. Position' = own.next - 1
    BY <1>1, <2>1, <2>3 DEF Position
  <2>5. /\ mqState' = 1 /\ mqState' \in 1..5 /\ rplState' \in 1..4 /\ stState' \in 1..4 /\ done = FALSE
    BY <1>1, <1>2, <1>8, <2>1, <2>3 DEF RecordsInv
  <2>6. last' = [len |-> len, n |-> n, finished |-> done]
    BY <1>2 DEF n
  <2> QED
    BY <1>1, <1>7, <2>2, <2>3, <2>4, <2>5, <2>6, Early
<1>9. CASE atStats
  <2>1. emitted \o Wrote(rplState, 4) = First(gen, 2 + stState)
    <3>1. CASE rplState < 4
      <4>1. rplState - 1 \in Nat /\ rplState - 1 <= 3 /\ (rplState - 1) + 1 = rplState
            /\ 3 + 1 = 4 /\ stState = 1 /\ 2 + stState = 3
        BY <1>1, <3>1 DEF RecordsInv
      <4> QED
        BY <1>6, <3>1, <4>1, FirstGrows
    <3>2. CASE rplState = 4
      <4>1. Wrote(4, 4) = <<>>
        BY DEF Wrote
      <4>2. First(gen, 2 + stState) \in Seq({Records(gen)[k] : k \in 1..2 + stState})
        BY <1>1 DEF First
      <4>3. emitted = First(gen, 2 + stState)
        BY <1>6, <3>2
      <4> QED
        BY <3>2, <4>1, <4>2, <4>3
    <3> QED
      BY <1>1, <3>1, <3>2
  <2>2. emitted' = First(gen, 2 + stats.next)
    <3>1. emitted' = emitted \o (Wrote(rplState, 4) \o Wrote(3 + stState, 3 + stats.next))
      BY <1>2, <1>9
    <3>2. emitted' = (emitted \o Wrote(rplState, 4)) \o Wrote(3 + stState, 3 + stats.next)
      <4> DEFINE Those == {Records(gen)[k] : k \in Int}
                 v     == Wrote(rplState, 4)
                 w     == Wrote(3 + stState, 3 + stats.next)
      <4>1. Position \in Nat
        BY <1>1, <1>6
      <4>2. emitted \in Seq(Those)
        <5>1. First(gen, Position) \in Seq(Those)
          BY <4>1 DEF First
        <5> QED
          BY <1>6, <5>1
      <4>3. v \in Seq(Those)
        <5>1. 4 - rplState \in Nat /\ \A k \in 1..4 - rplState : rplState + k - 1 \in Int
          BY <1>1
        <5> QED
          BY <5>1 DEF Wrote
      <4>4. w \in Seq(Those)
        <5>1. (3 + stats.next) - (3 + stState) \in Nat /\ \A k \in Nat : (3 + stState) + k - 1 \in Int
          BY <1>1, <1>4
        <5> QED
          BY <5>1 DEF Wrote
      <4> HIDE DEF Those, v, w
      <4>5. (emitted \o v) \o w = emitted \o (v \o w)
        BY <4>2, <4>3, <4>4, Appending, SMTT(60)
      <4> QED
        BY <3>1, <4>5 DEF v, w
    <3>3. 2 + stState \in Nat /\ 2 + stats.next \in Nat /\ 2 + stState <= 2 + stats.next
          /\ (2 + stState) + 1 = 3 + stState /\ (2 + stats.next) + 1 = 3 + stats.next
      BY <1>1, <1>4
    <3> QED
      BY <2>1, <3>2, <3>3, FirstGrows
  <2>3. CASE stats.next > 4
    <3>1. stats.next = 5 /\ 2 + stats.next = 7
      BY <1>1, <1>4, <2>3
    <3>2. rplState' = 1 /\ stState' = 1 /\ mqState' = 1 /\ done = TRUE
      BY <1>1, <1>2, <1>9, <2>3 DEF RecordsInv
    <3>3. last' = [len |-> len, n |-> n, finished |-> done]
      BY <1>2 DEF n
    <3> QED
      BY <1>1, <1>7, <2>2, <3>1, <3>2, <3>3, Complete
  <2>4. CASE ~(stats.next > 4)
    <3>1. stats.next \in 1..4
      BY <1>1, <1>4, <2>4
    <3>2. own.next = 4
      BY <1>1, <1>3, <1>9
    <3>3. rplState' = 4 /\ stState' = stats.next /\ mqState' = 1 /\ done = FALSE
      BY <1>1, <1>2, <1>9, <2>4, <3>2 DEF RecordsInv
    <3>4. Position' = 2 + stats.next
      BY <1>1, <3>3 DEF Position
    <3>5. last' = [len |-> len, n |-> n, finished |-> done]
      BY <1>2 DEF n
    <3>6. mqState' \in 1..5 /\ rplState' \in 1..4 /\ stState' \in 1..4 /\ ~(rplState' < 4)
      BY <3>1, <3>3
    <3> QED
      BY <1>1, <1>7, <2>2, <3>3, <3>4, <3>5, <3>6, Early
  <2> QED
    BY <2>3, <2>4
<1> QED
  BY <1>8, <1>9

LEMMA InitRecords == Init => RecordsInv
BY RecordsAssumption DEF Init, RecordsInv, NoCall, Generators

LEMMA StepRecords == RecordsInv /\ [Next]_vars => RecordsInv'
<1> SUFFICES ASSUME RecordsInv, [Next]_vars PROVE RecordsInv'
  OBVIOUS
<1>1. CASE NextReportGen
  <2>1. /\ gen = "none" /\ reportno' = (reportno + 1) % ReportMod
        /\ gen' \in Generators /\ gen' # "none" /\ emitted' = <<>> /\ last' = NoCall
        /\ UNCHANGED <<mqState, rplState, stState>>
    BY <1>1 DEF NextReportGen, Generators
  <2>2. reportno' \in 0..ReportMod - 1
    <3>1. reportno + 1 \in Nat /\ ReportMod \in Nat \ {0}
      BY RecordsAssumption DEF RecordsInv
    <3> QED
      BY <2>1, <3>1
  <2>3. mqState = 1 /\ rplState = 1 /\ stState = 1
    BY <2>1 DEF RecordsInv
  <2>4. Position' = 0
    BY <2>1, <2>3 DEF Position
  <2>5. First(gen', 0) = <<>>
    BY DEF First
  <2>6. last' \in [len : 1..MaxLen, n : 0..MaxLen, finished : BOOLEAN] /\ last'.n < last'.len
        /\ ~last'.finished
    BY <2>1, RecordsAssumption DEF NoCall
  <2> QED
    BY <2>1, <2>2, <2>3, <2>4, <2>5, <2>6 DEF RecordsInv
<1>2. CASE Generate
  <2>1. gen # "none" /\ ~last.finished /\ UNCHANGED <<reportno, gen, parents>>
    BY <1>2 DEF Generate
  <2>2. PICK len \in 1..MaxLen, size \in [1..Len(Records(gen)) -> Sizes] :
          MqttsnReport(len, size) \/ BootReport(len, size) \/ RplReport(len, size)
    BY <1>2 DEF Generate
  <2> QED
    BY <2>1, <2>2, MqttsnStep, BootStep, RplReportStep
<1>3. CASE Finished
  BY <1>3 DEF Finished, RecordsInv
<1>4. CASE UNCHANGED <<reportno, gen, mqState, rplState, stState, emitted, last>>
  <2>1. Position' = Position
    BY <1>4 DEF Position
  <2> QED
    BY <1>4, <2>1 DEF RecordsInv
<1> QED
  BY <1>1, <1>2, <1>3, <1>4 DEF Next, Rpl, vars

LEMMA AlwaysRecords == Spec => []RecordsInv
BY InitRecords, StepRecords, PTL DEF Spec

\* The first m records of a generator, and where it stands.
LEMMA FirstIsPrefix ==
  ASSUME RecordsInv, gen # "none"
  PROVE  /\ Records(gen) \in Seq(ToSet(Records(gen)))
         /\ Position \in 0..Len(Records(gen)) - 1
         /\ \A m \in 0..Len(Records(gen)) :
              /\ First(gen, m) = SubSeq(Records(gen), 1, m) /\ Len(First(gen, m)) = m
              /\ First(gen, m) \in Seq(ToSet(Records(gen)))
         /\ First(gen, Len(Records(gen))) = Records(gen)
<1>1. gen \in Generators
  BY DEF RecordsInv
<1>2. Records(gen) \in Seq(ToSet(Records(gen)))
  BY <1>1, RecordsLen
<1>3. Position \in 0..Len(Records(gen)) - 1
  <2>1. mqState \in 1..5 /\ rplState \in 1..4 /\ stState \in 1..4
    BY DEF RecordsInv
  <2>2. CASE gen = "boot_report"
    BY <2>2, RecordsLen DEF Position
  <2>3. CASE gen = "mqttsn_report"
    <3>1. Position = mqState - 1 /\ Len(Records(gen)) = 5
      BY <2>3, RecordsLen DEF Position
    <3> QED
      BY <2>1, <3>1
  <2>4. CASE gen = "rpl_report"
    <3>1. Position = IF rplState < 4 THEN rplState - 1 ELSE 2 + stState
      BY <2>4 DEF Position
    <3>2. Len(Records(gen)) = 7
      BY <2>4, RecordsLen
    <3> QED
      BY <2>1, <3>1, <3>2
  <2> QED
    BY <1>1, <2>2, <2>3, <2>4 DEF Generators
<1> DEFINE s == Records(gen)
           S == ToSet(Records(gen))
<1> HIDE DEF s, S
<1>4. s \in Seq(S) /\ Len(s) \in Nat
  BY <1>2 DEF s, S
<1>5. ASSUME NEW m \in 0..Len(s)
      PROVE  /\ [k \in 1..m |-> s[k]] = SubSeq(s, 1, m) /\ Len([k \in 1..m |-> s[k]]) = m
             /\ [k \in 1..m |-> s[k]] \in Seq(S)
  BY <1>4
<1>6. [k \in 1..Len(s) |-> s[k]] = s
  BY <1>4
<1> QED
  BY <1>2, <1>3, <1>6 DEF First, s, S

\* Whatever rooms and sizes, and however often the generators are interrupted, the
\* reports carry the records of each in order and each once.
THEOREM RecordsAreInOrder == Spec => []RecordsInOrder
<1>1. RecordsInv => RecordsInOrder
  <2> SUFFICES ASSUME RecordsInv, gen # "none"
               PROVE  emitted = SubSeq(Records(gen), 1, Len(emitted))
    BY DEF RecordsInOrder
  <2> DEFINE m == IF last.finished THEN Len(Records(gen)) ELSE Position
  <2>1. emitted = First(gen, m)
    BY DEF RecordsInv
  <2>2. m \in 0..Len(Records(gen))
    BY FirstIsPrefix
  <2> HIDE DEF m
  <2> QED
    BY <2>1, <2>2, FirstIsPrefix
<1> QED
  BY <1>1, AlwaysRecords, PTL

\* A generator says that it is finished exactly when all of its records are written.
THEOREM FinishedMeansAll == Spec => []FinishedIsAll
<1>1. RecordsInv => FinishedIsAll
  <2> SUFFICES ASSUME RecordsInv, gen # "none"
               PROVE  last.finished <=> emitted = Records(gen)
    BY DEF FinishedIsAll
  <2>1. CASE last.finished
    BY <2>1, FirstIsPrefix DEF RecordsInv
  <2>2. CASE ~last.finished
    <3>1. emitted = First(gen, Position)
      BY <2>2 DEF RecordsInv
    <3>2. Len(emitted) = Position /\ Position < Len(Records(gen))
      BY <3>1, FirstIsPrefix
    <3> QED
      BY <2>2, <3>2, FirstIsPrefix
  <2> QED
    BY <2>1, <2>2
<1> QED
  BY <1>1, AlwaysRecords, PTL
-----------------------------------------------------------------------------
(* The arrays of RPL.                                                      *)

Expected(p) == IF p % 2 = 1 THEN "element" ELSE "comma"

LEMMA ListShape ==
  ASSUME NEW n \in Nat
  PROVE  /\ List(n) \in Text
         /\ n = 0 => List(n) = <<>>
         /\ n > 0 => Len(List(n)) = 2 * n - 1
         /\ \A p \in 1..Len(List(n)) : List(n)[p] = Expected(p)
<1> DEFINE m == IF n = 0 THEN 0 ELSE 2 * n - 1
           l == [k \in 1..m |-> IF k % 2 = 1 THEN "element" ELSE "comma"]
<1>1. m \in Nat /\ (n = 0 => m = 0) /\ (n > 0 => m = 2 * n - 1)
  OBVIOUS
<1>2. List(n) = l
  BY DEF List
<1> HIDE DEF m
<1>3. l \in Seq({"element", "comma"}) /\ Len(l) = m
  BY <1>1
<1>4. m = 0 => l = <<>>
  BY <1>3
<1>5. \A p \in 1..m : l[p] = Expected(p)
  BY DEF Expected
<1> QED
  BY <1>1, <1>2, <1>3, <1>4, <1>5 DEF Text

\* f holds the pieces of s put together up to each.
Joined(f, s, k) == f = [i \in 1..k |-> IF i = 1 THEN s[i] ELSE f[i - 1] \o s[i]]

LEMMA FlattenIsLast ==
  ASSUME NEW s, Len(s) # 0
  PROVE  FlattenSeq(s) = (CHOOSE f : Joined(f, s, Len(s)))[Len(s)]
BY DEF FlattenSeq, Joined

LEMMA JoinedExists ==
  ASSUME NEW s, NEW k \in Nat \ {0}
  PROVE  \E f : Joined(f, s, k)
<1> DEFINE W == {m \in Nat : \E f : Joined(f, s, m + 1)}
<1>1. 0 \in W
  <2> DEFINE f == [i \in 1..1 |-> s[1]]
  <2>1. f = [i \in 1..1 |-> IF i = 1 THEN s[i] ELSE f[i - 1] \o s[i]]
    OBVIOUS
  <2> HIDE DEF f
  <2>2. Joined(f, s, 0 + 1)
    BY <2>1 DEF Joined
  <2> QED
    BY <2>2
<1>2. ASSUME NEW m \in Nat, m \in W PROVE m + 1 \in W
  <2> DEFINE j == m + 1
  <2>1. PICK f : Joined(f, s, j)
    BY <1>2
  <2>2. j \in Nat /\ j >= 1 /\ (m + 1) + 1 = j + 1
    OBVIOUS
  <2> HIDE DEF j
  <2> DEFINE g == [i \in 1..j + 1 |-> IF i = j + 1 THEN f[j] \o s[j + 1] ELSE f[i]]
  <2>3. ASSUME NEW i \in 1..j + 1
        PROVE  g[i] = IF i = 1 THEN s[i] ELSE g[i - 1] \o s[i]
    <3>1. CASE i = j + 1
      <4>1. j \in 1..j + 1 /\ j # j + 1 /\ i # 1 /\ i - 1 = j
        BY <2>2, <3>1
      <4> QED
        BY <3>1, <4>1
    <3>2. CASE i # j + 1
      <4>1. i \in 1..j
        BY <2>2, <3>2
      <4>2. f[i] = IF i = 1 THEN s[i] ELSE f[i - 1] \o s[i]
        BY <2>1, <4>1 DEF Joined
      <4>3. i # 1 => i - 1 \in 1..j + 1 /\ i - 1 # j + 1
        BY <2>2, <4>1
      <4> QED
        BY <3>2, <4>2, <4>3
    <3> QED
      BY <3>1, <3>2
  <2>4. g = [i \in 1..j + 1 |-> IF i = 1 THEN s[i] ELSE g[i - 1] \o s[i]]
    BY <2>3
  <2> HIDE DEF g
  <2>5. Joined(g, s, j + 1)
    BY <2>4 DEF Joined
  <2> QED
    BY <2>2, <2>5
<1> HIDE DEF W
<1>3. k - 1 \in W
  BY <1>1, <1>2, InductionOverNat
<1>4. (k - 1) + 1 = k
  OBVIOUS
<1> QED
  BY <1>3, <1>4 DEF W

\* What the lists of n[1] to n[k] elements make, one behind the other: nothing, the
\* only list that has elements, or a text with an element in the place of a comma.
Nothing(t, n, k) == t = <<>> /\ \A i \in 1..k : n[i] = 0
OnlyList(t, n, k) ==
  \E j \in 1..k : t = List(n[j]) /\ n[j] > 0 /\ \A i \in 1..k : i # j => n[i] = 0
Misplaced(t, n, k) ==
  /\ \E i, j \in 1..k : i # j /\ n[i] > 0 /\ n[j] > 0
  /\ \E p \in 1..Len(t) : t[p] # Expected(p)
Shape(t, n, k) == Nothing(t, n, k) \/ OnlyList(t, n, k) \/ Misplaced(t, n, k)

LEMMA ShapeOfOne ==
  ASSUME NEW n, n[1] \in Nat
  PROVE  Shape(List(n[1]), n, 1)
<1>1. 1..1 = {1}
  OBVIOUS
<1>2. CASE n[1] = 0
  BY <1>1, <1>2, ListShape DEF Shape, Nothing
<1>3. CASE n[1] > 0
  BY <1>1, <1>3 DEF Shape, OnlyList
<1> QED
  BY <1>2, <1>3

LEMMA ShapeOfNext ==
  ASSUME NEW k \in Nat \ {0}, NEW n, \A i \in 1..k + 1 : n[i] \in Nat,
         NEW t \in Text, Shape(t, n, k)
  PROVE  t \o List(n[k + 1]) \in Text /\ Shape(t \o List(n[k + 1]), n, k + 1)
<1> DEFINE c == n[k + 1]
           u == t \o List(c)
<1>1. k + 1 \in 1..k + 1 /\ c \in Nat /\ \A i \in 1..k + 1 : i = k + 1 \/ (i \in 1..k /\ i # k + 1)
  OBVIOUS
<1>2. \A i \in 1..k : i \in 1..k + 1 /\ i # k + 1 /\ n[i] \in Nat
  OBVIOUS
<1> HIDE DEF c
<1>3. List(c) \in Text /\ (c = 0 => List(c) = <<>>)
  BY <1>1, ListShape
<1>4. u \in Text /\ Len(u) = Len(t) + Len(List(c)) /\ Len(t) \in Nat /\ Len(List(c)) \in Nat
      /\ (\A p \in 1..Len(t) : u[p] = t[p])
      /\ (\A p \in 1..Len(List(c)) : u[Len(t) + p] = List(c)[p])
  BY <1>3 DEF Text
<1>5. c = 0 => u = t
  BY <1>3 DEF Text
<1>6. t = <<>> => u = List(c)
  BY <1>3 DEF Text
<1> HIDE DEF u
<1>7. ASSUME Nothing(t, n, k) PROVE Shape(u, n, k + 1)
  <2>1. CASE c = 0
    <3>1. u = <<>>
      BY <1>5, <1>7, <2>1 DEF Nothing
    <3>2. \A i \in 1..k + 1 : n[i] = 0
      BY <1>1, <1>7, <2>1 DEF Nothing, c
    <3> QED
      BY <3>1, <3>2 DEF Shape, Nothing
  <2>2. CASE c > 0
    <3>1. u = List(n[k + 1]) /\ n[k + 1] > 0 /\ \A i \in 1..k + 1 : i # k + 1 => n[i] = 0
      BY <1>1, <1>6, <1>7, <2>2 DEF Nothing, c
    <3> QED
      BY <1>1, <3>1 DEF Shape, OnlyList
  <2> QED
    BY <1>1, <2>1, <2>2
<1>8. ASSUME OnlyList(t, n, k) PROVE Shape(u, n, k + 1)
  <2>1. PICK j \in 1..k : t = List(n[j]) /\ n[j] > 0 /\ \A i \in 1..k : i # j => n[i] = 0
    BY <1>8 DEF OnlyList
  <2>2. CASE c = 0
    <3>1. u = List(n[j]) /\ j \in 1..k + 1 /\ \A i \in 1..k + 1 : i # j => n[i] = 0
      BY <1>1, <1>2, <1>5, <2>1, <2>2 DEF c
    <3> QED
      BY <2>1, <3>1 DEF Shape, OnlyList
  <2>3. CASE c > 0
    <3>1. n[j] \in Nat /\ Len(t) = 2 * n[j] - 1 /\ Len(List(c)) = 2 * c - 1
      BY <1>1, <1>2, <2>1, <2>3, ListShape
    <3> DEFINE p == Len(t) + 1
    <3>2. p = 2 * n[j] /\ p \in 1..Len(u) /\ 1 \in 1..Len(List(c))
      <4> DEFINE a == n[j]
                 lt == Len(t)
                 lc == Len(List(c))
                 lu == Len(u)
      <4>1. a \in Nat /\ a > 0 /\ lt = 2 * a - 1 /\ c \in Nat /\ c > 0 /\ lc = 2 * c - 1 /\ lu = lt + lc
        BY <1>1, <1>4, <2>1, <2>3, <3>1
      <4> HIDE DEF a, lt, lc, lu
      <4>2. lt + 1 = 2 * a /\ lt + 1 \in 1..lu /\ 1 \in 1..lc
        BY <4>1
      <4> QED
        BY <4>2 DEF a, lt, lc, lu
    <3>3. u[p] = Expected(1)
      BY <1>1, <1>4, <3>2, ListShape
    <3>4. p % 2 = 0
      BY <3>1, <3>2
    <3>5. Expected(1) = "element" /\ Expected(p) = "comma"
      BY <3>4 DEF Expected
    <3>6. j # k + 1 /\ j \in 1..k + 1 /\ n[k + 1] > 0
      BY <1>2, <2>3 DEF c
    <3> HIDE DEF p
    <3>7. "element" # "comma"
      OBVIOUS
    <3>8. \E q \in 1..Len(u) : u[q] # Expected(q)
      BY <3>2, <3>3, <3>5, <3>7
    <3>9. \E i, l \in 1..k + 1 : i # l /\ n[i] > 0 /\ n[l] > 0
      BY <1>1, <2>1, <3>6
    <3> QED
      BY <3>8, <3>9 DEF Shape, Misplaced
  <2> QED
    BY <1>1, <2>2, <2>3
<1>9. ASSUME Misplaced(t, n, k) PROVE Shape(u, n, k + 1)
  <2>1. PICK p \in 1..Len(t) : t[p] # Expected(p)
    BY <1>9 DEF Misplaced
  <2>2. p \in 1..Len(u) /\ u[p] # Expected(p)
    BY <1>4, <2>1
  <2>3. \E i, j \in 1..k + 1 : i # j /\ n[i] > 0 /\ n[j] > 0
    BY <1>2, <1>9 DEF Misplaced
  <2> QED
    BY <2>2, <2>3 DEF Shape, Misplaced
<1>10. Shape(u, n, k + 1)
  BY <1>7, <1>8, <1>9 DEF Shape
<1> QED
  BY <1>4, <1>10 DEF u, c

\* The text of any number of lists, and when it is a list.
LEMMA ListsTogether ==
  ASSUME NEW N \in Nat \ {0}, NEW n \in [1..N -> Nat], NEW s, s = [i \in 1..N |-> List(n[i])]
  PROVE  /\ FlattenSeq(s) \in Text
         /\ IsList(FlattenSeq(s)) <=> Cardinality({i \in 1..N : n[i] > 0}) <= 1
<1> DEFINE f == CHOOSE f : Joined(f, s, N)
           t == f[N]
<1>1. Len(s) = N
  OBVIOUS
<1>2. FlattenSeq(s) = t
  BY <1>1, FlattenIsLast
<1>3. Joined(f, s, N)
  BY JoinedExists
<1> HIDE DEF f
<1>4. \A i \in 1..N : f[i] = IF i = 1 THEN List(n[i]) ELSE f[i - 1] \o List(n[i])
  BY <1>3 DEF Joined
<1> DEFINE W == {m \in Nat : m + 1 <= N => f[m + 1] \in Text /\ Shape(f[m + 1], n, m + 1)}
<1>5. 0 \in W
  <2>1. 1 \in 1..N /\ n[1] \in Nat
    OBVIOUS
  <2>2. f[1] = List(n[1])
    BY <1>4, <2>1
  <2>3. f[1] \in Text /\ Shape(f[1], n, 1)
    BY <2>1, <2>2, ListShape, ShapeOfOne
  <2> QED
    BY <2>3
<1>6. ASSUME NEW m \in Nat, m \in W PROVE m + 1 \in W
  <2> SUFFICES ASSUME (m + 1) + 1 <= N
               PROVE  f[(m + 1) + 1] \in Text /\ Shape(f[(m + 1) + 1], n, (m + 1) + 1)
    OBVIOUS
  <2> DEFINE k == m + 1
  <2>1. k \in Nat \ {0} /\ k + 1 \in 1..N /\ k + 1 # 1 /\ (k + 1) - 1 = k /\ k <= N
    OBVIOUS
  <2>2. f[k] \in Text /\ Shape(f[k], n, k)
    BY <1>6, <2>1
  <2> HIDE DEF k
  <2>3. \A i \in 1..k + 1 : n[i] \in Nat
    BY <2>1
  <2>4. f[k + 1] = f[k] \o List(n[k + 1])
    BY <1>4, <2>1
  <2>5. f[k + 1] \in Text /\ Shape(f[k + 1], n, k + 1)
    BY <2>1, <2>2, <2>3, <2>4, ShapeOfNext
  <2> QED
    BY <2>5 DEF k
<1> HIDE DEF W
<1>7. N - 1 \in W /\ (N - 1) + 1 = N
  <2>1. Nat \subseteq W
    BY <1>5, <1>6, InductionOverNat
  <2> QED
    BY <2>1
<1>8. t \in Text /\ Shape(t, n, N)
  BY <1>7 DEF W
<1> HIDE DEF t
<1> DEFINE Has == {i \in 1..N : n[i] > 0}
<1>9. IsFiniteSet(1..N) /\ IsFiniteSet(Has)
  <2>1. IsFiniteSet(1..N)
    BY FS_Interval
  <2>2. Has \in SUBSET (1..N)
    OBVIOUS
  <2> QED
    BY <2>1, <2>2, FS_Subset
<1>10. IsList(t) <=> Cardinality(Has) <= 1
  <2>1. CASE Nothing(t, n, N)
    <3>1. Has = {}
      BY <2>1 DEF Nothing
    <3>2. Cardinality(Has) = 0
      BY <3>1, FS_EmptySet
    <3>3. IsList(t)
      BY <2>1 DEF IsList, Nothing
    <3> QED
      BY <3>2, <3>3
  <2>2. CASE OnlyList(t, n, N)
    <3>1. PICK j \in 1..N : t = List(n[j]) /\ n[j] > 0 /\ \A i \in 1..N : i # j => n[i] = 0
      BY <2>2 DEF OnlyList
    <3>2. Has = {j}
      BY <3>1
    <3>3. Cardinality(Has) = 1
      BY <3>2, FS_Singleton
    <3>4. n[j] \in Nat /\ Len(t) = 2 * n[j] - 1 /\ \A p \in 1..Len(t) : t[p] = Expected(p)
      BY <3>1, ListShape
    <3>5. Len(t) % 2 = 1
      BY <3>4
    <3>6. IsList(t)
      BY <3>4, <3>5 DEF IsList, Expected
    <3> QED
      BY <3>3, <3>6
  <2>3. CASE Misplaced(t, n, N)
    <3>1. PICK i, j \in 1..N : i # j /\ n[i] > 0 /\ n[j] > 0
      BY <2>3 DEF Misplaced
    <3>2. ~IsList(t)
      BY <2>3 DEF IsList, Expected, Misplaced
    <3>3. IsFiniteSet({i}) /\ Cardinality({i}) = 1
      BY FS_Singleton
    <3>4. Cardinality({i} \cup {j}) = 2
      <4>1. Cardinality({i} \cup {j}) = IF j \in {i} THEN Cardinality({i}) ELSE Cardinality({i}) + 1
        BY <3>3, FS_AddElement
      <4> QED
        BY <3>1, <3>3, <4>1
    <3>5. {i} \cup {j} \in SUBSET Has
      BY <3>1
    <3>6. Cardinality({i} \cup {j}) <= Cardinality(Has)
      BY <1>9, <3>5, FS_Subset
    <3>7. Cardinality(Has) \in Nat
      BY <1>9, FS_CardinalityType
    <3>8. ~(Cardinality(Has) <= 1)
      <4> DEFINE c == Cardinality(Has)
      <4>1. 2 <= c /\ c \in Nat
        BY <3>4, <3>6, <3>7, Zenon
      <4> HIDE DEF c
      <4>2. ~(c <= 1)
        BY <4>1, SMT
      <4> QED
        BY <4>2, Zenon DEF c
    <3> QED
      BY <3>2, <3>8, Zenon
  <2> QED
    BY <1>8, <2>1, <2>2, <2>3 DEF Shape
<1> QED
  BY <1>2, <1>8, <1>10

\* The elements that each instance has in an array.
Elements(kind) ==
  [i \in 1..Instances |->
     IF parents[i] = -1 THEN 0 ELSE IF kind = "parents" THEN parents[i] ELSE 1]

LEMMA TextOfElements ==
  ASSUME RplTypeOK, NEW kind, NEW body,
         body = [i \in 1..Instances |-> List(IF kind = "parents" THEN parents[i] ELSE 1)]
  PROVE  /\ ForEachInstance(body) \in Text
         /\ IsList(ForEachInstance(body)) <=> Cardinality(Contribute(kind)) <= 1
<1> DEFINE n == Elements(kind)
           s == [i \in 1..Instances |-> IF parents[i] = -1 THEN <<>> ELSE body[i]]
<1>1. \A i \in 1..Instances : parents[i] = -1 \/ parents[i] \in Nat
  BY RplAssumption DEF RplTypeOK
<1>2. n \in [1..Instances -> Nat]
  BY <1>1 DEF Elements
<1>3. s = [i \in 1..Instances |-> List(n[i])]
  <2>1. List(0) = <<>>
    BY ListShape
  <2>2. ASSUME NEW i \in 1..Instances
        PROVE  (IF parents[i] = -1 THEN <<>> ELSE body[i]) = List(n[i])
    <3>1. CASE parents[i] = -1
      BY <2>1, <3>1 DEF Elements
    <3>2. CASE parents[i] # -1
      <4>1. n[i] = IF kind = "parents" THEN parents[i] ELSE 1
        BY <3>2 DEF Elements
      <4> QED
        BY <3>2, <4>1
    <3> QED
      BY <3>1, <3>2
  <2> QED
    BY <2>2
<1>4. Contribute(kind) = {i \in 1..Instances : n[i] > 0}
  <2>1. ASSUME NEW i \in 1..Instances
        PROVE  parents[i] >= (IF kind = "parents" THEN 1 ELSE 0) <=> n[i] > 0
    BY <1>1 DEF Elements
  <2> QED
    BY <2>1 DEF Contribute
<1>5. ForEachInstance(body) = FlattenSeq(s)
  BY DEF ForEachInstance
<1> HIDE DEF n, s
<1>6. FlattenSeq(s) \in Text /\ (IsList(FlattenSeq(s)) <=> Cardinality({i \in 1..Instances : n[i] > 0}) <= 1)
  BY <1>2, <1>3, RplAssumption, ListsTogether
<1> QED
  BY <1>4, <1>5, <1>6

\* Whatever instances RPL has, their array is a list if at most one contributes to it,
\* and none if more do.
LEMMA ArrayTexts ==
  ASSUME RplTypeOK, NEW kind \in ArrayKinds
  PROVE  /\ ArrayText[kind] \in Text
         /\ IsList(ArrayText[kind]) <=> Cardinality(Contribute(kind)) <= 1
<1> DEFINE body == [i \in 1..Instances |-> List(IF kind = "parents" THEN parents[i] ELSE 1)]
<1>1. ArrayText[kind] = ForEachInstance(body)
  <2>1. CASE kind = "parents"
    <3>1. body = [i \in 1..Instances |-> List(parents[i])]
      BY <2>1
    <3> QED
      BY <2>1, <3>1 DEF ArrayText, ParentsText
  <2>2. CASE kind # "parents"
    <3>1. body = [i \in 1..Instances |-> List(1)]
      BY <2>2
    <3> QED
      BY <2>2, <3>1 DEF ArrayText, ArrayKinds, InstancesText, DagsText
  <2> QED
    BY <2>1, <2>2
<1> HIDE DEF body
<1>2. body = [i \in 1..Instances |-> List(IF kind = "parents" THEN parents[i] ELSE 1)]
  BY DEF body
<1> QED
  BY <1>1, <1>2, TextOfElements

\* The arrays of the last call are those of RPL's tables, which have not changed since.
ArraysInv ==
  /\ RplTypeOK
  /\ DOMAIN arrays \subseteq ArrayKinds
  /\ \A k \in DOMAIN arrays : arrays[k] = ArrayText[k]

LEMMA TablesStep == ASSUME RplTypeOK, RplStep PROVE RplTypeOK'
<1>1. PICK i \in 1..Instances : Join(i) \/ Leave(i) \/ Adopt(i) \/ Drop(i)
  BY DEF RplStep
<1>2. parents[i] \in Int /\ parents[i] >= -1 /\ parents[i] <= MaxParents /\ MaxParents \in Nat
  BY RplAssumption DEF RplTypeOK
<1>3. PICK v : parents' = [parents EXCEPT ![i] = v] /\ v \in -1..MaxParents
  <2>1. CASE Join(i)
    <3>1. 0 \in -1..MaxParents
      BY <1>2
    <3> QED
      BY <2>1, <3>1 DEF Join
  <2>2. CASE Leave(i)
    <3>1. -1 \in -1..MaxParents
      BY <1>2
    <3> QED
      BY <2>2, <3>1 DEF Leave
  <2>3. CASE Adopt(i)
    <3>1. parents[i] + 1 \in -1..MaxParents
      BY <1>2, <2>3 DEF Adopt
    <3> QED
      BY <2>3, <3>1 DEF Adopt
  <2>4. CASE Drop(i)
    <3>1. parents[i] - 1 \in -1..MaxParents
      BY <1>2, <2>4 DEF Drop
    <3> QED
      BY <2>4, <3>1 DEF Drop
  <2> QED
    BY <1>1, <2>1, <2>2, <2>3, <2>4
<1> QED
  BY <1>3 DEF RplTypeOK

LEMMA TextsStay == ASSUME UNCHANGED parents PROVE ArrayText' = ArrayText /\ RplTypeOK' = RplTypeOK
BY DEF ArrayText, InstancesText, DagsText, ParentsText, ForEachInstance, RplTypeOK

LEMMA NoArraysAreRight == ASSUME RplTypeOK', arrays' = NoArrays PROVE ArraysInv'
<1>1. DOMAIN arrays' = {}
  BY DEF NoArrays
<1> QED
  BY <1>1 DEF ArraysInv

LEMMA ArraysOfAreRight ==
  ASSUME RplTypeOK, UNCHANGED parents, NEW from \in 1..4, NEW next \in 1..4,
         arrays' = ArraysOf(from, next)
  PROVE  ArraysInv'
<1> DEFINE names == {Records("rpl_report")[i] : i \in from..next - 1}
<1>1. arrays' = [k \in names |-> ArrayText[k]]
  BY DEF ArraysOf
<1>2. names \subseteq ArrayKinds
  <2>1. ASSUME NEW i \in from..next - 1 PROVE Records("rpl_report")[i] \in ArrayKinds
    <3>1. i = 1 \/ i = 2 \/ i = 3
      OBVIOUS
    <3> QED
      BY <3>1 DEF Records, ArrayKinds
  <2> QED
    BY <2>1
<1> HIDE DEF names
<1>3. DOMAIN arrays' = names /\ \A k \in names : arrays'[k] = ArrayText[k]
  BY <1>1
<1>4. RplTypeOK' /\ ArrayText' = ArrayText
  BY TextsStay
<1> QED
  BY <1>2, <1>3, <1>4 DEF ArraysInv

LEMMA InitArrays == Init => ArraysInv
<1> SUFFICES ASSUME Init PROVE ArraysInv
  OBVIOUS
<1>1. RplTypeOK
  <2>1. -1 \in -1..MaxParents
    BY RplAssumption
  <2> QED
    BY <2>1 DEF Init, RplInit, RplTypeOK
<1>2. DOMAIN arrays = {}
  BY DEF Init, NoArrays
<1> QED
  BY <1>1, <1>2 DEF ArraysInv

LEMMA RplReportArrays ==
  ASSUME RecordsInv, RplTypeOK, NEW len \in 1..MaxLen,
         NEW size \in [1..Len(Records(gen)) -> Sizes], RplReport(len, size), UNCHANGED parents
  PROVE  ArraysInv'
<1> DEFINE own == Run(rplState, 3, size, len)
<1>1. gen = "rpl_report" /\ Len(Records(gen)) = 7 /\ rplState \in 1..4
  BY RecordsLen DEF RplReport, RecordsInv
<1>2. arrays' = ArraysOf(rplState, own.next)
  BY DEF RplReport
<1>3. own.next \in rplState..4
  <2>1. rplState \in Nat \ {0} /\ rplState <= 3 + 1 /\ 3 \in Nat /\ len \in Nat \ {0} /\ 3 + 1 = 4
    BY <1>1
  <2>2. Lengths(size, rplState, 3)
    <3>1. size \in [1..7 -> Sizes]
      BY <1>1
    <3>2. 7 \in Nat /\ 3 \in 0..7
      OBVIOUS
    <3> QED
      BY <2>1, <3>1, <3>2, SizesAreLengths
  <2> QED
    BY <2>1, <2>2, RunFits
<1> HIDE DEF own
<1>4. own.next \in 1..4
  BY <1>1, <1>3
<1> QED
  BY <1>1, <1>2, <1>4, ArraysOfAreRight

LEMMA StepArrays == RecordsInv /\ ArraysInv /\ [Next]_vars => ArraysInv'
<1> SUFFICES ASSUME RecordsInv, ArraysInv, [Next]_vars PROVE ArraysInv'
  OBVIOUS
<1>1. RplTypeOK
  BY DEF ArraysInv
<1>2. UNCHANGED parents => RplTypeOK'
  BY <1>1, TextsStay
<1>3. CASE NextReportGen
  <2>1. UNCHANGED parents /\ arrays' = NoArrays
    BY <1>3 DEF NextReportGen
  <2> QED
    BY <1>2, <2>1, NoArraysAreRight
<1>4. CASE Generate
  <2>1. UNCHANGED parents
    BY <1>4 DEF Generate
  <2>2. PICK len \in 1..MaxLen, size \in [1..Len(Records(gen)) -> Sizes] :
          MqttsnReport(len, size) \/ BootReport(len, size) \/ RplReport(len, size)
    BY <1>4 DEF Generate
  <2>3. CASE MqttsnReport(len, size)
    <3>1. arrays' = NoArrays
      BY <2>3 DEF MqttsnReport
    <3> QED
      BY <1>2, <2>1, <3>1, NoArraysAreRight
  <2>4. CASE BootReport(len, size)
    <3>1. arrays' = NoArrays
      BY <2>4 DEF BootReport
    <3> QED
      BY <1>2, <2>1, <3>1, NoArraysAreRight
  <2>5. CASE RplReport(len, size)
    BY <1>1, <2>1, <2>5, RplReportArrays
  <2> QED
    BY <2>2, <2>3, <2>4, <2>5
<1>5. CASE Finished
  <2>1. UNCHANGED parents /\ arrays' = NoArrays
    BY <1>5 DEF Finished
  <2> QED
    BY <1>2, <2>1, NoArraysAreRight
<1>6. CASE Rpl
  <2>1. RplTypeOK' /\ arrays' = NoArrays
    BY <1>1, <1>6, TablesStep DEF Rpl
  <2> QED
    BY <2>1, NoArraysAreRight
<1>7. CASE UNCHANGED vars
  <2>1. UNCHANGED <<arrays, parents>>
    BY <1>7 DEF vars
  <2>2. RplTypeOK' /\ ArrayText' = ArrayText
    BY <1>1, <2>1, TextsStay
  <2> QED
    BY <2>1, <2>2 DEF ArraysInv
<1> QED
  BY <1>3, <1>4, <1>5, <1>6, <1>7 DEF Next

LEMMA AlwaysArrays == Spec => []ArraysInv
BY InitArrays, StepArrays, AlwaysRecords, PTL DEF Spec

\* For any number of RPL instances and parents: the array of a call is a list exactly
\* if at most one instance contributed to it.
THEOREM ArraysOfOneInstance == Spec => []ListsOfOneInstance
<1>1. ArraysInv => ListsOfOneInstance
  <2> SUFFICES ASSUME ArraysInv, NEW k \in DOMAIN arrays
               PROVE  IsList(arrays[k]) <=> Cardinality(Contribute(k)) <= 1
    BY DEF ListsOfOneInstance
  <2>1. RplTypeOK /\ k \in ArrayKinds /\ arrays[k] = ArrayText[k]
    BY DEF ArraysInv
  <2> QED
    BY <2>1, ArrayTexts
<1> QED
  BY <1>1, AlwaysArrays, PTL

\* The types of ReportRecords, its history of the texts included, and with them that a
\* call always leaves room for the terminating zero.
THEOREM TypeCorrect == Spec => []TypeOK
<1>1. RecordsInv /\ ArraysInv => TypeOK
  <2> SUFFICES ASSUME RecordsInv, ArraysInv PROVE TypeOK
    OBVIOUS
  <2> DEFINE All == UNION {ToSet(Records(g)) : g \in Generators}
  <2>1. emitted \in Seq(All)
    <3>1. CASE gen = "none"
      BY <3>1 DEF RecordsInv
    <3>2. CASE gen # "none"
      <4> DEFINE m == IF last.finished THEN Len(Records(gen)) ELSE Position
                 S == ToSet(Records(gen))
      <4>1. emitted = First(gen, m)
        BY <3>2 DEF RecordsInv
      <4>2. m \in 0..Len(Records(gen))
        BY <3>2, FirstIsPrefix
      <4> HIDE DEF m
      <4>3. emitted \in Seq(S)
        BY <3>2, <4>1, <4>2, FirstIsPrefix
      <4>4. gen \in Generators
        BY <3>2 DEF RecordsInv
      <4>5. S \subseteq All
        BY <4>4
      <4> HIDE DEF S, All
      <4> QED
        BY <4>3, <4>5
    <3> QED
      BY <3>1, <3>2
  <2>2. RplTypeOK /\ DOMAIN arrays \subseteq ArrayKinds /\ \A k \in DOMAIN arrays : arrays[k] \in Text
    BY ArrayTexts DEF ArraysInv
  <2> QED
    BY <2>1, <2>2 DEF TypeOK, RecordsInv
<1> QED
  BY <1>1, AlwaysRecords, AlwaysArrays, PTL
=============================================================================

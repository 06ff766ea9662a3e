---------------------------- MODULE ReportRecords ----------------------------
(***************************************************************************)
(* Records and the report generators made of them (report.h, report.c,     *)
(* gnrc_rpl.c, platform.c, mqttsn_report).  A record is written as a whole *)
(* or not at all; a generator that runs out of room returns early, and     *)
(* resumes from its static state when it is called again.                  *)
(*                                                                         *)
(* A text is its length.  Who calls the generators is not in the           *)
(* repository (the call in makereport is commented out): the caller here   *)
(* follows README.md, "Record Format": it takes the generator that         *)
(* next_report_gen names and calls it until it is finished, each time with *)
(* the room that is left in some report.                                   *)
(***************************************************************************)
EXTENDS RplRecords

CONSTANTS
  MaxLen,     \* bound: the rooms a generator is called with
  Sizes,      \* the lengths a record can have
  ReportMod   \* reportno counts modulo ReportMod (2^16)

ASSUME RecordsAssumption ==
  /\ MaxLen \in Nat \ {0}
  /\ Sizes \subseteq Nat \ {0}
  /\ ReportMod \in Nat /\ ReportMod % 2 = 0 /\ ReportMod > 2

\* The records of each generator, in the order they are generated.
Records(g) ==
  CASE g = "boot_report"   -> <<"boot">>
    [] g = "mqttsn_report" -> <<"gateway", "connect", "register", "publish", "reset">>
    [] g = "rpl_report"    -> <<"instances", "dags", "parents", "dio", "dis", "dao", "dao_ack">>
    [] OTHER               -> <<>>

Generators == {"boot_report", "mqttsn_report", "rpl_report"}

VARIABLES
  reportno,   \* static in next_report_gen
  gen,        \* the generator the caller is working on, or "none"
  mqState,    \* static in mqttsn_report: the record to go on with, from 1
  rplState,   \* static in rpl_report: instances, dags, parents, stats are 1 to 4
  stState,    \* static in stats: dio, dis, dao, dao_ack are 1 to 4
  emitted,    \* history: the records gen has written since it was taken
  last,       \* the last call of a generator: its room, result and finished
  arrays      \* history: the RPL arrays of the last call, as long as RPL stays as it is

vars == <<reportno, gen, mqState, rplState, stState, emitted, last, arrays, parents>>

NoCall   == [len |-> 1, n |-> 0, finished |-> FALSE]
NoArrays == [k \in {} |-> <<>>]

TypeOK ==
  /\ reportno \in 0..ReportMod - 1
  /\ gen \in Generators \cup {"none"}
  /\ mqState \in 1..5 /\ rplState \in 1..4 /\ stState \in 1..4
  /\ emitted \in Seq(UNION {ToSet(Records(g)) : g \in Generators})
  /\ last \in [len : 1..MaxLen, n : 0..MaxLen, finished : BOOLEAN]
  /\ last.n < last.len  \* there is room for the terminating zero
  /\ RplTypeOK
  /\ DOMAIN arrays \subseteq ArrayKinds /\ \A k \in DOMAIN arrays : arrays[k] \in Text

Init ==
  /\ reportno = 0 /\ gen = "none"
  /\ mqState = 1 /\ rplState = 1 /\ stState = 1
  /\ emitted = <<>> /\ last = NoCall
  /\ RplInit /\ arrays = NoArrays

-----------------------------------------------------------------------------
(* Records.                                                                *)

\* Mutant: no room left for the terminating zero.
FitsExactly(n, room) == n <= room

\* RECORD_START(.., room), PUTFMTs of n characters in all, RECORD_END: the room
\* includes the byte for the terminating zero.
Fits(n, room) == n < room

\* A run so far, when record i is next: it is written behind the others if it fits.
Record(i, size, room, sofar) ==
  IF sofar.next = i /\ Fits(size[i], room - sofar.n)
  THEN [next |-> i + 1, n |-> sofar.n + size[i]]
  ELSE sofar

\* A run of the records numbered from..to, of the given sizes, in a buffer with
\* `room` left: the number of the first record that did not fit (to+1 when all
\* did), and the characters written.  A generator falls through its cases so.
Run(from, to, size, room) ==
  LET after[i \in from - 1..to] ==
        IF i < from THEN [next |-> from, n |-> 0]
        ELSE Record(i, size, room, after[i - 1])
  IN after[to]

\* What a call writes: the records from..next-1 of gen.
Wrote(from, next) == [k \in 1..next - from |-> Records(gen)[from + k - 1]]

\* The arrays among the records from..next-1 of rpl_report.
ArraysOf(from, next) ==
  [k \in {Records("rpl_report")[i] : i \in from..next - 1} |-> ArrayText[k]]

Result(len, n, fin) == last' = [len |-> len, n |-> n, finished |-> fin]

-----------------------------------------------------------------------------
(* The generators, called with a room of len.                              *)

\* Mutant: an early return forgets how far it got.
MqttsnReportRestarts(len, size) ==
  LET r == Run(mqState, 5, size, len) IN
  /\ gen = "mqttsn_report"
  /\ mqState' = 1
  /\ emitted' = emitted \o Wrote(mqState, r.next)
  /\ Result(len, r.n, r.next > 5)
  /\ arrays' = NoArrays
  /\ UNCHANGED <<rplState, stState>>

\* mqttsn_report.
MqttsnReport(len, size) ==
  LET r == Run(mqState, 5, size, len) IN
  /\ gen = "mqttsn_report"
  /\ mqState' = IF r.next > 5 THEN 1 ELSE r.next
  /\ emitted' = emitted \o Wrote(mqState, r.next)
  /\ Result(len, r.n, r.next > 5)
  /\ arrays' = NoArrays
  /\ UNCHANGED <<rplState, stState>>

\* boot_report: one record, and no state.
BootReport(len, size) ==
  LET r == Run(1, 1, size, len) IN
  /\ gen = "boot_report"
  /\ emitted' = emitted \o Wrote(1, r.next)
  /\ Result(len, r.n, r.next > 1)
  /\ arrays' = NoArrays
  /\ UNCHANGED <<mqState, rplState, stState>>

\* stats, called until it is done or writes nothing: the last four records.
Stats(room, size) == Run(stState, 4, [i \in 1..4 |-> size[i + 3]], room)

\* Mutant: rpl_report is done when its call of stats is, finished or not.
RplReportEarly(len, size) ==
  LET own   == Run(rplState, 3, size, len)
      stats == Stats(len - own.n, size)
      done  == own.next > 3
  IN
  /\ gen = "rpl_report"
  /\ rplState' = IF done THEN 1 ELSE own.next
  /\ stState'  = IF ~done THEN stState ELSE IF stats.next > 4 THEN 1 ELSE stats.next
  /\ emitted'  = emitted \o IF done
                            THEN Wrote(rplState, 4) \o Wrote(3 + stState, 3 + stats.next)
                            ELSE Wrote(rplState, own.next)
  /\ Result(len, own.n + IF done THEN stats.n ELSE 0, done)
  /\ arrays' = ArraysOf(rplState, own.next)
  /\ UNCHANGED mqState

\* rpl_report: three records of its own, then stats, which is called until it is
\* done or writes nothing.  stats returns early with what it has written; the
\* call after that writes nothing, and ends rpl_report's.
RplReport(len, size) ==
  LET own   == Run(rplState, 3, size, len)
      stats == Stats(len - own.n, size)
      atStats == own.next > 3
      done  == atStats /\ stats.next > 4
  IN
  /\ gen = "rpl_report"
  /\ rplState' = IF done THEN 1 ELSE own.next
  /\ stState'  = IF ~atStats THEN stState ELSE IF done THEN 1 ELSE stats.next
  /\ emitted'  = emitted \o IF atStats
                            THEN Wrote(rplState, 4) \o Wrote(3 + stState, 3 + stats.next)
                            ELSE Wrote(rplState, own.next)
  /\ Result(len, own.n + IF atStats THEN stats.n ELSE 0, done)
  /\ arrays' = ArraysOf(rplState, own.next)
  /\ UNCHANGED mqState

-----------------------------------------------------------------------------
(* The caller.                                                             *)

\* Mutant: a reportno that stays at its limit.
NextReportGenSticks ==
  LET next == IF reportno = ReportMod - 1 THEN reportno ELSE reportno + 1 IN
  /\ gen = "none"
  /\ reportno' = next
  /\ gen' = IF reportno = 0 THEN "boot_report"
            ELSE IF next % 2 = 0 THEN "rpl_report" ELSE "mqttsn_report"
  /\ emitted' = <<>> /\ arrays' = NoArrays
  /\ last' = NoCall
  /\ UNCHANGED <<mqState, rplState, stState, parents>>

\* next_report_gen, with RPL (s_max_report = 2): the boot report when reportno
\* was 0, else by the parity of the incremented number.
NextReportGen ==
  LET next == (reportno + 1) % ReportMod IN
  /\ gen = "none"
  /\ reportno' = next
  /\ gen' = IF reportno = 0 THEN "boot_report"
            ELSE IF next % 2 = 0 THEN "rpl_report" ELSE "mqttsn_report"
  /\ emitted' = <<>> /\ arrays' = NoArrays
  /\ last' = NoCall
  /\ UNCHANGED <<mqState, rplState, stState, parents>>

\* Call the generator once more; the sizes of its records change as the counters
\* they report grow.
Generate ==
  /\ gen # "none" /\ ~last.finished
  /\ \E len \in 1..MaxLen, size \in [1..Len(Records(gen)) -> Sizes] :
       MqttsnReport(len, size) \/ BootReport(len, size) \/ RplReport(len, size)
  /\ UNCHANGED <<reportno, gen, parents>>

Finished ==
  /\ gen # "none" /\ last.finished
  /\ gen' = "none" /\ emitted' = <<>> /\ arrays' = NoArrays
  /\ UNCHANGED <<reportno, mqState, rplState, stState, last, parents>>

\* RPL's tables change between two calls.  Its thread may also take the CPU during
\* one: the loop then sees, instance by instance, what is some table as well.
Rpl ==
  /\ RplStep
  /\ arrays' = NoArrays
  /\ UNCHANGED <<reportno, gen, mqState, rplState, stState, emitted, last>>

Next == NextReportGen \/ Generate \/ Finished \/ Rpl

Spec == Init /\ [][Next]_vars

\* Rooms of the full length keep coming, and the caller keeps using them.
FairSpec ==
  /\ Spec
  /\ WF_vars(NextReportGen) /\ WF_vars(Finished)
  /\ WF_vars(Generate) /\ SF_vars(Generate /\ last'.len = MaxLen)

-----------------------------------------------------------------------------
\* Whatever the rooms and the sizes, the reports carry the records of a generator
\* in order, each exactly once: an early return neither loses nor repeats one,
\* nor does the nesting of stats in rpl_report.
RecordsInOrder ==
  gen # "none" => emitted = SubSeq(Records(gen), 1, Len(emitted))

\* `finished` is set by the call that wrote the last record, and by no other.
FinishedIsAll ==
  gen # "none" => (last.finished <=> emitted = Records(gen))

\* "Records represent complete SenML elements" (README.md): an array is well-formed
\* exactly if no two instances contributed to it; what it lacks otherwise is the
\* comma between them.
ListsOfOneInstance ==
  \A k \in DOMAIN arrays : IsList(arrays[k]) <=> Cardinality(Contribute(k)) <= 1

\* "Records represent complete SenML elements" (README.md, Record Format), with
\* any number of RPL instances.
CompleteElements == \A k \in DOMAIN arrays : IsList(arrays[k])

\* With rooms that hold any record now and then, every generator gets its turn
\* again and again, also when reportno wraps and boot_report runs once more.
NoGeneratorStarves == \A g \in Generators : []<>(gen = g /\ last.finished)
=============================================================================

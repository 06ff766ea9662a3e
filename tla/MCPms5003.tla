------------------------------ MODULE MCPms5003 ------------------------------
(* The sensor driver with sensors that send a few frames.                  *)
EXTENDS Pms5003

\* The frame of length len whose words, from byte 4 on, are those of w.
Frame(len, w) ==
  LET data == [i \in 0..PMSBUFFER - 1 |->
                 CASE i = 0 -> PRE1
                   [] i = 1 -> PRE2
                   [] i = 2 -> 0
                   [] i = 3 -> len
                   [] i >= 4 /\ i < len + 2 ->
                        IF i % 2 = 0 THEN w[i] \div 256 ELSE w[i - 1] % 256
                   [] OTHER -> 0]
      sum  == SumFunctionOnSet(data, 0..len + 1)
  IN [data EXCEPT ![len + 2] = sum \div 256, ![len + 3] = sum % 256]

Level(x) == [i \in {2 * k : k \in 2..14} |-> x * i]

\* A PMS5003 in clean and in dusty air, and a PMS3003, which has no bins.
Clean    == Frame(28, Level(1))
Dusty    == Frame(28, Level(61))
Short    == Frame(20, Level(7))
Both     == {{Clean, Dusty}, {Short}}
OnlyBins == {{Clean, Dusty}}

\* The bytes of a transfer that noise may change: those of the preamble and of
\* either checksum, and a few that are added up in one sensor's frames or in both.
SomeBytes == {0, 1, 4, 21, 22, 23, 24, 30, 31}
NoBytes   == {}
=============================================================================

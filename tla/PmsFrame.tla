------------------------------ MODULE PmsFrame ------------------------------
(***************************************************************************)
(* The frames of the particle sensor and the check the driver makes of     *)
(* them (pms5003.c).  A buffer is 32 bytes: two preamble bytes, a two-byte *)
(* length, and up to 28 bytes of words whose last is a checksum.  `int` is *)
(* 16 bits wide on the target.                                             *)
(***************************************************************************)
EXTENDS Integers, Functions

PRE1 == 66   \* 0x42
PRE2 == 77   \* 0x4d
PMSMINBODYLEN == 20
PMSMAXBODYLEN == 28
PMSBUFFER     == PMSMAXBODYLEN + 4

Byte    == 0..255
UInt16  == {n \in Nat : n < 65536}
Buffers == [0..PMSBUFFER - 1 -> Byte]

\* Bytes i and i+1 of b as a uint16_t, and as the value of an int expression.
Word(b, i) == 256 * b[i] + b[i + 1]
Int16(n)   == IF n < 32768 THEN n ELSE n - 65536

\* Mutant: the checksum is not looked at.
CheckFrameNoSum(b) ==
  /\ b[0] = PRE1 /\ b[1] = PRE2
  /\ Int16(Word(b, 2)) \in PMSMINBODYLEN..PMSMAXBODYLEN

\* check_pmsframe.
CheckFrame(b) ==
  LET len == Int16(Word(b, 2)) IN
  /\ b[0] = PRE1 /\ b[1] = PRE2
  /\ len \in PMSMINBODYLEN..PMSMAXBODYLEN
  /\ Int16(Word(b, len + 2)) = SumFunctionOnSet(b, 0..len + 1)

\* The readings a frame carries, by the byte each starts at: the PM words are in
\* every frame, the dust bins only in one of length 28.
PMWords == {4, 6, 8, 10, 12, 14}
DBWords == {16, 18, 20, 22, 24, 26}
HasBins(b) == Int16(Word(b, 2)) = 28
Readings(b, words) == [i \in words |-> Word(b, i)]
=============================================================================

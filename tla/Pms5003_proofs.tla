--------------------------- MODULE Pms5003_proofs ---------------------------
(***************************************************************************)
(* Theorems about the sensor driver, for every set of frames the sensor    *)
(* may send and every way a transfer may fail.                             *)
(***************************************************************************)
EXTENDS Pms5003, TLAPS, FiniteSetTheorems

\* 16-bit arithmetic does no harm: a length in its range, and a sum of at most 30
\* bytes, equals the signed value of a word exactly if it equals the word.
THEOREM SignedReadsAreExact ==
  ASSUME NEW w \in UInt16, NEW n \in Nat, n <= 30 * 255
  PROVE  Int16(w) = n <=> w = n
BY DEF Int16, UInt16

\* check_pmsframe reads inside the buffer, whatever the length field says.
THEOREM ChecksumInBuffer ==
  ASSUME NEW b \in Buffers,
         Int16(Word(b, 2)) \in PMSMINBODYLEN..PMSMAXBODYLEN
  PROVE  LET len == Int16(Word(b, 2)) IN
         len + 2 \in DOMAIN b /\ len + 3 \in DOMAIN b /\ 0..len + 1 \subseteq DOMAIN b
BY DEF PMSMINBODYLEN, PMSMAXBODYLEN, PMSBUFFER, Buffers

-----------------------------------------------------------------------------
(* Sums over sets of bytes, of any size.                                   *)

\* What holds of a set whenever it holds of its strict subsets holds of each finite set:
\* induction with a set in the place of a predicate.
LEMMA SubsetInduction ==
  ASSUME NEW U, IsFiniteSet(U), NEW W,
         \A T \in SUBSET U : (\A V \in SUBSET T : V # T => V \in W) => T \in W
  PROVE  \A T \in SUBSET U : T \in W
<1> DEFINE Bad == {T \in SUBSET U : T \notin W}
           R   == StrictSubsetOrdering(U)
<1> SUFFICES ASSUME Bad # {} PROVE FALSE
  OBVIOUS
<1>1. IsWellFoundedOn(R, FiniteSubsetsOf(U)) /\ FiniteSubsetsOf(U) = SUBSET U
  BY FS_StrictSubsetOrderingWellFounded, FS_FiniteSubsetsOfFinite
<1>2. Bad \subseteq SUBSET U
  OBVIOUS
<1>3. \A V, T \in SUBSET U : V \subseteq T /\ V # T => <<V, T>> \in R
  BY DEF StrictSubsetOrdering
<1> HIDE DEF R
<1>4. PICK T \in Bad : \A V \in Bad : ~(<<V, T>> \in R)
  <2> HIDE DEF Bad
  <2> QED
    BY <1>1, <1>2, WFMin
<1>5. T \in SUBSET U /\ T \notin W
  OBVIOUS
<1>6. \A V \in SUBSET T : V # T => V \in W
  <2> SUFFICES ASSUME NEW V \in SUBSET T, V # T, V \notin W PROVE FALSE
    OBVIOUS
  <2>1. V \in SUBSET U /\ V \subseteq T
    BY <1>5
  <2>2. <<V, T>> \in R
    BY <1>3, <1>5, <2>1
  <2> QED
    BY <1>4, <2>1, <2>2
<1> QED
  BY <1>5, <1>6

\* g adds up b over the sets in D, an element at a time.
Pick(T) == CHOOSE x \in T : TRUE
Adds(b, D, g) ==
  g = [T \in D |-> IF T = {} THEN 0 ELSE b[Pick(T)] + g[T \ {Pick(T)}]]
Agree(b, c, S) == \A x \in S : b[x] = c[x]
Adder(b, S) == CHOOSE g : Adds(b, SUBSET S, g)

LEMMA PickIsElement == ASSUME NEW T, T # {} PROVE Pick(T) \in T
BY DEF Pick

\* The sum that check_pmsframe forms is that of an adder of all subsets.
LEMMA SumIsAdder ==
  ASSUME NEW b, NEW S
  PROVE  SumFunctionOnSet(b, S) = Adder(b, S)[S]
BY DEF SumFunctionOnSet, FoldFunctionOnSet, MapThenFoldSet, Adder, Adds, Pick

\* Two adders of functions that agree on U have the same sum for U.
LEMMA AddersAgree ==
  ASSUME NEW b, NEW c, NEW U, IsFiniteSet(U), Agree(b, c, U),
         NEW S, U \subseteq S, NEW g, Adds(b, SUBSET S, g), NEW h, Adds(c, SUBSET U, h)
  PROVE  g[U] = h[U]
<1> DEFINE W == {T \in SUBSET U : g[T] = h[T]}
<1>1. ASSUME NEW T \in SUBSET U, \A V \in SUBSET T : V # T => V \in W
      PROVE  T \in W
  <2>1. g[T] = (IF T = {} THEN 0 ELSE b[Pick(T)] + g[T \ {Pick(T)}])
    BY DEF Adds
  <2>2. h[T] = (IF T = {} THEN 0 ELSE c[Pick(T)] + h[T \ {Pick(T)}])
    BY DEF Adds
  <2>3. T # {} => Pick(T) \in T /\ T \ {Pick(T)} \in W
    BY <1>1, PickIsElement
  <2> QED
    BY <2>1, <2>2, <2>3 DEF Agree
<1> HIDE DEF W
<1>2. \A T \in SUBSET U : T \in W
  BY <1>1, SubsetInduction
<1> QED
  BY <1>2 DEF W

\* The recursive definition defines: there is an adder for each finite set.
LEMMA AdderExists ==
  ASSUME NEW b, NEW U, IsFiniteSet(U)
  PROVE  Adds(b, SUBSET U, Adder(b, U))
<1> DEFINE W == {T \in SUBSET U : Adds(b, SUBSET T, Adder(b, T))}
<1>1. ASSUME NEW T \in SUBSET U, \A V \in SUBSET T : V # T => V \in W
      PROVE  T \in W
  <2> DEFINE Rest(V) == IF V = {} THEN 0 ELSE b[Pick(V)] + Adder(b, V \ {Pick(V)})[V \ {Pick(V)}]
             g       == [V \in SUBSET T |-> Rest(V)]
  <2>1. ASSUME NEW V \in SUBSET T, V # T
        PROVE  Adder(b, V)[V] = Rest(V)
    <3>1. /\ Adds(b, SUBSET V, Adder(b, V))
          /\ \A X \in SUBSET V : Adds(b, SUBSET X, Adder(b, X))
      BY <1>1, <2>1
    <3>2. CASE V = {}
      BY <3>1, <3>2 DEF Adds
    <3>3. CASE V # {}
      <4> DEFINE X == V \ {Pick(V)}
      <4>1. X \in SUBSET V /\ X \subseteq V /\ IsFiniteSet(X)
        BY <1>1, FS_Subset
      <4>2. Adder(b, V)[V] = b[Pick(V)] + Adder(b, V)[X]
        BY <3>1, <3>3 DEF Adds
      <4> HIDE DEF X
      <4>4. Adds(b, SUBSET V, Adder(b, V)) /\ Adds(b, SUBSET X, Adder(b, X))
        BY <3>1, <4>1
      <4>5. Adder(b, V)[X] = Adder(b, X)[X]
        <5>1. Agree(b, b, X)
          BY DEF Agree
        <5> QED
          BY <4>1, <4>4, <5>1, AddersAgree
      <4> QED
        BY <3>3, <4>2, <4>5 DEF X
    <3> QED
      BY <3>2, <3>3
  <2>2. ASSUME NEW V \in SUBSET T, V # {}
        PROVE  g[V] = b[Pick(V)] + g[V \ {Pick(V)}]
    <3>1. V \ {Pick(V)} \in SUBSET T /\ V \ {Pick(V)} # T
      BY <2>2, PickIsElement
    <3>2. Adder(b, V \ {Pick(V)})[V \ {Pick(V)}] = Rest(V \ {Pick(V)})
      BY <2>1, <3>1
    <3> QED
      BY <2>2, <3>1, <3>2
  <2>3. Adds(b, SUBSET T, g)
    <3>1. \A V \in SUBSET T : g[V] = IF V = {} THEN 0 ELSE b[Pick(V)] + g[V \ {Pick(V)}]
      BY <2>2
    <3> HIDE DEF Rest
    <3> QED
      BY <3>1 DEF Adds
  <2> HIDE DEF g
  <2> QED
    BY <2>3 DEF Adder
<1> HIDE DEF W
<1>2. \A T \in SUBSET U : T \in W
  BY <1>1, SubsetInduction
<1> QED
  BY <1>2 DEF W

LEMMA SumEmpty ==
  ASSUME NEW b
  PROVE  SumFunctionOnSet(b, {}) = 0
<1>1. Adds(b, SUBSET {}, Adder(b, {})) /\ {} \in SUBSET {}
  BY AdderExists, FS_EmptySet
<1>2. Adder(b, {})[{}] = 0
  BY <1>1 DEF Adds
<1> QED
  BY <1>2, SumIsAdder

LEMMA SumPick ==
  ASSUME NEW b, NEW S, IsFiniteSet(S), S # {}
  PROVE  SumFunctionOnSet(b, S) = b[Pick(S)] + SumFunctionOnSet(b, S \ {Pick(S)})
<1> DEFINE R == S \ {Pick(S)}
<1>1. R \subseteq S /\ IsFiniteSet(R)
  BY FS_Subset
<1>2. Adds(b, SUBSET S, Adder(b, S)) /\ Adds(b, SUBSET R, Adder(b, R))
  BY <1>1, AdderExists
<1>3. Adder(b, S)[S] = b[Pick(S)] + Adder(b, S)[R]
  BY <1>2 DEF Adds
<1> HIDE DEF R
<1>4. Agree(b, b, R)
  BY DEF Agree
<1>5. Adder(b, S)[R] = Adder(b, R)[R]
  BY <1>1, <1>2, <1>4, AddersAgree
<1> QED
  BY <1>3, <1>5, SumIsAdder DEF R

\* Only the bytes that are added up matter.
LEMMA SumAgree ==
  ASSUME NEW b, NEW c, NEW S, IsFiniteSet(S), Agree(b, c, S)
  PROVE  SumFunctionOnSet(b, S) = SumFunctionOnSet(c, S)
<1>1. Adds(b, SUBSET S, Adder(b, S)) /\ Adds(c, SUBSET S, Adder(c, S)) /\ S \subseteq S
  BY AdderExists
<1> QED
  BY <1>1, AddersAgree, SumIsAdder

\* No sum of bytes exceeds 255 for each.
LEMMA SumType ==
  ASSUME NEW S, IsFiniteSet(S), NEW b, \A x \in S : b[x] \in 0..255
  PROVE  /\ SumFunctionOnSet(b, S) \in Nat
         /\ SumFunctionOnSet(b, S) <= 255 * Cardinality(S)
<1> DEFINE sum(T) == SumFunctionOnSet(b, T)
           W == {T \in SUBSET S : sum(T) \in Nat /\ sum(T) <= 255 * Cardinality(T)}
<1>1. ASSUME NEW T \in SUBSET S, \A V \in SUBSET T : V # T => V \in W
      PROVE  T \in W
  <2>1. CASE T = {}
    BY <2>1, SumEmpty, FS_EmptySet
  <2>2. CASE T # {}
    <3> DEFINE R == T \ {Pick(T)}
    <3>1. Pick(T) \in T /\ R \in W /\ IsFiniteSet(T)
      BY <1>1, <2>2, PickIsElement, FS_Subset
    <3>2. sum(T) = b[Pick(T)] + sum(R)
      BY <2>2, <3>1, SumPick
    <3>3. Cardinality(R) = Cardinality(T) - 1 /\ Cardinality(T) \in Nat
      BY <3>1, FS_RemoveElement, FS_CardinalityType
    <3>4. sum(R) \in Nat /\ sum(R) <= 255 * Cardinality(R) /\ b[Pick(T)] \in 0..255
      BY <3>1
    <3> HIDE DEF sum, R
    <3>5. sum(T) \in Nat /\ sum(T) <= 255 * Cardinality(T)
      BY <3>2, <3>3, <3>4
    <3> QED
      BY <3>5 DEF sum
  <2> QED
    BY <2>1, <2>2
<1> HIDE DEF W
<1>2. \A T \in SUBSET S : T \in W
  BY <1>1, SubsetInduction
<1> QED
  BY <1>2 DEF W

\* The order does not matter: any byte can be added last.
LEMMA SumRemove ==
  ASSUME NEW S, IsFiniteSet(S), NEW b, \A x \in S : b[x] \in 0..255, NEW i \in S
  PROVE  SumFunctionOnSet(b, S) = b[i] + SumFunctionOnSet(b, S \ {i})
<1> DEFINE sum(T) == SumFunctionOnSet(b, T)
           W == {T \in SUBSET S : \A x \in T : sum(T) = b[x] + sum(T \ {x})}
<1>1. ASSUME NEW T \in SUBSET S, \A V \in SUBSET T : V # T => V \in W
      PROVE  T \in W
  <2> SUFFICES ASSUME NEW x \in T PROVE sum(T) = b[x] + sum(T \ {x})
    OBVIOUS
  <2> DEFINE p == Pick(T)
  <2>1. p \in T /\ IsFiniteSet(T)
    BY PickIsElement, FS_Subset
  <2>2. sum(T) = b[p] + sum(T \ {p})
    BY <2>1, SumPick
  <2>3. CASE x = p
    BY <2>2, <2>3
  <2>4. CASE x # p
    <3> HIDE DEF p
    <3>1. T \ {p} \in W /\ T \ {x} \in W /\ (T \ {p}) \ {x} = (T \ {x}) \ {p}
      BY <1>1, <2>1
    <3>2. /\ sum(T \ {p}) = b[x] + sum((T \ {p}) \ {x})
          /\ sum(T \ {x}) = b[p] + sum((T \ {p}) \ {x})
      BY <2>1, <2>4, <3>1
    <3>3. sum((T \ {p}) \ {x}) \in Nat
      <4>1. (T \ {p}) \ {x} \subseteq S /\ IsFiniteSet((T \ {p}) \ {x})
        BY <2>1, FS_Subset
      <4> QED
        BY <4>1, SumType
    <3>4. b[x] \in 0..255 /\ b[p] \in 0..255
      BY <2>1
    <3>5. \A u, v, r \in Int : u + (v + r) = v + (u + r)
      OBVIOUS
    <3>6. sum(T) = b[p] + (b[x] + sum((T \ {p}) \ {x}))
      BY <2>2, <3>2
    <3>7. b[p] \in Int /\ b[x] \in Int /\ sum((T \ {p}) \ {x}) \in Int
      BY <3>3, <3>4
    <3>8. b[p] + (b[x] + sum((T \ {p}) \ {x})) = b[x] + (b[p] + sum((T \ {p}) \ {x}))
      BY <3>5, <3>7
    <3> QED
      BY <3>2, <3>6, <3>8
  <2> QED
    BY <2>3, <2>4
<1> HIDE DEF W
<1>2. \A T \in SUBSET S : T \in W
  BY <1>1, SubsetInduction
<1> QED
  BY <1>2 DEF W

-----------------------------------------------------------------------------
\* The length field of the buffer: that of the frames of the sensor connected, or the
\* zero it was initialised with, also when a transfer failed between its bytes.
LenInv ==
  /\ sensor \in Sensors
  /\ buf[2] = 0
  /\ buf[3] = 0 \/ \A f \in sensor : buf[3] = f[3]

SendsBins == \A f \in sensor : HasBins(f)

\* Which update the bins saw last.
FromInv == from.db = IF SendsBins THEN from.pm ELSE Zeros

KeepsLength == Flips \cap {2, 3} = {}

LEMMA Sent ==
  ASSUME NEW s \in Sensors
  PROVE  /\ s # {}
         /\ \A f \in s : f \in Buffers /\ CheckFrame(f)
         /\ \A f, g \in s : Word(f, 2) = Word(g, 2)
BY DriverAssumption

\* An accepted length is small: its first byte is zero.
LEMMA LengthOfAccepted ==
  ASSUME NEW b, b[2] \in 0..255, b[3] \in 0..255, CheckFrame(b)
  PROVE  b[2] = 0 /\ b[3] \in 20..28 /\ (HasBins(b) <=> b[3] = 28)
<1> DEFINE hi == b[2]
           lo == b[3]
<1>1. hi \in 0..255 /\ lo \in 0..255
  OBVIOUS
<1>2. Int16(Word(b, 2)) \in PMSMINBODYLEN..PMSMAXBODYLEN
  BY DEF CheckFrame
<1>3. Int16(256 * hi + lo) \in 20..28
  BY <1>2 DEF Word, PMSMINBODYLEN, PMSMAXBODYLEN
<1>4. HasBins(b) <=> Int16(256 * hi + lo) = 28
  BY DEF HasBins, Word
<1> HIDE DEF hi, lo
<1>5. hi = 0 /\ lo \in 20..28 /\ Int16(256 * hi + lo) = lo
  BY <1>1, <1>3 DEF Int16
<1>6. HasBins(b) <=> lo = 28
  BY <1>4, <1>5
<1> QED
  BY <1>5, <1>6 DEF hi, lo

LEMMA LengthBytes ==
  ASSUME NEW b \in Buffers
  PROVE  b[2] \in 0..255 /\ b[3] \in 0..255
BY DEF Buffers, Byte, PMSBUFFER, PMSMAXBODYLEN

\* All frames of a sensor have the same length bytes.
LEMMA LengthOfSent ==
  ASSUME NEW s \in Sensors, NEW f \in s, NEW g \in s
  PROVE  f[2] = 0 /\ f[3] \in 20..28 /\ g[3] = f[3] /\ (HasBins(f) <=> f[3] = 28)
<1>1. f \in Buffers /\ CheckFrame(f) /\ g \in Buffers /\ CheckFrame(g) /\ Word(f, 2) = Word(g, 2)
  BY Sent
<1>2. /\ f[2] \in 0..255 /\ f[3] \in 0..255
      /\ g[2] \in 0..255 /\ g[3] \in 0..255
  BY <1>1, LengthBytes
<1>3. f[2] = 0 /\ f[3] \in 20..28 /\ (HasBins(f) <=> f[3] = 28)
  BY <1>1, <1>2, LengthOfAccepted
<1>4. g[2] = 0 /\ g[3] \in 20..28
  BY <1>1, <1>2, LengthOfAccepted
<1>5. g[3] = f[3]
  BY <1>1, <1>3, <1>4 DEF Word
<1> QED
  BY <1>3, <1>5

LEMMA SampleKeepsLen ==
  ASSUME KeepsLength, LenInv, Sample
  PROVE  LenInv'
<1>1. PICK f \in sensor : \/ Whole(f)
                          \/ \E i \in Flips : Noisy(f, i)
                          \/ \E n \in Cuts : Cut(f, n)
  BY DEF Sample
<1>2. f[2] = 0 /\ \A g \in sensor : f[3] = g[3]
  BY LengthOfSent DEF LenInv
<1>3. f \in [0..31 -> Byte]
  BY Sent DEF LenInv, Buffers, PMSBUFFER, PMSMAXBODYLEN
<1>4. sensor' = sensor
  BY DEF Sample
<1>5. buf'[2] = 0 /\ buf'[3] \in {f[3], buf[3]}
  <2>1. CASE Whole(f)
    BY <1>2, <2>1 DEF Whole
  <2>2. CASE \E i \in Flips : Noisy(f, i)
    <3>1. PICK i \in Flips : Noisy(f, i)
      BY <2>2
    <3>2. i # 2 /\ i # 3
      BY DEF KeepsLength
    <3>3. buf'[2] = f[2] /\ buf'[3] = f[3]
      BY <1>3, <3>1, <3>2 DEF Noisy
    <3> QED
      BY <1>2, <3>3
  <2>3. CASE \E n \in Cuts : Cut(f, n)
    <3>1. PICK n \in Cuts : Cut(f, n)
      BY <2>3
    <3>2. /\ buf'[2] = IF 2 < n THEN f[2] ELSE buf[2]
          /\ buf'[3] = IF 3 < n THEN f[3] ELSE buf[3]
      BY <3>1 DEF Cut, PMSBUFFER, PMSMAXBODYLEN
    <3> QED
      BY <1>2, <3>2 DEF LenInv
  <2> QED
    BY <1>1, <2>1, <2>2, <2>3
<1> QED
  BY <1>2, <1>4, <1>5 DEF LenInv

\* A buffer that passes the check has bins exactly if the sensor's frames have.
LEMMA AcceptedLikeSent ==
  ASSUME NEW s \in Sensors, NEW b, CheckFrame(b),
         b[2] = 0, b[3] = 0 \/ \A f \in s : b[3] = f[3]
  PROVE  HasBins(b) <=> \A f \in s : HasBins(f)
<1>1. PICK f \in s : TRUE
  BY Sent
<1>2. \A g \in s : f[3] \in 20..28 /\ g[3] = f[3] /\ (HasBins(g) <=> f[3] = 28)
  BY LengthOfSent
<1>3. b[2] \in 0..255 /\ b[3] \in 0..255
  BY <1>2
<1>4. b[3] \in 20..28 /\ (HasBins(b) <=> b[3] = 28)
  BY <1>3, LengthOfAccepted
<1>5. b[3] = f[3]
  BY <1>4
<1> QED
  BY <1>2, <1>4, <1>5

LEMMA BinsStep ==
  ASSUME KeepsLength, LenInv, FromInv, [Next]_vars
  PROVE  LenInv' /\ FromInv'
<1>1. CASE Sample
  <2>1. LenInv' /\ sensor' = sensor /\ SendsBins' = SendsBins
    BY <1>1, SampleKeepsLen DEF Sample, SendsBins
  <2>2. Pmsframe(buf')
    BY <1>1 DEF Sample
  <2>3. CASE CheckFrame(buf')
    <3>1. HasBins(buf') <=> SendsBins
      <4>1. sensor' \in Sensors /\ buf'[2] = 0 /\ (buf'[3] = 0 \/ \A f \in sensor' : buf'[3] = f[3])
        BY <2>1 DEF LenInv
      <4> QED
        BY <2>1, <2>3, <4>1, AcceptedLikeSent DEF SendsBins
    <3> QED
      BY <2>1, <2>2, <2>3, <3>1 DEF Pmsframe, FromInv
  <2>4. CASE ~CheckFrame(buf')
    BY <2>1, <2>2, <2>4 DEF Pmsframe, FromInv
  <2> QED
    BY <2>3, <2>4
<1>2. CASE ProbeAcquire \/ ProbeAnswer \/ Start \/ Wait \/ NoBus
  BY <1>2 DEF ProbeAcquire, ProbeAnswer, Start, Wait, NoBus, readings, LenInv, FromInv, SendsBins
<1>3. CASE \E p \in Periods : Configure(p)
  BY <1>3 DEF Configure, readings, LenInv, FromInv, SendsBins
<1>4. CASE UNCHANGED vars
  BY <1>4 DEF vars, LenInv, FromInv, SendsBins
<1> QED
  BY <1>1, <1>2, <1>3, <1>4 DEF Next

\* No failed or noisy transfer ever leaves the dust bins of a sensor older than the PM
\* words they are printed and reported with, or makes bins for a sensor without.
THEOREM BinsStayWithTheirFrame == Spec => []BinsOfSameFrame
<1>1. Init => (KeepsLength => LenInv /\ FromInv)
  BY DEF Init, Zeros, LenInv, FromInv, PMSBUFFER, PMSMAXBODYLEN
<1>2. (KeepsLength => LenInv /\ FromInv) /\ [Next]_vars
        => (KeepsLength => LenInv /\ FromInv)'
  BY BinsStep DEF KeepsLength
<1>3. (KeepsLength => LenInv /\ FromInv) => BinsOfSameFrame
  BY DEF KeepsLength, BinsOfSameFrame, FromInv, SendsBins
<1> QED
  BY <1>1, <1>2, <1>3, PTL DEF Spec

-----------------------------------------------------------------------------
(* Types.                                                                  *)

LEMMA Constants ==
  /\ Periods \subseteq UInt16 /\ FrameMod \in Nat \ {0}
  /\ Flips \subseteq 0..PMSBUFFER - 1 /\ Cuts \subseteq 0..PMSBUFFER - 1
BY DriverAssumption

LEMMA WordType ==
  ASSUME NEW b \in Buffers, NEW i \in 0..PMSBUFFER - 2
  PROVE  Word(b, i) \in UInt16
<1> DEFINE hi == b[i]
           lo == b[i + 1]
<1>1. hi \in 0..255 /\ lo \in 0..255
  BY DEF Buffers, Byte, PMSBUFFER, PMSMAXBODYLEN
<1>2. Word(b, i) = 256 * hi + lo
  BY DEF Word
<1> HIDE DEF hi, lo
<1>3. 256 * hi + lo \in UInt16
  BY <1>1 DEF UInt16
<1> QED
  BY <1>2, <1>3

LEMMA ReadingsType ==
  ASSUME NEW b \in Buffers
  PROVE  Readings(b, PMWords) \in [PMWords -> UInt16] /\ Readings(b, DBWords) \in [DBWords -> UInt16]
BY WordType DEF Readings, PMWords, DBWords, PMSBUFFER, PMSMAXBODYLEN

\* A changed bit makes another byte.
LEMMA FlippedByte ==
  ASSUME NEW x \in Byte, NEW bit \in Bits
  PROVE  FlipBit(x, bit) \in Byte /\ FlipBit(x, bit) # x
<1> USE DEF Byte, FlipBit
<1>1. CASE bit \in {1, 2, 4}
  BY <1>1
<1>2. CASE bit \in {8, 16, 32}
  BY <1>2
<1>3. CASE bit \in {64, 128}
  BY <1>3
<1> QED
  BY <1>1, <1>2, <1>3 DEF Bits

LEMMA NoisyType ==
  ASSUME NEW f \in Buffers, NEW i \in 0..PMSBUFFER - 1, Noisy(f, i)
  PROVE  /\ buf' \in Buffers
         /\ f[i] \in Byte /\ buf'[i] \in Byte /\ buf'[i] # f[i]
         /\ \A j \in 0..PMSBUFFER - 1 : j # i => buf'[j] = f[j]
<1>1. PICK bit \in Bits : buf' = [f EXCEPT ![i] = FlipBit(@, bit)]
  BY DEF Noisy
<1>2. f[i] \in Byte
  BY DEF Buffers
<1>3. FlipBit(f[i], bit) \in Byte /\ FlipBit(f[i], bit) # f[i]
  BY <1>2, FlippedByte
<1> QED
  BY <1>1, <1>2, <1>3 DEF Buffers

LEMMA CutType ==
  ASSUME NEW f \in Buffers, buf \in Buffers, NEW n, Cut(f, n)
  PROVE  buf' \in Buffers
<1> SUFFICES ASSUME NEW i \in 0..PMSBUFFER - 1
             PROVE  (IF i < n THEN f[i] ELSE buf[i]) \in Byte
  BY DEF Cut, Buffers
<1> QED
  BY DEF Buffers

LEMMA InitType == Init => TypeOK
<1> SUFFICES ASSUME Init PROVE TypeOK
  OBVIOUS
<1>1. Zeros \in Buffers /\ 0 \in UInt16
  BY DEF Zeros, Buffers, Byte, UInt16
<1>2. 0 \in 0..FrameMod - 1 /\ 0 \in 0..FrameMod /\ 0 \in 0..PMSBUFFER
  BY Constants DEF PMSBUFFER, PMSMAXBODYLEN
<1> QED
  BY <1>1, <1>2, Constants DEF Init, TypeOK, Origins

LEMMA CountType ==
  ASSUME NEW n \in 0..FrameMod - 1
  PROVE  Plus1(n) \in 0..FrameMod - 1
BY Constants DEF Plus1

\* A reading of the sensor.
LEMMA SampleType == TypeOK /\ Sample => TypeOK'
<1> SUFFICES ASSUME TypeOK, Sample PROVE TypeOK'
  OBVIOUS
<1>1. PICK f \in sensor : \/ Whole(f)
                          \/ \E i \in Flips : Noisy(f, i)
                          \/ \E n \in Cuts : Cut(f, n)
  BY DEF Sample
<1>2. f \in Buffers
  BY Sent DEF TypeOK
<1>3. buf' \in Buffers /\ origin' \in [kind : Origins, byte : 0..PMSBUFFER] /\ received' \in 0..FrameMod
  <2>1. CASE Whole(f)
    BY <1>2, <2>1, Constants DEF Whole, TypeOK, Origins, PMSBUFFER, PMSMAXBODYLEN
  <2>2. ASSUME NEW i \in Flips, Noisy(f, i) PROVE <1>3!:
    <3>1. i \in 0..PMSBUFFER - 1 /\ i \in 0..PMSBUFFER
      BY Constants DEF PMSBUFFER, PMSMAXBODYLEN
    <3> QED
      BY <1>2, <2>2, <3>1, NoisyType DEF Noisy, TypeOK, Origins
  <2>3. ASSUME NEW n \in Cuts, Cut(f, n) PROVE <1>3!:
    <3>1. n \in 0..PMSBUFFER
      BY Constants DEF PMSBUFFER, PMSMAXBODYLEN
    <3>2. buf' \in Buffers
      BY <1>2, <2>3, CutType DEF TypeOK
    <3> QED
      BY <2>3, <3>1, <3>2 DEF Cut, TypeOK, Origins
  <2> QED
    BY <1>1, <2>1, <2>2, <2>3
<1>4. /\ PM' \in [PMWords -> UInt16] /\ DB' \in [DBWords -> UInt16]
      /\ valid_frames' \in 0..FrameMod - 1 /\ invalid_frames' \in 0..FrameMod - 1
      /\ from' \in [pm : Buffers, db : Buffers]
  <2>1. Pmsframe(buf')
    BY DEF Sample
  <2>2. CASE CheckFrame(buf')
    BY <1>3, <2>1, <2>2, ReadingsType, CountType DEF Pmsframe, TypeOK
  <2>3. CASE ~CheckFrame(buf')
    BY <2>1, <2>3, CountType DEF Pmsframe, TypeOK
  <2> QED
    BY <2>2, <2>3
<1> QED
  BY <1>3, <1>4 DEF Sample, TypeOK

LEMMA StepType == TypeOK /\ [Next]_vars => TypeOK'
<1> SUFFICES ASSUME TypeOK, [Next]_vars PROVE TypeOK'
  OBVIOUS
<1>1. CASE Sample
  BY <1>1, SampleType
<1>2. CASE Start
  <2> DEFINE product == sample_period * 100
  <2>1. product \in Nat
    <3>1. sample_period \in Nat
      BY Constants DEF TypeOK, UInt16
    <3> QED
      BY <3>1
  <2>2. interval' = product % 65536
    BY <1>2 DEF Start
  <2> HIDE DEF product
  <2>3. product % 65536 \in UInt16
    BY <2>1 DEF UInt16
  <2>4. interval' \in UInt16
    BY <2>2, <2>3
  <2> QED
    BY <1>2, <2>4 DEF Start, readings, TypeOK
<1>3. CASE ProbeAcquire \/ ProbeAnswer \/ Wait \/ NoBus
  BY <1>3 DEF ProbeAcquire, ProbeAnswer, Wait, NoBus, readings, TypeOK
<1>4. CASE \E p \in Periods : Configure(p)
  BY <1>4 DEF Configure, readings, TypeOK
<1>5. CASE UNCHANGED vars
  BY <1>5 DEF vars, TypeOK
<1> QED
  BY <1>1, <1>2, <1>3, <1>4, <1>5 DEF Next

\* The driver's variables keep their types and the counters wrap: the product in
\* pms5003_init and every word of every buffer fit their 16 bits.
THEOREM TypeCorrect == Spec => []TypeOK
BY InitType, StepType, PTL DEF Spec

-----------------------------------------------------------------------------
(* What the check lets through.                                            *)

\* The bytes that are added up, and the two of the checksum, are bytes of the buffer.
LEMMA SumOfBuffer ==
  ASSUME NEW b \in Buffers, NEW len \in PMSMINBODYLEN..PMSMAXBODYLEN
  PROVE  /\ IsFiniteSet(0..len + 1) /\ 0..len + 1 \subseteq 0..PMSBUFFER - 1
         /\ len + 2 \in 0..PMSBUFFER - 2
         /\ SumFunctionOnSet(b, 0..len + 1) \in Nat
         /\ SumFunctionOnSet(b, 0..len + 1) <= 30 * 255
<1> USE DEF PMSMINBODYLEN, PMSMAXBODYLEN, PMSBUFFER
<1>1. /\ 0..len + 1 \subseteq 0..PMSBUFFER - 1
      /\ len + 2 \in 0..PMSBUFFER - 2
  OBVIOUS
<1>2. IsFiniteSet(0..len + 1) /\ Cardinality(0..len + 1) = len + 2
  BY FS_Interval
<1>3. \A x \in 0..len + 1 : b[x] \in 0..255
  BY <1>1 DEF Buffers, Byte
<1>4. SumFunctionOnSet(b, 0..len + 1) \in Nat /\ SumFunctionOnSet(b, 0..len + 1) <= 255 * (len + 2)
  BY <1>2, <1>3, SumType
<1> DEFINE sum == SumFunctionOnSet(b, 0..len + 1)
<1> HIDE DEF sum
<1>5. sum \in Nat /\ sum <= 30 * 255
  BY <1>4 DEF sum
<1> QED
  BY <1>1, <1>2, <1>5 DEF sum

\* check_pmsframe with its 16-bit int accepts what it would accept with an int of any
\* width: neither the length nor the checksum of an accepted buffer, nor the sum, wraps.
THEOREM CheckIsExact ==
  ASSUME NEW b \in Buffers
  PROVE  CheckFrame(b) <=> LET len == Word(b, 2) IN
                           /\ b[0] = PRE1 /\ b[1] = PRE2
                           /\ len \in PMSMINBODYLEN..PMSMAXBODYLEN
                           /\ Word(b, len + 2) = SumFunctionOnSet(b, 0..len + 1)
<1> DEFINE len == Word(b, 2)
<1>1. len \in UInt16
  BY WordType DEF PMSBUFFER, PMSMAXBODYLEN
<1> HIDE DEF len
<1>2. Int16(len) \in PMSMINBODYLEN..PMSMAXBODYLEN <=> len \in PMSMINBODYLEN..PMSMAXBODYLEN
  BY <1>1 DEF Int16, UInt16, PMSMINBODYLEN, PMSMAXBODYLEN
<1>3. CASE len \in PMSMINBODYLEN..PMSMAXBODYLEN
  <2>1. Int16(len) = len
    BY <1>3 DEF Int16, PMSMINBODYLEN, PMSMAXBODYLEN
  <2> DEFINE sum == SumFunctionOnSet(b, 0..len + 1)
  <2>2. sum \in Nat /\ sum <= 30 * 255 /\ Word(b, len + 2) \in UInt16
    BY <1>3, SumOfBuffer, WordType
  <2> HIDE DEF sum
  <2>3. Int16(Word(b, len + 2)) = sum <=> Word(b, len + 2) = sum
    BY <2>2, SignedReadsAreExact
  <2> QED
    BY <1>3, <2>1, <2>3 DEF CheckFrame, len, sum
<1>4. CASE len \notin PMSMINBODYLEN..PMSMAXBODYLEN
  BY <1>2, <1>4 DEF CheckFrame, len
<1> QED
  BY <1>3, <1>4

\* A frame does not pass the check with one other byte in its preamble, in what is
\* added up after the length, or in its checksum.
THEOREM ChangedByteDetected ==
  ASSUME NEW f \in Buffers, CheckFrame(f), NEW g \in Buffers,
         NEW i \in 0..PMSBUFFER - 1, i \notin {2, 3}, i < Word(f, 2) + 4,
         g[i] # f[i], \A j \in 0..PMSBUFFER - 1 : j # i => g[j] = f[j]
  PROVE  ~CheckFrame(g)
<1> DEFINE len    == Word(f, 2)
           sum(b) == SumFunctionOnSet(b, 0..len + 1)
           rest   == (0..len + 1) \ {i}
           p      == len + 2
           q      == p + 1
<1>1. /\ f[0] = PRE1 /\ f[1] = PRE2 /\ len \in PMSMINBODYLEN..PMSMAXBODYLEN
      /\ Word(f, len + 2) = sum(f)
  BY CheckIsExact
<1>2. Word(g, 2) = len
  BY DEF Word, PMSBUFFER, PMSMAXBODYLEN
<1>3. CheckFrame(g) => g[0] = PRE1 /\ g[1] = PRE2 /\ Word(g, len + 2) = sum(g)
  BY <1>2, CheckIsExact
<1>4. i < len + 4
  OBVIOUS
<1> HIDE DEF len
<1>5. IsFiniteSet(0..len + 1) /\ 0..len + 1 \subseteq 0..PMSBUFFER - 1
  BY <1>1, SumOfBuffer
<1>6. p \in 0..PMSBUFFER - 1 /\ q \in 0..PMSBUFFER - 1 /\ p # q
  <2>1. len \in 20..28
    BY <1>1, Zenon DEF PMSMINBODYLEN, PMSMAXBODYLEN
  <2>2. PMSBUFFER = 32
    BY DEF PMSBUFFER, PMSMAXBODYLEN
  <2>3. p \in 0..31 /\ q \in 0..31 /\ p # q
    BY <2>1, SMT
  <2> HIDE DEF p, q
  <2> QED
    BY <2>2, <2>3
<1>7. \A j \in 0..PMSBUFFER - 1 : f[j] \in Byte /\ g[j] \in Byte
  BY DEF Buffers
<1>8. Byte \subseteq Int
  BY DEF Byte
<1>9. Word(g, p) = 256 * g[p] + g[q] /\ Word(f, p) = 256 * f[p] + f[q]
  BY DEF Word
<1>10. CASE i \in {0, 1}
  BY <1>1, <1>3, <1>10
<1>11. CASE i \in 4..len + 1
  <2>1. i \in 0..len + 1 /\ len + 2 # i /\ len + 3 # i
    BY <1>1, <1>11 DEF PMSMINBODYLEN, PMSMAXBODYLEN
  <2>2. Word(g, len + 2) = Word(f, len + 2)
    <3>1. g[p] = f[p] /\ g[q] = f[q]
      BY <1>1, <1>6, <2>1 DEF PMSMINBODYLEN, PMSMAXBODYLEN
    <3> QED
      BY <1>9, <3>1
  <2>3. /\ sum(f) = f[i] + SumFunctionOnSet(f, rest)
        /\ sum(g) = g[i] + SumFunctionOnSet(g, rest)
        /\ SumFunctionOnSet(f, rest) \in Nat
    <3>1. /\ \A x \in 0..len + 1 : f[x] \in 0..255
          /\ \A x \in 0..len + 1 : g[x] \in 0..255
          /\ \A x \in rest : f[x] \in 0..255
      BY <1>5, <1>7 DEF Byte
    <3>2. IsFiniteSet(rest)
      BY <1>5, FS_Subset
    <3>3. sum(f) = f[i] + SumFunctionOnSet(f, rest)
      BY <1>5, <2>1, <3>1, SumRemove
    <3>4. sum(g) = g[i] + SumFunctionOnSet(g, rest)
      BY <1>5, <2>1, <3>1, SumRemove
    <3>5. SumFunctionOnSet(f, rest) \in Nat
      BY <3>1, <3>2, SumType
    <3> QED
      BY <3>3, <3>4, <3>5
  <2>4. SumFunctionOnSet(g, rest) = SumFunctionOnSet(f, rest)
    <3>1. Agree(g, f, rest) /\ IsFiniteSet(rest)
      BY <1>5, FS_Subset DEF Agree
    <3> QED
      BY <3>1, SumAgree
  <2> HIDE DEF sum, rest
  <2>5. sum(g) # sum(f)
    <3>1. f[i] \in Int /\ g[i] \in Int
      BY <1>8, <1>7
    <3> QED
      BY <2>3, <2>4, <3>1
  <2> QED
    BY <1>1, <1>3, <2>2, <2>5
<1>12. CASE i \in {len + 2, len + 3}
  <2>1. sum(g) = sum(f)
    <3>1. Agree(g, f, 0..len + 1)
      BY <1>1, <1>5, <1>12 DEF Agree, PMSMINBODYLEN, PMSMAXBODYLEN
    <3> QED
      BY <1>5, <3>1, SumAgree
  <2>2. i \in {p, q}
    BY <1>12, <1>1 DEF PMSMINBODYLEN, PMSMAXBODYLEN
  <2> HIDE DEF p, q
  <2>3. (g[p] # f[p] /\ g[q] = f[q]) \/ (g[p] = f[p] /\ g[q] # f[q])
    <3>1. /\ p # i => g[p] = f[p]
          /\ q # i => g[q] = f[q]
      BY <1>6
    <3>2. CASE p = i
      BY <1>6, <3>1, <3>2
    <3>3. CASE q = i
      BY <1>6, <3>1, <3>3
    <3> QED
      BY <2>2, <3>2, <3>3
  <2>4. f[p] \in Int /\ f[q] \in Int /\ g[p] \in Int /\ g[q] \in Int
    BY <1>8, <1>6, <1>7
  <2>5. Word(g, p) # Word(f, p)
    BY <1>9, <2>3, <2>4
  <2> HIDE DEF sum
  <2> QED
    BY <1>1, <1>3, <2>1, <2>5 DEF p
<1>13. i \in {0, 1} \/ i \in 4..len + 1 \/ i \in {len + 2, len + 3}
  BY <1>1, <1>4 DEF PMSMINBODYLEN, PMSMAXBODYLEN
<1> QED
  BY <1>10, <1>11, <1>12, <1>13

\* The buffer holds a transfer in which noise changed a byte that the check uses.
NoiseIn == /\ origin.kind = "flipped" /\ origin.byte \notin {2, 3}
           /\ origin.byte < Int16(Word(buf, 2)) + 4

\* The readings come from a buffer that passed the check, or from none yet, and a
\* buffer with noise in it is neither.
NoiseInv ==
  /\ from.pm = Zeros \/ CheckFrame(from.pm)
  /\ NoiseIn => ~CheckFrame(buf) /\ buf # Zeros

LEMMA SampleNoise == TypeOK /\ NoiseInv /\ Sample => NoiseInv'
<1> SUFFICES ASSUME TypeOK, NoiseInv, Sample PROVE NoiseInv'
  OBVIOUS
<1>1. PICK f \in sensor : \/ Whole(f)
                          \/ \E i \in Flips : Noisy(f, i)
                          \/ \E n \in Cuts : Cut(f, n)
  BY DEF Sample
<1>2. f \in Buffers /\ CheckFrame(f)
  BY Sent DEF TypeOK
<1>3. from'.pm = Zeros \/ CheckFrame(from'.pm)
  <2>1. Pmsframe(buf')
    BY DEF Sample
  <2> QED
    BY <2>1 DEF Pmsframe, NoiseInv
<1>4. NoiseIn' => ~CheckFrame(buf') /\ buf' # Zeros
  <2>1. CASE Whole(f)
    BY <2>1 DEF Whole, NoiseIn
  <2>2. ASSUME NEW i \in Flips, Noisy(f, i), NoiseIn' PROVE ~CheckFrame(buf') /\ buf' # Zeros
    <3>1. i \in 0..PMSBUFFER - 1
      BY Constants
    <3>2. /\ buf' \in Buffers /\ buf'[i] # f[i]
          /\ \A j \in 0..PMSBUFFER - 1 : j # i => buf'[j] = f[j]
      BY <1>2, <2>2, <3>1, NoisyType
    <3>3. i \notin {2, 3} /\ i < Int16(Word(buf', 2)) + 4
      BY <2>2 DEF Noisy, NoiseIn
    <3>4. Word(buf', 2) = Word(f, 2)
      BY <3>2, <3>3 DEF Word, PMSBUFFER, PMSMAXBODYLEN
    <3>5. f[0] = 66 /\ f[1] = 77 /\ Int16(Word(f, 2)) = Word(f, 2)
      BY <1>2, CheckIsExact DEF PRE1, PRE2, Int16, PMSMINBODYLEN, PMSMAXBODYLEN
    <3>6. ~CheckFrame(buf')
      BY <1>2, <3>1, <3>2, <3>3, <3>4, <3>5, ChangedByteDetected
    <3>7. buf' # Zeros
      BY <3>1, <3>2, <3>5 DEF Zeros, PMSBUFFER, PMSMAXBODYLEN
    <3> QED
      BY <3>6, <3>7
  <2>3. ASSUME NEW n \in Cuts, Cut(f, n), NoiseIn' PROVE ~CheckFrame(buf') /\ buf' # Zeros
    <3>1. n = 0 /\ origin' = origin
      BY <2>3 DEF Cut, NoiseIn
    <3>2. buf' = buf
      BY <2>3, <3>1 DEF Cut, TypeOK, Buffers, PMSBUFFER, PMSMAXBODYLEN
    <3> QED
      BY <2>3, <3>1, <3>2 DEF NoiseInv, NoiseIn
  <2> QED
    BY <1>1, <2>1, <2>2, <2>3
<1> QED
  BY <1>3, <1>4 DEF NoiseInv

LEMMA StepNoise == TypeOK /\ NoiseInv /\ [Next]_vars => NoiseInv'
<1> SUFFICES ASSUME TypeOK, NoiseInv, [Next]_vars PROVE NoiseInv'
  OBVIOUS
<1>1. CASE Sample
  BY <1>1, SampleNoise
<1>2. CASE UNCHANGED <<buf, origin, from>>
  BY <1>2 DEF NoiseInv, NoiseIn
<1>3. ProbeAcquire \/ ProbeAnswer \/ Start \/ Wait \/ NoBus => UNCHANGED <<buf, origin, from>>
  BY DEF ProbeAcquire, ProbeAnswer, Start, Wait, NoBus, readings
<1>4. (\E p \in Periods : Configure(p)) \/ UNCHANGED vars => UNCHANGED <<buf, origin, from>>
  BY DEF Configure, readings, vars
<1> QED
  BY <1>1, <1>2, <1>3, <1>4 DEF Next

\* Whatever frames the sensor sends and whichever of their used bytes noise changes,
\* no reading is taken from a frame with one flipped bit outside its length field.
THEOREM NoiseIsDetected == Spec => []NoiseDetected
<1>1. Init => NoiseInv
  BY DEF Init, NoiseInv, NoiseIn
<1>2. NoiseInv => NoiseDetected
  BY DEF NoiseInv, NoiseIn, NoiseDetected
<1> QED
  BY <1>1, <1>2, StepNoise, TypeCorrect, PTL DEF Spec
=============================================================================

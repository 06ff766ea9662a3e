------------------------- MODULE SensorReport_proofs -------------------------
(***************************************************************************)
(* Theorems about reports, `read` and the driver that preempts them, for   *)
(* every number of words, bins and frames and every value of them; about   *)
(* the texts the node builds in buffers of a fixed size (NodeTexts), for   *)
(* every length; and about its start (NodeBoot), for every topic base.     *)
(***************************************************************************)
EXTENDS SensorReport, NodeBoot, TLAPS, FiniteSetTheorems, SequenceTheorems

\* A byte that was loaded is that of the reading after `frame` frames, and no older
\* than the report.
Stems(l, b, byte) ==
  l # Unset => l.frame \in began..frames /\ l.byte = byte

LoadInv ==
  /\ began \in 0..frames
  /\ latest = past[frames]
  /\ \A b \in Readings :
       /\ Stems(lo[b], b, past[lo[b].frame][b] % 256)
       /\ Stems(hi[b], b, past[hi[b].frame][b] \div 256)
       /\ b \in Read => lo[b] # Unset /\ hi[b] # Unset /\ b # bin

LEMMA Constants ==
  /\ MaxFrames \in Nat /\ "none" \notin Readings /\ IsFiniteSet(Readings)
  /\ Values \subseteq UInt16 /\ Bins \subseteq Readings
<1>1. IsFiniteSet(Readings)
  BY ReportAssumption, FS_Union DEF Readings
<1> QED
  BY <1>1, ReportAssumption DEF Readings

LEMMA ReadsReadings ==
  ASSUME TypeOK
  PROVE  wanted \subseteq Readings /\ todo \subseteq wanted /\ Read \subseteq Readings
BY Constants DEF TypeOK, Read

LEMMA ZeroIsUInt16 == 0 \in UInt16
BY SMT DEF UInt16

\* The two bytes of a value.
LEMMA DivMod ==
  ASSUME NEW v \in UInt16, NEW q, NEW r, q = v \div 256, r = v % 256
  PROVE  q \in 0..255 /\ r \in 0..255 /\ v = 256 * q + r
<1>1. v \in Nat /\ v <= 65535
  BY SMT DEF UInt16
<1>2. q \in Int /\ r \in Int
  BY <1>1, SMT
<1>3. 0 <= q /\ 0 <= r /\ r <= 255
  BY <1>1, SMT
<1>6. q \in Nat /\ r \in Nat /\ r \in 0..255
  BY <1>2, <1>3, SMT
<1>4. v = 256 * q + r
  BY <1>1, <1>6, SMT
<1>5. q <= 255
  BY <1>1, <1>6, <1>4, SMT
<1> QED
  BY <1>6, <1>4, <1>5, SMT

LEMMA Bytes ==
  ASSUME NEW v \in UInt16
  PROVE  v % 256 \in 0..255 /\ v \div 256 \in 0..255
<1> DEFINE q == v \div 256
           r == v % 256
<1> HIDE DEF q, r
<1>1. q \in 0..255 /\ r \in 0..255
  BY DivMod, SMT DEF q, r
<1> QED
  BY <1>1 DEF q, r

LEMMA UnsetIsNotLoaded == Unset \notin Loaded
BY Constants DEF Unset, Loaded

LEMMA InitType == Init => TypeOK
BY Constants, ZeroIsUInt16 DEF Init, TypeOK, Nothing

LEMMA StepType == TypeOK /\ [Next]_vars => TypeOK'
<1> SUFFICES ASSUME TypeOK, [Next]_vars PROVE TypeOK'
  OBVIOUS
<1> USE Constants DEF TypeOK
<1>1. CASE NewFrame
  BY <1>1 DEF NewFrame
<1>2. CASE \E b \in Readings : Enter(b)
  BY <1>2 DEF Enter
<1>3. CASE LoadLow
  <2>1. bin \in Readings
    BY <1>3 DEF LoadLow
  <2>2. latest[bin] % 256 \in 0..255
    BY <2>1, Bytes
  <2>3. [byte |-> latest[bin] % 256, frame |-> frames] \in Loaded
    BY <2>2 DEF Loaded
  <2> QED
    BY <1>3, <2>1, <2>3 DEF LoadLow
<1>4. CASE LoadHigh
  <2>1. bin \in Readings
    BY <1>4 DEF LoadHigh
  <2>2. latest[bin] \div 256 \in 0..255
    BY <2>1, Bytes
  <2>3. [byte |-> latest[bin] \div 256, frame |-> frames] \in Loaded
    BY <2>2 DEF Loaded
  <2> QED
    BY <1>4, <2>1, <2>3 DEF LoadHigh
<1>5. CASE Leave
  BY <1>5 DEF Leave
<1>6. CASE Formatted
  BY <1>6 DEF Formatted, Nothing
<1>7. CASE UNCHANGED vars
  BY <1>7 DEF vars
<1> QED
  BY <1>1, <1>2, <1>3, <1>4, <1>5, <1>6, <1>7 DEF Next

LEMMA InitLoad == Init => LoadInv
<1> SUFFICES ASSUME Init PROVE LoadInv
  OBVIOUS
<1>1. began = 0 /\ frames = 0 /\ 0 \in 0..MaxFrames
  BY Constants DEF Init
<1> QED
  BY <1>1 DEF Init, LoadInv, Nothing, Stems, Read

LEMMA StepLoad == TypeOK /\ LoadInv /\ [Next]_vars => LoadInv'
<1> SUFFICES ASSUME TypeOK, LoadInv, [Next]_vars PROVE LoadInv'
  OBVIOUS
<1> USE Constants DEF LoadInv, Stems, Read, TypeOK
<1>1. CASE NewFrame
  <2>1. frames' = frames + 1 /\ began' \in 0..frames' /\ latest' = past'[frames']
    BY <1>1 DEF NewFrame
  <2>2. \A n \in 0..frames : past'[n] = past[n]
    BY <1>1 DEF NewFrame
  <2> QED
    BY <1>1, <2>1, <2>2 DEF NewFrame
<1>2. CASE \E b \in Readings : Enter(b)
  BY <1>2 DEF Enter
<1>3. CASE LoadLow
  BY <1>3 DEF LoadLow, Unset
<1>4. CASE LoadHigh
  BY <1>4 DEF LoadHigh, Unset
<1>5. CASE Leave
  BY <1>5 DEF Leave
<1>6. CASE Formatted
  BY <1>6 DEF Formatted, Nothing
<1>7. CASE UNCHANGED vars
  BY <1>7 DEF vars
<1> QED
  BY <1>1, <1>2, <1>3, <1>4, <1>5, <1>6, <1>7 DEF Next

LEMMA Loads == Spec => [](TypeOK /\ LoadInv)
BY InitType, InitLoad, StepType, StepLoad, PTL DEF Spec

\* Every byte a reader has is a byte, from a frame that was accepted, for any number of
\* words and bins, of frames and of reports.
THEOREM TypeCorrect == Spec => []TypeOK
BY Loads, PTL

\* No reading of a report is older than the report, and one that is not torn is what
\* the driver measured with a single frame.
THEOREM ReportsAreFresh == Spec => []ReportFresh
<1>1. ASSUME TypeOK, LoadInv, NEW b \in Read
      PROVE  /\ lo[b].frame \in began..frames /\ hi[b].frame \in began..frames
             /\ b \notin Torn => Value(b) = past[lo[b].frame][b]
  <2>1. b \in Readings /\ lo[b] # Unset /\ hi[b] # Unset
    BY <1>1, ReadsReadings DEF LoadInv
  <2>2. /\ lo[b].frame \in began..frames /\ lo[b].byte = past[lo[b].frame][b] % 256
        /\ hi[b].frame \in began..frames /\ hi[b].byte = past[hi[b].frame][b] \div 256
    BY <1>1, <2>1 DEF LoadInv, Stems
  <2>3. past[lo[b].frame][b] \in UInt16
    BY <1>1, <2>1, <2>2, Constants DEF TypeOK, LoadInv
  <2>4. ASSUME lo[b].frame = hi[b].frame
        PROVE  Value(b) = past[lo[b].frame][b]
    BY <2>2, <2>3, <2>4, DivMod DEF Value
  <2> QED
    BY <1>1, <2>2, <2>4 DEF Torn
<1>2. TypeOK /\ LoadInv => ReportFresh
  BY <1>1 DEF ReportFresh
<1> QED
  BY <1>2, Loads, PTL

-----------------------------------------------------------------------------
(* How many bins a report can tear.                                        *)

\* The frames accepted when the accessor the reader is in made its first load;
\* while it has made none, all frames so far.
Mark ==
  IF bin = "none" \/ (lo[bin] = Unset /\ hi[bin] = Unset) THEN frames
  ELSE IF hi[bin] = Unset \/ (lo[bin] # Unset /\ lo[bin].frame <= hi[bin].frame)
       THEN lo[bin].frame ELSE hi[bin].frame

\* Accessors run one after the other, so the intervals between the two loads of
\* torn readings do not overlap, and each holds a frame.
TornInv ==
  /\ bin # "none" => bin \in todo
  /\ \A b \in todo : b # bin => lo[b] = Unset /\ hi[b] = Unset
  /\ Cardinality(Torn) <= Mark - began

LEMMA TornFinite ==
  ASSUME TypeOK
  PROVE  IsFiniteSet(Torn) /\ Cardinality(Torn) \in Nat
<1>1. Torn \subseteq Readings
  BY ReadsReadings DEF Torn
<1>2. IsFiniteSet(Torn)
  BY <1>1, Constants, FS_Subset
<1> QED
  BY <1>2, FS_CardinalityType

LEMMA MarkType ==
  ASSUME TypeOK, LoadInv
  PROVE  Mark \in began..frames
<1>1. CASE bin = "none"
  BY <1>1 DEF Mark, TypeOK, LoadInv
<1>2. CASE bin \in Readings
  BY <1>2 DEF Mark, TypeOK, LoadInv, Stems
<1> QED
  BY <1>1, <1>2 DEF TypeOK

LEMMA InitTorn == Init => TornInv
<1> SUFFICES ASSUME Init PROVE TornInv
  OBVIOUS
<1>1. Torn = {}
  BY DEF Init, Torn, Read
<1>2. Mark = 0 /\ began = 0 /\ 0 <= 0 - 0
  BY DEF Init, Mark
<1> QED
  <2>1. \A b \in todo : lo[b] = Unset /\ hi[b] = Unset
    BY Constants DEF Init, Nothing
  <2> QED
    BY <1>1, <1>2, <2>1, FS_EmptySet DEF Init, TornInv

LEMMA StepTorn == TypeOK /\ LoadInv /\ TornInv /\ [Next]_vars => TornInv'
<1> SUFFICES ASSUME TypeOK, LoadInv, TornInv, [Next]_vars PROVE TornInv'
  OBVIOUS
<1>1. frames \in Nat /\ began \in Nat /\ Mark \in began..frames /\ Cardinality(Torn) \in Nat
  BY MarkType, TornFinite DEF TypeOK
<1>2. CASE NewFrame
  <2>1. Torn' = Torn
    BY <1>2 DEF NewFrame, Torn, Read
  <2>2. Mark' \in {Mark, frames'} /\ frames' = frames + 1 /\ began' = began
    BY <1>2 DEF NewFrame, Mark
  <2>3. Cardinality(Torn') <= Mark' - began'
    BY <1>1, <2>1, <2>2 DEF TornInv
  <2> QED
    BY <1>2, <2>3 DEF NewFrame, TornInv
<1>3. CASE \E b \in Readings : Enter(b)
  <2>1. PICK b \in Readings : Enter(b)
    BY <1>3
  <2>2. Torn' = Torn
    BY <2>1 DEF Enter, Torn, Read
  <2>3. Mark' = Mark /\ began' = began
    BY <2>1 DEF Enter, Mark, TornInv
  <2>4. Cardinality(Torn') <= Mark' - began'
    BY <2>2, <2>3 DEF TornInv
  <2>5. /\ bin' # "none" => bin' \in todo'
        /\ \A c \in todo' : c # bin' => lo'[c] = Unset' /\ hi'[c] = Unset'
    <3>1. \A c \in todo : lo[c] = Unset /\ hi[c] = Unset
      BY <2>1, Constants DEF Enter, TornInv, LoadInv, TypeOK
    <3> QED
      BY <2>1, <3>1 DEF Enter, Unset
  <2> QED
    BY <2>4, <2>5 DEF TornInv
<1>4. CASE LoadLow \/ LoadHigh
  <2>1. bin \in Readings /\ bin \notin Read /\ bin' = bin /\ todo' = todo
    BY <1>4 DEF LoadLow, LoadHigh, TypeOK, LoadInv
  <2>2. \A b \in Readings : b # bin => lo'[b] = lo[b] /\ hi'[b] = hi[b]
    BY <1>4 DEF LoadLow, LoadHigh, TypeOK
  <2>3. Torn' = Torn
    <3>1. wanted' = wanted
      BY <1>4 DEF LoadLow, LoadHigh
    <3>2. Read' = Read
      BY <2>1, <3>1 DEF Read
    <3>3. \A b \in Read : lo'[b] = lo[b] /\ hi'[b] = hi[b]
      BY <2>1, <2>2, ReadsReadings
    <3> QED
      BY <3>2, <3>3 DEF Torn
  <2>4. Mark' = Mark /\ began' = began
    <3>1. [byte |-> latest[bin] % 256, frame |-> frames] # Unset
          /\ [byte |-> latest[bin] \div 256, frame |-> frames] # Unset
      BY Constants DEF Unset, TypeOK
    <3>2. CASE LoadLow
      BY <2>1, <3>1, <3>2 DEF LoadLow, Mark, TypeOK, LoadInv, Stems
    <3>3. CASE LoadHigh
      BY <2>1, <3>1, <3>3 DEF LoadHigh, Mark, TypeOK, LoadInv, Stems
    <3> QED
      BY <1>4, <3>2, <3>3
  <2>5. Cardinality(Torn') <= Mark' - began'
    BY <2>3, <2>4 DEF TornInv
  <2> QED
    <3>1. \A b \in todo' : b # bin' => b \in Readings /\ lo'[b] = lo[b] /\ hi'[b] = hi[b]
      BY <2>1, <2>2, ReadsReadings
    <3>2. Unset' = Unset
      BY DEF Unset
    <3> QED
      BY <2>1, <2>5, <3>1, <3>2 DEF TornInv
<1>5. CASE Leave
  <2>1. /\ bin \in Readings /\ bin \in todo /\ lo[bin] # Unset /\ hi[bin] # Unset
        /\ bin' = "none" /\ todo' = todo \ {bin} /\ UNCHANGED <<frames, lo, hi, began>>
        /\ Read' = Read \cup {bin}
    BY <1>5, ReadsReadings DEF Leave, TypeOK, TornInv, Read
  <2>2. Mark' = frames /\ began' = began
    BY <2>1 DEF Mark
  <2>3. CASE lo[bin].frame = hi[bin].frame
    <3>1. Torn' = Torn
      BY <2>1, <2>3 DEF Torn
    <3> QED
      BY <1>1, <2>1, <2>2, <3>1, Constants DEF TornInv
  <2>4. CASE lo[bin].frame # hi[bin].frame
    <3>1. Torn' = Torn \cup {bin}
      BY <2>1, <2>4 DEF Torn
    <3>2. Cardinality(Torn') <= Cardinality(Torn) + 1
      BY <1>1, <3>1, TornFinite, FS_AddElement
    <3>3. Mark + 1 <= frames
      BY <2>1, <2>4, Constants DEF Mark, TypeOK, LoadInv, Stems
    <3>4. Cardinality(Torn') \in Nat
      BY <3>1, TornFinite, FS_AddElement, FS_CardinalityType
    <3>5. Cardinality(Torn') <= Mark' - began'
      BY <1>1, <2>2, <3>2, <3>3, <3>4 DEF TornInv
    <3>6. \A b \in todo' : lo'[b] = Unset' /\ hi'[b] = Unset'
      BY <2>1 DEF TornInv, Unset
    <3> QED
      BY <2>1, <3>5, <3>6 DEF TornInv
  <2> QED
    BY <2>3, <2>4
<1>6. CASE Formatted
  <2>1. bin = "none" /\ bin' = "none" /\ frames' = frames /\ began' = frames
    BY <1>6 DEF Formatted, TornInv
  <2>2. Torn' = {}
    BY <1>6 DEF Formatted, Torn, Read
  <2>3. Cardinality(Torn') <= Mark' - began'
    BY <1>1, <2>1, <2>2, FS_EmptySet DEF Mark
  <2> QED
    <3>1. \A b \in todo' : lo'[b] = Unset' /\ hi'[b] = Unset'
      BY <1>6, Constants DEF Formatted, Nothing, Unset
    <3> QED
      BY <2>1, <2>3, <3>1 DEF TornInv
<1>7. CASE UNCHANGED vars
  BY <1>7 DEF vars, TornInv, Torn, Read, Mark
<1> QED
  BY <1>2, <1>3, <1>4, <1>5, <1>6, <1>7 DEF Next

\* For any number of readings: a report tears at most one for each frame that
\* preempted it, so a report no frame preempted tears none.
THEOREM TornBinsAreFew == Spec => []TornPerFrame
<1>1. TypeOK /\ LoadInv /\ TornInv => TornPerFrame
  <2> SUFFICES ASSUME TypeOK, LoadInv, TornInv PROVE TornPerFrame
    OBVIOUS
  <2>1. Mark \in began..frames /\ Cardinality(Torn) \in Nat /\ frames \in Nat /\ began \in Nat
    BY MarkType, TornFinite DEF TypeOK
  <2> QED
    BY <2>1 DEF TornInv, TornPerFrame
<1>2. Spec => []TornInv
  BY InitType, InitLoad, InitTorn, StepType, StepLoad, StepTorn, PTL DEF Spec
<1> QED
  BY <1>1, <1>2, Loads, PTL

-----------------------------------------------------------------------------
(* The two lines of `read`.                                                *)

\* No bin is loaded while a word is missing, so that every byte of a word that the
\* reader has was there when it loaded its first byte of a bin.
PhaseInv ==
  /\ bin # "none" => bin \in todo
  /\ bin \in Bins \/ (\E b \in Bins : lo[b] # Unset \/ hi[b] # Unset)
       => todo \subseteq Bins
  /\ \A w \in Words, b \in Bins : \A m \in {lo[w], hi[w]}, n \in {lo[b], hi[b]} :
       m # Unset /\ n # Unset => m.frame <= n.frame

LEMMA TwoLines == Words \subseteq Readings /\ Words \cap Bins = {} /\ Bins \subseteq Readings
BY ReportAssumption DEF Readings

LEMMA InitPhase == Init => PhaseInv
<1> SUFFICES ASSUME Init PROVE PhaseInv
  OBVIOUS
<1>1. bin = "none" /\ "none" \notin Bins
  BY Constants DEF Init
<1>2. \A b \in Readings : lo[b] = Unset /\ hi[b] = Unset
  BY DEF Init, Nothing
<1> QED
  BY <1>1, <1>2, TwoLines DEF PhaseInv

\* A byte that is loaded is as new as any; and while a word is missing no bin has one.
LEMMA LoadPhase ==
  ASSUME TypeOK, LoadInv, PhaseInv, LoadLow \/ LoadHigh
  PROVE  PhaseInv'
<1>1. /\ bin \in Readings /\ bin \in todo /\ bin' = bin /\ todo' = todo /\ Unset' = Unset
      /\ lo \in [Readings -> Loaded \cup {Unset}] /\ hi \in [Readings -> Loaded \cup {Unset}]
      /\ frames \in Nat
  BY Constants DEF LoadLow, LoadHigh, TypeOK, PhaseInv, Unset
<1>2. \A b \in Readings : b # bin => lo'[b] = lo[b] /\ hi'[b] = hi[b]
  BY <1>1 DEF LoadLow, LoadHigh
<1>3. /\ lo'[bin] = lo[bin] \/ lo'[bin].frame = frames
      /\ hi'[bin] = hi[bin] \/ hi'[bin].frame = frames
  BY <1>1 DEF LoadLow, LoadHigh
<1>4. \A b \in Readings : \A l \in {lo[b], hi[b]} : l # Unset => l.frame <= frames
  BY <1>1 DEF LoadInv, Stems, TypeOK
<1>5. CASE bin \in Bins
  <2>1. todo \subseteq Bins
    BY <1>5 DEF PhaseInv
  <2>2. ASSUME NEW w \in Words, NEW b \in Bins, NEW m \in {lo'[w], hi'[w]},
               NEW n \in {lo'[b], hi'[b]}, m # Unset, n # Unset
        PROVE  m.frame <= n.frame
    <3>1. w # bin /\ w \in Readings /\ b \in Readings
      BY <1>5, TwoLines
    <3>2. m \in {lo[w], hi[w]} /\ m.frame <= frames
      BY <1>2, <1>4, <2>2, <3>1
    <3>3. n \in {lo[b], hi[b]} \/ n.frame = frames
      BY <1>2, <1>3, <3>1
    <3> QED
      BY <2>2, <3>2, <3>3 DEF PhaseInv
  <2> QED
    BY <1>1, <2>1, <2>2 DEF PhaseInv
<1>6. CASE bin \notin Bins
  <2>1. \A b \in Bins : lo'[b] = Unset /\ hi'[b] = Unset
    BY <1>1, <1>2, <1>6, TwoLines DEF PhaseInv
  <2> QED
    BY <1>1, <1>6, <2>1 DEF PhaseInv
<1> QED
  BY <1>5, <1>6

LEMMA StepPhase == TypeOK /\ LoadInv /\ PhaseInv /\ [Next]_vars => PhaseInv'
<1> SUFFICES ASSUME TypeOK, LoadInv, PhaseInv, [Next]_vars PROVE PhaseInv'
  OBVIOUS
<1>0. Unset' = Unset
  BY DEF Unset
<1>1. CASE NewFrame
  BY <1>0, <1>1 DEF NewFrame, PhaseInv
<1>2. CASE \E b \in Readings : Enter(b)
  BY <1>0, <1>2 DEF Enter, PhaseInv
<1>3. CASE LoadLow \/ LoadHigh
  BY <1>3, LoadPhase
<1>4. CASE Leave
  <2>1. todo' \subseteq todo /\ bin' = "none" /\ lo' = lo /\ hi' = hi
    BY <1>4 DEF Leave
  <2>2. "none" \notin Bins
    BY Constants
  <2> QED
    BY <1>0, <2>1, <2>2 DEF PhaseInv
<1>5. CASE Formatted
  <2>1. bin' = "none" /\ "none" \notin Bins
    BY <1>5, Constants DEF Formatted, PhaseInv
  <2>2. \A b \in Readings : lo'[b] = Unset /\ hi'[b] = Unset
    BY <1>5 DEF Formatted, Nothing
  <2> QED
    BY <1>0, <2>1, <2>2, TwoLines DEF PhaseInv
<1>6. CASE UNCHANGED vars
  BY <1>0, <1>6 DEF vars, PhaseInv
<1> QED
  BY <1>1, <1>2, <1>3, <1>4, <1>5, <1>6 DEF Next

\* For any numbers of words and bins, and however often the driver preempts `read`: the
\* bins it prints are never of an older frame than the PM words above them.
THEOREM LinesInOrder == Spec => []WordsBeforeBins
<1>1. ASSUME TypeOK, LoadInv, PhaseInv, NEW w \in Read \cap Words, NEW b \in Read \cap Bins,
             NEW m \in {lo[w].frame, hi[w].frame}, NEW n \in {lo[b].frame, hi[b].frame}
      PROVE  m <= n
  <2>1. lo[w] # Unset /\ hi[w] # Unset /\ lo[b] # Unset /\ hi[b] # Unset
    BY <1>1, TwoLines DEF LoadInv
  <2> QED
    BY <1>1, <2>1 DEF PhaseInv
<1>2. TypeOK /\ LoadInv /\ PhaseInv => WordsBeforeBins
  BY <1>1 DEF WordsBeforeBins
<1>3. Spec => []PhaseInv
  BY InitType, InitLoad, InitPhase, StepType, StepLoad, StepPhase, PTL DEF Spec
<1> QED
  BY <1>2, <1>3, Loads, PTL

-----------------------------------------------------------------------------
(* The texts the node builds.                                              *)

\* What snprintf writes fits with its zero, and is all there is if it can be.
LEMMA WrittenFits ==
  ASSUME NEW n \in Nat, NEW room \in Nat
  PROVE  /\ Written(n, room) \in Nat /\ Written(n, room) <= n
         /\ room > 0 => Written(n, room) < room
         /\ Written(n, room) = n <=> n = 0 \/ n < room
BY DEF Written, Least

\* _init_topic's topic, with the node id or without: nothing of it is cut off exactly
\* if the base has at most 38 characters, and it always ends inside topicstr.
THEOREM TopicIsWhole ==
  ASSUME NEW base \in Nat, base + 1 + NodeIdLen < TopicSize,
         NEW idLen \in {0, NodeIdLen}
  PROVE  /\ InitTopic(base, idLen).id = idLen
         /\ InitTopic(base, idLen).suffix = SuffixLen <=> base + idLen <= 54
         /\ TopicLen(InitTopic(base, idLen)) < TopicSize
<1> DEFINE n    == base + 1 + idLen
           left == TopicSize - n
<1>1. /\ base + 1 \in Nat /\ n \in Nat /\ left \in Nat /\ TopicSize - (base + 1) \in Nat
      /\ idLen \in Nat /\ SuffixLen \in Nat /\ left > 0
      /\ idLen < TopicSize - (base + 1)
  BY DEF TopicSize, NodeIdLen, SuffixLen
<1>2. Written(idLen, TopicSize - (base + 1)) = idLen
  BY <1>1, WrittenFits
<1>3. /\ Written(SuffixLen, left) \in Nat /\ Written(SuffixLen, left) < left
      /\ Written(SuffixLen, left) = SuffixLen <=> SuffixLen = 0 \/ SuffixLen < left
  BY <1>1, WrittenFits
<1>4. SuffixLen < left <=> base + idLen <= 54
  BY <1>1 DEF TopicSize, SuffixLen
<1>5. base + 1 + idLen + Written(SuffixLen, left) < TopicSize
  BY <1>1, <1>3 DEF TopicSize
<1> QED
  BY <1>2, <1>3, <1>4, <1>5 DEF InitTopic, TopicLen, SuffixLen

\* mqpub_init_topic appends a suffix as a whole exactly if the buffer has room for the
\* text before it twice: with less it is cut off although it would fit.
THEOREM SuffixNeedsTwiceTheRoom ==
  ASSUME NEW len \in Nat, NEW n \in Nat, n < len, NEW s \in Nat \ {0}
  PROVE  /\ Appended(len, n, s) = s <=> 2 * n + s < len
         /\ n + Appended(len, n, s) < len
         /\ MqpubInitTopic(len, n, s) <= n + s
<1>1. Room(len, n) \in Nat /\ Room(len, n) = len - n
  BY DEF Room
<1>2. CASE n < Room(len, n)
  <2>1. Room(len, n) - n \in Nat /\ Room(len, n) - n > 0
    BY <1>1, <1>2
  <2>2. Appended(len, n, s) = Written(s, Room(len, n) - n)
    BY <1>2 DEF Appended
  <2>3. /\ Written(s, Room(len, n) - n) \in Nat
        /\ Written(s, Room(len, n) - n) < Room(len, n) - n
        /\ Written(s, Room(len, n) - n) = s <=> s = 0 \/ s < Room(len, n) - n
    BY <2>1, WrittenFits
  <2>4. MqpubInitTopic(len, n, s) = n + s
    BY <1>1, <1>2 DEF MqpubInitTopic, Least
  <2> QED
    BY <1>1, <2>1, <2>2, <2>3, <2>4
<1>3. CASE ~(n < Room(len, n))
  BY <1>1, <1>3 DEF Appended, MqpubInitTopic, Least
<1> QED
  BY <1>2, <1>3

\* makereport writes the whole report, "[]" or nothing, always with room for the zero,
\* and the whole exactly if it fits: the place kept for the last bracket is enough.
THEOREM ReportWholeOrEmpty ==
  ASSUME NEW t \in Nat \ {0}, NEW len \in Nat \ {0}
  PROVE  /\ Makereport(t, len) = IF t + 2 < len THEN t + 2 ELSE IF len > 2 THEN 2 ELSE 0
         /\ Makereport(t, len) < len
BY DEF Makereport, Preamble

\* In a buffer of EMCUTE_BUFSIZE-16 = 496 bytes, or of any from 95 on, no report is
\* ever left out.
THEOREM ReportFits ==
  ASSUME NEW t \in 1..TextMax, NEW len \in Nat, len >= 95
  PROVE  Makereport(t, len) = t + 2
BY ReportWholeOrEmpty DEF TextMax

-----------------------------------------------------------------------------
(* The node's start.                                                       *)

\* A thread has one place among the runnable ones.
Once(s)        == \A j, k \in DOMAIN s : s[j] = s[k] => j = k
Has(s, t)      == \E k \in DOMAIN s : s[k] = t
Ahead(s, t, u) == \E j, k \in DOMAIN s : j < k /\ s[j] = t /\ s[k] = u

LEMMA PlaceLost ==
  ASSUME NEW S, NEW s \in Seq(S), Once(s), NEW t, Has(s, t),
         NEW r, r = RemoveAt(s, CHOOSE k \in DOMAIN s : s[k] = t)
  PROVE  /\ r \in Seq(S) /\ Once(r)
         /\ \A u : Has(r, u) <=> Has(s, u) /\ u # t
         /\ \A u, v : Ahead(s, u, v) /\ u # t /\ v # t => Ahead(r, u, v)
<1> DEFINE i == CHOOSE k \in DOMAIN s : s[k] = t
           n == Len(s)
           a == SubSeq(s, 1, i - 1)
           b == SubSeq(s, i + 1, n)
<1>1. i \in 1..n /\ s[i] = t /\ n \in Nat /\ DOMAIN s = 1..n
  BY DEF Has
<1>2. r = a \o b
  BY DEF RemoveAt
<1> HIDE DEF i
<1>3. /\ a \in Seq(S) /\ Len(a) = i - 1 /\ \A j \in 1..i - 1 : a[j] = s[j]
      /\ b \in Seq(S) /\ Len(b) = n - i /\ \A j \in 1..n - i : b[j] = s[i + j]
  <2>1. 1 \in 1..n + 1 /\ i - 1 \in 1 - 1..n /\ i + 1 \in 1..n + 1 /\ n \in (i + 1) - 1..n
    BY <1>1
  <2>2. /\ a \in Seq(S)
        /\ Len(a) = IF 1 <= i - 1 THEN (i - 1) - 1 + 1 ELSE 0
        /\ \A j \in 1..(i - 1) - 1 + 1 : a[j] = s[1 + j - 1]
    BY <2>1, SubSeqProperties
  <2>3. /\ b \in Seq(S)
        /\ Len(b) = IF i + 1 <= n THEN n - (i + 1) + 1 ELSE 0
        /\ \A j \in 1..n - (i + 1) + 1 : b[j] = s[i + 1 + j - 1]
    BY <2>1, SubSeqProperties
  <2> HIDE DEF a, b, n
  <2>4. /\ (i - 1) - 1 + 1 = i - 1 /\ n - (i + 1) + 1 = n - i
        /\ (IF 1 <= i - 1 THEN i - 1 ELSE 0) = i - 1 /\ (IF i + 1 <= n THEN n - i ELSE 0) = n - i
        /\ \A j \in Int : 1 + j - 1 = j /\ i + 1 + j - 1 = i + j
    BY <1>1
  <2>5. a \in Seq(S) /\ Len(a) = i - 1 /\ \A j \in 1..i - 1 : a[j] = s[j]
    <3>1. \A j \in 1..i - 1 : a[j] = s[1 + j - 1] /\ 1 + j - 1 = j
      <4> SUFFICES ASSUME NEW j \in 1..i - 1 PROVE a[j] = s[1 + j - 1] /\ 1 + j - 1 = j
        OBVIOUS
      <4>1. j \in 1..(i - 1) - 1 + 1 /\ 1 + j - 1 = j
        BY <1>1
      <4> QED
        BY <2>2, <4>1
    <3> QED
      BY <2>2, <2>4, <3>1
  <2>6. b \in Seq(S) /\ Len(b) = n - i /\ \A j \in 1..n - i : b[j] = s[i + j]
    <3>1. \A j \in 1..n - i : b[j] = s[i + 1 + j - 1] /\ i + 1 + j - 1 = i + j
      BY <1>1, <2>3, <2>4
    <3> QED
      BY <2>3, <2>4, <3>1
  <2> QED
    BY <2>5, <2>6
<1> HIDE DEF a, b, n
<1>a. /\ r \in Seq(S) /\ Len(r) = Len(a) + Len(b)
      /\ \A j \in 1..Len(a) + Len(b) : r[j] = IF j <= Len(a) THEN a[j] ELSE b[j - Len(a)]
  <2>1. a \in Seq(S) /\ b \in Seq(S)
    BY <1>3
  <2>2. /\ a \o b \in Seq(S) /\ Len(a \o b) = Len(a) + Len(b)
        /\ \A j \in 1..Len(a) + Len(b) : (a \o b)[j] = IF j <= Len(a) THEN a[j] ELSE b[j - Len(a)]
    BY <2>1, ConcatProperties
  <2> QED
    BY <1>2, <2>2
<1>b. Len(a) + Len(b) = n - 1
  BY <1>1, <1>3
<1>4. r \in Seq(S) /\ Len(r) = n - 1
  BY <1>a, <1>b
<1>5. ASSUME NEW j \in 1..n - 1 PROVE r[j] = s[IF j < i THEN j ELSE j + 1]
  <2>1. CASE j < i
    BY <1>1, <1>3, <1>a, <1>b, <2>1
  <2>2. CASE ~(j < i)
    <3>1. r[j] = b[j - (i - 1)]
      <4>1. Len(a) = i - 1 /\ j \in 1..Len(a) + Len(b) /\ ~(j <= Len(a))
        BY <1>1, <1>3, <1>b, <2>2
      <4> QED
        BY <1>a, <4>1
    <3>2. j - (i - 1) \in 1..n - i /\ i + (j - (i - 1)) = j + 1
      BY <1>1, <2>2
    <3> QED
      BY <1>3, <2>2, <3>1, <3>2
  <2> QED
    BY <2>1, <2>2
<1>6. DOMAIN r = 1..n - 1
  BY <1>4
<1> DEFINE New(k) == IF k < i THEN k ELSE k - 1
<1>7. ASSUME NEW k \in 1..n, k # i PROVE New(k) \in 1..n - 1 /\ r[New(k)] = s[k]
  <2>1. New(k) \in 1..n - 1 /\ (IF New(k) < i THEN New(k) ELSE New(k) + 1) = k
    BY <1>1, <1>7
  <2> QED
    BY <1>5, <2>1
<1>8. ASSUME NEW j \in 1..n - 1
      PROVE  \E k \in 1..n : k # i /\ s[k] = r[j] /\ j = New(k)
  <2>1. CASE j < i
    <3>1. j \in 1..n /\ j # i /\ j = New(j)
      BY <1>1, <2>1
    <3> QED
      BY <1>5, <2>1, <3>1
  <2>2. CASE ~(j < i)
    <3>1. j + 1 \in 1..n /\ j + 1 # i /\ j = New(j + 1)
      BY <1>1, <2>2
    <3> QED
      BY <1>5, <2>2, <3>1
  <2> QED
    BY <2>1, <2>2
<1>9. Once(r)
  <2> SUFFICES ASSUME NEW j \in 1..n - 1, NEW l \in 1..n - 1, r[j] = r[l] PROVE j = l
    BY <1>6 DEF Once
  <2>1. PICK j2 \in 1..n : s[j2] = r[j] /\ j = New(j2)
    BY <1>8
  <2>2. PICK l2 \in 1..n : s[l2] = r[l] /\ l = New(l2)
    BY <1>8
  <2>3. j2 = l2
    BY <1>1, <2>1, <2>2 DEF Once
  <2> QED
    BY <2>1, <2>2, <2>3
<1>10. ASSUME NEW u PROVE Has(r, u) <=> Has(s, u) /\ u # t
  <2>1. ASSUME Has(r, u) PROVE Has(s, u) /\ u # t
    <3>1. PICK j \in 1..n - 1 : r[j] = u
      BY <1>6, <2>1 DEF Has
    <3>2. PICK k \in 1..n : k # i /\ s[k] = u
      BY <1>8, <3>1
    <3> QED
      BY <1>1, <3>2 DEF Has, Once
  <2>2. ASSUME Has(s, u), u # t PROVE Has(r, u)
    <3>1. PICK k \in 1..n : s[k] = u /\ k # i
      BY <1>1, <2>2 DEF Has
    <3>2. New(k) \in DOMAIN r /\ r[New(k)] = u
      BY <1>6, <1>7, <3>1
    <3> QED
      BY <3>2 DEF Has
  <2> QED
    BY <2>1, <2>2
<1>11. ASSUME NEW u, NEW v, Ahead(s, u, v), u # t, v # t PROVE Ahead(r, u, v)
  <2>1. PICK j \in 1..n, k \in 1..n : j < k /\ s[j] = u /\ s[k] = v
    BY <1>1, <1>11 DEF Ahead
  <2>2. j # i /\ k # i
    BY <1>1, <1>11, <2>1
  <2>3. New(j) \in DOMAIN r /\ New(k) \in DOMAIN r /\ r[New(j)] = u /\ r[New(k)] = v
    BY <1>6, <1>7, <2>1, <2>2
  <2>4. New(j) < New(k)
    BY <1>1, <2>1, <2>2
  <2> QED
    BY <2>3, <2>4 DEF Ahead
<1> QED
  BY <1>4, <1>9, <1>10, <1>11

LEMMA PlaceGained ==
  ASSUME NEW S, NEW s \in Seq(S), Once(s), NEW t \in S, ~Has(s, t), NEW r, r = Append(s, t)
  PROVE  /\ r \in Seq(S) /\ Once(r)
         /\ \A u : Has(r, u) <=> Has(s, u) \/ u = t
         /\ \A u, v : Ahead(s, u, v) => Ahead(r, u, v)
         /\ \A u : Has(s, u) => Ahead(r, u, t)
<1> DEFINE n == Len(s)
<1>1. /\ n \in Nat /\ DOMAIN s = 1..n /\ r \in Seq(S) /\ DOMAIN r = 1..n + 1
      /\ r[n + 1] = t /\ \A k \in 1..n : r[k] = s[k]
  OBVIOUS
<1> HIDE DEF n
<1>2. \A k \in 1..n : s[k] # t
  BY <1>1 DEF Has
<1>3. /\ n + 1 \in 1..n + 1 /\ \A k \in 1..n : k \in 1..n + 1 /\ k < n + 1
      /\ \A k \in 1..n + 1 : k \in 1..n \/ k = n + 1
  BY <1>1
<1>4. Once(r)
  BY <1>1, <1>2, <1>3 DEF Once
<1>5. \A u : Has(r, u) <=> Has(s, u) \/ u = t
  BY <1>1, <1>3 DEF Has
<1>6. \A u, v : Ahead(s, u, v) => Ahead(r, u, v)
  BY <1>1, <1>3 DEF Ahead
<1>7. \A u : Has(s, u) => Ahead(r, u, t)
  BY <1>1, <1>3 DEF Ahead, Has
<1> QED
  BY <1>1, <1>4, <1>5, <1>6, <1>7


\* Where the threads are, who has the bus and who is runnable; the order of the
\* creations, and of emcute's and the publisher's places, with what each has left.
PlacesInv ==
  /\ at \in [Threads -> Labels]
  /\ at["pm"] \in {"none", "start", "sleep", "acquire", "read"}
  /\ at["main"] \in {"start", "init", "acquire", "read", "emcute", "mqpub", "shell", "input", "command"}
  /\ at["emcute"] \in {"none", "acquire", "read", "setup", "loop"}
  /\ at["mqpub"] \in {"none", "start", "con"}
  /\ cli_id \in {"none", "nodeid", "garbage"} /\ halted \in BOOLEAN
  /\ topicstr \in Topics \cup {NoTopic}

\* Nobody but the driver ever waits for the bus.
BusInv ==
  /\ bus \in {"free", "pm", "main", "emcute"} /\ waiting \subseteq {"pm"}
  /\ \A t \in Threads : bus = t <=> at[t] = "read" /\ t \notin waiting
  /\ "pm" \in waiting => at["pm"] = "read" /\ bus # "free"

Blocked == {"none", "sleep", "input", "loop", "con"}

QueueInv ==
  /\ ready \in Seq(Threads) /\ Once(ready)
  /\ \A t \in Threads : Has(ready, t) <=> at[t] \notin Blocked /\ t \notin waiting

OrderInv ==
  /\ at["main"] \in {"start", "init"} => at["pm"] = "none"
  /\ at["emcute"] = "none" <=> at["main"] \in {"start", "init", "acquire", "read", "emcute"}
  /\ at["mqpub"] = "none" <=> at["main"] \notin {"shell", "input", "command"}
  /\ at["main"] = "mqpub" => at["emcute"] = "acquire"
  /\ topicstr = NoTopic <=> at["main"] \in {"start", "init", "acquire", "read"}
  /\ at["emcute"] \in {"setup", "loop"} <=> cli_id # "none"
  /\ at["mqpub"] = "start" /\ at["emcute"] # "loop" => Ahead(ready, "emcute", "mqpub")
  /\ at["mqpub"] = "con" => at["emcute"] = "loop"

BootInv == PlacesInv /\ BusInv /\ QueueInv /\ OrderInv

LEMMA FourThreads ==
  /\ \A t \in Threads : t = "pm" \/ t = "main" \/ t = "emcute" \/ t = "mqpub"
  /\ "pm" \in Threads /\ "main" \in Threads
  /\ "emcute" \in Threads /\ "mqpub" \in Threads
  /\ "free" \notin Threads
BY DEF Threads

LEMMA Priorities ==
  /\ Priority("pm") = 6 /\ Priority("main") = 7
  /\ Priority("emcute") = 8 /\ Priority("mqpub") = 8
BY DEF Priority

\* The thread that has the CPU is runnable, and no other comes before it.
LEMMA RunningThread ==
  ASSUME BootInv, NEW t \in Threads, Running(t)
  PROVE  /\ Has(ready, t) /\ t \notin waiting /\ at[t] \notin Blocked
         /\ t # "pm" => ~Has(ready, "pm")
         /\ t \notin {"pm", "main"} => ~Has(ready, "main")
         /\ t = "mqpub" => ~Ahead(ready, "emcute", "mqpub")
<1>1. PICK k \in DOMAIN ready :
        ready[k] = t /\ \A j \in DOMAIN ready : Before(t, ready[j], k, j)
  BY DEF Running
<1>2. Has(ready, t)
  BY <1>1 DEF Has
<1>3. t \notin waiting /\ at[t] \notin Blocked
  BY <1>2 DEF BootInv, QueueInv
<1>4. t # "pm" => ~Has(ready, "pm")
  BY <1>1, FourThreads, Priorities DEF Has, Before
<1>5. t \notin {"pm", "main"} => ~Has(ready, "main")
  BY <1>1, FourThreads, Priorities DEF Has, Before
<1>6. t = "mqpub" => ~Ahead(ready, "emcute", "mqpub")
  <2> SUFFICES ASSUME t = "mqpub", NEW j \in DOMAIN ready, NEW l \in DOMAIN ready,
                      j < l, ready[j] = "emcute", ready[l] = "mqpub"
               PROVE  FALSE
    BY DEF Ahead
  <2>1. l = k
    BY <1>1 DEF BootInv, QueueInv, Once
  <2>2. k <= j
    BY <1>1, Priorities DEF Before
  <2>3. j \in Nat /\ k \in Nat
    BY DEF BootInv, QueueInv
  <2> QED
    BY <2>1, <2>2, <2>3
<1> QED
  BY <1>2, <1>3, <1>4, <1>5, <1>6

\* Main and emcute always find the bus free.
LEMMA BusIsFree ==
  ASSUME BootInv, NEW t \in {"main", "emcute"}, Running(t), at[t] = "acquire"
  PROVE  bus = "free"
<1>1. t \in Threads
  BY FourThreads
<1>2. bus # "pm"
  BY <1>1, RunningThread, FourThreads DEF BootInv, QueueInv, BusInv, Blocked
<1>3. CASE t = "main"
  BY <1>2, <1>3, FourThreads DEF BootInv, BusInv, OrderInv
<1>4. CASE t = "emcute"
  <2>1. bus # "main"
    BY <1>1, <1>4, RunningThread, FourThreads DEF BootInv, QueueInv, BusInv, Blocked
  <2> QED
    BY <1>2, <1>4, <2>1, FourThreads DEF BootInv, BusInv
<1> QED
  BY <1>3, <1>4

LEMMA TopicOfBase ==
  ASSUME NEW n \in {0, NodeIdLen}
  PROVE  /\ InitTopic(BaseLen, n) # NoTopic
         /\ TopicLen(InitTopic(BaseLen, n)) < TopicSize
<1> USE BootAssumption DEF InitTopic, Written, Least, SuffixLen, TopicSize, NodeIdLen, TopicLen
<1>1. /\ InitTopic(BaseLen, n).base = BaseLen
      /\ InitTopic(BaseLen, n).id = n
      /\ InitTopic(BaseLen, n).suffix = IF 8 < 63 - (BaseLen + 1 + n) THEN 8 ELSE 63 - (BaseLen + 1 + n)
  OBVIOUS
<1>2. BaseLen = 0 => InitTopic(BaseLen, n).suffix # 0
  BY <1>1
<1> QED
  BY <1>1, <1>2 DEF NoTopic


LEMMA WithoutPlace ==
  ASSUME BootInv, NEW t \in Threads, Running(t), NEW r, r = Without(t)
  PROVE  /\ r \in Seq(Threads) /\ Once(r)
         /\ \A u : Has(r, u) <=> Has(ready, u) /\ u # t
         /\ \A u, v : Ahead(ready, u, v) /\ u # t /\ v # t => Ahead(r, u, v)
<1>1. r = RemoveAt(ready, CHOOSE k \in DOMAIN ready : ready[k] = t)
  BY DEF Without
<1>2. ready \in Seq(Threads) /\ Once(ready)
  BY DEF BootInv, QueueInv
<1>3. Has(ready, t)
  BY RunningThread
<1> QED
  BY <1>1, <1>2, <1>3, PlaceLost

\* A thread that becomes runnable is behind all others.
LEMMA PlaceAdded ==
  ASSUME BootInv, NEW u \in Threads, ~Has(ready, u), ready' = Append(ready, u)
  PROVE  /\ ready' \in Seq(Threads) /\ Once(ready')
         /\ \A v : Has(ready', v) <=> Has(ready, v) \/ v = u
         /\ \A v, w : Ahead(ready, v, w) => Ahead(ready', v, w)
         /\ \A v : Has(ready, v) => Ahead(ready', v, u)
<1> DEFINE r == Append(ready, u)
<1>1. ready \in Seq(Threads) /\ Once(ready)
  BY DEF BootInv, QueueInv
<1>2. /\ r \in Seq(Threads) /\ Once(r)
      /\ \A v : Has(r, v) <=> Has(ready, v) \/ v = u
      /\ \A v, w : Ahead(ready, v, w) => Ahead(r, v, w)
      /\ \A v : Has(ready, v) => Ahead(r, v, u)
  BY <1>1, PlaceGained
<1> HIDE DEF r
<1>3. ready' = r
  BY DEF r
<1> QED
  BY <1>2, <1>3

\* A thread goes on, and stays runnable.
LEMMA GoesOn ==
  ASSUME BootInv, NEW t \in Threads, NEW l, NEW m \in Labels,
         at[t] = l, at' = [at EXCEPT ![t] = m], UNCHANGED <<ready, bus, waiting>>,
         l \notin Blocked, m \notin Blocked, l # "read", m # "read"
  PROVE  BusInv' /\ QueueInv'
BY FourThreads DEF BootInv, PlacesInv, BusInv, QueueInv, Blocked, Threads

\* A thread that does not have the bus blocks.
LEMMA Pauses ==
  ASSUME BootInv, NEW t \in Threads, NEW m \in Blocked \cap Labels, Running(t),
         at[t] # "read", at' = [at EXCEPT ![t] = m], Blocks(t), UNCHANGED <<bus, waiting>>
  PROVE  /\ BusInv' /\ QueueInv'
         /\ Ahead(ready, "emcute", "mqpub") /\ t \notin {"emcute", "mqpub"}
              => Ahead(ready', "emcute", "mqpub")
<1>1. ready' = Without(t)
  BY DEF Blocks
<1>2. BusInv'
  BY DEF BootInv, PlacesInv, BusInv, Blocked, Threads
<1>3. QueueInv'
  BY <1>1, WithoutPlace, RunningThread DEF BootInv, PlacesInv, QueueInv, Blocked, Threads
<1> QED
  BY <1>1, <1>2, <1>3, WithoutPlace

\* The other threads stay on the bus and blocked as they are.
OthersKeep(u) ==
  \A v \in Threads \ {u} :
    (at'[v] = "read" <=> at[v] = "read") /\ (at'[v] \in Blocked <=> at[v] \in Blocked)

\* A blocked or new thread becomes runnable.
LEMMA Appears ==
  ASSUME BootInv, NEW u \in Threads, at[u] \in Blocked, at'[u] \notin Blocked, at'[u] # "read",
         OthersKeep(u), ready' = Append(ready, u), UNCHANGED <<bus, waiting>>
  PROVE  /\ BusInv' /\ QueueInv'
         /\ Ahead(ready, "emcute", "mqpub") => Ahead(ready', "emcute", "mqpub")
         /\ Has(ready, "emcute") /\ u = "mqpub" => Ahead(ready', "emcute", "mqpub")
<1>1. ~Has(ready, u)
  BY DEF BootInv, QueueInv
<1>2. /\ ready' \in Seq(Threads) /\ Once(ready')
      /\ \A v : Has(ready', v) <=> Has(ready, v) \/ v = u
      /\ \A v, w : Ahead(ready, v, w) => Ahead(ready', v, w)
      /\ \A v : Has(ready, v) => Ahead(ready', v, u)
  BY <1>1, PlaceAdded
<1>3. u \notin waiting
  BY DEF BootInv, BusInv, Blocked
<1>4. BusInv'
  BY <1>3, FourThreads DEF BootInv, BusInv, Blocked, OthersKeep
<1>5. QueueInv'
  BY <1>2, <1>3 DEF BootInv, QueueInv, OthersKeep
<1> QED
  BY <1>2, <1>4, <1>5

\* i2c_acquire: only the driver can find the bus taken.
LEMMA Acquires ==
  ASSUME BootInv, NEW t \in {"pm", "main", "emcute"}, I2cAcquire(t)
  PROVE  /\ BusInv' /\ QueueInv'
         /\ Ahead(ready, "emcute", "mqpub") => Ahead(ready', "emcute", "mqpub")
<1>1. t \in Threads
  BY FourThreads
<1>2. Running(t) /\ at[t] = "acquire" /\ at' = [at EXCEPT ![t] = "read"]
  BY DEF I2cAcquire, Step
<1>3. t \notin waiting /\ at \in [Threads -> Labels]
  BY <1>1, <1>2, RunningThread DEF BootInv, PlacesInv
<1>4. CASE bus = "free"
  <2>1. bus' = t /\ UNCHANGED <<ready, waiting>>
    BY <1>4 DEF I2cAcquire
  <2>2. BusInv'
    BY <1>1, <1>2, <1>3, <1>4, <2>1, FourThreads DEF BootInv, BusInv
  <2>3. QueueInv'
    BY <1>1, <1>2, <1>3, <2>1 DEF BootInv, QueueInv, Blocked
  <2> QED
    BY <2>1, <2>2, <2>3
<1>5. CASE bus # "free"
  <2>1. t = "pm"
    BY <1>2, <1>5, BusIsFree
  <2>2. waiting' = waiting \cup {"pm"} /\ ready' = Without("pm") /\ UNCHANGED bus
    BY <1>5, <2>1 DEF I2cAcquire, Blocks
  <2>3. bus # "pm"
    BY <1>1, <1>2, <2>1 DEF BootInv, BusInv
  <2>4. BusInv'
    BY <1>1, <1>2, <1>3, <1>5, <2>1, <2>2, <2>3, FourThreads DEF BootInv, BusInv
  <2>5. /\ ready' \in Seq(Threads) /\ Once(ready')
        /\ \A u : Has(ready', u) <=> Has(ready, u) /\ u # "pm"
        /\ \A u, v : Ahead(ready, u, v) /\ u # "pm" /\ v # "pm" => Ahead(ready', u, v)
    BY <1>1, <1>2, <2>1, <2>2, WithoutPlace
  <2>6. QueueInv'
    BY <1>1, <1>2, <1>3, <2>1, <2>2, <2>5 DEF BootInv, QueueInv, Blocked
  <2> QED
    BY <2>4, <2>5, <2>6
<1> QED
  BY <1>4, <1>5

\* i2c_release by main or emcute, which go on: the driver gets the bus if it waits.
LEMMA Releases ==
  ASSUME BootInv, NEW t \in {"main", "emcute"}, Running(t), at[t] = "read",
         NEW m \in Labels, m \notin Blocked, m # "read", at' = [at EXCEPT ![t] = m],
         I2cRelease(ready)
  PROVE  /\ BusInv' /\ QueueInv'
         /\ Ahead(ready, "emcute", "mqpub") => Ahead(ready', "emcute", "mqpub")
<1>1. t \in Threads /\ at \in [Threads -> Labels]
  BY FourThreads DEF BootInv, PlacesInv
<1>2. t \notin waiting /\ bus = t
  BY <1>1, RunningThread DEF BootInv, BusInv
<1>3. CASE waiting = {}
  <2>1. bus' = "free" /\ ready' = ready /\ waiting' = waiting
    BY <1>3 DEF I2cRelease
  <2>2. BusInv'
    BY <1>1, <1>2, <1>3, <2>1, FourThreads DEF BootInv, BusInv
  <2>3. QueueInv'
    BY <1>1, <1>2, <2>1 DEF BootInv, QueueInv, Blocked
  <2> QED
    BY <2>1, <2>2, <2>3
<1>4. CASE waiting # {}
  <2>1. waiting = {"pm"} /\ at["pm"] = "read"
    BY <1>4 DEF BootInv, BusInv
  <2>2. First = "pm"
    BY <2>1, Priorities DEF First
  <2>3. bus' = "pm" /\ ready' = Append(ready, "pm") /\ waiting' = {}
    BY <1>4, <2>1, <2>2 DEF I2cRelease
  <2>4. BusInv'
    BY <1>1, <1>2, <2>1, <2>3, FourThreads DEF BootInv, BusInv
  <2>5. ready \in Seq(Threads) /\ Once(ready) /\ ~Has(ready, "pm")
    BY <2>1, FourThreads DEF BootInv, QueueInv
  <2>6. /\ ready' \in Seq(Threads) /\ Once(ready')
        /\ \A v : Has(ready', v) <=> Has(ready, v) \/ v = "pm"
        /\ \A v, w : Ahead(ready, v, w) => Ahead(ready', v, w)
    <3>1. "pm" \in Threads /\ ~Has(ready, "pm") /\ ready' = Append(ready, "pm")
      BY <2>3, <2>5, FourThreads
    <3> QED
      BY <3>1, PlaceAdded
  <2>7. QueueInv'
    BY <1>1, <1>2, <2>1, <2>3, <2>6, FourThreads DEF BootInv, QueueInv, Blocked
  <2> QED
    BY <2>4, <2>6, <2>7
<1> QED
  BY <1>3, <1>4

\* Thread t goes on from l to m.
Moves(t, l, m) == at[t] = l /\ at' = [at EXCEPT ![t] = m]

LEMMA StepBoot ==
  ASSUME BootInv, [BootNext]_bootVars
  PROVE  BootInv'
<1> USE FourThreads DEF Moves
<1>a. /\ at \in [Threads -> Labels]
      /\ \A t \in Threads : at[t] \in Labels
  BY DEF BootInv, PlacesInv
<1>1. CASE PmStart
  <2>1. /\ Running("pm") /\ Moves("pm", "start", "sleep") /\ Blocks("pm")
        /\ UNCHANGED <<bus, waiting, topicstr, cli_id, halted>>
    BY <1>1 DEF PmStart, Step
  <2>2. "sleep" \in Blocked \cap Labels
    BY DEF Blocked, Labels
  <2>3. /\ BusInv' /\ QueueInv'
        /\ Ahead(ready, "emcute", "mqpub") => Ahead(ready', "emcute", "mqpub")
    BY <2>1, <2>2, Pauses
  <2>8. PlacesInv'
    BY <1>a, <2>1 DEF BootInv, PlacesInv, OrderInv, Labels
  <2>9. OrderInv'
    BY <1>a, <2>1, <2>3 DEF BootInv, PlacesInv, OrderInv
  <2> QED
    BY <2>3, <2>8, <2>9 DEF BootInv
<1>2. CASE PmWakes
  <2>1. /\ Moves("pm", "sleep", "acquire") /\ ready' = Append(ready, "pm")
        /\ UNCHANGED <<bus, waiting, topicstr, cli_id, halted>>
    BY <1>2 DEF PmWakes, Wakes
  <2>2. /\ at["pm"] \in Blocked /\ at'["pm"] \notin Blocked /\ at'["pm"] # "read"
        /\ OthersKeep("pm")
    BY <1>a, <2>1 DEF Blocked, OthersKeep
  <2>3. /\ BusInv' /\ QueueInv'
        /\ Ahead(ready, "emcute", "mqpub") => Ahead(ready', "emcute", "mqpub")
    BY <2>1, <2>2, Appears
  <2>8. PlacesInv'
    BY <1>a, <2>1 DEF BootInv, PlacesInv, OrderInv, Labels
  <2>9. OrderInv'
    BY <1>a, <2>1, <2>3 DEF BootInv, PlacesInv, OrderInv
  <2> QED
    BY <2>3, <2>8, <2>9 DEF BootInv
<1>3. CASE PmAcquire
  <2>1. Moves("pm", "acquire", "read") /\ UNCHANGED <<topicstr, cli_id, halted>>
    BY <1>3 DEF PmAcquire, I2cAcquire, Step
  <2>2. /\ BusInv' /\ QueueInv'
        /\ Ahead(ready, "emcute", "mqpub") => Ahead(ready', "emcute", "mqpub")
    BY <1>3, Acquires DEF PmAcquire
  <2>8. PlacesInv'
    BY <1>a, <2>1 DEF BootInv, PlacesInv, OrderInv, Labels
  <2>9. OrderInv'
    BY <1>a, <2>1, <2>2 DEF BootInv, PlacesInv, OrderInv
  <2> QED
    BY <2>2, <2>8, <2>9 DEF BootInv
<1>4. CASE PmRead
  <2>1. Running("pm") /\ Moves("pm", "read", "sleep") /\ I2cRelease(Without("pm")) /\ UNCHANGED <<topicstr, cli_id, halted>>
    BY <1>4 DEF PmRead, Step
  <2>2. waiting = {}
    BY <2>1, RunningThread DEF BootInv, BusInv
  <2>3. bus' = "free" /\ ready' = Without("pm") /\ waiting' = waiting
    BY <2>1, <2>2 DEF I2cRelease
  <2>4. /\ ready' \in Seq(Threads) /\ Once(ready')
        /\ \A u : Has(ready', u) <=> Has(ready, u) /\ u # "pm"
        /\ \A u, v : Ahead(ready, u, v) /\ u # "pm" /\ v # "pm" => Ahead(ready', u, v)
    BY <2>1, <2>3, WithoutPlace
  <2>5. BusInv'
    BY <1>a, <2>1, <2>2, <2>3 DEF BootInv, BusInv
  <2>6. QueueInv'
    BY <1>a, <2>1, <2>2, <2>3, <2>4 DEF BootInv, QueueInv, Blocked
  <2>8. PlacesInv'
    BY <1>a, <2>1 DEF BootInv, PlacesInv, OrderInv, Labels
  <2>9. OrderInv'
    BY <1>a, <2>1, <2>4, <2>5, <2>6 DEF BootInv, PlacesInv, OrderInv
  <2> QED
    BY <2>4, <2>5, <2>6, <2>8, <2>9 DEF BootInv
<1>5. CASE Probe
  <2>1. Running("main") /\ Moves("main", "start", "init") /\ UNCHANGED <<ready, bus, waiting, topicstr, cli_id, halted>>
    BY <1>5 DEF Probe, Step
  <2>2. "start" \notin Blocked /\ "init" \notin Blocked /\ "init" \in Labels
    BY DEF Blocked, Labels
  <2>3. BusInv' /\ QueueInv'
    BY <2>1, <2>2, GoesOn
  <2>8. PlacesInv'
    BY <1>a, <2>1 DEF BootInv, PlacesInv, OrderInv, Labels
  <2>9. OrderInv'
    BY <1>a, <2>1, <2>3 DEF BootInv, PlacesInv, OrderInv
  <2> QED
    BY <2>3, <2>8, <2>9 DEF BootInv
<1>6. CASE CreatePm
  <2>1. /\ Running("main") /\ at["main"] = "init" /\ ready' = Append(ready, "pm")
        /\ at' = [at EXCEPT !["main"] = "acquire", !["pm"] = "start"]
        /\ UNCHANGED <<bus, waiting, topicstr, cli_id, halted>>
    BY <1>6 DEF CreatePm, Creates
  <2>2. /\ at["pm"] = "none" /\ at["pm"] \in Blocked /\ at'["pm"] \notin Blocked
        /\ at'["pm"] # "read" /\ OthersKeep("pm")
    BY <1>a, <2>1 DEF BootInv, OrderInv, Blocked, OthersKeep
  <2>3. /\ BusInv' /\ QueueInv'
        /\ Ahead(ready, "emcute", "mqpub") => Ahead(ready', "emcute", "mqpub")
        /\ Has(ready, "emcute") /\ "pm" = "mqpub" => Ahead(ready', "emcute", "mqpub")
    BY <2>1, <2>2, Appears
  <2>8. PlacesInv'
    BY <1>a, <2>1 DEF BootInv, PlacesInv, OrderInv, Labels
  <2>9. OrderInv'
    BY <1>a, <2>1, <2>3 DEF BootInv, PlacesInv, OrderInv
  <2> QED
    BY <2>3, <2>8, <2>9 DEF BootInv
<1>7. CASE TopicAcquire
  <2>1. Moves("main", "acquire", "read") /\ UNCHANGED <<topicstr, cli_id, halted>>
    BY <1>7 DEF TopicAcquire, I2cAcquire, Step
  <2>2. /\ BusInv' /\ QueueInv'
        /\ Ahead(ready, "emcute", "mqpub") => Ahead(ready', "emcute", "mqpub")
    BY <1>7, Acquires DEF TopicAcquire
  <2>8. PlacesInv'
    BY <1>a, <2>1 DEF BootInv, PlacesInv, OrderInv, Labels
  <2>9. OrderInv'
    BY <1>a, <2>1, <2>2 DEF BootInv, PlacesInv, OrderInv
  <2> QED
    BY <2>2, <2>8, <2>9 DEF BootInv
<1>8. CASE TopicRead
  <2>1. /\ Running("main") /\ Moves("main", "read", "emcute") /\ I2cRelease(ready)
        /\ topicstr' \in Topics /\ topicstr' # NoTopic /\ UNCHANGED <<cli_id, halted>>
    BY <1>8, TopicOfBase DEF TopicRead, Step, Topics
  <2>2. "emcute" \notin Blocked /\ "emcute" \in Labels
    BY DEF Blocked, Labels
  <2>3. /\ BusInv' /\ QueueInv'
        /\ Ahead(ready, "emcute", "mqpub") => Ahead(ready', "emcute", "mqpub")
    BY <2>1, <2>2, Releases
  <2>8. PlacesInv'
    BY <1>a, <2>1 DEF BootInv, PlacesInv, OrderInv, Labels
  <2>9. OrderInv'
    BY <1>a, <2>1, <2>3 DEF BootInv, PlacesInv, OrderInv
  <2> QED
    BY <2>3, <2>8, <2>9 DEF BootInv
<1>9. CASE CreateEmcute
  <2>1. /\ Running("main") /\ at["main"] = "emcute" /\ ready' = Append(ready, "emcute")
        /\ at' = [at EXCEPT !["main"] = "mqpub", !["emcute"] = "acquire"]
        /\ UNCHANGED <<bus, waiting, topicstr, cli_id, halted>>
    BY <1>9 DEF CreateEmcute, Creates
  <2>2. /\ at["emcute"] = "none" /\ at["emcute"] \in Blocked /\ at'["emcute"] \notin Blocked
        /\ at'["emcute"] # "read" /\ OthersKeep("emcute")
    BY <1>a, <2>1 DEF BootInv, OrderInv, Blocked, OthersKeep
  <2>3. /\ BusInv' /\ QueueInv'
        /\ Ahead(ready, "emcute", "mqpub") => Ahead(ready', "emcute", "mqpub")
        /\ Has(ready, "emcute") /\ "emcute" = "mqpub" => Ahead(ready', "emcute", "mqpub")
    BY <2>1, <2>2, Appears
  <2>8. PlacesInv'
    BY <1>a, <2>1 DEF BootInv, PlacesInv, OrderInv, Labels
  <2>9. OrderInv'
    BY <1>a, <2>1, <2>3 DEF BootInv, PlacesInv, OrderInv
  <2> QED
    BY <2>3, <2>8, <2>9 DEF BootInv
<1>10. CASE CreateMqpub
  <2>1. /\ Running("main") /\ at["main"] = "mqpub" /\ ready' = Append(ready, "mqpub")
        /\ at' = [at EXCEPT !["main"] = "shell", !["mqpub"] = "start"]
        /\ UNCHANGED <<bus, waiting, topicstr, cli_id, halted>>
    BY <1>10 DEF CreateMqpub, Creates
  <2>2. /\ at["mqpub"] = "none" /\ at["mqpub"] \in Blocked /\ at'["mqpub"] \notin Blocked
        /\ at'["mqpub"] # "read" /\ OthersKeep("mqpub")
    BY <1>a, <2>1 DEF BootInv, OrderInv, Blocked, OthersKeep
  <2>3. /\ BusInv' /\ QueueInv'
        /\ Ahead(ready, "emcute", "mqpub") => Ahead(ready', "emcute", "mqpub")
        /\ Has(ready, "emcute") => Ahead(ready', "emcute", "mqpub")
    BY <2>1, <2>2, Appears
  <2>4. Has(ready, "emcute")
    BY <2>1 DEF BootInv, OrderInv, QueueInv, BusInv, Blocked
  <2>8. PlacesInv'
    BY <1>a, <2>1 DEF BootInv, PlacesInv, OrderInv, Labels
  <2>9. OrderInv'
    BY <1>a, <2>1, <2>3, <2>4 DEF BootInv, PlacesInv, OrderInv
  <2> QED
    BY <2>3, <2>4, <2>8, <2>9 DEF BootInv
<1>11. CASE Shell
  <2>1. /\ Running("main") /\ Moves("main", "shell", "input") /\ Blocks("main")
        /\ UNCHANGED <<bus, waiting, topicstr, cli_id, halted>>
    BY <1>11 DEF Shell, Step
  <2>2. "input" \in Blocked \cap Labels
    BY DEF Blocked, Labels
  <2>3. /\ BusInv' /\ QueueInv'
        /\ Ahead(ready, "emcute", "mqpub") => Ahead(ready', "emcute", "mqpub")
    BY <2>1, <2>2, Pauses
  <2>8. PlacesInv'
    BY <1>a, <2>1 DEF BootInv, PlacesInv, OrderInv, Labels
  <2>9. OrderInv'
    BY <1>a, <2>1, <2>3 DEF BootInv, PlacesInv, OrderInv
  <2> QED
    BY <2>3, <2>8, <2>9 DEF BootInv
<1>12. CASE Input
  <2>1. /\ Moves("main", "input", "command") /\ ready' = Append(ready, "main")
        /\ UNCHANGED <<bus, waiting, topicstr, cli_id, halted>>
    BY <1>12 DEF Input, Wakes
  <2>2. /\ at["main"] \in Blocked /\ at'["main"] \notin Blocked /\ at'["main"] # "read"
        /\ OthersKeep("main")
    BY <1>a, <2>1 DEF Blocked, OthersKeep
  <2>3. /\ BusInv' /\ QueueInv'
        /\ Ahead(ready, "emcute", "mqpub") => Ahead(ready', "emcute", "mqpub")
    BY <2>1, <2>2, Appears
  <2>8. PlacesInv'
    BY <1>a, <2>1 DEF BootInv, PlacesInv, OrderInv, Labels
  <2>9. OrderInv'
    BY <1>a, <2>1, <2>3 DEF BootInv, PlacesInv, OrderInv
  <2> QED
    BY <2>3, <2>8, <2>9 DEF BootInv
<1>13. CASE Command
  <2>1. Running("main") /\ Moves("main", "command", "shell") /\ UNCHANGED <<ready, bus, waiting, topicstr, cli_id, halted>>
    BY <1>13 DEF Command, Step
  <2>2. "command" \notin Blocked /\ "shell" \notin Blocked /\ "shell" \in Labels
    BY DEF Blocked, Labels
  <2>3. BusInv' /\ QueueInv'
    BY <2>1, <2>2, GoesOn
  <2>8. PlacesInv'
    BY <1>a, <2>1 DEF BootInv, PlacesInv, OrderInv, Labels
  <2>9. OrderInv'
    BY <1>a, <2>1, <2>3 DEF BootInv, PlacesInv, OrderInv
  <2> QED
    BY <2>3, <2>8, <2>9 DEF BootInv
<1>14. CASE EmcuteAcquire
  <2>1. Moves("emcute", "acquire", "read") /\ UNCHANGED <<topicstr, cli_id, halted>>
    BY <1>14 DEF EmcuteAcquire, I2cAcquire, Step
  <2>2. /\ BusInv' /\ QueueInv'
        /\ Ahead(ready, "emcute", "mqpub") => Ahead(ready', "emcute", "mqpub")
    BY <1>14, Acquires DEF EmcuteAcquire
  <2>7. at["main"] # "mqpub"
    <3>1. ~Has(ready, "main")
      BY <1>14, RunningThread DEF EmcuteAcquire, I2cAcquire, Step
    <3> QED
      BY <3>1 DEF BootInv, QueueInv, BusInv, Blocked
  <2>8. PlacesInv'
    BY <1>a, <2>1 DEF BootInv, PlacesInv, OrderInv, Labels
  <2>9. OrderInv'
    BY <1>a, <2>1, <2>2, <2>7 DEF BootInv, PlacesInv, OrderInv
  <2> QED
    BY <2>2, <2>8, <2>9 DEF BootInv
<1>15. CASE ClientId
  <2>1. /\ Running("emcute") /\ Moves("emcute", "read", "setup") /\ I2cRelease(ready)
        /\ cli_id' \in {"nodeid", "garbage"} /\ halted' \in BOOLEAN /\ UNCHANGED topicstr
    BY <1>15 DEF ClientId, Step, BootInv, PlacesInv
  <2>2. "setup" \notin Blocked /\ "setup" \in Labels
    BY DEF Blocked, Labels
  <2>3. /\ BusInv' /\ QueueInv'
        /\ Ahead(ready, "emcute", "mqpub") => Ahead(ready', "emcute", "mqpub")
    BY <2>1, <2>2, Releases
  <2>8. PlacesInv'
    BY <1>a, <2>1 DEF BootInv, PlacesInv, OrderInv, Labels
  <2>9. OrderInv'
    BY <1>a, <2>1, <2>3 DEF BootInv, PlacesInv, OrderInv
  <2> QED
    BY <2>3, <2>8, <2>9 DEF BootInv
<1>16. CASE EmcuteRun
  <2>1. /\ Running("emcute") /\ Moves("emcute", "setup", "loop") /\ Blocks("emcute")
        /\ UNCHANGED <<bus, waiting, topicstr, cli_id, halted>>
    BY <1>16 DEF EmcuteRun, Step
  <2>2. "loop" \in Blocked \cap Labels
    BY DEF Blocked, Labels
  <2>3. /\ BusInv' /\ QueueInv'
    BY <2>1, <2>2, Pauses
  <2>8. PlacesInv'
    BY <1>a, <2>1 DEF BootInv, PlacesInv, OrderInv, Labels
  <2>9. OrderInv'
    BY <1>a, <2>1, <2>3 DEF BootInv, PlacesInv, OrderInv
  <2> QED
    BY <2>3, <2>8, <2>9 DEF BootInv
<1>17. CASE MqpubStart
  <2>1. /\ Running("mqpub") /\ Moves("mqpub", "start", "con") /\ Blocks("mqpub")
        /\ UNCHANGED <<bus, waiting, topicstr, cli_id, halted>>
    BY <1>17 DEF MqpubStart, Step
  <2>2. "con" \in Blocked \cap Labels
    BY DEF Blocked, Labels
  <2>3. /\ BusInv' /\ QueueInv'
    BY <2>1, <2>2, Pauses
  <2>8. PlacesInv'
    BY <1>a, <2>1 DEF BootInv, PlacesInv, OrderInv, Labels
  <2>9. OrderInv'
    BY <1>a, <2>1, <2>3, RunningThread DEF BootInv, PlacesInv, OrderInv
  <2> QED
    BY <2>3, <2>8, <2>9 DEF BootInv
<1>18. CASE UNCHANGED bootVars
  BY <1>18 DEF bootVars, BootInv, PlacesInv, BusInv, QueueInv, OrderInv
<1> QED
  BY <1>1, <1>2, <1>3, <1>4, <1>5, <1>6, <1>7, <1>8, <1>9, <1>10, <1>11, <1>12, <1>13, <1>14, <1>15, <1>16, <1>17, <1>18 DEF BootNext, Pm, Main, Others

LEMMA InitBoot ==
  ASSUME BootInit
  PROVE  BootInv
<1>1. /\ at \in [Threads -> Labels]
      /\ \A t \in Threads : at[t] = IF t = "main" THEN "start" ELSE "none"
      /\ bus = "free" /\ waiting = {} /\ topicstr = NoTopic /\ cli_id = "none" /\ halted = FALSE
  BY DEF BootInit, Labels
<1>2. /\ ready \in Seq(Threads) /\ Once(ready)
      /\ \A t : Has(ready, t) <=> t = "main"
  BY FourThreads DEF BootInit, Once, Has
<1>3. PlacesInv
  BY <1>1, FourThreads DEF PlacesInv
<1>4. BusInv
  BY <1>1, FourThreads DEF BusInv
<1>5. QueueInv
  BY <1>1, <1>2, FourThreads DEF QueueInv, Blocked
<1>6. OrderInv
  BY <1>1, FourThreads DEF OrderInv
<1> QED
  BY <1>3, <1>4, <1>5, <1>6 DEF BootInv

LEMMA AlwaysBoot == BootSpec => []BootInv
<1>1. BootInit => BootInv
  BY InitBoot
<1>2. BootInv /\ [BootNext]_bootVars => BootInv'
  BY StepBoot
<1> QED
  BY <1>1, <1>2, PTL DEF BootSpec

\* Whatever the base of the topic, the EEPROM, the samples and the commands: when the
\* publisher first connects, emcute runs and has a client id, and the topic is built.
THEOREM ConnectsWhenReady == BootSpec => []ReadyBeforeUse
<1>1. BootInv => ReadyBeforeUse
  BY DEF BootInv, OrderInv, PlacesInv, ReadyBeforeUse
<1> QED
  BY <1>1, AlwaysBoot, PTL

LEMMA PlacesCounted ==
  ASSUME NEW S, NEW s \in Seq(S), Once(s)
  PROVE  Cardinality({s[k] : k \in DOMAIN s}) = Len(s)
<1> DEFINE n == Len(s)
           T == {s[k] : k \in DOMAIN s}
           f == [k \in 1..n |-> s[k]]
<1>1. n \in Nat /\ DOMAIN s = 1..n
  OBVIOUS
<1>2. IsFiniteSet(1..n) /\ Cardinality(1..n) = n
  <2>1. 1 \in Int /\ n \in Int
    BY <1>1
  <2>2. IsFiniteSet(1..n) /\ Cardinality(1..n) = IF 1 > n THEN 0 ELSE n - 1 + 1
    BY <2>1, FS_Interval
  <2> QED
    BY <1>1, <2>2
<1> HIDE DEF n
<1>3. f \in Bijection(1..n, T)
  <2> HIDE DEF T
  <2>1. \A k \in 1..n : f[k] = s[k] /\ s[k] \in T
    BY <1>1 DEF T
  <2>2. \A t \in T : \E k \in 1..n : f[k] = t
    BY <1>1 DEF T
  <2>3. \A j, k \in 1..n : f[j] = f[k] => j = k
    BY <1>1, <2>1 DEF Once
  <2>4. f \in [1..n -> T]
    BY <2>1
  <2> HIDE DEF f
  <2> QED
    BY <2>2, <2>3, <2>4 DEF Bijection, Injection, IsInjective, Surjection
<1>4. Cardinality(1..n) = Cardinality(T)
  BY <1>2, <1>3, FS_Bijection DEF ExistsBijection
<1> QED
  BY <1>2, <1>4 DEF n

\* The types of NodeBoot: no thread has two places, and the topic ends in its buffer.
THEOREM BootTypeCorrect == BootSpec => []BootTypeOK
<1>1. BootInv => BootTypeOK
  <2> SUFFICES ASSUME BootInv PROVE BootTypeOK
    OBVIOUS
  <2>1. Cardinality({ready[k] : k \in DOMAIN ready}) = Len(ready)
    BY PlacesCounted DEF BootInv, QueueInv
  <2>2. TopicLen(topicstr) < TopicSize
    <3>1. CASE topicstr = NoTopic
      BY <3>1 DEF NoTopic, TopicLen, TopicSize
    <3>2. CASE topicstr \in Topics
      <4>1. PICK n \in {0, NodeIdLen} : topicstr = InitTopic(BaseLen, n)
        BY <3>2 DEF Topics
      <4> QED
        BY <4>1, TopicOfBase
    <3> QED
      BY <3>1, <3>2 DEF BootInv, PlacesInv
  <2>3. bus \in Threads \cup {"free"} /\ waiting \subseteq Threads
    BY FourThreads DEF BootInv, BusInv
  <2>4. at \in [Threads -> Labels] /\ ready \in Seq(Threads)
    BY DEF BootInv, PlacesInv, QueueInv
  <2>5. /\ topicstr \in Topics \cup {NoTopic}
        /\ cli_id \in {"none", "nodeid", "garbage"} /\ halted \in BOOLEAN
    BY DEF BootInv, PlacesInv
  <2> QED
    BY <2>1, <2>2, <2>3, <2>4, <2>5, Zenon DEF BootTypeOK
<1> QED
  BY <1>1, AlwaysBoot, PTL
=============================================================================

---------------------------- MODULE SensorReport ----------------------------
(***************************************************************************)
(* The sensor driver's readers.  preamble (report.c) reads the six dust    *)
(* bins through pms5003_db0_3() and its siblings, in the order the         *)
(* compiler chose for the arguments of snprintf; the shell command `read`  *)
(* (cmd_read in main.c) reads three PM words for one printf, and then the  *)
(* bins for another.  The driver's thread has a higher priority than       *)
(* either, shares no lock with them, and may preempt them between any two  *)
(* loads.  A reading is a uint16_t and the processor loads it byte by      *)
(* byte, so a reading can be torn as well as a report.                     *)
(*                                                                         *)
(* One reader at a time: both have registers of their own and write        *)
(* nothing that is shared.  The driver is Pms5003's, seen from its         *)
(* readers: new readings now and then (Pms5003!Sample with an accepted     *)
(* frame).                                                                 *)
(***************************************************************************)
EXTENDS Integers, FiniteSets

CONSTANTS
  Words,     \* the PM words that `read` prints (three in the code)
  Bins,      \* the bins a report is made of, and that `read` prints (six)
  Values,    \* what a reading can be
  MaxFrames  \* bound: frames the driver accepts

Readings == Words \cup Bins

UInt16 == {n \in Nat : n < 65536}

ASSUME ReportAssumption ==
  /\ IsFiniteSet(Words)
  /\ IsFiniteSet(Bins) /\ Bins # {}
  /\ Words \cap Bins = {}
  /\ "none" \notin Words \cup Bins
  /\ Values \subseteq UInt16
  /\ MaxFrames \in Nat

VARIABLES
  latest,  \* the driver's readings
  frames,  \* history: frames accepted so far
  past,    \* history: the readings after each number of frames
  wanted,  \* what the reader reads: the bins for a report, all for `read`
  bin,     \* the reading whose accessor the reader is in, or "none"
  todo,    \* the readings it still lacks
  lo, hi,  \* the bytes it has: for each reading the byte and its frame
  began    \* history: the frames accepted when the reader began

vars == <<latest, frames, past, wanted, bin, todo, lo, hi, began>>

Loaded == [byte : 0..255, frame : 0..MaxFrames]
Unset  == [byte |-> 0, frame |-> MaxFrames + 1]

TypeOK ==
  /\ latest \in [Readings -> UInt16]
  /\ frames \in 0..MaxFrames
  /\ past \in [0..MaxFrames -> [Readings -> UInt16]]
  /\ wanted \in {Bins, Readings}
  /\ bin \in Readings \cup {"none"}
  /\ todo \in SUBSET wanted
  /\ lo \in [Readings -> Loaded \cup {Unset}]
  /\ hi \in [Readings -> Loaded \cup {Unset}]
  /\ began \in 0..MaxFrames

Nothing == [b \in Readings |-> Unset]

Init ==
  /\ latest = [b \in Readings |-> 0]
  /\ frames = 0 /\ past = [n \in 0..MaxFrames |-> latest]
  /\ wanted \in {Bins, Readings}
  /\ bin = "none" /\ todo = wanted
  /\ lo = Nothing /\ hi = Nothing
  /\ began = 0

\* The driver preempts the reader and updates all readings.
NewFrame ==
  /\ frames < MaxFrames
  /\ latest' \in [Readings -> Values]
  /\ frames' = frames + 1
  /\ past' = [past EXCEPT ![frames + 1] = latest']
  /\ UNCHANGED <<wanted, bin, todo, lo, hi, began>>

\* Mutant: accessors whose loads the compiler interleaves.
EnterAny(b) ==
  /\ b \in todo
  /\ bin' = b
  /\ UNCHANGED <<latest, frames, past, wanted, todo, lo, hi, began>>

\* Mutant: `read` prints both of its lines with one printf.
EnterOfOneCall(b) ==
  /\ bin = "none" /\ b \in todo
  /\ bin' = b
  /\ UNCHANGED <<latest, frames, past, wanted, todo, lo, hi, began>>

\* The reader enters the next accessor: any of those that are arguments of the
\* same call, and one of the bins once it has all the words it wants.
Enter(b) ==
  /\ bin = "none" /\ b \in todo
  /\ b \in Bins => todo \subseteq Bins
  /\ bin' = b
  /\ UNCHANGED <<latest, frames, past, wanted, todo, lo, hi, began>>

\* Mutant: a load that is not truncated to a byte.
LoadLowWide ==
  /\ bin # "none" /\ lo[bin] = Unset
  /\ lo' = [lo EXCEPT ![bin] = [byte |-> latest[bin], frame |-> frames]]
  /\ UNCHANGED <<latest, frames, past, wanted, bin, todo, hi, began>>

\* Its two loads, in either order, and its return.
LoadLow ==
  /\ bin # "none" /\ lo[bin] = Unset
  /\ lo' = [lo EXCEPT ![bin] = [byte |-> latest[bin] % 256, frame |-> frames]]
  /\ UNCHANGED <<latest, frames, past, wanted, bin, todo, hi, began>>

LoadHigh ==
  /\ bin # "none" /\ hi[bin] = Unset
  /\ hi' = [hi EXCEPT ![bin] = [byte |-> latest[bin] \div 256, frame |-> frames]]
  /\ UNCHANGED <<latest, frames, past, wanted, bin, todo, lo, began>>

Leave ==
  /\ bin # "none" /\ lo[bin] # Unset /\ hi[bin] # Unset
  /\ todo' = todo \ {bin}
  /\ bin' = "none"
  /\ UNCHANGED <<latest, frames, past, wanted, lo, hi, began>>

\* Mutant: the next reader goes on with what was loaded for the last.
FormattedKeeps ==
  /\ todo = {}
  /\ wanted' \in {Bins, Readings} /\ todo' = wanted'
  /\ began' = frames
  /\ UNCHANGED <<latest, frames, past, bin, lo, hi>>

\* The reader has all arguments and the text is made; preamble, or cmd_read, is
\* entered next.
Formatted ==
  /\ todo = {}
  /\ wanted' \in {Bins, Readings} /\ todo' = wanted'
  /\ lo' = Nothing /\ hi' = Nothing
  /\ began' = frames
  /\ UNCHANGED <<latest, frames, past, bin>>

Next ==
  \/ NewFrame
  \/ \E b \in Readings : Enter(b)
  \/ LoadLow \/ LoadHigh \/ Leave \/ Formatted

Spec == Init /\ [][Next]_vars

-----------------------------------------------------------------------------
Read     == wanted \ todo
Value(b) == 256 * hi[b].byte + lo[b].byte
Torn     == {b \in Read : lo[b].frame # hi[b].frame}

\* A report tears at most one reading for every frame accepted while it was made.
TornPerFrame == Cardinality(Torn) <= frames - began

\* The two lines of `read` may be of different frames, but never go back in time:
\* no byte of a bin is older than a byte of the PM words printed above it.
WordsBeforeBins ==
  \A w \in Read \cap Words, b \in Read \cap Bins :
    \A m \in {lo[w].frame, hi[w].frame}, n \in {lo[b].frame, hi[b].frame} : m <= n

\* No reading in a report is older than the report, and one that is not torn is
\* exactly what the driver measured with one frame.
ReportFresh ==
  \A b \in Read :
    /\ lo[b].frame \in began..frames /\ hi[b].frame \in began..frames
    /\ b \notin Torn => Value(b) = past[lo[b].frame][b]
=============================================================================

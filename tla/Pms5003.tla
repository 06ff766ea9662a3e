------------------------------- MODULE Pms5003 -------------------------------
(***************************************************************************)
(* The particle sensor driver of pms5003.c: pms5003_init probes the I2C    *)
(* bus and starts a thread that sleeps, reads 32 bytes from the sensor into *)
(* the global `buf`, checks them and updates the last readings.  The       *)
(* thread's priority is above that of every reader, and it blocks only in  *)
(* its sleep and on the bus, so a reading of the sensor is one step here.  *)
(* The I2C bus and the sensor are external.                                *)
(***************************************************************************)
EXTENDS PmsFrame

CONSTANTS
  Sensors,   \* the sensors that may be connected, each the set of frames it sends
  Flips,     \* the bytes of a transfer that noise may change
  Cuts,      \* the lengths after which a transfer may fail
  Periods,   \* the sample periods the driver may be configured with
  FrameMod   \* the frame counters are counted modulo FrameMod (2^32)

ASSUME DriverAssumption ==
  /\ \A s \in Sensors : s \subseteq Buffers /\ s # {}
  /\ \A s \in Sensors : \A f \in s : CheckFrame(f)
  /\ \A s \in Sensors : \A f, g \in s : Word(f, 2) = Word(g, 2)
  /\ Flips \subseteq 0..PMSBUFFER - 1
  /\ Cuts \subseteq 0..PMSBUFFER - 1
  /\ Periods \subseteq UInt16 /\ Periods # {}
  /\ FrameMod \in Nat \ {0}

VARIABLES
  sensor,         \* the sensor connected
  at,             \* "probe" and "start" in pms5003_init, then the thread: "wait", "sample"
  bus,            \* the driver holds the I2C bus
  sample_period,  \* pms_config.sample_period
  interval,       \* the thread's local `interval`, in milliseconds
  buf,            \* the global buffer
  PM, DB,         \* the last readings
  valid_frames, invalid_frames,
  origin,         \* history: how the contents of buf came about
  from,           \* history: the buffer each group of readings was taken from
  received        \* history: the frames that arrived whole and unchanged

vars == <<sensor, at, bus, sample_period, interval, buf, PM, DB, valid_frames,
          invalid_frames, origin, from, received>>

Zeros   == [i \in 0..PMSBUFFER - 1 |-> 0]
Origins == {"zero", "sent", "flipped", "cut"}

TypeOK ==
  /\ sensor \in Sensors
  /\ at \in {"probe", "start", "wait", "sample"}
  /\ bus \in BOOLEAN
  /\ sample_period \in Periods
  /\ interval \in UInt16
  /\ buf \in Buffers
  /\ PM \in [PMWords -> UInt16] /\ DB \in [DBWords -> UInt16]
  /\ valid_frames \in 0..FrameMod - 1 /\ invalid_frames \in 0..FrameMod - 1
  /\ origin \in [kind : Origins, byte : 0..PMSBUFFER]
  /\ from \in [pm : Buffers, db : Buffers]
  /\ received \in 0..FrameMod

Init ==
  /\ sensor \in Sensors
  /\ at = "probe" /\ bus = FALSE
  /\ sample_period \in Periods /\ interval = 0
  /\ buf = Zeros
  /\ PM = [i \in PMWords |-> 0] /\ DB = [i \in DBWords |-> 0]
  /\ valid_frames = 0 /\ invalid_frames = 0 /\ received = 0
  /\ origin = [kind |-> "zero", byte |-> 0]
  /\ from = [pm |-> Zeros, db |-> Zeros]

readings == <<PM, DB, valid_frames, invalid_frames, from>>

-----------------------------------------------------------------------------
(* pms5003_init.                                                           *)

\* i2c_probe: acquire the bus, or give up.
ProbeAcquire ==
  /\ at = "probe" /\ ~bus
  /\ \/ bus' = TRUE /\ UNCHANGED at
     \/ at' = "start" /\ UNCHANGED bus
  /\ UNCHANGED <<sensor, sample_period, interval, buf, origin, received, readings>>

\* The loop around i2c_read_byte ends with any answer but -EAGAIN; none of them
\* stops the initialisation.
ProbeAnswer ==
  /\ at = "probe" /\ bus
  /\ bus' = FALSE
  /\ at' = "start"
  /\ UNCHANGED <<sensor, sample_period, interval, buf, origin, received, readings>>

\* The default period is configured (Init leaves open which) and the thread,
\* which has the higher priority, starts: a product of two 16-bit unsigneds.
Start ==
  /\ at = "start"
  /\ interval' = (sample_period * 100) % 65536
  /\ at' = "wait"
  /\ UNCHANGED <<sensor, bus, sample_period, buf, origin, received, readings>>

\* pms5003_config_sample_period, at any time.
Configure(p) ==
  /\ sample_period' = p
  /\ UNCHANGED <<sensor, at, bus, interval, buf, origin, received, readings>>

-----------------------------------------------------------------------------
(* The thread.                                                             *)

Wait ==
  /\ at = "wait"
  /\ at' = "sample"
  /\ UNCHANGED <<sensor, bus, sample_period, interval, buf, origin, received, readings>>

\* Mutant: a counter that does not wrap.
Plus1NoWrap(n) == n + 1

Plus1(n) == IF n = FrameMod - 1 THEN 0 ELSE n + 1

\* Mutant: the PM words are updated before the frame is checked.
PmsframeEager(b) ==
  /\ PM' = Readings(b, PMWords)
  /\ IF CheckFrame(b)
     THEN /\ valid_frames' = Plus1(valid_frames)
          /\ DB' = IF HasBins(b) THEN Readings(b, DBWords) ELSE DB
          /\ from' = [pm |-> b, db |-> IF HasBins(b) THEN b ELSE from.db]
          /\ UNCHANGED invalid_frames
     ELSE /\ invalid_frames' = Plus1(invalid_frames)
          /\ from' = [from EXCEPT !.pm = b]
          /\ UNCHANGED <<valid_frames, DB>>

\* pmsframe(buf), for the buffer as the transfer left it.
Pmsframe(b) ==
  IF CheckFrame(b)
  THEN /\ valid_frames' = Plus1(valid_frames)
       /\ PM' = Readings(b, PMWords)
       /\ DB' = IF HasBins(b) THEN Readings(b, DBWords) ELSE DB
       /\ from' = [pm |-> b, db |-> IF HasBins(b) THEN b ELSE from.db]
       /\ UNCHANGED invalid_frames
  ELSE /\ invalid_frames' = Plus1(invalid_frames)
       /\ UNCHANGED <<valid_frames, PM, DB, from>>

\* i2c_read_regs: what arrives of frame f, and whether that is all of it.
Whole(f)    == /\ buf' = f
               /\ origin' = [kind |-> "sent", byte |-> 0]
               /\ received' = IF received = FrameMod THEN received ELSE received + 1
Bits == {1, 2, 4, 8, 16, 32, 64, 128}
FlipBit(x, bit) == IF (x \div bit) % 2 = 1 THEN x - bit ELSE x + bit
Noisy(f, i) == /\ \E bit \in Bits : buf' = [f EXCEPT ![i] = FlipBit(@, bit)]
               /\ origin' = [kind |-> "flipped", byte |-> i]
               /\ UNCHANGED received
Cut(f, n)   == /\ buf' = [i \in 0..PMSBUFFER - 1 |-> IF i < n THEN f[i] ELSE buf[i]]
               /\ origin' = IF n = 0 THEN origin ELSE [kind |-> "cut", byte |-> n]
               /\ UNCHANGED received

\* read_pms5002 when the bus could be acquired.  The result of the transfer is
\* printed, and the buffer is processed whatever it is.
Sample ==
  /\ at = "sample"
  /\ \E f \in sensor :
       \/ Whole(f)
       \/ \E i \in Flips : Noisy(f, i)
       \/ \E n \in Cuts : Cut(f, n)
  /\ Pmsframe(buf')
  /\ at' = "wait"
  /\ UNCHANGED <<sensor, bus, sample_period, interval>>

\* It could not: nothing is read, and the thread goes back to sleep.
NoBus ==
  /\ at = "sample"
  /\ at' = "wait"
  /\ UNCHANGED <<sensor, bus, sample_period, interval, buf, origin, received, readings>>

Next ==
  \/ ProbeAcquire \/ ProbeAnswer \/ Start
  \/ \E p \in Periods : Configure(p)
  \/ Wait \/ Sample \/ NoBus

Spec == Init /\ [][Next]_vars

-----------------------------------------------------------------------------
\* Whatever the transfers do outside the length field, the bins always stem from
\* the same buffer as the PM words when the sensor has bins, and from none when it
\* has not: pmsframe never takes the wrong one of its two updates.
BinsOfSameFrame ==
  Flips \cap {2, 3} = {}
    => from.db = IF \A f \in sensor : HasBins(f) THEN from.pm ELSE Zeros

\* One flipped bit in the part of a frame that is used never gets past the check,
\* unless it changes the length field and moves the checksum.
NoiseDetected ==
  /\ origin.kind = "flipped" /\ origin.byte \notin {2, 3}
  /\ origin.byte < Int16(Word(buf, 2)) + 4
  => from.pm # buf

\* "Frame received from PMS sensor.  Validate and update": as many frames are
\* counted valid as were received.
ValidFramesReceived == valid_frames <= received
=============================================================================

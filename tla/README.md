# Air quality node: TLA+ models, checks and proofs

The repository holds an air quality system: a sensor node (C, RIOT OS, an
avr-rss2 board) measures particles and publishes reports with MQTT-SN; a
gateway and a broker pass them on; a Python program stores them in Firebase; a
web application and a mail alert read them. This directory models all of these,
the node in most detail.

Paths below are relative to `src/`; `P/` stands for `MQTTSN-Publisher-main/`.

## 1. Inventory

| Part | Source | State | Operations | Talks to |
|---|---|---|---|---|
| Publisher thread | `P/mqttsn_publisher.c` `mqpub_thread` | state, topic, sleep interval, seven `uint16_t` counters | connect, register, publish, reset | emcute (blocking calls), makereport |
| emcute, gateway, network | not in the repository | session flag, transmit mutex, message ids; the gateway's session and topic ids; datagrams | CONNECT, REGISTER, PUBLISH, DISCONNECT and their answers | publisher, broker |
| One-stop publishing | `mqpub_pubtopic` | none of its own: it inherits emcute's | connect, register, publish, disconnect in one call | emcute |
| Sensor driver | `P/pms5003.c` | 32-byte buffer, twelve readings, frame counters, configuration | probe, sample, check, update | I2C bus; accessors for the readers |
| Report, shell command `read` | `P/report.c`, `P/app/main.c` | the report under construction | read six bins, or three PM words and the bins, format | driver's readings, without a lock |
| Records and generators | `P/report.h`, `report.c`, `platform.c`, `mqttsn_report`, `P/gnrc_rpl.c` | static resume states, `reportno` | write the records that fit, resume later | each other, RPL's tables |
| Start-up and topic | `get_nodeid`, `_init_topic`, `mqpub_init_topic`, `client_id`, `main` | topic string | built once | EEPROM, emcute thread |
| Subscriber, database writer | `MQTT/mqtt.py`, `store_Sensor_Data_to_DB.py` | MQTT session | subscribe, parse, post | broker, Firebase |
| Mail alert | `Case3-send_email/sendmail.py` | `Sent_flag` | poll the last five entries, mail | Firebase |
| Web application | `web-js/.../src/data/model.js`, `Case1`, `Case2` | observers, listeners, arrays | latest entry, updates, risk class | Firebase, React |

Hard behaviour, and what makes each part correct:

* **Publisher** — four calls that block for up to a minute while datagrams are
  lost, repeated, delayed across sessions and reordered, and while the gateway
  may forget the session. Correct: library and machine agree on the session,
  nothing is acknowledged that was not passed on, the statistics add up, and
  the thread recovers.
* **One-stop publishing** — several early returns between connecting and
  disconnecting. Correct: a call leaves nothing behind (it does; see 5).
* **Driver** — a buffer that outlives failed transfers, 16-bit arithmetic, a
  weak checksum, two groups of readings of which one is optional. Correct: the
  readings are those of one frame that was received.
* **Report** — a reader that a thread of higher priority preempts between two
  byte loads. Correct: bounded damage.
* **Generators** — early returns, static resume states, two of them nested, a
  wrapping report number. Correct: each record once, in order, and no
  generator left out.
* **RPL arrays** — separators over whatever RPL has at the moment.
* **Start-up** — four threads, three priorities, one I2C bus, an EEPROM whose
  failure is not looked at everywhere; the library must be set up before its
  first use although nothing waits for it. Correct: it is, and nobody is
  blocked for good.
* **Database writer** — a subscription made once, reconnections, exceptions that
  end the program in the middle of a post. Correct: what it stores is in order
  and nothing twice, and nothing is lost while the subscription lives.
* **Mail alert** — a window of entries that may be short, a flag that is never
  set again. Correct: the first episode is warned of.
* **Web application** — listeners that answer later, pile up, and notify pages
  opened long after they were made. Correct: a page shows the newest value,
  and a graph one window of values.

`PROJECT.json` lists the components and, with their lines, the hazards.

## 2. Modules

| Module | Models | Correspondence |
|---|---|---|
| `Emcute` | the library, gateway and network (external) | `port` is emcute's `gateway.port`, `txlock` its mutex, `call`/`ret` the request a caller is blocked on and what it gets; `up`/`down` the datagrams |
| `MqttsnPublisher` | `mqpub_thread` with `mqpub_con/reg/pub/reset` | `pc` is the place in the loop or the call it is blocked in; `state`, `sleepsecs`, `stats` are the variables of that name; `rep`, `acked` are history |
| `Reporter` | abstract promise of the publisher | `Make`, `PassOn` (any made report, any number of times), `Confirm`, `GiveUp` |
| `OneShot` | `mqpub_pubtopic` over the same `Emcute` | `at` is the call it is in; `failedAt` is history |
| `PmsFrame` | the frame and `check_pmsframe` on bytes, with a 16-bit `int` | buffers are functions from 0..31 to bytes |
| `Pms5003` | the driver: probe, thread, `read_pms5002`, `pmsframe` | `buf`, `PM`, `DB`, the counters; `sensor` is the one connected (external); `origin`, `from`, `received` are history |
| `SensorReport` | a reader of PM words and bins (`preamble`, or `cmd_read`) against the driver | `wanted` is what it reads, `bin` the accessor it is in, `lo`/`hi` the bytes it loaded, `latest` the driver's readings |
| `ReportRecords` | the record macros and all generators | `mqState`, `rplState`, `stState`, `reportno` are the static variables |
| `RplRecords` | contents of the three RPL arrays | `parents[i]`: parents of instance i, -1 when unused; a text is its elements and commas |
| `NodeTexts` | lengths: topics, report and its brackets | pure operators, no state |
| `NodeBoot` | `main`, `pms5003_init`, `mqttsn_publisher_init`, the threads' first steps, `client_id` | `at` is the place of each thread, `ready` the scheduler's queue, `bus` and `waiting` the I2C mutex, `topicstr`, `cli_id` as in the code, `halted` a failed `assert` |
| `Archive` | abstract promise of the writer | `Accept`, `Store` |
| `Subscriber` | broker, paho client, `mqtt.py`, `store_Sensor_Data_to_DB.py` | `proc` is the place in the program, `posting` the message in `on_message`, `inbox` what is under way to it, `db` the entries; messages are their places in `passed`; `since` is history |
| `MailAlert` | `sendmail.py`, composed with writer and node | `mailer` is the place in the loop, `Sent_flag` the code's |
| `WebModel` | `data/model.js`, `case1.js`, `case2.js`, `App.js` | `known` is what firebase's client has, `listening` the listeners made, `data` and `currentVal` the pages' state, `drawn` what Case1 was rendered with |
| `MCPms5003`, `MCSensorReport` | constants of the checked instances | |
| `*_proofs` | theorems about the module of that name; `SensorReport_proofs` also those about `NodeTexts` and `NodeBoot`, `MailAlert_proofs` those about `Subscriber`, `ReportRecords_proofs` those about `RplRecords` | |

`MqttsnPublisher` and `OneShot` are compositions: each EXTENDS `Emcute` and adds
its thread; every step is one of the thread, the library, the network or the
gateway. `SensorReport` sees the driver as what its readers see of it, new
readings at any moment (`Pms5003!Sample` with an accepted frame). The driver's
own step is one action because nothing that reads its variables can run during
it: its priority is above that of the main and the publisher thread, and it
blocks only on the bus and in its sleep.

A call of the library is two steps, the request and the return, so everything
else happens in between. A turn of the loop without a call in it is one step.
The texts of reports are abstracted: a report is its number in the publisher,
its bytes in `SensorReport`, a sequence of records and lengths in
`ReportRecords`, lengths in `NodeTexts`.

The other compositions: `ReportRecords` EXTENDS `RplRecords`, so that RPL changes
between any two calls of a generator. `Subscriber` EXTENDS `Reporter`: in the
place of the publisher's detail the writer sees what `PublisherSafety` and its
theorem show that the publisher implements, reports passed on late, again or
not at all. `MailAlert` EXTENDS `Subscriber`. Reports, broker, writer, database
and mail alert are thus one specification, and a report can be followed from
`Make` to the mail. `WebModel` has only a database to which entries are added,
which is what `Archive` promises its readers.

`NodeBoot` has the scheduler because the property depends on it: RIOT runs the
first runnable thread of the highest priority and never takes turns. The
driver (priority 6) can preempt the main thread (7) anywhere, also in the middle
of a transfer; main runs until it blocks in the shell; emcute and publisher (8)
run in the order of their creation. `Pms5003`, `MqttsnPublisher` and `OneShot` are
about what the threads do after that.

In `Subscriber`, a connection that ends loses a suffix of the messages under way;
the client has a clean session, since its `client_id` is `''`, and QoS 0, the
default of `subscribe`. In `WebModel` a listener's first event comes inside the
call that makes it if another listener has its data already, as firebase's client
does; otherwise only after an answer of the server.

Three facts about emcute are not visible in `src/`'s C files and were read off
the linked program `P/app/bin/avr-rss2/mqttsn_publisher.elf`: `emcute_con` in an
open session returns `EMCUTE_NOGW` without unlocking its mutex; a disconnection
closes the session also when it times out; answers to CONNECT and DISCONNECT
carry no message id.

In the modules, an operator commented "Mutant" is not part of the model. It is a
plausible bug in the definition after it; putting it in that definition's place
makes TLC refute the property that `PROJECT.json` names for it. Each property of
each passing run has one.

## 3. Runs

| Run | Module | Instance | States | Shows |
|---|---|---|---|---|
| `PublisherSafety` | `MqttsnPublisher` | 2 message ids, 1 topic id, 2 reports, 2 datagrams each way | 585 k | sessions, acknowledgements, intervals, the inductive invariant, refinement of `Reporter` |
| `PublisherTurns` | | counters modulo 3, 1 datagram each way, faults that need not end | 92 k | statistics, through several wraps; the thread comes back to its sleep for ever |
| `PublisherLive` | | as the first, 1 report, faults that end | 172 k | the thread recovers, keeps publishing |
| `OneShot` | `OneShot` | 2 ids, 2 reports, 1 datagram each way | 3 k | what success means, what a failure leaves behind and what that costs the caller |
| `Driver` | `MCPms5003` | a sensor that sends two frames with bins, or one without; any bit of nine bytes flipped, transfers cut after 0 or 17 bytes; counters modulo 2 | 62 k | the check, the consistency of readings |
| `DriverValid` | | | | violation, see 5 |
| `Report` | `MCSensorReport` | two bins and a PM word, values on both sides of a carry, two frames | 801 k | torn and stale values, the order of the two lines of `read` |
| `Records` | `ReportRecords` | rooms 1..5, records of 2 or 3 characters, report number modulo 4, two RPL instances with up to two parents | 3.8 k | early returns, resumption, fairness of the schedule, separators |
| `RplComplete` | | | | violation, see 5 |
| `Boot` | `NodeBoot` | a base of 12 characters | 205 | readiness at the first connection, no thread blocked for good |
| `Backend` | `MailAlert` | 2 reports, one of them high, 3 messages, a window of 2 | 112 k | what is stored and in which order, when the writer is deaf, that the first episode is warned of, refinement of `Archive` |
| `Web` | `WebModel` | 2 values, 4 entries, a window of 2 | 89 k | the graph, the blank page, the newest value |

Why the bounds are enough. *Message ids*: a stale answer needs an id that
differs from the current one, so two; an id is not used again while a datagram
bearing it can live (65535 calls later in the code), which `SyncsendId` states.
*Datagrams*: two in each direction let a leftover of an earlier request survive
next to the current one; with one, it would always be displaced. *Reports*: with
two, a report acknowledged wrongly differs from one that was delivered; the last
number is shared by all later reports. *Counters*: modulo 3 tells +1 from -1
and wraps in a few turns. *Frames*: the check treats the preamble, the
length, the bytes it adds up and the checksum each in its own way, and the bytes
it adds up all alike; the bytes that noise may change are the preamble, the
checksums of either length of frame and some of the added ones, with every bit of
each. The length field is left out because `NoiseDetected` and `BinsOfSameFrame`
say nothing about it: a flip there can move the checksum. The theorems cover all
frames. *Readings*: three, of both kinds, so that
two torn ones are more than one frame allows and `read` has a line of each kind. *Records*: every split of every generator into calls occurs,
since the rooms range from nothing fits to two records fit. *Start*: nothing is
bounded; the base's length only has to leave room for the node id. *Messages*:
three let one be lost before, one during and one after a disconnection or a
failed post, and fill the mail alert's window and move it on. *Entries*: with a
window of two, four fill it twice, and a listener can see less than a window,
exactly one, and more, in one event or in several.

Deadlock is checked except in `OneShot`, where the caller really blocks for
good on the mutex that emcute leaks, and in `Boot`, where a failed assertion
stops the node.

## 4. Fairness

`PublisherTurns` and `PublisherLive` assume: the thread runs when it can (the only
other thread of its priority is emcute's, and both block); a call ends, at the latest
after emcute's last retransmission; the gateway handles what reaches it.
`KeepsTurning` needs no more and is checked with no more (`FairSpec`): datagrams
may be lost and the gateway may forget its sessions for ever. `Recovers` and
`KeepsPublishing` also need `Heal` (`HealingSpec`): from some
moment on the network loses and repeats nothing and the gateway stays up. No
code can publish without that, and nothing is assumed about what the faults left
behind: the node may be in any state, in any call, with or without a session at
either side, except that old datagrams die out. `OneShot` assumes that calls take
their steps and end, as above, and that an application calls again and again and its
host name resolves now and then. Nothing in `src/` calls `mqpub_pubtopic`, so this
last is an assumption about a caller. `Records` assumes
that rooms large enough for any record come again and again.

`Boot` assumes that the thread that has the CPU uses it, that the driver's timer
expires, and that again and again neither the driver nor a shell command can run: a
sample takes milliseconds of a second, and commands are typed. (A driver that is
blocked on the bus cannot run, so that this does not assume the bus away.) Strong
fairness of the lower priorities follows from that in RIOT, where a thread
that was preempted keeps its place.

`Backend` assumes that a program which runs goes on running and that the broker
answers while connected. Nothing starts the writer or the mail alert: `Run` and
`Start` are not fair, and properties speak of programs that are on. `Heal` ends
the faults, as above: connections, posts and mails fail any number of times
before. `Web` assumes that the server answers each query in the end with what
it has; the user's clicks are not fair, so that `Case2Follows` speaks of one who
stays.

## 5. Findings

* `DriverValid` — `read_pms5002` validates the buffer also when the transfer
  failed; the frame still in it is counted and stored again.
* `RplComplete` — `first` is declared inside the loop over RPL instances: with two
  instances in use the arrays lack a comma.

What properties that hold say about the code, where a reader may expect
otherwise:

* `mqpub_pubtopic` "connect, register topic, publish and disconnect"
  (`P/mqttsn_publisher.c:208`) does not disconnect when the registration fails.
  `OneShot` (`OpenOnlyAfterRegFail`, `LeftOpenForever`, `SecondCallBlocks`)
  says that this is the only way to leave a session open, and what follows: the
  next call is refused and leaks emcute's mutex, the one after it blocks for good.
  The application's thread does not use this function, and resets on each failure.
* `Backend` (`DeafUntilRestart`): after a reconnection the writer receives nothing
  until it is restarted, and nothing shows it. "Each episode this kind
  of data will be sent to broker and posted" (`MQTT/README.md:32`) thus holds only while the first connection lives
  (`NoLossWhileSubscribed`, `PendingStored`), and an exception in a post ends the
  program. What does not happen is an entry twice or out of order.
* `Backend` (`WarnsOfTheFirst`, and `mails` in `TypeOK`): one warning for each start
  of the mail alert; fewer than five entries are a full window, so that one high
  entry can be enough where `Case3-send_email/READEME.md:19` says "keep high for a while".
* `Report` (`WordsBeforeBins`, `ReportFresh`): the two lines that `read` prints may be
  of different frames, the second never of the older one; so may the bins of
  one report, each no older than the report. Besides, a reading can be torn, at most
  one for each frame (`TornPerFrame`): it has the high byte of one value and the low
  byte of another, and can lie outside both.
* `Boot`: an EEPROM that fails in `client_id` leaves the id, or the assertion, to
  what is in the array (`ReadyBeforeUse` and `NodeRuns` accept either, since the code
  promises nothing there); one that fails in `_init_topic` gives a topic without
  node id, which the writer's fixed topic (`MQTT/mqtt.py:8`) never matches. Neither
  is reported beyond a line on the console.
* `Web` (`GraphOfOneEvent`): Case1's graph is right if at most one event came before
  it was drawn; each further event appends a window. (`NeverBlankAgain`): its page
  goes blank if the latest entry is not there when all entries are, which only
  the listeners of an earlier visit exclude.

Smaller differences, met while modelling and given no run: the driver waits its
period "in seconds" (`P/pms5003.c:65`) in units of 100 ms (line 309);
`MQPUB_RESOLVE_INTERVAL`, "Interval between DNS lookup attempts" of 30 s
(`P/mqttsn_publisher.c:44`), is not used, and the loop tries again after 2 s; a
record that does not fit makes its function return what was written before it,
where `P/README.md:50` says "the original size of the character buffer";
`RECORD_END` adds to its argument, where `P/README.md:37` says "assigned";
`mqpub_init_topic` gives `strlcat` what is left instead of the buffer's size
(`SuffixNeedsTwiceTheRoom`); the entries' `PM2_5` and `PM10` are the counts
`DB2_5` and `DB10` (`MQTT/store_Sensor_Data_to_DB.py:29-31`), which the web
application shows as concentrations in µg/m³ with CAQI's limits
(`Case1/case1.js:120`); `sendmail.py:9` and `:17` hold a placeholder, `Authentication
code`, that is no Python name: the model is of the program with it filled in.

## 6. Theorems

All hold for every value of the constants that meets the named assumptions
(`EmcuteAssumption`, `PublisherAssumption`, `DriverAssumption`,
`ReportAssumption`, `RecordsAssumption`, `RplAssumption`, `BootAssumption`,
`SubscriberAssumption`, `MailAssumption`, `WebAssumption`: the moduli, intervals,
windows, rooms and bounds are positive or natural, ids are numbers, a sensor sends
well-formed frames, all of one length, the topic's base leaves room for a node id).
Every invariant and every action property that a passing run checks is a theorem, and both
refinements are.

* `Emcute_proofs`. Lemmas about library, network and gateway for any caller, used by
  the next two modules: what a call and its end do to session and mutex
  (`EnvironmentEffect`), what may come into flight (`EnvironmentNet`), that a fresh
  id is fresh (`FreshId`).
* `MqttsnPublisher_proofs`. Neither `SessionDiscipline` nor `AckedDelivered` is
  inductive: during a call the session is in between, and an acknowledgement is
  right only if no answer in flight can be taken for it. `IInv` adds what holds at
  each place of the thread: which request the caller waits for and that it holds
  the mutex (`CallInv`); what is open in each call (`SessionInv`); that every
  answer in flight bearing the id of the current publication belongs to it
  (`AckInv`); that nothing is under way that was not made (`MadeInv`). The proof
  takes one lemma for each actor, one step for each action.
  `InductiveInvariant`, `TypeCorrect`, `SessionsDisciplined`, `AckedAreDelivered`
  follow. `PublisherImplementsReporter` maps each step to a step of `Reporter` or a
  stutter under `IInv`. `StatisticsBalance` and `ShortIntervals` have small
  invariants of their own.
* `OneShot_proofs`. All properties of the run but `SecondCallBlocks`, from `ShotInv`, which says at each
  place of the call who holds the mutex (`CallInv`), what is open (`SessionInv`) and
  whose the answers in flight are (`AckInv`). `OpenForEver` is a temporal formula:
  its invariant (`Stuck`) begins to hold when a call ends with its session open,
  and each step keeps it.
* `Pms5003_proofs`. `SignedReadsAreExact`: 16-bit signed arithmetic changes no
  comparison of `check_pmsframe`. `ChecksumInBuffer`: an accepted length keeps
  every access inside the buffer. `CheckIsExact` puts them together: the check as it
  is computed accepts what a check without overflow would. `ChangedByteDetected`: one
  changed byte outside the length field is refused, since it moves the sum, or the
  checksum, but not both (`SumType`, `SumRemove`: sums over a set of positions, by
  induction over finite sets). `BinsStayWithTheirFrame`: `BinsOfSameFrame` for any
  sensors, with bins or without, any noise outside the length field and any lengths
  of broken transfers. It is not inductive: a broken transfer leaves
  the head of one frame on the tail of another, or on zeros. The invariant behind
  it (`LenInv`) says which lengths such a buffer can hold, so that one that passes
  the check has bins exactly if the sensor has. `NoiseIsDetected`: `NoiseDetected`
  for any sensors and any flipped bit outside the length field. It is not inductive
  either, since the driver may keep older readings that are equal to the disturbed
  buffer; `NoiseInv` adds that the readings come from a buffer that passed the check, or
  from none, and that the disturbed one would not pass it. `TypeCorrect`.
* `SensorReport_proofs`. `TypeCorrect`. `ReportsAreFresh`: each loaded byte is that of a
  frame between the report's beginning and now. `LinesInOrder` is `WordsBeforeBins`,
  from `PhaseInv`: no bin is loaded while a word is missing. `TornBinsAreFew`: the
  intervals between the two loads of torn readings are disjoint, each holds a frame;
  the invariant counts the torn readings against the frames accepted before the first
  load of the accessor in progress. For the texts, and every length: `TopicIsWhole`,
  what `_init_topic` cuts off
  and when; `SuffixNeedsTwiceTheRoom`; `ReportWholeOrEmpty`, the place that
  `makereport` saves for its bracket is enough, and a report is never cut;
  `ReportFits`, in the node's buffer none is ever left out. By cases on what fits.
  For the start, and every base: `ConnectsWhenReady` is `ReadyBeforeUse`, which is far
  from inductive. `BootInv` says who has the bus and that only the driver ever waits for it (`BusInv`: whoever holds
  it is runnable, and of a higher priority than a thread that could ask for it, or the
  driver asks); that the runnable threads are those whose place says so, each with one
  place in the queue (`QueueInv`); how far each thread is when another is created, and
  that emcute's place is before the publisher's until emcute is done (`OrderInv`).
  There is one lemma for each kind of step, going on, blocking, becoming runnable, taking
  and releasing the bus, and two about losing and gaining a place in a queue.
  `BootTypeCorrect` follows.
* `ReportRecords_proofs`. `RunFits`: where a run of records stops, and that it leaves room
  for the zero, by induction over the records. `RecordsAreInOrder` and
  `FinishedMeansAll` rest on `RecordsInv`: the static states of a generator say
  how many of its records are written (`Position`), those of the generators that are
  not in work are at their beginning, and so is `stats` before `rpl_report` gets to it.
  What a call writes then goes on where the last stopped (`FirstGrows`).
  `ArraysOfOneInstance`: joined instance by instance, the lists make nothing, the only
  list that has elements, or a text with an element in the place of a comma, which
  nothing that follows can repair (`Shape`). `ArraysInv` adds that the arrays of a call are
  those of RPL's tables until these change. `TypeCorrect` from both.
* `MailAlert_proofs`. `TypeCorrect`. `NothingLost` is inductive with the types and with
  `posting` being 0 outside a post: each message has a place that the next step
  keeps or moves on. `SubscriberImplementsArchive` needs more: what is under way is
  in order and newer than what is being posted, which is newer than what is
  stored (`Order`), so that a post which succeeds, or fails after storing, is a
  `Store`. `DeafStays` is one step for each action.
* `WebModel_proofs`. `TypeCorrect`, with `EventsInv`: each event of Case1's
  listener brought at least one entry more, so that what it pushes are entries the
  client knows. `ShownStaysShown`: once Case1 was shown, the client has an entry in
  the data of the latest, which no step but a reload takes back (`CacheInv`).
  `GraphNeedsOneEvent`: the array holds nothing, one window or, after a second event,
  no window any more, since pushing twice makes it too long or begin anew
  (`TwoEvents`), and pushing on does not repair it (`NoWindowGrows`).
  `RiskIsTotalAndMonotone` about `CheckCAQI`, for all values.

The library's induction theorems take a predicate, which the installed provers
cannot instantiate. Where a proof needs induction over the natural numbers, it takes a
set in the predicate's place and the least number outside it
(`InductionOverNat`, from the well-foundedness of `<`); that a recursive function such as
`Run` or the one in `FlattenSeq` has its defining property at all, is proved in the
same way (`StepsExist`, `JoinedExists`).

Only model-checked: all liveness, for which the prover has no rules of fairness as
used here: `KeepsTurning`, `Recovers`, `KeepsPublishing`, `SecondCallBlocks`, `NoGeneratorStarves`, `NodeRuns`,
`PendingStored`, `WarnsOfTheFirst`, `Case2Follows`.

## 7. Not modelled, and what is left

Left to prove: nothing that the runs check and the prover can express.

Not modelled: RIOT, emcute, paho, firebase and React beyond what the code sees of
them; `mqstat` and `read` as far as they print; the weather service of
`Case1/Forecast.js` and `Conditions.js`, whose answers are shown as they come; the
welcome page and Case3, which have no state; the wrap of `Sec` (no reader goes by
it); several browsers (they share only the database); build output (`P/app/bin`),
generated and vendored files.

------------------------------ MODULE NodeBoot ------------------------------
(***************************************************************************)
(* The node's start (main, pms5003_init, mqttsn_publisher_init, the first  *)
(* steps of each thread): four threads of three priorities, the I2C bus    *)
(* that sensor and EEPROM share, and an EEPROM that may fail to answer.    *)
(*                                                                         *)
(* External: RIOT.  The first of the runnable threads of the highest       *)
(* priority has the CPU; a thread that is preempted keeps its place; there *)
(* are no time slices.  Bus transfers poll: a thread that makes one can be *)
(* preempted but does not block.  i2c_acquire is a mutex, handed to the    *)
(* waiting thread of the highest priority.                                 *)
(*                                                                         *)
(* BootInit, BootNext and BootSpec have names of their own, so that one    *)
(* module can extend this one and another specification (as EmcuteInit).   *)
(***************************************************************************)
EXTENDS NodeTexts, FiniteSets, SequencesExt

CONSTANT BaseLen  \* the length of MQTT_TOPIC_BASE

ASSUME BootAssumption == BaseLen \in Nat /\ BaseLen + 1 + NodeIdLen < TopicSize

VARIABLES
  at,        \* where each thread is
  ready,     \* the runnable threads, in the order in which they became so
  bus,       \* the thread that holds the bus, or "free"
  waiting,   \* the threads blocked in i2c_acquire
  topicstr,  \* what _init_topic has built, NoTopic before
  cli_id,    \* emcute's client id: "none", "nodeid" or "garbage"
  halted     \* an assertion failed: with DEVELHELP the node stops

bootVars == <<at, ready, bus, waiting, topicstr, cli_id, halted>>

Threads == {"pm", "main", "emcute", "mqpub"}

\* Mutant: emcute's thread one priority lower.
PriorityEmcuteLower(t) ==
  CASE t = "pm" -> 6 [] t = "main" -> 7 [] t = "emcute" -> 9 [] t = "mqpub" -> 8

\* The smaller the number, the higher: THREAD_PRIORITY_MAIN is 7.
Priority(t) == CASE t = "pm" -> 6 [] t = "main" -> 7 [] OTHER -> 8

Before(t, u, k, j) == Priority(t) < Priority(u) \/ (Priority(t) = Priority(u) /\ k <= j)

\* t has the CPU.
Running(t) ==
  /\ ~halted
  /\ \E k \in DOMAIN ready :
       /\ ready[k] = t
       /\ \A j \in DOMAIN ready : Before(t, ready[j], k, j)

\* The others' places, when t, which has one, is no longer runnable.
Without(t) == RemoveAt(ready, CHOOSE k \in DOMAIN ready : ready[k] = t)

NoTopic == [base |-> 0, id |-> 0, suffix |-> 0]
Topics  == {InitTopic(BaseLen, n) : n \in {0, NodeIdLen}}

Labels == {"none", "start", "init", "acquire", "read", "emcute", "mqpub", "shell",
           "input", "command", "sleep", "setup", "loop", "con"}

BootTypeOK ==
  /\ at \in [Threads -> Labels]
  /\ ready \in Seq(Threads)
  /\ Cardinality({ready[k] : k \in DOMAIN ready}) = Len(ready)
  /\ bus \in Threads \cup {"free"}
  /\ waiting \subseteq Threads
  /\ topicstr \in Topics \cup {NoTopic} /\ TopicLen(topicstr) < TopicSize
  /\ cli_id \in {"none", "nodeid", "garbage"}
  /\ halted \in BOOLEAN

BootInit ==
  /\ at = [t \in Threads |-> IF t = "main" THEN "start" ELSE "none"]
  /\ ready = <<"main">>
  /\ bus = "free" /\ waiting = {}
  /\ topicstr = NoTopic /\ cli_id = "none" /\ halted = FALSE

-----------------------------------------------------------------------------
(* RIOT's operations.                                                      *)

\* The thread t runs, at label l, and goes on to label m.
Step(t, l, m) == Running(t) /\ at[t] = l /\ at' = [at EXCEPT ![t] = m]

\* t makes a thread u, which starts at label m.
Creates(t, l, m, u, start) ==
  /\ Running(t) /\ at[t] = l
  /\ at' = [at EXCEPT ![t] = m, ![u] = start]
  /\ ready' = Append(ready, u)
  /\ UNCHANGED <<bus, waiting, topicstr, cli_id, halted>>

Blocks(t) == ready' = Without(t)

\* Something the blocked thread t waits for happens.
Wakes(t, l, m) ==
  /\ ~halted /\ at[t] = l
  /\ at' = [at EXCEPT ![t] = m]
  /\ ready' = Append(ready, t)
  /\ UNCHANGED <<bus, waiting, topicstr, cli_id, halted>>

\* i2c_acquire: at "read" the thread has the bus, or waits for it.
I2cAcquire(t) ==
  /\ Step(t, "acquire", "read")
  /\ IF bus = "free"
     THEN bus' = t /\ UNCHANGED <<ready, waiting>>
     ELSE waiting' = waiting \cup {t} /\ Blocks(t) /\ UNCHANGED bus
  /\ UNCHANGED <<topicstr, cli_id, halted>>

First == CHOOSE u \in waiting : \A v \in waiting : Priority(u) <= Priority(v)

\* i2c_release, by a thread after which the others' places are `places`.
I2cRelease(places) ==
  IF waiting = {}
  THEN bus' = "free" /\ ready' = places /\ UNCHANGED waiting
  ELSE bus' = First /\ ready' = Append(places, First) /\ waiting' = waiting \ {First}

-----------------------------------------------------------------------------
(* The driver's thread: pms5003_thread.                                    *)

PmStart ==
  /\ Step("pm", "start", "sleep") /\ Blocks("pm")
  /\ UNCHANGED <<bus, waiting, topicstr, cli_id, halted>>

PmWakes   == Wakes("pm", "sleep", "acquire")
PmAcquire == I2cAcquire("pm")

\* Mutant: a transfer that fails returns before i2c_release.
PmReadKeepsBus ==
  /\ Step("pm", "read", "sleep")
  /\ \/ I2cRelease(Without("pm"))
     \/ Blocks("pm") /\ UNCHANGED <<bus, waiting>>
  /\ UNCHANGED <<topicstr, cli_id, halted>>

\* read_pms5002 from the transfer on, whatever it returned, and wait_ms.
PmRead ==
  /\ Step("pm", "read", "sleep")
  /\ I2cRelease(Without("pm"))
  /\ UNCHANGED <<topicstr, cli_id, halted>>

-----------------------------------------------------------------------------
(* The main thread.                                                        *)

\* main, pms5003_init up to the thread (Pms5003 has the probe step by step).
Probe ==
  /\ Step("main", "start", "init")
  /\ UNCHANGED <<ready, bus, waiting, topicstr, cli_id, halted>>

CreatePm == Creates("main", "init", "acquire", "pm", "start")

\* mqttsn_publisher_init: _init_topic, which calls get_nodeid, then the threads.
TopicAcquire == I2cAcquire("main")

TopicRead ==
  /\ Step("main", "read", "emcute")
  /\ \E idLen \in {0, NodeIdLen} : topicstr' = InitTopic(BaseLen, idLen)
  /\ I2cRelease(ready)
  /\ UNCHANGED <<cli_id, halted>>

CreateEmcute == Creates("main", "emcute", "mqpub", "emcute", "acquire")

\* Mutant: the copied call still starts emcute's thread.
CreateMqpubCopied == Creates("main", "mqpub", "shell", "emcute", "acquire")

CreateMqpub == Creates("main", "mqpub", "shell", "mqpub", "start")

\* shell_run waits for input, which may come at any time, and runs a command.
Shell ==
  /\ Step("main", "shell", "input") /\ Blocks("main")
  /\ UNCHANGED <<bus, waiting, topicstr, cli_id, halted>>

Input   == Wakes("main", "input", "command")
Command ==
  /\ Step("main", "command", "shell")
  /\ UNCHANGED <<ready, bus, waiting, topicstr, cli_id, halted>>

-----------------------------------------------------------------------------
(* The emcute and the publisher thread.                                    *)

EmcuteAcquire == I2cAcquire("emcute")

\* client_id.  get_nodeid's result is not looked at: if it failed, strlen runs on
\* an array nobody has written, and the assertion holds or not.
ClientId ==
  /\ Step("emcute", "read", "setup")
  /\ I2cRelease(ready)
  /\ \/ cli_id' = "nodeid" /\ UNCHANGED halted
     \/ cli_id' = "garbage" /\ halted' \in BOOLEAN
  /\ UNCHANGED topicstr

\* emcute_run, until it waits for datagrams: the socket, the mutex and the timer.
EmcuteRun ==
  /\ Step("emcute", "setup", "loop") /\ Blocks("emcute")
  /\ UNCHANGED <<bus, waiting, topicstr, cli_id, halted>>

\* mqpub_thread, until it waits in its first emcute_con.
MqpubStart ==
  /\ Step("mqpub", "start", "con") /\ Blocks("mqpub")
  /\ UNCHANGED <<bus, waiting, topicstr, cli_id, halted>>

Pm     == PmStart \/ PmAcquire \/ PmRead
Main   == Probe \/ CreatePm \/ TopicAcquire \/ TopicRead \/ CreateEmcute \/ CreateMqpub
            \/ Shell \/ Command
Others == EmcuteAcquire \/ ClientId \/ EmcuteRun \/ MqpubStart

BootNext == Pm \/ PmWakes \/ Main \/ Input \/ Others

BootSpec == BootInit /\ [][BootNext]_bootVars

\* The thread that has the CPU uses it, and the driver's timer expires.  The driver
\* works for milliseconds in a second, and a command ends before the next is typed:
\* again and again neither of them can run (it may be blocked on the bus).
BootFairSpec ==
  /\ BootSpec
  /\ WF_bootVars(Pm) /\ WF_bootVars(PmWakes) /\ SF_bootVars(Main) /\ SF_bootVars(Others)
  /\ []<>(at["main"] \notin {"command", "shell"} /\ \A k \in DOMAIN ready : ready[k] # "pm")

-----------------------------------------------------------------------------
\* When the publisher calls emcute_con for the first time, the library has been set
\* up and has a client id, and the topic is complete.  No thread waits for another:
\* that this holds follows from the priorities, from the order of the creations and
\* from no thread losing its turn on the bus between them.
ReadyBeforeUse ==
  at["mqpub"] = "con" =>
    at["emcute"] = "loop" /\ cli_id # "none" /\ topicstr # NoTopic

\* Whatever the EEPROM does and however commands and samples fall in between, the
\* node gets as far as connecting, unless the assertion stops it, and the driver gets
\* the bus each time it asks for it.
NodeRuns ==
  /\ <>(halted \/ at["mqpub"] = "con")
  /\ (at["pm"] = "read") ~> (halted \/ at["pm"] = "sleep")
=============================================================================

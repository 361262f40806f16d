-------------------------------- MODULE Pump --------------------------------
(* The threads that carry data from a pycsdr BufferReader to a process that *)
(* OpenWebRX started, such as direwolf (PopenModule, DirewolfModule), or to *)
(* a browser.  A module can be stopped and started again on the same        *)
(* reader, for a new configuration: stop() tells the reader, not the thread,*)
(* to end, and resume() takes that back.                                    *)
(*                                                                          *)
(* read() holds the GIL but for the wait, in which a stop(), a resume() or  *)
(* another pump may come first.                                             *)
EXTENDS Integers

CONSTANT MaxStarts   \* Bound: starts of the module; each has its process and pump.

VARIABLES
  running,    \* BufferReader::run.
  available,  \* There is something to read.
  started,    \* How often the module was started.
  child,      \* The process it has, by number, or 0.
  dead,       \* The processes that have ended.
  stopping,   \* stop() is between the end of the process and reader.stop().
  at,         \* Where a pump is: "none", "read", "unlocked", "asleep", "write", "ended".
  absorbed    \* The pumps whose stdin has buffered data that nobody takes any more.

pumpVars == <<running, available, started, child, dead, stopping, at, absorbed>>

Start == 1 .. MaxStarts

PumpInit ==
  /\ running = TRUE /\ available = FALSE
  /\ started = 0 /\ child = 0 /\ dead = {} /\ stopping = FALSE
  /\ at = [i \in Start |-> "none"]
  /\ absorbed = {}

\* Whoever waits on the buffer looks again.
Notified == [i \in Start |-> IF at[i] = "asleep" THEN "read" ELSE at[i]]
-----------------------------------------------------------------------------
(* The module.                                                              *)

start ==
  /\ child = 0 /\ ~stopping /\ started < MaxStarts
  /\ started' = started + 1 /\ child' = started + 1
  /\ running' = TRUE
  /\ at' = [at EXCEPT ![started + 1] = "read"]
  /\ UNCHANGED <<available, dead, stopping, absorbed>>

\* terminate() and wait(), if there is a process ...
stop ==
  /\ ~stopping /\ stopping' = TRUE
  /\ child # 0 \/ running   \* Bound: of the other calls, one.
  /\ dead' = dead \union ({child} \ {0}) /\ child' = 0
  /\ UNCHANGED <<running, available, started, at, absorbed>>

\* ... then reader.stop().
stopReader ==
  /\ stopping /\ stopping' = FALSE
  /\ running' = FALSE
  /\ at' = Notified
  /\ UNCHANGED <<available, started, child, dead, absorbed>>

\* The process ends by itself.
Die(i) ==
  /\ child = i /\ i \notin dead /\ dead' = dead \union {i}
  /\ UNCHANGED <<running, available, started, child, stopping, at, absorbed>>

\* The chain before it, or Buffer.write(), advances the buffer; with less
\* than an element nothing becomes available.
write ==
  /\ available' \in {available, TRUE}
  /\ at' = Notified
  /\ UNCHANGED <<running, started, child, dead, stopping, absorbed>>
-----------------------------------------------------------------------------
(* The pump: read(), then write() to the stdin of its process.              *)

Goto(i, label) == at' = [at EXCEPT ![i] = label]

read(i) ==
  /\ at[i] = "read"
  /\ Goto(i, IF ~running THEN "ended" ELSE IF available THEN "write" ELSE "unlocked")
  /\ available' = (available /\ ~running)
  /\ UNCHANGED <<running, started, child, dead, stopping, absorbed>>

\* The GIL is given up, then the thread waits: a notification in between is lost.
sleep(i) ==
  /\ at[i] = "unlocked"
  /\ Goto(i, "asleep")
  /\ UNCHANGED <<running, available, started, child, dead, stopping, absorbed>>

wakeUp(i) ==
  /\ at[i] = "asleep"
  /\ Goto(i, "read")
  /\ UNCHANGED <<running, available, started, child, dead, stopping, absorbed>>

\* The stdin of a process that has ended takes what fits its buffer (bound:
\* once), then raises BrokenPipeError, which ends the pump.
Deliver(i) ==
  /\ at[i] = "write"
  /\ \/ i \notin dead /\ Goto(i, "read") /\ UNCHANGED absorbed
     \/ i \in dead \ absorbed /\ Goto(i, "read") /\ absorbed' = absorbed \union {i}
     \/ i \in dead /\ Goto(i, "ended") /\ UNCHANGED absorbed
  /\ UNCHANGED <<running, available, started, child, dead, stopping>>

Carry(i) == read(i) \/ sleep(i) \/ Deliver(i)

PumpNext ==
  \/ start \/ stop \/ stopReader \/ write
  \/ \E i \in Start : Die(i) \/ Carry(i) \/ wakeUp(i)

PumpSpec == PumpInit /\ [][PumpNext]_pumpVars

(* stop() goes on once it has begun, and threads are scheduled.             *)
PumpFairness == WF_pumpVars(stopReader) /\ \A i \in Start : WF_pumpVars(Carry(i))
-----------------------------------------------------------------------------
(* If the chain before the module goes on writing for as long as a pump     *)
(* sleeps, the pump of a module that is stopped ends: it is told by the     *)
(* reader, or by the broken pipe.  Where the chain is stopped first, as in  *)
(* DspManager.stop(), and the notification is lost, the thread stays.       *)
(* And it takes that the module is not started again before the pump has    *)
(* looked: resume() revives it, and it takes data from the new one until    *)
(* its pipe breaks.                                                         *)
WritesGoOn == WF_pumpVars((\E i \in Start : at[i] = "asleep") /\ write)
PumpsEnd ==
  WritesGoOn => \A i \in Start : (stopping /\ i = started) ~> (at[i] = "ended" \/ i < started)
=============================================================================

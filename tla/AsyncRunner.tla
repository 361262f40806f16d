---------------------------- MODULE AsyncRunner ----------------------------
(* A csdr module that OpenWebRX runs through pycsdr: Python threads that    *)
(* connect and stop it, the AsyncRunner threads that process its data, and  *)
(* the threads that write the buffers it reads from.                        *)
(*                                                                          *)
(* Python code holds the GIL; stopRunner() gives it up for the time in      *)
(* which it stops and joins the thread.  A runner holds its stateMutex from *)
(* the check of run to the end of the check of the data; the module's       *)
(* processMutex excludes a change of the reader from the processing.        *)
EXTENDS FiniteSets, Integers

CONSTANTS
  Caller,     \* Python threads.
  Runner,     \* Bound: AsyncRunner objects that can be made.
  Reader,     \* BufferReaders that can be given to the module, one each.
  nullptr     \* The null pointer.

ASSUME NullAssumption == nullptr \notin Runner \union Reader

VARIABLES
  writer,         \* Whether the module has a writer.
  reader,         \* Its reader.
  unused,         \* The readers it has not been given yet.
  waitingReader,  \* Module::waitingReader.
  processMutex,   \* The runner that processes.
  runner,         \* The AsyncRunner of the Python object.
  run,            \* AsyncRunner::run.
  pc,             \* The thread of an AsyncRunner: "new", "loop", "wait",
                  \* "process", "busy", "unlocked", "entering", "asleep",
                  \* "awake", "ended".
  on,             \* The reader that a runner waits for.
  call,           \* What a Python thread is in: "python", "stop", "join".
  old,            \* The AsyncRunner it stops.
  data,           \* The readers that have something available.
  crashed         \* A null or dangling pointer was used: the process is gone.

module  == <<writer, reader, unused, waitingReader>>
threads == <<pc, on>>
python  == <<call, old>>
rvars   == <<module, processMutex, runner, run, threads, python, data, crashed>>

RunnerInit ==
  /\ writer = FALSE /\ reader = nullptr /\ unused = Reader
  /\ waitingReader = nullptr /\ processMutex = nullptr /\ runner = nullptr
  /\ run = [r \in Runner |-> TRUE]
  /\ pc = [r \in Runner |-> "new"]
  /\ on = [r \in Runner |-> nullptr]
  /\ call = [p \in Caller |-> "python"]
  /\ old = [p \in Caller |-> nullptr]
  /\ data = {} /\ crashed = FALSE

Alive(r) == pc[r] \notin {"new", "ended"}

\* stateMutex, which stop() needs: the thread holds it from the look at the
\* data until it processes or waits.
StateLocked(r) == pc[r] = "wait"

\* The runners that sleep on the buffer of b, after a notify_all().
Woken(b) == [r \in Runner |-> IF pc[r] = "asleep" /\ on[r] = b THEN "awake" ELSE pc[r]]
-----------------------------------------------------------------------------
(* Python.                                                                  *)

\* checkRunner(): with both ends connected the module needs a runner.
checkRunner(connected, threadStates) ==
  IF connected /\ runner = nullptr
  THEN \E r \in Runner : /\ pc[r] = "new"
                         /\ runner' = r
                         /\ pc' = [threadStates EXCEPT ![r] = "loop"]
  ELSE UNCHANGED runner /\ pc' = threadStates

\* Module.setWriter()
setWriter(p) ==
  /\ ~crashed /\ call[p] = "python" /\ processMutex = nullptr
  /\ ~writer /\ writer' = TRUE
  /\ checkRunner(reader # nullptr, pc)
  /\ UNCHANGED <<reader, unused, waitingReader, processMutex, run, on, python, data, crashed>>

\* Module.setReader(): the new reader is set and whoever waits on the old one
\* is woken, both under processMutex; then the old reader is deleted.
setReader(p, b) ==
  /\ ~crashed /\ call[p] = "python" /\ processMutex = nullptr
  /\ b \in unused /\ unused' = unused \ {b}
  /\ reader' = b
  /\ waitingReader' = IF waitingReader = b THEN b ELSE nullptr
  /\ checkRunner(writer, IF reader = nullptr THEN pc ELSE Woken(reader))
  /\ UNCHANGED <<writer, processMutex, run, on, python, data, crashed>>

\* Module.stop() and the end of the Python object: the runner is taken away
\* under runnerMutex, and the GIL is given up.
stopRunner(p) ==
  /\ ~crashed /\ call[p] = "python" /\ runner # nullptr
  /\ old' = [old EXCEPT ![p] = runner]
  /\ runner' = nullptr
  /\ call' = [call EXCEPT ![p] = "stop"]
  /\ UNCHANGED <<module, processMutex, run, threads, data, crashed>>

\* Mutant: the thread is only woken.
StopUnblocks(p) ==
  /\ ~crashed /\ call[p] = "stop" /\ ~StateLocked(old[p])
  /\ pc' = IF waitingReader = nullptr THEN pc ELSE Woken(waitingReader)
  /\ call' = [call EXCEPT ![p] = "join"]
  /\ UNCHANGED <<module, processMutex, runner, run, on, old, data, crashed>>

\* AsyncRunner::stop() up to the join: run is cleared and the module unblocked
\* under stateMutex.
stop(p) ==
  /\ ~crashed /\ call[p] = "stop" /\ ~StateLocked(old[p])
  /\ run' = [run EXCEPT ![old[p]] = FALSE]
  /\ pc' = IF waitingReader = nullptr THEN pc ELSE Woken(waitingReader)
  /\ call' = [call EXCEPT ![p] = "join"]
  /\ UNCHANGED <<module, processMutex, runner, on, old, data, crashed>>

\* Mutant: the thread is detached.
Detach(p) ==
  /\ ~crashed /\ call[p] = "join"
  /\ call' = [call EXCEPT ![p] = "python"]
  /\ old' = [old EXCEPT ![p] = nullptr]
  /\ UNCHANGED <<module, processMutex, runner, run, threads, data, crashed>>

join(p) ==
  /\ ~crashed /\ call[p] = "join" /\ pc[old[p]] = "ended"
  /\ call' = [call EXCEPT ![p] = "python"]
  /\ old' = [old EXCEPT ![p] = nullptr]
  /\ UNCHANGED <<module, processMutex, runner, run, threads, data, crashed>>
-----------------------------------------------------------------------------
(* AsyncRunner::loop().                                                     *)

Go(r, label) == pc' = [pc EXCEPT ![r] = label]

\* The check of run, and canProcess(), which needs processMutex.
loop(r) ==
  /\ ~crashed /\ pc[r] = "loop"
  /\ \/ ~run[r] /\ Go(r, "ended")
     \/ /\ run[r] /\ processMutex = nullptr
        /\ Go(r, IF reader \in data THEN "process" ELSE "wait")
  /\ UNCHANGED <<module, processMutex, runner, run, on, python, data, crashed>>

\* Mutant: processMutex is not asked for again.
ProcessUnlocked(r) ==
  /\ ~crashed /\ pc[r] = "process"
  /\ processMutex' = r
  /\ pc' = [pc EXCEPT ![r] = "busy"]
  /\ UNCHANGED <<module, runner, run, on, python, data, crashed>>

\* process() takes processMutex once more; the reader may be another by now.
process(r) ==
  /\ ~crashed /\ pc[r] = "process" /\ processMutex = nullptr
  /\ processMutex' = r
  /\ Go(r, "busy")
  /\ UNCHANGED <<module, runner, run, on, python, data, crashed>>

\* It may leave items that are too few for another block.
processed(r) ==
  /\ ~crashed /\ pc[r] = "busy"
  /\ processMutex' = nullptr
  /\ data' \in {data, data \ {reader}}
  /\ Go(r, "loop")
  /\ UNCHANGED <<module, runner, run, on, python, crashed>>

\* Module::wait(): waitingReader is set and the lock released ...
wait(r) ==
  /\ ~crashed /\ pc[r] = "wait"
  /\ waitingReader' = reader
  /\ Go(r, "unlocked")
  /\ UNCHANGED <<writer, reader, unused, processMutex, runner, run, on, python, data, crashed>>

\* ... then waitingReader is read again, which setReader() may have cleared
\* meanwhile ...
enter(r) ==
  /\ ~crashed /\ pc[r] = "unlocked"
  /\ crashed' = (waitingReader = nullptr)
  /\ on' = [on EXCEPT ![r] = waitingReader]
  /\ Go(r, "entering")
  /\ UNCHANGED <<module, processMutex, runner, run, python, data>>

\* ... and the thread sleeps.  A notification before that is lost.  A reader
\* that was replaced on the way is deleted: it still works, or it does not.
sleep(r) ==
  /\ ~crashed /\ pc[r] = "entering"
  /\ crashed' \in IF on[r] = reader THEN {FALSE} ELSE BOOLEAN
  /\ Go(r, "asleep")
  /\ UNCHANGED <<module, processMutex, runner, run, on, python, data>>

\* Woken or not: condition_variable::wait() may return for no reason.
wakeUp(r) ==
  /\ ~crashed /\ pc[r] = "asleep"
  /\ Go(r, "awake")
  /\ UNCHANGED <<module, processMutex, runner, run, on, python, data, crashed>>

relock(r) ==
  /\ ~crashed /\ pc[r] = "awake"
  /\ waitingReader' = nullptr
  /\ on' = [on EXCEPT ![r] = nullptr]
  /\ Go(r, "loop")
  /\ UNCHANGED <<writer, reader, unused, processMutex, runner, run, python, data, crashed>>
-----------------------------------------------------------------------------
(* Ringbuffer::advance() of whoever writes the buffer that b reads.         *)
write(b) ==
  /\ ~crashed
  /\ data' = data \union {b}
  /\ pc' = Woken(b)
  /\ UNCHANGED <<module, processMutex, runner, run, on, python, crashed>>

Loop(r) == loop(r) \/ process(r) \/ processed(r) \/ wait(r) \/ enter(r) \/ sleep(r) \/ relock(r)

RunnerNext ==
  \/ \E p \in Caller : setWriter(p) \/ stopRunner(p) \/ stop(p) \/ join(p)
  \/ \E p \in Caller, b \in Reader : setReader(p, b)
  \/ \E r \in Runner : Loop(r) \/ wakeUp(r)
  \/ \E b \in Reader : write(b)

RunnerSpec == RunnerInit /\ [][RunnerNext]_rvars

(* Threads are scheduled; nobody has to call anything.  A mutex that many   *)
(* ask for is given to each of them in the end.                             *)
ThreadFairness ==
  /\ \A r \in Runner : SF_rvars(Loop(r))
  /\ \A p \in Caller : SF_rvars(stop(p) \/ join(p))

(* Once a reader has been replaced, nobody need write its buffer any more.  *)
SwitchSpec == RunnerSpec /\ ThreadFairness /\ \A b \in Reader : WF_rvars(reader = b /\ write(b))
-----------------------------------------------------------------------------
(* A thread that processes a module is the one the Python object knows of,  *)
(* or one that a stop() in progress waits for: when stop() returns nothing  *)
(* of the module runs but what was started since, whatever the order of the *)
(* calls.                                                                   *)
NoStrayRunner ==
  \A r \in Runner : Alive(r) => r = runner \/ \E p \in Caller : call[p] # "python" /\ old[p] = r

(* Two threads never process the same module, not even while one of them is *)
(* still being stopped: processing a module changes its state.              *)
OneProcesses == \A r, s \in Runner : pc[r] = "busy" /\ pc[s] = "busy" => r = s

(* If the buffers are written again and again for as long as a thread       *)
(* lives, every stop() returns, or the process crashes: the notification of *)
(* stop() may be lost, but a later write ends the wait.  The code does not  *)
(* see to that: Chain.stop() stops the module that writes before the one    *)
(* that reads, and then a stop() whose notification is lost waits for ever. *)
WritesGoOn == \A b \in Reader : WF_rvars((\E r \in Runner : Alive(r)) /\ write(b))
StopReturns ==
  WritesGoOn => \A p \in Caller : call[p] # "python" ~> call[p] = "python" \/ crashed

(* src/lbowrx-owrx/csdr/src/lib/sink.cpp:29: a thread that waits on the old *)
(* reader is made to "start reading on the new reader immediately".         *)
SwitchTakesEffect ==
  \A r \in Runner, b \in Reader :
    (runner = r /\ reader = b) ~> (pc[r] = "busy" \/ runner # r \/ reader # b \/ crashed)
=============================================================================

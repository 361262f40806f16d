--------------------------- MODULE WakeHandshake ---------------------------
(***************************************************************************)
(* receivestate.py: the two threading.Events through which HTTP handler    *)
(* threads make the poll thread work at once and wait until it has.        *)
(* What a poll does is abstracted to its beginning and its end; module     *)
(* LoadBalancer fills it in.                                               *)
(*                                                                         *)
(* threading.Event.wait returns when it finds the flag set on entry, or    *)
(* when a later set() notifies it: a notified waiter does not look at the  *)
(* flag again.                                                             *)
(***************************************************************************)
CONSTANT Handler        \* the HTTP handler threads

VARIABLES
  wake,      \* wakeEvent's flag
  worked,    \* workedEvent's flag
  doRun,     \* cleared by shutdown()
  ppc,       \* where the poll thread is
  hpc        \* where each handler thread is

vars == <<wake, worked, doRun, ppc, hpc>>

PollerPc  == {"first", "poll", "check", "clear", "signal", "wait", "ended", "dead"}
HandlerPc == {"idle", "towait", "blocked", "clear", "answered"}

TypeOK ==
  /\ wake \in BOOLEAN /\ worked \in BOOLEAN /\ doRun \in BOOLEAN
  /\ ppc \in PollerPc
  /\ hpc \in [Handler -> HandlerPc]

\* The thread polls once before its loop; handlers may already be running.
Init ==
  /\ wake = FALSE /\ worked = FALSE /\ doRun = TRUE
  /\ ppc = "first"
  /\ hpc = [h \in Handler |-> "idle"]

----------------------------------------------------------------------------
(* The handlers.                                                           *)

Request(h) ==
  /\ hpc[h] = "idle"
  /\ wake' = TRUE
  /\ hpc' = [hpc EXCEPT ![h] = "towait"]
  /\ UNCHANGED <<worked, doRun, ppc>>

\* Mutant: the flag is cleared before the wait instead of after it.
ClearThenWait(h) ==
  /\ hpc[h] = "towait"
  /\ worked' = FALSE
  /\ hpc' = [hpc EXCEPT ![h] = "blocked"]
  /\ UNCHANGED <<wake, doRun, ppc>>

\* workedEvent.wait() is entered: through at once if the flag is set.
EnterWait(h) ==
  /\ hpc[h] = "towait"
  /\ hpc' = [hpc EXCEPT ![h] = IF worked THEN "clear" ELSE "blocked"]
  /\ UNCHANGED <<wake, worked, doRun, ppc>>

\* Mutant: workedEvent is not cleared.
KeepWorked(h) ==
  /\ hpc[h] = "clear"
  /\ hpc' = [hpc EXCEPT ![h] = "answered"]
  /\ UNCHANGED <<wake, worked, doRun, ppc>>

ClearWorked(h) ==
  /\ hpc[h] = "clear"
  /\ worked' = FALSE
  /\ hpc' = [hpc EXCEPT ![h] = "answered"]
  /\ UNCHANGED <<wake, doRun, ppc>>

Finish(h) ==
  /\ hpc[h] = "answered"
  /\ hpc' = [hpc EXCEPT ![h] = "idle"]
  /\ UNCHANGED <<wake, worked, doRun, ppc>>

----------------------------------------------------------------------------
(* The poll thread.                                                        *)

\* wakeEvent.wait(30) returns, set or timed out.
LeaveWait ==
  /\ ppc = "wait"
  /\ ppc' = IF doRun THEN "poll" ELSE "ended"
  /\ UNCHANGED <<wake, worked, doRun, hpc>>

\* The poll before the loop is not followed by a look at wakeEvent.
PollDone ==
  /\ \/ ppc = "first" /\ ppc' = "wait"
     \/ ppc = "poll" /\ ppc' = "check"
  /\ UNCHANGED <<wake, worked, doRun, hpc>>

\* An exception leaves run() and ends the thread.
PollRaises ==
  /\ ppc \in {"first", "poll"}
  /\ ppc' = "dead"
  /\ UNCHANGED <<wake, worked, doRun, hpc>>

CheckWake ==
  /\ ppc = "check"
  /\ ppc' = IF wake THEN "clear" ELSE "wait"
  /\ UNCHANGED <<wake, worked, doRun, hpc>>

\* Mutant: wakeEvent is not cleared.
KeepWake ==
  /\ ppc = "clear"
  /\ ppc' = "signal"
  /\ UNCHANGED <<wake, worked, doRun, hpc>>

ClearWake ==
  /\ ppc = "clear"
  /\ wake' = FALSE
  /\ ppc' = "signal"
  /\ UNCHANGED <<worked, doRun, hpc>>

\* workedEvent.set() releases every handler blocked in wait().
SetWorked ==
  /\ ppc = "signal"
  /\ worked' = TRUE
  /\ hpc' = [h \in Handler |-> IF hpc[h] = "blocked" THEN "clear" ELSE hpc[h]]
  /\ ppc' = "wait"
  /\ UNCHANGED <<wake, doRun>>

Shutdown ==
  /\ doRun
  /\ doRun' = FALSE
  /\ wake' = TRUE
  /\ UNCHANGED <<worked, ppc, hpc>>

----------------------------------------------------------------------------
HandlerNext(h) == Request(h) \/ EnterWait(h) \/ ClearWorked(h) \/ Finish(h)

PollerNext ==
  \/ LeaveWait \/ PollDone \/ PollRaises
  \/ CheckWake \/ ClearWake \/ SetWorked

Next == PollerNext \/ Shutdown \/ \E h \in Handler : HandlerNext(h)

\* The poll thread and the handlers are threads of one process: each runs
\* whenever it can. No handler has to ask, no poll has to raise.
Fairness ==
  /\ WF_vars(LeaveWait) /\ WF_vars(PollDone \/ PollRaises)
  /\ WF_vars(CheckWake) /\ WF_vars(ClearWake) /\ WF_vars(SetWorked)
  /\ \A h \in Handler :
       WF_vars(EnterWait(h)) /\ WF_vars(ClearWorked(h)) /\ WF_vars(Finish(h))

Spec == Init /\ [][Next]_vars
FairSpec == Spec /\ Fairness

=============================================================================

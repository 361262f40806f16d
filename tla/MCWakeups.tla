----------------------------- MODULE MCWakeups ------------------------------
(* The hand-made notification protocols for TLC: the handlers and the poll  *)
(* thread of the load balancer; the threads that run and stop a csdr        *)
(* module; and the threads that carry data out of it, while the module they *)
(* belong to is stopped and started.  They share nothing; a behaviour runs  *)
(* one of them.                                                             *)
EXTENDS WakeHistory, AsyncRunner

VARIABLE machine

CONSTANT MaxStarts

VARIABLES running, available, started, child, dead, stopping, at, absorbed

Reads == INSTANCE Pump

pumpVars == <<running, available, started, child, dead, stopping, at, absorbed>>

\* The poll thread of a load balancer that has been shut down.
ShutDown ==
  /\ wake = FALSE /\ worked = FALSE /\ doRun = FALSE /\ ppc = "ended"
  /\ hpc = [h \in Handler |-> "idle"]
  /\ polled = {} /\ ready = FALSE /\ overlap = FALSE

MCInit ==
  /\ machine \in {"handshake", "runner", "pumps"}
  /\ IF machine = "handshake" THEN HInit ELSE ShutDown
  /\ RunnerInit
  /\ Reads!PumpInit

MCNext ==
  /\ machine' = machine
  /\ \/ machine = "handshake" /\ HNext /\ UNCHANGED <<rvars, pumpVars>>
     \/ machine = "runner" /\ RunnerNext /\ UNCHANGED <<hvars, pumpVars>>
     \/ machine = "pumps" /\ Reads!PumpNext /\ UNCHANGED <<hvars, rvars>>

\* Fairness asks nothing of what has ended or was never started.
MCSpec ==
  MCInit /\ [][MCNext]_<<machine, hvars, rvars, pumpVars>>
    /\ Fairness /\ ThreadFairness /\ Reads!PumpFairness

(* A thread that is told to stop ends, be it a runner or a pump, if what it  *)
(* reads from goes on being written.                                        *)
StopsTakeEffect == StopReturns /\ Reads!PumpsEnd
=============================================================================

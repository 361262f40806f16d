----------------------------- MODULE MCEndings ------------------------------
(* Parts whose threads or processes have to end, for TLC; a behaviour runs  *)
(* one of them: a pipeline of csdr commands, a command of csdr++, or a      *)
(* websocket whose pings and threads end with it.                           *)
EXTENDS Command, Csdr, Connection

VARIABLE machine

\* The machines that a behaviour does not run are not there, have ended, or
\* are never started: fairness asks nothing of them.
Absent ==
  /\ machine # "csdr" => dynamic = FALSE /\ proc = << >> /\ pipe = << >> /\ closed = FALSE
  /\ machine # "csdr++" =>
       /\ command = Single /\ async = FALSE /\ at = "ended" /\ got = 0
       /\ memory = << >> /\ items = << >> /\ made = 0 /\ torn = FALSE
       /\ overrun = FALSE /\ failed = FALSE
       /\ inFifo = 0 /\ inFile = 0 /\ lines = 0 /\ fifoEnd = FALSE
  /\ machine # "pings" =>
       /\ open = FALSE /\ socketError = FALSE /\ interruptPipeSend = "closed" /\ sendLock = {}
       /\ queue = << >> /\ hasQueue = FALSE /\ full = FALSE
       /\ pingTimer = NoTimer /\ timer = [i \in Timer |-> "free"]
       /\ old = [t \in Thread |-> NoTimer]
       /\ stack = [t \in Thread |-> << >>]

EInit ==
  /\ machine \in {"csdr", "csdr++", "pings"}
  /\ Absent
  /\ machine = "csdr" => CsdrInit
  /\ machine = "csdr++" => PlusInit
  /\ machine = "pings" => ConnInit

ENext ==
  /\ machine' = machine
  /\ \/ machine = "csdr" /\ CsdrNext /\ UNCHANGED <<plusVars, connVars>>
     \/ machine = "csdr++" /\ PlusNext /\ UNCHANGED <<csdrVars, connVars>>
     \/ machine = "pings" /\ ConnNext /\ UNCHANGED <<csdrVars, plusVars>>

\* Csdr!CsdrFairness and Connection!ConnFairness, each where it runs.
EFairness ==
  /\ \A i \in 1 .. 3 :
       WF_csdrVars(machine = "csdr" /\ i \in DOMAIN proc /\ Run(i))
  /\ \A t \in Thread : SF_connVars(machine = "pings" /\ RunThread(t))

ESpec == EInit /\ [][ENext]_<<machine, csdrVars, plusVars, connVars>> /\ EFairness
=============================================================================

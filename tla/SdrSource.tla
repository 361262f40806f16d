----------------------------- MODULE SdrSource -----------------------------
(***************************************************************************)
(* owrx/source/__init__.py: the life of an SDR source. Its process is      *)
(* started for the first user and stopped after the last one; a monitor    *)
(* thread per process waits for its end; a settings page disables and      *)
(* enables the source. The users are a receiver client per websocket       *)
(* (owrx/connection.py), its DspManager (owrx/dsp.py) and the              *)
(* SpectrumThread they share (owrx/fft.py): all of them are clients of the *)
(* source of class USER, and all are called back by it.                    *)
(*                                                                         *)
(* Calls and callbacks nest (stop notifies a DspManager, which removes     *)
(* itself, which may stop the source): every thread has a stack of frames, *)
(* innermost first. An exception unwinds it and gives back the locks taken *)
(* by with statements.                                                     *)
(*                                                                         *)
(* Left out: always-on sources, the clients of services and scheduler,     *)
(* what subclasses do when a property changes, the data that flows and the *)
(* moment for which getBuffer holds modificationLock.                      *)
(***************************************************************************)
EXTENDS Naturals, Sequences, FiniteSets

CONSTANTS
  User,        \* the browsers: one websocket connection, one selection each
  Slow,        \* those that may take too little, so that their queue fills up
  Editor,       \* the threads that serve the settings pages
  MaxRuns,     \* bound: processes started
  Crashes,     \* whether a process may end by itself
  NoRun        \* not a run: Python's None

Run == 1..MaxRuns

ASSUME SourceBounds == MaxRuns \in Nat \ {0} /\ Crashes \in BOOLEAN /\ NoRun \notin Run

Connection == {"connection"} \X User    \* the thread that serves a websocket
Monitor    == {"monitor"} \X Run        \* the source_monitor thread of a process
Page       == {"page"} \X Editor
Sender     == {"sender"} \X User        \* the thread that finds the queue full
Thread     == Connection \union Monitor \union Page \union Sender

\* What may be in the list clients.
rx(u)    == <<"rx", u>>
dspOf(u) == <<"dsp", u>>
Spectrum == <<"spectrum", NoRun>>

VARIABLES
  modificationLock, dspLock, specLock,  \* (dspLock by user, and spectrumLock)
                           \* the set of the thread that holds it
  process, monitor,        \* SdrSource's attributes: the run they belong to
  alive, signalled,        \* the runs whose process runs, the signal it was sent
  failed,                  \* by run: the variable start() shares with its monitor
  state, busy, enabled, clients,      \* SdrSource's attributes
  specClients, spectrum,   \* its spectrumClients, whether it has a spectrumThread
  specDsp,                 \* whether the SpectrumThread has its dsp
  sdr, dsp,                \* the users whose client has this source, a DspManager
  view,                    \* by user: "", "stream", "error"
  pc,                      \* by thread: where it is between calls
  stack,                   \* by thread: its calls, innermost first
  joining                  \* by thread: the run whose monitor it waits for

lockVars == <<modificationLock, dspLock, specLock>>
procVars == <<process, monitor, alive, signalled, failed>>
srcVars  == <<state, busy, enabled, clients>>
specVars == <<specClients, spectrum, specDsp>>
rxVars   == <<sdr, dsp, view>>
sourceVars == <<lockVars, procVars, srcVars, specVars, rxVars, pc, stack, joining>>

SourceInit ==
  /\ modificationLock = {} /\ dspLock = [u \in User |-> {}] /\ specLock = {}
  /\ process = NoRun /\ monitor = NoRun
  /\ alive = {} /\ signalled = [r \in Run |-> ""] /\ failed = [r \in Run |-> FALSE]
  /\ state = "Stopped" /\ busy = FALSE /\ enabled = TRUE /\ clients = <<>>
  /\ specClients = {} /\ spectrum = FALSE /\ specDsp = FALSE
  /\ sdr = {} /\ dsp = {} /\ view = [u \in User |-> ""]
  /\ pc = [t \in Thread |-> IF t \in Monitor THEN "unborn" ELSE "idle"]
  /\ stack = [t \in Thread |-> <<>>]
  /\ joining = [t \in Thread |-> NoRun]

----------------------------------------------------------------------------
(* Frames.                                                                 *)

Frame(at, arg, todo) == [at |-> at, arg |-> arg, todo |-> todo]

At(t, at) == stack[t] # <<>> /\ Head(stack[t]).at = at
Arg(t)    == Head(stack[t]).arg       \* the client the call is about
UserOf(t) == Arg(t)[2]
Todo(t)   == Head(stack[t]).todo      \* the copy of clients yet to be called

Become(t, frames) == stack' = [stack EXCEPT ![t] = frames \o Tail(@)]
Return(t)         == Become(t, <<>>)
Proceed(t, at)       == Become(t, <<[Head(stack[t]) EXCEPT !.at = at]>>)
Call(t, at, arg, next) ==
  Become(t, <<Frame(at, arg, <<>>), [Head(stack[t]) EXCEPT !.at = next]>>)
Begin(t, frames)  == stack' = [stack EXCEPT ![t] = frames]

Unwind(t) ==
  /\ stack' = [stack EXCEPT ![t] = <<>>]
  /\ pc' = IF t \in Monitor THEN [pc EXCEPT ![t] = "dead"] ELSE pc
  /\ modificationLock' = modificationLock \ {t} /\ specLock' = specLock \ {t}
  /\ dspLock' = [u \in User |-> dspLock[u] \ {t}]

Members(list) == {list[i] : i \in DOMAIN list}

----------------------------------------------------------------------------
(* addClient and start. All clients here are users.                        *)

\* onStateChange of client c: a receiver sets up its DSP when the source
\* runs, a DspManager stops when the source does, a SpectrumThread that was
\* stopped starts again.
OnStateChange(c, st) ==
  CASE c[1] = "rx" /\ st = "Running" -> <<Frame("available", c, <<>>)>>
    [] c[1] = "dsp" /\ st = "Stopping" -> <<Frame("remove", c, <<>>)>>
    [] c = Spectrum /\ st = "Running" /\ ~specDsp -> <<Frame("specstart", c, <<>>)>>
    [] OTHER -> <<>>

addClient(t) ==
  /\ At(t, "add")
  /\ IF Arg(t) \in Members(clients)
     THEN Return(t) /\ UNCHANGED clients
     ELSE /\ clients' = Append(clients, Arg(t))
          /\ Become(t, OnStateChange(Arg(t), state) \o <<Frame("added", Arg(t), <<>>)>>)
  /\ UNCHANGED <<lockVars, procVars, state, busy, enabled, specVars, rxVars, pc, joining>>

Added(t) ==
  /\ At(t, "added")
  /\ IF clients = <<>> THEN Return(t) ELSE Call(t, "start", Arg(t), "busy")
  /\ UNCHANGED <<lockVars, procVars, srcVars, specVars, rxVars, pc, joining>>

\* hasUsers is from before start().
SetBusy(t) ==
  /\ At(t, "busy")
  /\ busy' = TRUE /\ Return(t)
  /\ UNCHANGED <<lockVars, procVars, state, enabled, clients, specVars, rxVars, pc, joining>>

startProcess(t) ==
  /\ At(t, "start") /\ modificationLock = {}
  /\ \/ /\ monitor # NoRun
        /\ Return(t) /\ UNCHANGED <<modificationLock, process, monitor, alive, pc>>
     \/ /\ monitor = NoRun
        /\ \E r \in Run :
             /\ pc[<<"monitor", r>>] = "unborn"
             /\ \A q \in 1..(r - 1) : pc[<<"monitor", q>>] # "unborn"
             /\ process' = r /\ monitor' = r /\ alive' = alive \union {r}
             /\ pc' = [pc EXCEPT ![<<"monitor", r>>] = "wait"]
             /\ Become(t, <<Frame("connect", <<"run", r>>, <<>>)>>)
        /\ modificationLock' = {t}
  /\ UNCHANGED <<dspLock, specLock, signalled, failed, srcVars, specVars, rxVars, joining>>

\* The test connections: one succeeds, or the monitor thread reports the end
\* of the process, or nothing ever listens at the port.
Connect(t) ==
  /\ At(t, "connect")
  /\ \/ Arg(t)[2] \in alive /\ ~failed[Arg(t)[2]] /\ monitor # NoRun /\ UNCHANGED failed
     \/ failed' = [failed EXCEPT ![Arg(t)[2]] = TRUE]
  /\ modificationLock' = {}
  /\ Proceed(t, "check")
  /\ UNCHANGED <<dspLock, specLock, process, monitor, alive, signalled, srcVars, specVars,
                 rxVars, pc, joining>>

CheckFailed(t) ==
  /\ At(t, "check")
  /\ IF failed[Arg(t)[2]] THEN Become(t, <<Frame("fail", Arg(t), clients)>>)
     ELSE Proceed(t, "announce")
  /\ UNCHANGED <<lockVars, procVars, srcVars, specVars, rxVars, pc, joining>>

\* Mutant: the clients are told of a state the source does not take on.
TellState(t, st, next) ==
  /\ UNCHANGED state
  /\ Become(t, (IF st = state THEN <<>> ELSE <<Frame(st, Arg(t), clients)>>) \o next)

\* setState: nothing if it is the state already, else every client is told.
SetState(t, st, next) ==
  /\ state' = st
  /\ Become(t, (IF st = state THEN <<>> ELSE <<Frame(st, Arg(t), clients)>>) \o next)

Announce(t) ==
  /\ At(t, "announce")
  /\ SetState(t, "Running", <<>>)
  /\ UNCHANGED <<lockVars, procVars, busy, enabled, clients, specVars, rxVars, pc, joining>>

Notify(t) ==
  /\ \E st \in {"Running", "Stopping"} :
       /\ At(t, st)
       /\ IF Todo(t) = <<>> THEN Return(t)
          ELSE Become(t, OnStateChange(Head(Todo(t)), st)
                         \o <<[Head(stack[t]) EXCEPT !.todo = Tail(@)]>>)
  /\ UNCHANGED <<lockVars, procVars, srcVars, specVars, rxVars, pc, joining>>

----------------------------------------------------------------------------
(* fail, and the end of _handleEnableChanged: every client is told. A      *)
(* receiver logs the name of its source and calls setSdr(), a DspManager   *)
(* stops if the source failed.                                             *)

onFail(t) ==
  /\ At(t, "fail") \/ At(t, "disable")
  /\ IF Todo(t) = <<>> THEN Return(t) /\ UNCHANGED <<lockVars, pc>>
     ELSE LET c == Head(Todo(t))
              rest == <<[Head(stack[t]) EXCEPT !.todo = Tail(@)]>>
          IN  IF c[1] = "rx" /\ c[2] \notin sdr THEN Unwind(t)
              ELSE /\ Become(t, (CASE c[1] = "rx" -> <<Frame("setsdr", c, <<>>)>>
                                   [] c[1] = "dsp" /\ At(t, "fail") ->
                                        <<Frame("remove", c, <<>>)>>
                                   [] OTHER -> <<>>) \o rest)
                   /\ UNCHANGED <<lockVars, pc>>
  /\ UNCHANGED <<procVars, srcVars, specVars, rxVars, joining>>

\* setSdr(None): stopDsp(), removeClient, no source, an error for the browser.
setSdr(t) ==
  /\ \/ At(t, "setsdr") /\ Call(t, "stopdsp", Arg(t), "setsdr2") /\ UNCHANGED <<sdr, view>>
     \/ /\ At(t, "setsdr2") /\ UNCHANGED <<sdr, view>>
        /\ IF UserOf(t) \in sdr THEN Call(t, "remove", Arg(t), "setsdr3")
           ELSE Proceed(t, "setsdr3")
     \/ /\ At(t, "setsdr3")
        /\ sdr' = sdr \ {UserOf(t)}
        /\ view' = [view EXCEPT ![UserOf(t)] = "error"]
        /\ Return(t)
  /\ UNCHANGED <<lockVars, procVars, srcVars, specVars, dsp, pc, joining>>

----------------------------------------------------------------------------
(* removeClient and checkStatus.                                           *)

removeClient(t) ==
  /\ At(t, "remove")
  /\ IF Arg(t) \in Members(clients) THEN Proceed(t, "removing") ELSE Return(t)
  /\ UNCHANGED <<lockVars, procVars, srcVars, specVars, rxVars, pc, joining>>

\* list.remove raises ValueError if somebody was quicker.
Removing(t) ==
  /\ At(t, "removing")
  /\ clients' = SelectSeq(clients, LAMBDA c : c # Arg(t))
  /\ IF Arg(t) \in Members(clients) THEN Proceed(t, "status") /\ UNCHANGED <<lockVars, pc>>
     ELSE Unwind(t)
  /\ UNCHANGED <<procVars, state, busy, enabled, specVars, rxVars, joining>>

checkStatus(t) ==
  /\ At(t, "status")
  /\ busy' = (clients # <<>>)
  /\ IF clients = <<>> THEN Proceed(t, "stop") ELSE Return(t)
  /\ UNCHANGED <<lockVars, procVars, state, enabled, clients, specVars, rxVars, pc, joining>>

----------------------------------------------------------------------------
(* The clients' side: DspManager and SpectrumThread.                       *)

\* getDsp, with dspLock; DspManager's constructor adds it to the source.
getDsp(t) ==
  /\ \/ /\ At(t, "getdsp") /\ dspLock[UserOf(t)] = {}
        /\ UNCHANGED dsp
        /\ IF UserOf(t) \in sdr \ dsp
           THEN /\ dspLock' = [dspLock EXCEPT ![UserOf(t)] = {t}]
                /\ Call(t, "add", dspOf(UserOf(t)), "gotdsp")
           ELSE Return(t) /\ UNCHANGED dspLock
     \/ /\ At(t, "gotdsp")
        /\ dsp' = dsp \union {UserOf(t)}
        /\ dspLock' = [dspLock EXCEPT ![UserOf(t)] = {}]
        /\ Return(t)
  /\ UNCHANGED <<modificationLock, specLock, procVars, srcVars, specVars, sdr, view, pc,
                 joining>>

\* stopDsp, with dspLock around the stop of the DspManager.
stopDsp(t) ==
  /\ \/ /\ At(t, "stopdsp") /\ dspLock[UserOf(t)] = {}
        /\ UNCHANGED dsp
        /\ IF UserOf(t) \in dsp
           THEN /\ dspLock' = [dspLock EXCEPT ![UserOf(t)] = {t}]
                /\ Call(t, "remove", dspOf(UserOf(t)), "stopdsp2")
           ELSE Proceed(t, "stopspec") /\ UNCHANGED dspLock
     \/ /\ At(t, "stopdsp2")
        /\ dsp' = dsp \ {UserOf(t)}
        /\ dspLock' = [dspLock EXCEPT ![UserOf(t)] = {}]
        /\ Proceed(t, "stopspec")
     \/ /\ At(t, "stopspec") /\ UNCHANGED <<dspLock, dsp>>
        /\ IF UserOf(t) \in sdr THEN Proceed(t, "rmspec") ELSE Return(t)
  /\ UNCHANGED <<modificationLock, specLock, procVars, srcVars, specVars, sdr, view, pc,
                 joining>>

\* handleSdrAvailable.
handleSdrAvailable(t) ==
  /\ \/ /\ At(t, "available") /\ Call(t, "getdsp", Arg(t), "available2")
        /\ UNCHANGED <<view, lockVars, pc>>
     \/ /\ At(t, "available2")
        /\ IF UserOf(t) \in dsp /\ UserOf(t) \in sdr
           THEN /\ view' = [view EXCEPT ![UserOf(t)] = "stream"]
                /\ Proceed(t, "addspec") /\ UNCHANGED <<lockVars, pc>>
           ELSE Unwind(t) /\ UNCHANGED view
  /\ UNCHANGED <<procVars, srcVars, specVars, sdr, dsp, joining>>

addSpectrumClient(t) ==
  /\ \/ /\ At(t, "addspec") /\ UNCHANGED <<spectrum, specDsp, specLock>>
        /\ specClients' = specClients \union {UserOf(t)}
        /\ IF UserOf(t) \in specClients THEN Return(t) ELSE Proceed(t, "addspec2")
     \/ /\ At(t, "addspec2") /\ specLock = {} /\ UNCHANGED specClients
        /\ IF spectrum THEN Return(t) /\ UNCHANGED <<spectrum, specDsp, specLock>>
           ELSE /\ spectrum' = TRUE /\ specDsp' = TRUE /\ specLock' = {t}
                /\ Call(t, "add", Spectrum, "addspec3")
     \/ /\ At(t, "addspec3") /\ UNCHANGED <<specClients, spectrum, specDsp>>
        /\ specLock' = {} /\ Return(t)
     \/ /\ At(t, "specstart") /\ UNCHANGED <<specClients, spectrum, specLock>>
        /\ specDsp' = TRUE
        /\ IF specDsp THEN Return(t) ELSE Proceed(t, "add")
  /\ UNCHANGED <<modificationLock, dspLock, procVars, srcVars, rxVars, pc, joining>>

LastSpectrumClient == specClients = {} /\ spectrum

removeSpectrumClient(t) ==
  /\ \/ /\ At(t, "rmspec") /\ UNCHANGED <<spectrum, specDsp, specLock>>
        /\ specClients' = specClients \ {UserOf(t)}
        /\ Proceed(t, "rmspec2")
     \/ /\ At(t, "rmspec2") /\ specLock = {} /\ UNCHANGED specClients
        /\ IF LastSpectrumClient
           THEN IF specDsp
                THEN /\ specDsp' = FALSE /\ specLock' = {t} /\ UNCHANGED spectrum
                     /\ Call(t, "remove", Spectrum, "rmspec3")
                ELSE spectrum' = FALSE /\ Return(t) /\ UNCHANGED <<specDsp, specLock>>
           ELSE Return(t) /\ UNCHANGED <<spectrum, specDsp, specLock>>
     \/ /\ At(t, "rmspec3") /\ UNCHANGED <<specClients, specDsp>>
        /\ spectrum' = FALSE /\ specLock' = {} /\ Return(t)
  /\ UNCHANGED <<modificationLock, dspLock, procVars, srcVars, rxVars, pc, joining>>

----------------------------------------------------------------------------
(* stop.                                                                   *)

stop(t) ==
  /\ At(t, "stop") /\ modificationLock = {}
  /\ modificationLock' = {t}
  /\ Proceed(t, IF process # NoRun THEN "stopping" ELSE "joincheck")
  /\ UNCHANGED <<dspLock, specLock, procVars, srcVars, specVars, rxVars, pc, joining>>

SetStopping(t) ==
  /\ At(t, "stopping")
  /\ SetState(t, "Stopping", <<Frame("term", Arg(t), <<>>)>>)
  /\ UNCHANGED <<lockVars, procVars, busy, enabled, clients, specVars, rxVars, pc, joining>>

\* ProcessLookupError and AttributeError skip what is left of the try block.
Terminate(t) ==
  /\ At(t, "term")
  /\ IF process # NoRun /\ process \in alive
     THEN signalled' = [signalled EXCEPT ![process] = "TERM"] /\ Proceed(t, "join10")
     ELSE /\ Proceed(t, "joincheck") \/ (process # NoRun /\ Proceed(t, "join10"))
          /\ UNCHANGED signalled
  /\ UNCHANGED <<lockVars, process, monitor, alive, failed, srcVars, specVars, rxVars, pc,
                 joining>>

Join10(t) ==
  /\ At(t, "join10")
  /\ joining' = [joining EXCEPT ![t] = monitor]
  /\ Proceed(t, IF monitor = NoRun THEN "joincheck" ELSE "joining10")
  /\ UNCHANGED <<lockVars, procVars, srcVars, specVars, rxVars, pc>>

\* The monitor thread ends, or 10 seconds pass.
Joined10(t) ==
  /\ At(t, "joining10")
  /\ joining' = [joining EXCEPT ![t] = NoRun]
  /\ Proceed(t, "kill")
  /\ UNCHANGED <<lockVars, procVars, srcVars, specVars, rxVars, pc>>

Kill(t) ==
  /\ At(t, "kill")
  /\ signalled' = IF monitor # NoRun /\ process \in alive
                  THEN [signalled EXCEPT ![process] = "KILL"] ELSE signalled
  /\ Proceed(t, "joincheck")
  /\ UNCHANGED <<lockVars, process, monitor, alive, failed, srcVars, specVars, rxVars, pc,
                 joining>>

\* Mutant: stop() does not wait for the monitor thread.
NoJoin(t) ==
  /\ At(t, "joincheck")
  /\ Proceed(t, "cleanup")
  /\ UNCHANGED <<lockVars, procVars, srcVars, specVars, rxVars, pc, joining>>

JoinCheck(t) ==
  /\ At(t, "joincheck")
  /\ Proceed(t, IF monitor # NoRun THEN "join" ELSE "cleanup")
  /\ UNCHANGED <<lockVars, procVars, srcVars, specVars, rxVars, pc, joining>>

\* self.monitor may be None by now, and None has no join.
Join(t) ==
  /\ At(t, "join")
  /\ IF monitor # NoRun
     THEN /\ joining' = [joining EXCEPT ![t] = monitor] /\ Proceed(t, "joining")
          /\ UNCHANGED <<lockVars, pc>>
     ELSE Unwind(t) /\ UNCHANGED joining
  /\ UNCHANGED <<procVars, srcVars, specVars, rxVars>>

Joined(t) ==
  /\ At(t, "joining") /\ pc[<<"monitor", joining[t]>>] \in {"ended", "dead"}
  /\ joining' = [joining EXCEPT ![t] = NoRun]
  /\ Proceed(t, "cleanup")
  /\ UNCHANGED <<lockVars, procVars, srcVars, specVars, rxVars, pc>>

\* Mutant: the lock is not given back.
CleanupKeepsLock(t) ==
  /\ At(t, "cleanup")
  /\ Return(t)
  /\ UNCHANGED <<lockVars, procVars, srcVars, specVars, rxVars, pc, joining>>

\* The TCP client of the process is given up.
Cleanup(t) ==
  /\ At(t, "cleanup")
  /\ modificationLock' = {} /\ Return(t)
  /\ UNCHANGED <<dspLock, specLock, procVars, srcVars, specVars, rxVars, pc, joining>>

----------------------------------------------------------------------------
CallNext(t) ==
  \/ addClient(t) \/ Added(t) \/ SetBusy(t) \/ startProcess(t) \/ Connect(t) \/ CheckFailed(t)
  \/ Announce(t) \/ Notify(t) \/ onFail(t) \/ setSdr(t)
  \/ removeClient(t) \/ Removing(t) \/ checkStatus(t)
  \/ getDsp(t) \/ stopDsp(t) \/ handleSdrAvailable(t)
  \/ addSpectrumClient(t) \/ removeSpectrumClient(t)
  \/ stop(t) \/ SetStopping(t) \/ Terminate(t) \/ Join10(t) \/ Joined10(t)
  \/ Kill(t) \/ JoinCheck(t) \/ Join(t) \/ Joined(t) \/ Cleanup(t)

----------------------------------------------------------------------------
(* The threads between calls.                                              *)

Idle(t, place) == pc[t] = place /\ stack[t] = <<>>

\* "sdrselection": SdrService.getSource finds enabled sources only.
Select(u, t) ==
  /\ Idle(t, "idle") /\ enabled
  /\ pc' = [pc EXCEPT ![t] = "open"]
  /\ sdr' = sdr \union {u}
  /\ Begin(t, <<Frame("add", rx(u), <<>>)>>)
  /\ UNCHANGED <<lockVars, procVars, srcVars, specVars, dsp, view, joining>>

\* "dspcontrol": the browser wants its DspManager, maybe before the source
\* runs, maybe while another thread closes the connection.
DspControl(u, t) ==
  /\ Idle(t, "open") /\ ~Idle(<<"sender", u>>, "closed")
  /\ u \in sdr \ dsp
  /\ Begin(t, <<Frame("getdsp", rx(u), <<>>)>>)
  /\ UNCHANGED <<lockVars, procVars, srcVars, specVars, rxVars, pc, joining>>

\* The browser goes away; or mp_send, in the thread that pumps the spectrum or
\* tells the CPU usage, finds the queue full, and the connection's own thread
\* will close it once more.
Closes(u, t) ==
  \/ t \in Connection /\ Idle(t, "open")
  \/ t \in Sender /\ Idle(t, "idle") /\ u \in Slow /\ pc[<<"connection", u>>] = "open"

\* Mutant: the DspManager is not stopped.
CloseKeepsDsp(u, t) ==
  /\ Closes(u, t)
  /\ pc' = [pc EXCEPT ![t] = "closed"]
  /\ Begin(t, IF u \in sdr THEN <<Frame("remove", rx(u), <<>>)>> ELSE <<>>)
  /\ UNCHANGED <<lockVars, procVars, srcVars, specVars, rxVars, joining>>

close(u, t) ==
  /\ Closes(u, t)
  /\ pc' = [pc EXCEPT ![t] = "closed"]
  /\ Begin(t, (IF u \in sdr THEN <<Frame("remove", rx(u), <<>>)>> ELSE <<>>)
              \o <<Frame("stopdsp", rx(u), <<>>)>>)
  /\ UNCHANGED <<lockVars, procVars, srcVars, specVars, rxVars, joining>>

\* Mutant: the thread takes a signal for the end of the process.
ProcessSignalled(r, t) ==
  /\ Idle(t, "wait") /\ (r \notin alive \/ signalled[r] # "")
  /\ process' = NoRun
  /\ pc' = [pc EXCEPT ![t] = "clear"]
  /\ UNCHANGED <<lockVars, monitor, alive, signalled, failed, srcVars, specVars, rxVars,
                 stack, joining>>

\* wait_for_process_to_end.
ProcessEnded(r, t) ==
  /\ Idle(t, "wait") /\ r \notin alive
  /\ process' = NoRun
  /\ pc' = [pc EXCEPT ![t] = "clear"]
  /\ UNCHANGED <<lockVars, monitor, alive, signalled, failed, srcVars, specVars, rxVars,
                 stack, joining>>

ClearMonitor(t) ==
  /\ Idle(t, "clear")
  /\ monitor' = NoRun
  /\ pc' = [pc EXCEPT ![t] = "judge"]
  /\ UNCHANGED <<lockVars, process, alive, signalled, failed, srcVars, specVars, rxVars,
                 stack, joining>>

Judge(r, t) ==
  /\ Idle(t, "judge")
  /\ pc' = [pc EXCEPT ![t] = "stopped"]
  /\ IF state = "Running"
     THEN Begin(t, <<Frame("fail", <<"run", r>>, clients)>>) /\ UNCHANGED failed
     ELSE failed' = [failed EXCEPT ![r] = TRUE] /\ UNCHANGED stack
  /\ UNCHANGED <<lockVars, process, monitor, alive, signalled, srcVars, specVars, rxVars,
                 joining>>

\* setState(STOPPED); no client reacts to that.
SetStopped(t) ==
  /\ Idle(t, "stopped")
  /\ state' = "Stopped"
  /\ pc' = [pc EXCEPT ![t] = "ended"]
  /\ UNCHANGED <<lockVars, procVars, busy, enabled, clients, specVars, rxVars, stack, joining>>

\* _handleEnableChanged. Receiver clients do nothing when a source is enabled.
Disable(t) ==
  /\ Idle(t, "idle") /\ enabled
  /\ enabled' = FALSE
  /\ Begin(t, <<Frame("stop", Spectrum, <<>>), Frame("calldisable", Spectrum, <<>>)>>)
  /\ UNCHANGED <<lockVars, procVars, state, busy, clients, specVars, rxVars, pc, joining>>

\* The copy of clients is made after stop().
CallDisable(t) ==
  /\ At(t, "calldisable")
  /\ stack' = [stack EXCEPT ![t] = <<Frame("disable", Arg(t), clients)>> \o Tail(@)]
  /\ UNCHANGED <<lockVars, procVars, srcVars, specVars, rxVars, pc, joining>>

Enable(t) ==
  /\ Idle(t, "idle") /\ ~enabled
  /\ enabled' = TRUE
  /\ UNCHANGED <<lockVars, procVars, state, busy, clients, specVars, rxVars, pc, stack, joining>>

\* The SDR process: SIGTERM may end it, SIGKILL does.
ProcessEnds(r) ==
  /\ r \in alive /\ (Crashes \/ signalled[r] # "")
  /\ alive' = alive \ {r}
  /\ UNCHANGED <<lockVars, process, monitor, signalled, failed, srcVars, specVars, rxVars,
                 pc, stack, joining>>

----------------------------------------------------------------------------
ConnectionNext(u, t) == Select(u, t) \/ DspControl(u, t) \/ close(u, t)
MonitorNext(r, t) == ProcessEnded(r, t) \/ ClearMonitor(t) \/ Judge(r, t) \/ SetStopped(t)
PageNext(t) == Disable(t) \/ CallDisable(t) \/ Enable(t)

SourceNext ==
  \/ \E t \in Thread : CallNext(t)
  \/ \E u \in User : ConnectionNext(u, <<"connection", u>>) \/ close(u, <<"sender", u>>)
  \/ \E r \in Run : MonitorNext(r, <<"monitor", r>>) \/ ProcessEnds(r)
  \/ \E t \in Page : PageNext(t)

SourceSpec == SourceInit /\ [][SourceNext]_sourceVars

\* Every thread goes on with its calls whenever it can; SIGKILL works. No
\* browser has to come or go, nobody has to change the settings.
SourceFairness ==
  /\ \A t \in Thread : WF_sourceVars(stack[t] # <<>> /\ CallNext(t))
  /\ \A t \in Page : WF_sourceVars(CallDisable(t))
  /\ \A r \in Run : /\ WF_sourceVars(MonitorNext(r, <<"monitor", r>>))
                    /\ WF_sourceVars(ProcessEnds(r) /\ signalled[r] = "KILL")

SourceFairSpec == SourceSpec /\ SourceFairness

----------------------------------------------------------------------------
(* Properties.                                                             *)

SourceClient == {rx(u) : u \in User} \union {dspOf(u) : u \in User} \union {Spectrum}

Label == {"add", "added", "busy", "start", "connect", "check", "announce", "Running",
          "Stopping", "fail", "disable", "calldisable", "setsdr", "setsdr2", "setsdr3",
          "remove", "removing", "status", "getdsp", "gotdsp", "stopdsp", "stopdsp2",
          "stopspec", "available", "available2", "addspec", "addspec2", "addspec3",
          "specstart", "rmspec", "rmspec2", "rmspec3", "stop", "stopping", "term",
          "join10", "joining10", "kill", "joincheck", "join", "joining", "cleanup"}

SourceTypeOK ==
  /\ modificationLock \subseteq Thread /\ specLock \subseteq Thread
  /\ dspLock \in [User -> SUBSET Thread]
  /\ process \in Run \union {NoRun} /\ monitor \in Run \union {NoRun}
  /\ alive \subseteq Run
  /\ signalled \in [Run -> {"", "TERM", "KILL"}] /\ failed \in [Run -> BOOLEAN]
  /\ state \in {"Stopped", "Running", "Stopping"}
  /\ busy \in BOOLEAN /\ enabled \in BOOLEAN
  /\ clients \in Seq(SourceClient)
  /\ specClients \subseteq User /\ spectrum \in BOOLEAN /\ specDsp \in BOOLEAN
  /\ sdr \subseteq User /\ dsp \subseteq User
  /\ view \in [User -> {"", "stream", "error"}]
  /\ pc \in [Thread -> {"idle", "open", "closed", "unborn", "wait", "clear", "judge",
                        "stopped", "ended", "dead"}]
  /\ stack \in [Thread -> Seq([at : Label, arg : SourceClient \union ({"run"} \X Run),
                               todo : Seq(SourceClient)])]
  /\ joining \in [Thread -> Run \union {NoRun}]

\* The device is never opened twice: a process is started only when the one
\* before it has ended, whichever threads start, stop and fail it.
OneProcess == Cardinality(alive) <= 1

\* When stop() gets to give up the TCP client, the process has ended.
StopEndsProcess == \A t \in Thread : At(t, "cleanup") => alive = {}

Quiet == \A t \in Thread : stack[t] = <<>> /\ pc[t] \notin {"clear", "judge", "stopped"}

\* When all is quiet, the state tells whether the process runs (for a lone
\* browser that takes what it is sent and a process that does not crash).
StateTruthful == Quiet => (state = "Running" <=> alive # {})

\* When all is quiet, only open connections have clients with the source: a
\* client nobody removes keeps the device running for good (same condition).
NoOrphans ==
  Quiet => \A c \in Members(clients) :
             c # Spectrum => c[2] \in sdr /\ pc[<<"connection", c[2]>>] = "open"

\* start() and stop() give modificationLock back in the end (same condition: a
\* browser closed by another thread, a second browser or a crash may make
\* stop() call itself, for a client that is told of it and was the last one,
\* or join a monitor thread that wants the lock).
LockReleased == modificationLock # {} ~> modificationLock = {}

\* "handles SDR device failures" (README.md:12): a browser that selected the
\* source gets the stream, or the error upon which it asks the load balancer
\* for another one. It fails for a lone browser whose device does not start
\* listening: stop() may find no monitor to join any more, and the
\* AttributeError ends onFail before the error is sent.
EveryoneAnswered ==
  \A u \in User :
    pc[<<"connection", u>>] = "open" ~>
      (view[u] # "" \/ pc[<<"connection", u>>] = "closed")
=============================================================================

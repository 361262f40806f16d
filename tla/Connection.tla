----------------------------- MODULE Connection -----------------------------
(***************************************************************************)
(* One websocket (owrx/websocket.py) and the Client behind it              *)
(* (owrx/connection.py), from the message that makes the client. The       *)
(* reader serves the socket; the pass-through thread sends what the pumps  *)
(* (DSP, spectrum, CPU usage) put into the client's queue, and some pumps  *)
(* send themselves; a ping timer is a thread of its own when it fires; a   *)
(* settings page that lowers the limit of clients, and the shutdown, close *)
(* the connection from outside.                                            *)
(*                                                                         *)
(* Every thread has a stack of frames, innermost first, and is over when   *)
(* it is empty. An exception unwinds it to the frame that catches it.      *)
(*                                                                         *)
(* Left out: what subclasses of Client do in close (SdrSource has the      *)
(* receiver's), and what the messages say.                                 *)
(***************************************************************************)
EXTENDS Naturals, Sequences, FiniteSets

CONSTANTS
  Pump,        \* threads that produce data for the client
  Closer,      \* threads that close it from outside, once each
  QueueSize,   \* the 100 of Queue(100)
  MaxTimers,   \* bound: Timer objects at a time
  MaxPings,    \* bound: Timers at a time that have fired and still run
  NoTimer      \* Python's None, no Timer

Timer    == {"timer"} \X (1..MaxTimers)

ASSUME ConnectionAssumption ==
  QueueSize \in Nat /\ MaxTimers \in Nat \ {0} /\ NoTimer \notin Timer

reader   == <<"reader", 0>>
passthru == <<"passthru", 0>>
Pumps    == {"pump"} \X Pump
Closers  == {"closer"} \X Closer
Thread   == Timer \union {reader, passthru} \union Pumps \union Closers

VARIABLES
  open, socketError,   \* the attributes of the WebSocketConnection
  interruptPipeSend,   \* the pipe: "open", "closed", "none"
  sendLock,            \* the set of the thread that holds it
  queue, hasQueue,     \* the queue; whether multithreadingQueue is not None
  full,                \* history: a close found no room for the PoisonPill
  pingTimer,           \* the Timer the attribute refers to
  timer,               \* by Timer: "free", "new", "armed"
  old,                 \* by thread: the local variable of cancelPing
  stack                \* by thread: its calls, innermost first

socketVars == <<open, socketError, interruptPipeSend>>
queueVars  == <<queue, hasQueue, full>>
pingVars   == <<pingTimer, timer, old>>
connVars   == <<socketVars, sendLock, queueVars, pingVars, stack>>

Frame(at, error) == [at |-> at, error |-> error]
Frames(labels)   == [i \in DOMAIN labels |-> Frame(labels[i], FALSE)]

ConnInit ==
  /\ open = TRUE /\ socketError = FALSE /\ interruptPipeSend = "open" /\ sendLock = {}
  /\ queue = <<>> /\ hasQueue = TRUE /\ full = FALSE
  /\ pingTimer = <<"timer", 1>>
  /\ timer = [i \in Timer |-> IF i = pingTimer THEN "armed" ELSE "free"]
  /\ old = [t \in Thread |-> NoTimer]
  /\ stack = [t \in Thread |->
                CASE t = reader -> Frames(<<"inner", "loop">>)
                  [] t = passthru -> Frames(<<"get">>)
                  [] t \in Timer -> <<>>
                  [] OTHER -> Frames(<<"idle">>)]

----------------------------------------------------------------------------
(* Frames and exceptions.                                                  *)

At(t, at)   == stack[t] # <<>> /\ Head(stack[t]).at = at
Error(t)    == Head(stack[t]).error
Over(t)     == stack[t] = <<>>

Become(t, frames) == stack' = [stack EXCEPT ![t] = frames \o Tail(@)]
Return(t)         == Become(t, <<>>)
Goto(t, at)       == Become(t, <<Frame(at, Error(t))>>)

\* handle() after the loop, however it ended.
Finally == Frames(<<"drain", "cancel", "frame">>)

\* Client.send and sendPong's caller catch an OSError, the rest anything.
Catches(at, kind) ==
  at \in {"handled", "loop", "get"} \/ (kind = "OSError" /\ at \in {"sent", "ponged"})

Handler(at, kind) ==
  CASE at = "sent" -> <<Frame("drain", TRUE)>>
    [] at = "loop" -> Finally
    [] at = "get" -> Frames(<<IF kind = "OSError" THEN "unset" ELSE "get">>)
    [] OTHER -> <<>>

Raise(t, kind) ==
  LET catching == {i \in DOMAIN stack[t] : Catches(stack[t][i].at, kind)}
      i == CHOOSE j \in catching : \A k \in catching : j <= k
      caught(at) == catching # {} /\ stack[t][i].at = at
  IN /\ stack' = [stack EXCEPT ![t] =
                    IF catching = {} THEN <<>>
                    ELSE Handler(@[i].at, kind) \o SubSeq(@, i + 1, Len(@))]
     /\ sendLock' = sendLock \ {t}
     /\ open' = (open /\ ~caught("ponged"))
     /\ socketError' = (socketError \/ caught("ponged"))
     /\ old' = [old EXCEPT ![t] = NoTimer]
     /\ UNCHANGED <<interruptPipeSend, queueVars, pingTimer, timer>>

----------------------------------------------------------------------------
(* Client.close, then WebSocketConnection.close.                           *)

\* Mutant: nothing is done for the queue of a connection that is closed.
DrainOpen(t) ==
  /\ At(t, "drain")
  /\ Goto(t, IF hasQueue /\ open THEN "empty" ELSE "close")
  /\ UNCHANGED <<socketVars, sendLock, queueVars, pingVars>>

drain(t) ==
  /\ At(t, "drain")
  /\ Goto(t, IF hasQueue THEN "empty" ELSE "close")
  /\ UNCHANGED <<socketVars, sendLock, queueVars, pingVars>>

empty(t) ==
  /\ At(t, "empty")
  /\ \/ ~hasQueue /\ Raise(t, "AttributeError")
     \/ /\ hasQueue
        /\ IF queue = <<>> THEN Goto(t, "pill") /\ UNCHANGED queue
                           ELSE queue' = Tail(queue) /\ UNCHANGED stack
        /\ UNCHANGED <<socketVars, sendLock, hasQueue, full, pingVars>>

putPill(t) ==
  /\ At(t, "pill")
  /\ \/ ~hasQueue /\ Raise(t, "AttributeError")
     \/ /\ hasQueue
        /\ IF Len(queue) < QueueSize
           THEN queue' = Append(queue, "pill") /\ UNCHANGED full
           ELSE full' = TRUE /\ UNCHANGED queue
        /\ Goto(t, "close")
        /\ UNCHANGED <<socketVars, sendLock, hasQueue, pingVars>>

close(t) ==
  /\ At(t, "close")
  /\ socketError' = (socketError \/ Error(t))
  /\ IF open THEN Goto(t, "shut") ELSE Return(t)
  /\ UNCHANGED <<open, interruptPipeSend, sendLock, queueVars, pingVars>>

Shut(t) ==
  /\ At(t, "shut")
  /\ open' = FALSE /\ Goto(t, "interrupt")
  /\ UNCHANGED <<socketError, interruptPipeSend, sendLock, queueVars, pingVars>>

interrupt(t) ==
  /\ At(t, "interrupt")
  /\ IF interruptPipeSend = "none" THEN Return(t) ELSE Goto(t, "signal")
  /\ UNCHANGED <<socketVars, sendLock, queueVars, pingVars>>

\* The pipe may have been closed, and the attribute unset, since.
Signal(t) ==
  /\ At(t, "signal")
  /\ \/ /\ interruptPipeSend = "open" /\ Return(t)
        /\ UNCHANGED <<socketVars, sendLock, queueVars, pingVars>>
     \/ interruptPipeSend = "closed" /\ Raise(t, "OSError")
     \/ interruptPipeSend = "none" /\ Raise(t, "AttributeError")

----------------------------------------------------------------------------
(* _sendBytes.                                                             *)

Lock(t) ==
  /\ At(t, "lock") /\ sendLock = {}
  /\ sendLock' = {t} /\ Goto(t, "write")
  /\ UNCHANGED <<socketVars, queueVars, pingVars>>

\* The socket takes the frame or it fails, which closes the connection.
Write(t) ==
  /\ At(t, "write")
  /\ \/ sendLock' = sendLock \ {t} /\ Return(t)
     \/ /\ ~socketError
        /\ Become(t, <<Frame("close", TRUE), Frame("unlock", FALSE)>>)
        /\ UNCHANGED sendLock
  /\ UNCHANGED <<socketVars, queueVars, pingVars>>

\* Mutant: a failed write keeps the lock.
KeepLock(t) ==
  /\ At(t, "unlock") /\ Return(t)
  /\ UNCHANGED <<socketVars, sendLock, queueVars, pingVars>>

Unlock(t) ==
  /\ At(t, "unlock")
  /\ sendLock' = sendLock \ {t} /\ Return(t)
  /\ UNCHANGED <<socketVars, queueVars, pingVars>>

----------------------------------------------------------------------------
(* cancelPing and resetPing. Each access to self.pingTimer is a step.      *)

cancelPing(t) ==
  /\ At(t, "cancel")
  /\ IF pingTimer = NoTimer THEN Return(t) ELSE Goto(t, "take")
  /\ UNCHANGED <<socketVars, sendLock, queueVars, pingVars>>

TakeOld(t) ==
  /\ At(t, "take")
  /\ old' = [old EXCEPT ![t] = pingTimer] /\ Goto(t, "forget")
  /\ UNCHANGED <<socketVars, sendLock, queueVars, pingTimer, timer>>

Forget(t) ==
  /\ At(t, "forget")
  /\ pingTimer' = NoTimer /\ Goto(t, "stop")
  /\ UNCHANGED <<socketVars, sendLock, queueVars, timer, old>>

\* A Timer that has fired cannot be stopped any more.
StopOld(t) ==
  /\ At(t, "stop")
  /\ \/ old[t] = NoTimer /\ Raise(t, "AttributeError")
     \/ /\ old[t] # NoTimer
        /\ timer' = [timer EXCEPT ![old[t]] = "free"]
        /\ old' = [old EXCEPT ![t] = NoTimer] /\ Return(t)
        /\ UNCHANGED <<socketVars, sendLock, queueVars, pingTimer>>

resetPing(t) ==
  /\ At(t, "reset")
  /\ IF open THEN Goto(t, "create") ELSE Return(t)
  /\ UNCHANGED <<socketVars, sendLock, queueVars, pingVars>>

Unused(i) ==
  timer[i] # "armed" /\ Over(i) /\ pingTimer # i /\ \A t \in Thread : old[t] # i

CreateTimer(t) ==
  /\ At(t, "create")
  /\ \E i \in Timer :
       /\ Unused(i) /\ \A n \in 1..(i[2] - 1) : ~Unused(<<"timer", n>>)
       /\ pingTimer' = i /\ timer' = [timer EXCEPT ![i] = "new"]
  /\ Goto(t, "start")
  /\ UNCHANGED <<socketVars, sendLock, queueVars, old>>

\* What is started is the Timer the attribute refers to by now.
StartTimer(t) ==
  /\ At(t, "start")
  /\ \/ pingTimer = NoTimer /\ Raise(t, "AttributeError")
     \/ pingTimer # NoTimer /\ timer[pingTimer] # "new" /\ Raise(t, "RuntimeError")
     \/ /\ pingTimer # NoTimer /\ timer[pingTimer] = "new"
        /\ timer' = [timer EXCEPT ![pingTimer] = "armed"] /\ Return(t)
        /\ UNCHANGED <<socketVars, sendLock, queueVars, pingTimer, old>>

\* Mutant: a ping does not set up the next one.
PingOnce(t) ==
  /\ timer[t] = "armed" /\ Cardinality({i \in Timer : ~Over(i)}) < MaxPings
  /\ timer' = [timer EXCEPT ![t] = "free"]
  /\ stack' = [stack EXCEPT ![t] = Frames(<<"lock">>)]
  /\ UNCHANGED <<socketVars, sendLock, queueVars, pingTimer, old>>

\* 30 seconds have passed: sendPing, in a thread of its own.
sendPing(t) ==
  /\ timer[t] = "armed" /\ Cardinality({i \in Timer : ~Over(i)}) < MaxPings
  /\ timer' = [timer EXCEPT ![t] = "free"]
  /\ stack' = [stack EXCEPT ![t] = Frames(<<"lock", "cancel", "reset">>)]
  /\ UNCHANGED <<socketVars, sendLock, queueVars, pingTimer, old>>

----------------------------------------------------------------------------
(* The reader: read_loop and handle.                                       *)

\* (The bound on Timers is felt here: each thread that resets the ping is to
\* find one for itself.)
Select ==
  /\ At(reader, "loop")
  /\ open => Cardinality({i \in Timer : Unused(i)}) > MaxPings
  /\ stack' = [stack EXCEPT ![reader] =
                 IF open THEN Frames(<<"cancel", "reset", "inner", "loop">>)
                         ELSE Frames(<<"closepipe">>)]
  /\ UNCHANGED <<socketVars, sendLock, queueVars, pingVars>>

\* Nothing more to read, or no need to.
Drained ==
  /\ At(reader, "inner") /\ Return(reader)
  /\ UNCHANGED <<socketVars, sendLock, queueVars, pingVars>>

\* A message that is answered, or a ping.
Message ==
  /\ At(reader, "inner") /\ open
  /\ \E reply \in {<<"lock", "sent", "handled">>, <<"lock", "ponged">>} :
       stack' = [stack EXCEPT ![reader] = Frames(reply) \o @]
  /\ UNCHANGED <<socketVars, sendLock, queueVars, pingVars>>

\* A close frame, an incomplete one, or none because the browser is gone.
Disconnect ==
  /\ At(reader, "inner") /\ open
  /\ open' = FALSE /\ socketError' \in {socketError, TRUE}
  /\ UNCHANGED <<interruptPipeSend, sendLock, queueVars, pingVars, stack>>

ClosePipe ==
  /\ At(reader, "closepipe")
  /\ interruptPipeSend' = "closed" /\ Goto(reader, "unsetpipe")
  /\ UNCHANGED <<open, socketError, sendLock, queueVars, pingVars>>

UnsetPipe ==
  /\ At(reader, "unsetpipe")
  /\ interruptPipeSend' = "none" /\ Become(reader, Finally)
  /\ UNCHANGED <<open, socketError, sendLock, queueVars, pingVars>>

CloseFrame ==
  /\ At(reader, "frame")
  /\ IF socketError THEN Return(reader) ELSE Goto(reader, "lock")
  /\ UNCHANGED <<socketVars, sendLock, queueVars, pingVars>>

\* A try block that ends without an exception.
LeaveTry(t) ==
  /\ \E at \in {"sent", "handled", "ponged"} : At(t, at)
  /\ Return(t)
  /\ UNCHANGED <<socketVars, sendLock, queueVars, pingVars>>

----------------------------------------------------------------------------
(* The pass-through thread, the pumps, and closing from outside.           *)

Get ==
  /\ At(passthru, "get") /\ queue # <<>>
  /\ queue' = Tail(queue)
  /\ stack' = [stack EXCEPT ![passthru] =
                 Frames(IF Head(queue) = "pill" THEN <<"unset">>
                        ELSE <<"lock", "sent", "get">>)]
  /\ UNCHANGED <<socketVars, sendLock, hasQueue, full, pingVars>>

UnsetQueue ==
  /\ At(passthru, "unset")
  /\ hasQueue' = FALSE /\ Return(passthru)
  /\ UNCHANGED <<socketVars, sendLock, queue, full, pingVars>>

mp_send(t) ==
  /\ At(t, "idle") /\ hasQueue
  /\ stack' = [stack EXCEPT ![t] = Frames(<<"put", "idle">>)]
  /\ UNCHANGED <<socketVars, sendLock, queueVars, pingVars>>

\* Audio and whatever else is not queued.
send(t) ==
  /\ At(t, "idle")
  /\ stack' = [stack EXCEPT ![t] = Frames(<<"lock", "sent", "idle">>)]
  /\ UNCHANGED <<socketVars, sendLock, queueVars, pingVars>>

Put(t) ==
  /\ At(t, "put")
  /\ \/ ~hasQueue /\ Raise(t, "AttributeError")
     \/ /\ hasQueue
        /\ IF Len(queue) < QueueSize
           THEN queue' = Append(queue, "data") /\ Return(t)
           ELSE Become(t, <<Frame("drain", TRUE)>>) /\ UNCHANGED queue
        /\ UNCHANGED <<socketVars, sendLock, hasQueue, full, pingVars>>

\* _checkClientCount closes the client, closeAll the websocket only.
CloseFromOutside(t) ==
  /\ At(t, "idle")
  /\ \E at \in {"drain", "close"} : stack' = [stack EXCEPT ![t] = Frames(<<at>>)]
  /\ UNCHANGED <<socketVars, sendLock, queueVars, pingVars>>

----------------------------------------------------------------------------
CloseStep(t) ==
  drain(t) \/ empty(t) \/ putPill(t) \/ close(t) \/ Shut(t) \/ interrupt(t) \/ Signal(t)
SendStep(t) == Write(t) \/ Unlock(t) \/ LeaveTry(t)
PingStep(t) ==
  \/ cancelPing(t) \/ TakeOld(t) \/ Forget(t) \/ StopOld(t)
  \/ resetPing(t) \/ CreateTimer(t) \/ StartTimer(t)
ReaderStep   == ClosePipe \/ UnsetPipe \/ CloseFrame
PassthruStep == Get \/ UnsetQueue

CallNext(t) == CloseStep(t) \/ SendStep(t) \/ PingStep(t)

ConnNext ==
  \/ \E t \in Thread : CallNext(t) \/ Lock(t)
  \/ \E t \in Timer : sendPing(t)
  \/ Select \/ Drained \/ Message \/ Disconnect \/ ReaderStep
  \/ PassthruStep
  \/ \E t \in Pumps : mp_send(t) \/ send(t) \/ Put(t)
  \/ \E t \in Closers : CloseFromOutside(t)

ConnSpec == ConnInit /\ [][ConnNext]_connVars

\* Threads run whenever they can, timers fire, select() has a timeout; the
\* lock is taken in the end, and so is what is in the queue again and again.
\* No browser has to write, nobody has to close, and no pump to pump.
RunThread(t) ==
  \/ CallNext(t) \/ Lock(t)
  \/ t \in Timer /\ sendPing(t)
  \/ t = reader /\ (ReaderStep \/ (~open /\ (Select \/ Drained)))
  \/ t = passthru /\ PassthruStep
  \/ t \in Pumps /\ Put(t)

ConnFairness == \A t \in Thread : SF_connVars(RunThread(t))

ConnFairSpec == ConnSpec /\ ConnFairness
----------------------------------------------------------------------------
(* Properties.                                                             *)

Label == {"loop", "inner", "closepipe", "unsetpipe", "frame", "get", "unset", "idle", "put",
          "drain", "empty", "pill", "close", "shut", "interrupt", "signal",
          "lock", "write", "unlock", "sent", "handled", "ponged",
          "cancel", "take", "forget", "stop", "reset", "create", "start"}

TypeOK ==
  /\ open \in BOOLEAN /\ socketError \in BOOLEAN
  /\ interruptPipeSend \in {"open", "closed", "none"}
  /\ sendLock \subseteq Thread
  /\ queue \in Seq({"data", "pill"}) /\ Len(queue) <= QueueSize
  /\ hasQueue \in BOOLEAN /\ full \in BOOLEAN
  /\ pingTimer \in Timer \union {NoTimer}
  /\ timer \in [Timer -> {"free", "new", "armed"}]
  /\ old \in [Thread -> Timer \union {NoTimer}]
  /\ stack \in [Thread -> Seq([at : Label, error : BOOLEAN])]

Pinging == {i \in Timer : ~Over(i) \/ timer[i] = "armed"}

\* A silent browser is noticed: while the connection is open and its reader
\* waits for messages or handles one, a ping is under way or will be sent,
\* however the reader and a ping thread get in each other's way when they
\* replace the timer. (With MaxPings = 2, which takes a ping that is not yet
\* sent when the next one is due, two ping threads can take the timer from each
\* other, die of it both, and none is left.)
ReaderWaits ==
  /\ ~Over(reader) /\ stack[reader][Len(stack[reader])].at = "loop"
  /\ \A at \in {"cancel", "take", "forget", "stop", "reset", "create", "start"} : ~At(reader, at)
KeepAlive == open /\ ReaderWaits => Pinging # {}

\* No pass-through thread is left over: when a closed connection has come to
\* rest, its thread has got a PoisonPill, however many threads closed it at a
\* time, emptied the queue under each other's hands or still put data there.
\* The exception is a pump that fills the queue between the last get and the
\* put of a close ("impossible queue state", connection.py:70).
AtRest == \A t \in Thread : Over(t) \/ At(t, "idle") \/ (At(t, "get") /\ queue = <<>>)
NoThreadLeft == AtRest /\ ~open => Over(passthru) \/ full

\* Once the connection is closed, by the browser or a failed write, its reader
\* and its pass-through thread end (without pumps), and so do its pings: no
\* timer is left that starts the next one for good.
CloseEndsThreads == ~open ~> (Over(reader) /\ Over(passthru) /\ Pinging = {})
=============================================================================

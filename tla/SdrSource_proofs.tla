-------------------------- MODULE SdrSource_proofs --------------------------
(***************************************************************************)
(* The device is never opened twice (OneProcess of SdrSource), for any     *)
(* number of browsers, settings pages and processes. SdrSource has no      *)
(* variable that says so: start() looks at monitor only, which the monitor *)
(* thread clears in a step of its own after it has cleared process.        *)
(*                                                                         *)
(* The argument: a thread that waits for a process, or has yet to clear    *)
(* monitor, is the one monitor refers to; a process that runs has a        *)
(* thread that waits for it. So all processes that run are the run of      *)
(* monitor. The third conjunct keeps exceptions away from waiting threads: *)
(* a monitor thread only makes calls when it has cleared monitor.          *)
(*                                                                         *)
(* The process has ended when stop() is done (StopEndsProcess): who is     *)
(* anywhere in start() or stop() has modificationLock (LockInv), even when *)
(* called back from there, so no process is started while stop() waits for *)
(* a monitor thread, and that thread is the one of monitor if there is one *)
(* (JoinInv). A thread that ended has seen its process end (ProcessInv).   *)
(***************************************************************************)
EXTENDS SdrSource, FiniteSetTheorems, SequenceTheorems, TLAPS

Mon(r) == <<"monitor", r>>

Domains == DOMAIN pc = Thread /\ DOMAIN stack = Thread /\ alive \subseteq Run

Referred == \A r \in Run : pc[Mon(r)] \in {"wait", "clear"} => monitor = r

Awaited == \A r \in alive : pc[Mon(r)] = "wait"

CallsLate == \A r \in Run : stack[Mon(r)] # <<>> => pc[Mon(r)] = "stopped"

\* The inductive invariant behind OneProcess.
ProcessInv == Domains /\ Referred /\ Awaited /\ CallsLate

\* What a step of a call may do to the variables of ProcessInv when it starts
\* no process: its own stack changes, an exception may end a monitor thread.
Harmless(t) ==
  /\ stack[t] # <<>>
  /\ \E s : stack' = [stack EXCEPT ![t] = s]
  /\ \/ pc' = pc
     \/ stack'[t] = <<>> /\ t \in Monitor /\ pc' = [pc EXCEPT ![t] = "dead"]
  /\ alive' = alive /\ monitor' = monitor

LEMMA Threads ==
  /\ \A r \in Run : Mon(r) \in Monitor
  /\ Monitor \subseteq Thread
  /\ \A t \in Monitor : \E r \in Run : t = Mon(r)
  /\ \A r, q : Mon(r) = Mon(q) => r = q
  /\ \A u, r : <<"connection", u>> # Mon(r) /\ <<"sender", u>> # Mon(r)
  /\ \A t \in Page, r \in Run : t # Mon(r)
BY DEF Mon, Monitor, Thread, Page

\* A harmless step keeps the invariant.
LEMMA HarmlessKeeps ==
  ASSUME ProcessInv, NEW t \in Thread, Harmless(t)
  PROVE  ProcessInv'
<1>1. DOMAIN stack' = Thread /\ \A q \in Thread : q # t => stack'[q] = stack[q]
  BY DEF ProcessInv, Domains, Harmless
<1>2. DOMAIN pc' = Thread /\ \A q \in Thread : q # t => pc'[q] = pc[q]
  BY DEF ProcessInv, Domains, Harmless
<1>3. pc'[t] = pc[t] \/ (t \in Monitor /\ pc'[t] = "dead" /\ stack'[t] = <<>>)
  BY DEF ProcessInv, Domains, Harmless
<1>4. t \in Monitor => pc[t] = "stopped"
  BY Threads DEF ProcessInv, CallsLate, Harmless
<1>5. Domains'
  BY <1>1, <1>2 DEF ProcessInv, Domains, Harmless
<1>6. \A r \in Run : pc'[Mon(r)] = pc[Mon(r)] \/ (pc'[Mon(r)] = "dead" /\ pc[Mon(r)] = "stopped")
  BY <1>2, <1>3, <1>4, Threads
<1>7. Referred'
  BY <1>6 DEF ProcessInv, Referred, Harmless
<1>8. Awaited'
  BY <1>6 DEF ProcessInv, Domains, Awaited, Harmless
<1>9. CallsLate'
  BY <1>1, <1>2, <1>3, <1>4, Threads DEF ProcessInv, CallsLate, Harmless
<1> QED BY <1>5, <1>7, <1>8, <1>9 DEF ProcessInv

\* start() is the one call that starts a process: when monitor is None, with
\* the next thread.
LEMMA StartKeeps ==
  ASSUME ProcessInv, NEW t \in Thread, startProcess(t)
  PROVE  ProcessInv'
<1>1. CASE monitor # NoRun
  <2>1. Harmless(t)
    BY <1>1 DEF startProcess, At, Return, Become, Harmless
  <2> QED BY <2>1, HarmlessKeeps
<1>2. CASE monitor = NoRun
  <2>1. PICK r \in Run :
          /\ pc[Mon(r)] = "unborn" /\ monitor' = r /\ alive' = alive \union {r}
          /\ pc' = [pc EXCEPT ![Mon(r)] = "wait"]
          /\ stack[t] # <<>> /\ \E s : stack' = [stack EXCEPT ![t] = s]
    BY <1>2 DEF startProcess, At, Become, Mon
  <2>2. \A q \in Run : pc[Mon(q)] \notin {"wait", "clear"}
    BY <1>2, SourceBounds DEF ProcessInv, Referred
  <2>3. alive = {}
    BY <2>2 DEF ProcessInv, Domains, Awaited
  <2>4. \A q \in Run : pc'[Mon(q)] = IF q = r THEN "wait" ELSE pc[Mon(q)]
    BY <2>1, Threads DEF ProcessInv, Domains
  <2>5. Domains' /\ Referred' /\ Awaited'
    BY <2>1, <2>2, <2>3, <2>4 DEF ProcessInv, Domains, Referred, Awaited
  <2>6. \A q \in Thread : q # t => stack'[q] = stack[q]
    BY <2>1 DEF ProcessInv, Domains
  <2>7. t # Mon(r) /\ (t \in Monitor => pc[t] = "stopped")
    BY <2>1, Threads DEF ProcessInv, CallsLate
  <2>8. CallsLate'
    BY <2>1, <2>4, <2>6, <2>7, Threads DEF ProcessInv, CallsLate
  <2> QED BY <2>5, <2>8 DEF ProcessInv
<1> QED BY <1>1, <1>2

\* An exception leaves an empty stack.
LEMMA RaiseIsHarmless ==
  ASSUME ProcessInv, NEW t \in Thread, stack[t] # <<>>, Unwind(t),
         alive' = alive, monitor' = monitor
  PROVE  Harmless(t)
<1>1. stack'[t] = <<>>
  BY DEF Unwind, ProcessInv, Domains
<1> QED BY <1>1 DEF Unwind, Harmless

\* Every other step of a call is harmless, in the order of SdrSource.
LEMMA CallsAreHarmless ==
  ASSUME ProcessInv, NEW t \in Thread, CallNext(t) \/ CallDisable(t), ~startProcess(t)
  PROVE  Harmless(t)
<1> USE DEF Harmless, At, Become, Proceed, Return, Call, procVars
<1>1. CASE addClient(t)
  BY <1>1 DEF addClient
<1>2. CASE Added(t)
  BY <1>2 DEF Added
<1>3. CASE SetBusy(t)
  BY <1>3 DEF SetBusy
<1>4. CASE Connect(t)
  BY <1>4 DEF Connect
<1>5. CASE CheckFailed(t)
  BY <1>5 DEF CheckFailed
<1>6. CASE Announce(t)
  BY <1>6 DEF Announce, SetState
<1>7. CASE Notify(t)
  BY <1>7 DEF Notify
<1>8. CASE onFail(t)
  BY <1>8, RaiseIsHarmless DEF onFail
<1>9. CASE CallDisable(t)
  BY <1>9 DEF CallDisable
<1>10. CASE setSdr(t)
  BY <1>10 DEF setSdr
<1>11. CASE removeClient(t)
  BY <1>11 DEF removeClient
<1>12. CASE Removing(t)
  BY <1>12, RaiseIsHarmless DEF Removing
<1>13. CASE checkStatus(t)
  BY <1>13 DEF checkStatus
<1>14. CASE getDsp(t)
  BY <1>14 DEF getDsp
<1>15. CASE stopDsp(t)
  BY <1>15 DEF stopDsp
<1>16. CASE handleSdrAvailable(t)
  BY <1>16, RaiseIsHarmless DEF handleSdrAvailable
<1>17. CASE addSpectrumClient(t)
  BY <1>17 DEF addSpectrumClient
<1>18. CASE removeSpectrumClient(t)
  BY <1>18 DEF removeSpectrumClient
<1>19. CASE stop(t)
  BY <1>19 DEF stop
<1>20. CASE SetStopping(t)
  BY <1>20 DEF SetStopping, SetState
<1>21. CASE Terminate(t)
  BY <1>21 DEF Terminate
<1>22. CASE Join10(t)
  BY <1>22 DEF Join10
<1>23. CASE Joined10(t)
  BY <1>23 DEF Joined10
<1>24. CASE Kill(t)
  BY <1>24 DEF Kill
<1>25. CASE JoinCheck(t)
  BY <1>25 DEF JoinCheck
<1>26. CASE Join(t)
  BY <1>26, RaiseIsHarmless DEF Join
<1>27. CASE Joined(t)
  BY <1>27 DEF Joined
<1>28. CASE Cleanup(t)
  BY <1>28 DEF Cleanup
<1> QED
  BY <1>1, <1>2, <1>3, <1>4, <1>5, <1>6, <1>7, <1>8, <1>9, <1>10, <1>11, <1>12, <1>13, <1>14, <1>15, <1>16, <1>17, <1>18, <1>19, <1>20, <1>21, <1>22, <1>23, <1>24, <1>25, <1>26, <1>27, <1>28 DEF CallNext

\* The steps of the threads between calls, and of the process.
LEMMA OthersKeep ==
  ASSUME ProcessInv,
         \/ \E u \in User : ConnectionNext(u, <<"connection", u>>) \/ close(u, <<"sender", u>>)
         \/ \E r \in Run : MonitorNext(r, Mon(r)) \/ ProcessEnds(r)
         \/ \E t \in Page : PageNext(t)
  PROVE  ProcessInv'
<1> USE DEF ProcessInv, Domains, Referred, Awaited, CallsLate
<1>1. ASSUME NEW u \in User,
             ConnectionNext(u, <<"connection", u>>) \/ close(u, <<"sender", u>>)
      PROVE  ProcessInv'
  <2>1. /\ DOMAIN pc' = Thread /\ DOMAIN stack' = Thread
        /\ \A r \in Run : pc'[Mon(r)] = pc[Mon(r)] /\ stack'[Mon(r)] = stack[Mon(r)]
        /\ alive' = alive /\ monitor' = monitor
    BY <1>1, Threads DEF ConnectionNext, Select, DspControl, close, Begin, procVars
  <2> QED BY <2>1
<1>2. ASSUME NEW t \in Page, Disable(t) \/ Enable(t)
      PROVE  ProcessInv'
  <2>1. /\ pc' = pc /\ DOMAIN stack' = Thread
        /\ \A r \in Run : stack'[Mon(r)] = stack[Mon(r)]
        /\ alive' = alive /\ monitor' = monitor
    BY <1>2, Threads DEF Disable, Enable, Begin, procVars
  <2> QED BY <2>1
<1>3. ASSUME NEW r \in Run, ProcessEnded(r, Mon(r))
      PROVE  ProcessInv'
  <2>1. \A q \in Run : pc'[Mon(q)] = IF q = r THEN "clear" ELSE pc[Mon(q)]
    BY <1>3, Threads DEF ProcessEnded
  <2> QED BY <1>3, <2>1 DEF ProcessEnded, Idle
<1>4. ASSUME NEW r \in Run, ClearMonitor(Mon(r))
      PROVE  ProcessInv'
  <2>1. \A q \in Run : pc'[Mon(q)] = IF q = r THEN "judge" ELSE pc[Mon(q)]
    BY <1>4, Threads DEF ClearMonitor
  <2> QED BY <1>4, <2>1 DEF ClearMonitor, Idle
<1>5. ASSUME NEW r \in Run, Judge(r, Mon(r))
      PROVE  ProcessInv'
  <2>1. \A q \in Run : pc'[Mon(q)] = IF q = r THEN "stopped" ELSE pc[Mon(q)]
    BY <1>5, Threads DEF Judge
  <2>2. \A q \in Run \ {r} : stack'[Mon(q)] = stack[Mon(q)]
    BY <1>5, Threads DEF Judge, Begin
  <2>3. DOMAIN pc' = Thread /\ DOMAIN stack' = Thread
    BY <1>5 DEF Judge, Begin
  <2> QED BY <1>5, <2>1, <2>2, <2>3 DEF Judge, Idle
<1>6. ASSUME NEW r \in Run, SetStopped(Mon(r))
      PROVE  ProcessInv'
  <2>1. \A q \in Run : pc'[Mon(q)] = IF q = r THEN "ended" ELSE pc[Mon(q)]
    BY <1>6, Threads DEF SetStopped
  <2> QED BY <1>6, <2>1 DEF SetStopped, Idle, procVars
<1>7. ASSUME NEW r \in Run, ProcessEnds(r)
      PROVE  ProcessInv'
  BY <1>7 DEF ProcessEnds
<1>8. ASSUME NEW t \in Page, CallDisable(t)
      PROVE  ProcessInv'
  <2>1. t \in Thread /\ ~startProcess(t)
    BY <1>8 DEF Thread, CallDisable, startProcess, At
  <2> QED BY <1>8, <2>1, CallsAreHarmless, HarmlessKeeps
<1> QED BY <1>1, <1>2, <1>3, <1>4, <1>5, <1>6, <1>7, <1>8 DEF MonitorNext, PageNext

LEMMA ProcessInvHolds == SourceSpec => []ProcessInv
<1>1. SourceInit => ProcessInv
  BY Threads DEF SourceInit, ProcessInv, Domains, Referred, Awaited, CallsLate
<1>2. ASSUME ProcessInv, [SourceNext]_sourceVars
      PROVE  ProcessInv'
  <2>1. ASSUME NEW t \in Thread, CallNext(t)
        PROVE  ProcessInv'
    BY <1>2, <2>1, StartKeeps, CallsAreHarmless, HarmlessKeeps
  <2>2. CASE UNCHANGED sourceVars
    BY <1>2, <2>2 DEF sourceVars, procVars, ProcessInv, Domains, Referred, Awaited, CallsLate
  <2> QED BY <1>2, <2>1, <2>2, OthersKeep DEF SourceNext, Mon
<1> QED BY <1>1, <1>2, PTL DEF SourceSpec

\* At no time do two processes run (owrx/source/__init__.py, start and the
\* source_monitor thread), whoever starts, stops, disables or fails the
\* source, and even when threads are deadlocked.
THEOREM OneProcessAlways == SourceSpec => []OneProcess
<1>1. ProcessInv => alive \subseteq {monitor}
  BY DEF ProcessInv, Domains, Referred, Awaited
<1>2. \A m, S : S \subseteq {m} => Cardinality(S) <= 1
  <2>1. SUFFICES ASSUME NEW m, NEW S, S \subseteq {m}
                 PROVE  Cardinality(S) <= 1
    OBVIOUS
  <2>2. S = {} \/ S = {m}
    BY <2>1
  <2> QED BY <2>2, FS_EmptySet, FS_Singleton
<1>3. ProcessInv => OneProcess
  BY <1>1, <1>2 DEF OneProcess
<1> QED BY <1>3, ProcessInvHolds, PTL

-----------------------------------------------------------------------------
(* modificationLock. A thread that has it may be called back (stop tells    *)
(* the clients), so that what says that it has the lock may be below other  *)
(* frames of its stack.                                                     *)

\* Where a thread has the lock.
Held == {"connect", "stopping", "term", "join10", "joining10", "kill", "joincheck", "join",
         "joining", "cleanup"}

Elements(s) == {s[i] : i \in DOMAIN s}
Frames(s)   == s \in Seq(Elements(s)) /\ \A i \in DOMAIN s : "at" \in DOMAIN s[i]
HeldAt(s)   == {i \in DOMAIN s : s[i].at \in Held}

\* A stack has at most one such frame, and waits for callbacks only where
\* stop() has told the clients.
Nested(s) ==
  /\ Frames(s)
  /\ \A i \in HeldAt(s) : /\ \A j \in HeldAt(s) : j = i
                          /\ i # 1 => s[i].at = "term"

LockInv ==
  \A t \in Thread : Nested(stack[t]) /\ (HeldAt(stack[t]) # {} => modificationLock = {t})

\* The monitor thread that stop() waits for is that of the process, or of the
\* last one; the process has ended when stop() is done with it.
JoinAt(t) ==
  /\ At(t, "joining") => monitor \in {joining[t], NoRun}
  /\ At(t, "cleanup") => alive = {}

JoinInv == DOMAIN joining = Thread /\ \A t \in Thread : JoinAt(t)

LEMMA ShortFrames ==
  /\ Frames(<<>>) /\ HeldAt(<<>>) = {}
  /\ \A f : "at" \in DOMAIN f =>
       /\ Frames(<<f>>) /\ Nested(<<f>>)
       /\ HeldAt(<<f>>) = IF f.at \in Held THEN {1} ELSE {}
  /\ \A f, g : "at" \in DOMAIN f /\ "at" \in DOMAIN g =>
       Frames(<<f, g>>)
<1>1. Frames(<<>>) /\ HeldAt(<<>>) = {}
  BY DEF Frames, HeldAt, Elements
<1>2. ASSUME NEW f, "at" \in DOMAIN f
      PROVE  /\ Frames(<<f>>) /\ Nested(<<f>>)
             /\ HeldAt(<<f>>) = IF f.at \in Held THEN {1} ELSE {}
  <2>1. DOMAIN <<f>> = {1} /\ <<f>>[1] = f /\ <<f>> \in Seq({f})
    OBVIOUS
  <2>2. Elements(<<f>>) = {f}
    BY <2>1 DEF Elements
  <2> QED BY <1>2, <2>1, <2>2 DEF Frames, HeldAt, Nested
<1>3. ASSUME NEW f, NEW g, "at" \in DOMAIN f, "at" \in DOMAIN g
      PROVE  Frames(<<f, g>>)
  <2>1. DOMAIN <<f, g>> = {1, 2} /\ <<f, g>>[1] = f /\ <<f, g>>[2] = g
        /\ <<f, g>> \in Seq({f, g})
    OBVIOUS
  <2>2. Elements(<<f, g>>) = {f, g}
    BY <2>1 DEF Elements
  <2> QED BY <1>3, <2>1, <2>2 DEF Frames
<1> QED BY <1>1, <1>2, <1>3

\* The frame on top is replaced by others.
LEMMA Replaced ==
  ASSUME NEW s, NEW new, Frames(s), s # <<>>, Frames(new)
  PROVE  /\ Frames(new \o Tail(s))
         /\ Len(new) \in Nat /\ DOMAIN new = 1 .. Len(new)
         /\ Len(s) \in Nat \ {0} /\ DOMAIN s = 1 .. Len(s)
         /\ DOMAIN (new \o Tail(s)) = 1 .. Len(new) + Len(s) - 1
         /\ \A i \in 1 .. Len(new) : (new \o Tail(s))[i] = new[i]
         /\ \A i \in Len(new) + 1 .. Len(new) + Len(s) - 1 :
              (new \o Tail(s))[i] = s[i - Len(new) + 1]
<1>1. PICK S : S = Elements(s) \union Elements(new)
  OBVIOUS
<1>2. s \in Seq(S) /\ new \in Seq(S)
  BY <1>1 DEF Frames
<1>3. Tail(s) \in Seq(S) /\ Len(Tail(s)) = Len(s) - 1
      /\ \A i \in 1 .. Len(Tail(s)) : Tail(s)[i] = s[i + 1]
  BY <1>2, HeadTailProperties
<1>4. /\ Len(new) \in Nat /\ DOMAIN new = 1 .. Len(new)
      /\ Len(s) \in Nat \ {0} /\ DOMAIN s = 1 .. Len(s)
  BY <1>2
<1>5. PICK r : r = new \o Tail(s)
  OBVIOUS
<1>6. /\ r \in Seq(S) /\ Len(r) = Len(new) + Len(Tail(s))
      /\ \A i \in 1 .. Len(new) + Len(Tail(s)) :
           r[i] = IF i <= Len(new) THEN new[i] ELSE Tail(s)[i - Len(new)]
  BY <1>2, <1>3, <1>5, ConcatProperties
<1>7. DOMAIN r = 1 .. Len(new) + Len(s) - 1
  BY <1>3, <1>4, <1>6
<1>8. \A i \in 1 .. Len(new) : r[i] = new[i]
  BY <1>3, <1>4, <1>6
<1>9. ASSUME NEW i \in Len(new) + 1 .. Len(new) + Len(s) - 1
      PROVE  r[i] = s[i - Len(new) + 1]
  <2>1. r[i] = Tail(s)[i - Len(new)] /\ i - Len(new) \in 1 .. Len(Tail(s))
    BY <1>3, <1>4, <1>6, <1>9
  <2> QED BY <1>3, <2>1
<1>10. Frames(r)
  <2>1. r \in Seq(Elements(r))
    BY <1>6 DEF Elements
  <2>2. ASSUME NEW i \in DOMAIN r
        PROVE  "at" \in DOMAIN r[i]
    <3>1. CASE i \in 1 .. Len(new)
      BY <1>4, <1>8, <3>1 DEF Frames
    <3>2. CASE i \notin 1 .. Len(new)
      <4>1. i \in Len(new) + 1 .. Len(new) + Len(s) - 1 /\ i - Len(new) + 1 \in 1 .. Len(s)
        BY <1>4, <1>7, <3>2
      <4> QED BY <1>4, <1>9, <4>1 DEF Frames
    <3> QED BY <3>1, <3>2
  <2> QED BY <2>1, <2>2 DEF Frames
<1> QED BY <1>4, <1>5, <1>7, <1>8, <1>9, <1>10

\* A new frame has the lock only where nothing below it has.
LEMMA NestedKept ==
  ASSUME NEW s, NEW new, Nested(s), s # <<>>, Nested(new),
         HeldAt(new) = {} \/ HeldAt(s) \subseteq {1},
         NEW r, r = new \o Tail(s)
  PROVE  /\ Nested(r)
         /\ HeldAt(new) # {} \/ HeldAt(s) # {} \/ HeldAt(r) = {}
         /\ HeldAt(new) = {} /\ 1 \in HeldAt(s) => HeldAt(r) = {}
         /\ HeldAt(new) = {} /\ 1 \in HeldAt(r) => r[1].at = "term"
<1>1. Frames(s) /\ Frames(new)
  BY DEF Nested
<1>2. PICK n \in Nat, m \in Nat \ {0} : n = Len(new) /\ m = Len(s)
  BY <1>1, Replaced
<1>3. /\ Frames(r) /\ DOMAIN new = 1 .. n /\ DOMAIN s = 1 .. m /\ DOMAIN r = 1 .. n + m - 1
      /\ \A i \in 1 .. n : r[i] = new[i]
      /\ \A i \in n + 1 .. n + m - 1 : r[i] = s[i - n + 1]
  BY <1>1, <1>2, Replaced
<1>4. ASSUME NEW i \in HeldAt(r)
      PROVE  \/ i \in HeldAt(new)
             \/ i \in n + 1 .. n + m - 1 /\ i - n + 1 \in HeldAt(s)
  BY <1>3, <1>4 DEF HeldAt
<1>5. \A i \in n + 1 .. n + m - 1 : i - n + 1 # 1 /\ i \in 1 .. n + m - 1
  OBVIOUS
<1>6. HeldAt(r) \subseteq 1 .. n + m - 1
  BY <1>3 DEF HeldAt
<1>7. ASSUME HeldAt(new) = {}, NEW i \in HeldAt(r)
      PROVE  r[i].at = "term" /\ 1 \notin HeldAt(s) /\ \A j \in HeldAt(r) : j = i
  <2>1. i \in n + 1 .. n + m - 1 /\ i - n + 1 \in HeldAt(s) /\ i - n + 1 # 1
    BY <1>4, <1>5, <1>7
  <2>2. r[i].at = "term" /\ 1 \notin HeldAt(s)
    BY <1>3, <2>1 DEF Nested
  <2>3. ASSUME NEW j \in HeldAt(r)
        PROVE  j = i
    <3>1. j \in n + 1 .. n + m - 1 /\ j - n + 1 \in HeldAt(s)
      BY <1>4, <1>7, <2>3
    <3>2. j - n + 1 = i - n + 1
      BY <2>1, <3>1 DEF Nested
    <3> QED BY <2>1, <3>1, <3>2
  <2> QED BY <2>2, <2>3
<1>8. ASSUME HeldAt(s) \subseteq {1}, NEW i \in HeldAt(r)
      PROVE  i \in HeldAt(new) /\ r[i] = new[i]
  BY <1>3, <1>4, <1>5, <1>8 DEF HeldAt
<1>9. Nested(r)
  <2>1. CASE HeldAt(new) = {}
    BY <1>3, <1>7, <2>1 DEF Nested
  <2>2. CASE HeldAt(s) \subseteq {1}
    BY <1>3, <1>8, <2>2 DEF Nested
  <2> QED BY <2>1, <2>2
<1>10. HeldAt(new) # {} \/ HeldAt(s) # {} \/ HeldAt(r) = {}
  BY <1>8
<1> QED BY <1>7, <1>9, <1>10
-----------------------------------------------------------------------------
(* The steps of a call by what they do to modificationLock.                 *)

\* Frames that come on top and do not have the lock.
Good(f)        == "at" \in DOMAIN f /\ f.at \notin Held
Outside(new)   == Nested(new) /\ HeldAt(new) = {}
Pushes(t, new) == Outside(new) /\ Become(t, new)

LEMMA Tops ==
  ASSUME LockInv, Domains, NEW t \in Thread, stack[t] # <<>>
  PROVE  /\ Head(stack[t]) = stack[t][1] /\ "at" \in DOMAIN Head(stack[t])
         /\ 1 \in DOMAIN stack[t]
         /\ 1 \in HeldAt(stack[t]) <=> Head(stack[t]).at \in Held
<1>1. Frames(stack[t])
  BY DEF LockInv, Nested
<1>2. PICK s, S : s = stack[t] /\ S = Elements(s)
  OBVIOUS
<1>3. s \in Seq(S) /\ s # <<>>
  BY <1>1, <1>2 DEF Frames
<1>4. 1 \in DOMAIN s /\ Head(s) = s[1]
  BY <1>3
<1> QED BY <1>1, <1>2, <1>4 DEF Frames, HeldAt

\* The stacks after a thread has replaced its top frame.
LEMMA Stacks ==
  ASSUME LockInv, Domains, NEW t \in Thread, stack[t] # <<>>,
         NEW new, Nested(new), Become(t, new),
         HeldAt(new) = {} \/ HeldAt(stack[t]) \subseteq {1}
  PROVE  /\ \A q \in Thread : q # t => stack'[q] = stack[q]
         /\ Nested(stack'[t])
         /\ HeldAt(new) # {} \/ HeldAt(stack[t]) # {} \/ HeldAt(stack'[t]) = {}
         /\ HeldAt(new) = {} /\ 1 \in HeldAt(stack[t]) => HeldAt(stack'[t]) = {}
         /\ HeldAt(new) = {} => ~At(t, "joining")' /\ ~At(t, "cleanup")'
<1>1. stack'[t] = new \o Tail(stack[t]) /\ \A q \in Thread : q # t => stack'[q] = stack[q]
  BY DEF Become, Domains
<1>2. Nested(stack[t])
  BY DEF LockInv
<1>3. PICK s, r : s = stack[t] /\ r = new \o Tail(s)
  OBVIOUS
<1>4. /\ Nested(r)
      /\ HeldAt(new) # {} \/ HeldAt(s) # {} \/ HeldAt(r) = {}
      /\ HeldAt(new) = {} /\ 1 \in HeldAt(s) => HeldAt(r) = {}
      /\ HeldAt(new) = {} /\ 1 \in HeldAt(r) => r[1].at = "term"
  <2>1. Nested(s) /\ s # <<>> /\ (HeldAt(new) = {} \/ HeldAt(s) \subseteq {1})
    BY <1>2, <1>3
  <2> QED BY <1>3, <2>1, NestedKept
<1>5. ASSUME HeldAt(new) = {}, r # <<>>
      PROVE  Head(r).at \notin {"joining", "cleanup"}
  <2>1. 1 \in DOMAIN r /\ Head(r) = r[1]
    BY <1>4, <1>5 DEF Nested, Frames
  <2> QED BY <1>4, <1>5, <2>1 DEF HeldAt, Held
<1>6. stack'[t] = r
  BY <1>1, <1>3
<1> QED BY <1>1, <1>3, <1>4, <1>5, <1>6 DEF At

\* A thread that has the lock is the only one.
LEMMA LoneHolder ==
  ASSUME LockInv, NEW t \in Thread, HeldAt(stack[t]) # {}
  PROVE  \A q \in Thread : q # t => HeldAt(stack[q]) = {}
BY DEF LockInv

\* What has nothing on its stack that has the lock is not where stop() waits.
LEMMA NotJoining ==
  ASSUME LockInv, Domains, NEW t \in Thread, HeldAt(stack[t]) = {}
  PROVE  ~At(t, "joining") /\ ~At(t, "cleanup")
<1>1. ASSUME stack[t] # <<>>
      PROVE  Head(stack[t]).at \notin Held
  BY <1>1, Tops
<1> QED BY <1>1 DEF At, Held

\* Without the lock.
LEMMA InnerKeeps ==
  ASSUME LockInv, JoinInv, Domains, NEW t \in Thread, stack[t] # <<>>,
         NEW new, Pushes(t, new), UNCHANGED <<modificationLock, monitor, alive, joining>>
  PROVE  LockInv' /\ JoinInv'
<1>1. /\ \A q \in Thread : q # t => stack'[q] = stack[q]
      /\ Nested(stack'[t])
      /\ HeldAt(stack[t]) # {} \/ HeldAt(stack'[t]) = {}
      /\ ~At(t, "joining")' /\ ~At(t, "cleanup")'
  BY Stacks DEF Pushes, Outside
<1>2. LockInv'
  <2>1. ASSUME NEW q \in Thread
        PROVE  Nested(stack'[q]) /\ (HeldAt(stack'[q]) # {} => modificationLock' = {q})
    BY <1>1 DEF LockInv
  <2> QED BY <2>1 DEF LockInv
<1>3. \A q \in Thread : q # t => JoinAt(q)'
  BY <1>1 DEF JoinInv, JoinAt, At
<1>4. JoinAt(t)'
  BY <1>1 DEF JoinAt
<1> QED BY <1>2, <1>3, <1>4 DEF JoinInv

\* With it: from one step of start() or stop() to the next.
LEMMA HolderKeeps ==
  ASSUME LockInv, JoinInv, Domains, NEW t \in Thread, stack[t] # <<>>,
         Head(stack[t]).at \in Held,
         NEW new, Nested(new), Become(t, new), UNCHANGED <<modificationLock, monitor, alive>>,
         joining' = joining \/ \E j : joining' = [joining EXCEPT ![t] = j], JoinAt(t)'
  PROVE  LockInv' /\ JoinInv'
<1>1. 1 \in HeldAt(stack[t]) /\ modificationLock = {t} /\ HeldAt(stack[t]) \subseteq {1}
  BY Tops DEF LockInv, Nested
<1>2. (\A q \in Thread : q # t => stack'[q] = stack[q]) /\ Nested(stack'[t])
  BY <1>1, Stacks
<1>3. \A q \in Thread : q # t => HeldAt(stack[q]) = {}
  BY <1>1, LoneHolder
<1>4. ASSUME NEW q \in Thread
      PROVE  Nested(stack'[q]) /\ (HeldAt(stack'[q]) # {} => modificationLock' = {q})
  BY <1>1, <1>2, <1>3 DEF LockInv
<1>5. \A q \in Thread : q # t => JoinAt(q)'
  BY <1>2, <1>3, NotJoining DEF JoinAt, At
<1>6. DOMAIN joining' = Thread
  BY DEF JoinInv
<1> QED BY <1>4, <1>5, <1>6 DEF LockInv, JoinInv

\* It is taken when nobody has it,
LEMMA AcquireKeeps ==
  ASSUME LockInv, JoinInv, Domains, NEW t \in Thread, stack[t] # <<>>,
         modificationLock = {}, modificationLock' = {t},
         NEW new, Nested(new), Become(t, new), joining' = joining, JoinAt(t)'
  PROVE  LockInv' /\ JoinInv'
<1>1. \A q \in Thread : HeldAt(stack[q]) = {}
  BY DEF LockInv
<1>2. (\A q \in Thread : q # t => stack'[q] = stack[q]) /\ Nested(stack'[t])
  BY <1>1, Stacks
<1>3. ASSUME NEW q \in Thread
      PROVE  Nested(stack'[q]) /\ (HeldAt(stack'[q]) # {} => modificationLock' = {q})
  BY <1>1, <1>2 DEF LockInv
<1>4. \A q \in Thread : q # t => JoinAt(q)'
  BY <1>1, <1>2, NotJoining DEF JoinAt, At
<1> QED BY <1>3, <1>4 DEF LockInv, JoinInv

\* and given back by who has it.
LEMMA ReleaseKeeps ==
  ASSUME LockInv, JoinInv, Domains, NEW t \in Thread, stack[t] # <<>>,
         Head(stack[t]).at \in Held, modificationLock' = {}, NEW new, Pushes(t, new),
         UNCHANGED <<monitor, alive, joining>>
  PROVE  LockInv' /\ JoinInv'
<1>1. 1 \in HeldAt(stack[t])
  BY Tops
<1>2. /\ \A q \in Thread : q # t => stack'[q] = stack[q]
      /\ Nested(stack'[t]) /\ HeldAt(stack'[t]) = {}
      /\ ~At(t, "joining")' /\ ~At(t, "cleanup")'
  BY <1>1, Stacks DEF Pushes, Outside
<1>3. \A q \in Thread : q # t => HeldAt(stack[q]) = {}
  BY <1>1, LoneHolder
<1>4. ASSUME NEW q \in Thread
      PROVE  Nested(stack'[q]) /\ HeldAt(stack'[q]) = {}
  BY <1>2, <1>3 DEF LockInv
<1>5. \A q \in Thread : JoinAt(q)'
  BY <1>2, <1>3, NotJoining DEF JoinAt, At
<1> QED BY <1>4, <1>5 DEF LockInv, JoinInv

\* An exception gives it back, whatever was nested.
LEMMA RaiseKeeps ==
  ASSUME LockInv, JoinInv, Domains, NEW t \in Thread, Unwind(t),
         UNCHANGED <<monitor, alive, joining>>
  PROVE  LockInv' /\ JoinInv'
<1>1. /\ stack'[t] = <<>> /\ \A q \in Thread : q # t => stack'[q] = stack[q]
      /\ modificationLock' = modificationLock \ {t}
  BY DEF Unwind, Domains
<1>2. Nested(<<>>) /\ HeldAt(<<>>) = {}
  BY ShortFrames DEF Nested
<1>3. ASSUME NEW q \in Thread
      PROVE  Nested(stack'[q]) /\ (HeldAt(stack'[q]) # {} => modificationLock' = {q})
  BY <1>1, <1>2 DEF LockInv
<1>4. \A q \in Thread : JoinAt(q)'
  BY <1>1 DEF JoinInv, JoinAt, At
<1> QED BY <1>3, <1>4 DEF LockInv, JoinInv

LEMMA OutsideFrames ==
  /\ Outside(<<>>)
  /\ \A f : Good(f) => Outside(<<f>>)
  /\ \A f, g : Good(f) /\ Good(g) => Outside(<<f, g>>)
  /\ \A f, g : <<>> \o <<g>> = <<g>> /\ <<f>> \o <<g>> = <<f, g>>
  /\ \A at, arg, todo : "at" \in DOMAIN Frame(at, arg, todo) /\ Frame(at, arg, todo).at = at
  /\ \A f, l : "at" \in DOMAIN f => /\ "at" \in DOMAIN [f EXCEPT !.at = l]
                                    /\ [f EXCEPT !.at = l].at = l
  /\ \A f, x : "at" \in DOMAIN f => /\ "at" \in DOMAIN [f EXCEPT !.todo = x]
                                    /\ [f EXCEPT !.todo = x].at = f.at
<1>1. Outside(<<>>) /\ \A f : Good(f) => Outside(<<f>>)
  BY ShortFrames DEF Outside, Nested, Good
<1>2. ASSUME NEW f, NEW g, Good(f), Good(g)
      PROVE  Outside(<<f, g>>)
  <2>1. Frames(<<f, g>>)
    BY <1>2, ShortFrames DEF Good
  <2>2. HeldAt(<<f, g>>) = {}
    BY <1>2 DEF HeldAt, Good
  <2> QED BY <2>1, <2>2 DEF Outside, Nested
<1>3. ASSUME NEW f, NEW g
      PROVE  <<>> \o <<g>> = <<g>> /\ <<f>> \o <<g>> = <<f, g>>
  <2>1. PICK e, s, p : e = <<>> /\ s = <<f>> /\ p = <<g>>
    OBVIOUS
  <2>2. e \in Seq({f, g}) /\ s \in Seq({f, g}) /\ p \in Seq({f, g})
        /\ Len(e) = 0 /\ Len(s) = 1 /\ Len(p) = 1 /\ s[1] = f /\ p[1] = g
    BY <2>1
  <2>3. e \o p = p
    BY <2>1, <2>2, ConcatEmptySeq
  <2>4. /\ s \o p \in Seq({f, g}) /\ Len(s \o p) = 2
        /\ (s \o p)[1] = f /\ (s \o p)[2] = g
    BY <2>2, ConcatProperties
  <2>5. s \o p = <<f, g>>
    <3>1. PICK r, w : r = s \o p /\ w = <<f, g>>
      OBVIOUS
    <3>2. r \in Seq({f, g}) /\ Len(r) = 2 /\ r[1] = f /\ r[2] = g
      BY <2>4, <3>1
    <3>3. w \in Seq({f, g}) /\ Len(w) = 2 /\ w[1] = f /\ w[2] = g
      BY <3>1
    <3>4. \A i \in 1 .. Len(r) : r[i] = w[i]
      BY <3>2, <3>3
    <3>5. r = w
      BY <3>2, <3>3, <3>4, SeqEqual
    <3> QED BY <3>1, <3>5
  <2> QED BY <2>1, <2>3, <2>5
<1>4. \A at, arg, todo : "at" \in DOMAIN Frame(at, arg, todo) /\ Frame(at, arg, todo).at = at
  BY DEF Frame
<1>5. \A f, l : "at" \in DOMAIN f => /\ "at" \in DOMAIN [f EXCEPT !.at = l]
                                     /\ [f EXCEPT !.at = l].at = l
  OBVIOUS
<1>6. \A f, x : "at" \in DOMAIN f => /\ "at" \in DOMAIN [f EXCEPT !.todo = x]
                                     /\ [f EXCEPT !.todo = x].at = f.at
  OBVIOUS
<1> QED BY <1>1, <1>2, <1>3, <1>4, <1>5, <1>6

\* The first of the frames that replace it is where the thread is.
LEMMA OnTop ==
  ASSUME LockInv, Domains, NEW t \in Thread, stack[t] # <<>>,
         NEW new, Frames(new), new # <<>>, Become(t, new)
  PROVE  \A at : At(t, at)' => at = new[1].at
<1>1. PICK s, r : s = stack[t] /\ r = new \o Tail(s)
  OBVIOUS
<1>2. stack'[t] = r
  BY <1>1 DEF Become, Domains
<1>3. Frames(s) /\ s # <<>>
  BY <1>1 DEF LockInv, Nested
<1>4. Len(new) \in Nat \ {0}
  BY EmptySeq DEF Frames
<1>5. Frames(r) /\ r[1] = new[1]
  BY <1>1, <1>3, <1>4, Replaced
<1>6. r # <<>> => Head(r) = r[1]
  BY <1>5 DEF Frames
<1> QED BY <1>2, <1>5, <1>6 DEF At

\* What the frame of a call becomes when it goes on.
LEMMA GoesOn ==
  ASSUME LockInv, Domains, NEW t \in Thread, NEW l, stack[t] # <<>>, Proceed(t, l),
         l \in Held => Head(stack[t]).at \in Held \/ modificationLock = {}
  PROVE  /\ \E new : Nested(new) /\ Become(t, new) /\ (l \notin Held => Pushes(t, new))
         /\ \A at : At(t, at)' => at = l
<1>1. PICK s, new : s = stack[t] /\ new = <<[Head(s) EXCEPT !.at = l]>>
  OBVIOUS
<1>2. "at" \in DOMAIN Head(s)
  BY <1>1, Tops
<1>3. new[1].at = l /\ "at" \in DOMAIN new[1] /\ new = <<new[1]>>
  BY <1>1, <1>2, OutsideFrames
<1>4. Nested(new) /\ (l \notin Held => Outside(new))
  BY <1>3, OutsideFrames, ShortFrames DEF Good
<1>5. Become(t, new)
  BY <1>1 DEF Proceed
<1>6. new # <<>> /\ Frames(new)
  BY <1>1, <1>4 DEF Nested
<1>7. \A at : At(t, at)' => at = l
  BY <1>3, <1>5, <1>6, OnTop
<1> QED BY <1>4, <1>5, <1>7 DEF Pushes

\* A client is told by a call of its own, or not at all.
LEMMA ToldOrNot ==
  ASSUME NEW c, NEW st
  PROVE  OnStateChange(c, st) = <<>> \/ \E f : Good(f) /\ OnStateChange(c, st) = <<f>>
<1>1. \A at \in {"available", "remove", "specstart"} : Good(Frame(at, c, <<>>))
  BY OutsideFrames DEF Good, Held
<1> QED BY <1>1 DEF OnStateChange

LEMMA Told ==
  ASSUME NEW c, NEW st, NEW g, Good(g)
  PROVE  Outside(OnStateChange(c, st) \o <<g>>)
<1>1. PICK o : o = OnStateChange(c, st)
  OBVIOUS
<1>2. Outside(<<>> \o <<g>>) /\ \A f : Good(f) => Outside(<<f>> \o <<g>>)
  <2>1. <<>> \o <<g>> = <<g>> /\ \A f : <<f>> \o <<g>> = <<f, g>>
    BY OutsideFrames
  <2> QED BY <2>1, OutsideFrames
<1>3. o = <<>> \/ \E f : Good(f) /\ o = <<f>>
  BY <1>1, ToldOrNot
<1> QED BY <1>1, <1>2, <1>3

\* Return, and a call of its own, where no label has the lock.
LEMMA Callings ==
  ASSUME LockInv, Domains, NEW t \in Thread, stack[t] # <<>>
  PROVE  /\ Return(t) => Pushes(t, <<>>)
         /\ \A l : Proceed(t, l) /\ l \notin Held => \E new : Pushes(t, new)
         /\ \A at, arg, next :
              Call(t, at, arg, next) /\ at \notin Held /\ next \notin Held =>
                \E new : Pushes(t, new)
         /\ \A f : Become(t, <<f>>) /\ Good(f) => Pushes(t, <<f>>)
<1>1. "at" \in DOMAIN Head(stack[t])
  BY Tops
<1>2. \A l : l \notin Held => Good([Head(stack[t]) EXCEPT !.at = l])
  BY <1>1, OutsideFrames DEF Good
<1>3. \A at, arg : at \notin Held => Good(Frame(at, arg, <<>>))
  BY OutsideFrames DEF Good
<1>4. Return(t) => Pushes(t, <<>>)
  BY OutsideFrames DEF Return, Pushes
<1>5. \A f : Become(t, <<f>>) /\ Good(f) => Pushes(t, <<f>>)
  BY OutsideFrames DEF Pushes
<1>6. \A l : Proceed(t, l) /\ l \notin Held => \E new : Pushes(t, new)
  BY <1>2, <1>5 DEF Proceed
<1>7. ASSUME NEW at, NEW arg, NEW next, Call(t, at, arg, next), at \notin Held, next \notin Held
      PROVE  \E new : Pushes(t, new)
  <2>1. Outside(<<Frame(at, arg, <<>>), [Head(stack[t]) EXCEPT !.at = next]>>)
    BY <1>2, <1>3, <1>7, OutsideFrames
  <2> QED BY <1>7, <2>1 DEF Call, Pushes
<1> QED BY <1>4, <1>5, <1>6, <1>7

\* A call inside what start() and stop() do, or outside of it.
Inner(t) ==
  /\ stack[t] # <<>>
  /\ \E new : Pushes(t, new)
  /\ UNCHANGED <<modificationLock, monitor, alive, joining>>

\* The calls that have nothing to do with the lock, in the order of SdrSource.
InnerCall(t) ==
  \/ addClient(t) \/ Added(t) \/ SetBusy(t) \/ (startProcess(t) /\ monitor # NoRun) \/ CheckFailed(t)
  \/ Announce(t) \/ Notify(t) \/ (onFail(t) /\ ~Unwind(t)) \/ CallDisable(t) \/ setSdr(t)
  \/ removeClient(t) \/ (Removing(t) /\ ~Unwind(t)) \/ checkStatus(t)
  \/ getDsp(t) \/ stopDsp(t) \/ (handleSdrAvailable(t) /\ ~Unwind(t))
  \/ addSpectrumClient(t) \/ removeSpectrumClient(t)

LEMMA InnerCalls ==
  ASSUME LockInv, Domains, NEW t \in Thread, InnerCall(t)
  PROVE  Inner(t)
<1> USE DEF At, Held, procVars, lockVars
<1>a. \A at, arg, todo : at \notin Held => Good(Frame(at, arg, todo))
  BY OutsideFrames DEF Good
<1>b. \A x : stack[t] # <<>> /\ Head(stack[t]).at \notin Held =>
        Good([Head(stack[t]) EXCEPT !.todo = x])
  BY Tops, OutsideFrames DEF Good
<1>c. \A new : Become(t, new) /\ Outside(new) => Pushes(t, new)
  BY DEF Pushes
<1>d. stack[t] # <<>> /\ Return(t) => \E new : Pushes(t, new)
  BY Callings
<1>1. CASE addClient(t)
  <2>1. Outside(OnStateChange(Arg(t), state) \o <<Frame("added", Arg(t), <<>>)>>)
    BY <1>a, Told
  <2> QED BY <1>1, <1>c, <1>d, <2>1 DEF addClient, Inner
<1>2. CASE Added(t)
  BY <1>2, Callings DEF Added, Inner
<1>3. CASE SetBusy(t)
  BY <1>3, Callings DEF SetBusy, Inner
<1>4. CASE startProcess(t) /\ monitor # NoRun
  BY <1>4, Callings DEF startProcess, Inner
<1>5. CASE CheckFailed(t)
  BY <1>5, <1>a, Callings DEF CheckFailed, Inner
<1>6. CASE Announce(t)
  <2>1. Outside(<<>> \o <<>>) /\ \A f : Good(f) => Outside(<<f>> \o <<>>)
    <3>1. <<>> \o <<>> = <<>> /\ \A f : <<f>> \o <<>> = <<f>>
      OBVIOUS
    <3> QED BY <3>1, OutsideFrames
  <2> QED BY <1>6, <1>a, <1>c, <2>1 DEF Announce, SetState, Inner
<1>7. CASE Notify(t)
  BY <1>7, <1>b, <1>c, <1>d, Told DEF Notify, Inner
<1>8. CASE onFail(t) /\ ~Unwind(t)
  <2>1. PICK c, rest : c = Head(Todo(t)) /\ rest = [Head(stack[t]) EXCEPT !.todo = Tail(@)]
    OBVIOUS
  <2>2. stack[t] # <<>> /\ Good(rest)
    BY <1>8, <1>b, <2>1 DEF onFail
  <2>3. Outside(<<>> \o <<rest>>) /\ \A f : Good(f) => Outside(<<f>> \o <<rest>>)
    <3>1. <<>> \o <<rest>> = <<rest>> /\ \A f : <<f>> \o <<rest>> = <<f, rest>>
      BY OutsideFrames
    <3>2. Outside(<<rest>>) /\ \A f : Good(f) => Outside(<<f, rest>>)
      BY <2>2, OutsideFrames
    <3>3. ASSUME NEW f, Good(f)
          PROVE  Outside(<<f>> \o <<rest>>)
      BY <3>1, <3>2, <3>3, Zenon
    <3>4. Outside(<<>> \o <<rest>>)
      BY <3>1, <3>2, Zenon
    <3> QED BY <3>3, <3>4
  <2> QED BY <1>8, <1>a, <1>c, <1>d, <2>1, <2>2, <2>3 DEF onFail, Inner
<1>9. CASE CallDisable(t)
  BY <1>9, <1>a, Callings DEF CallDisable, Become, Inner
<1>10. CASE setSdr(t)
  BY <1>10, Callings DEF setSdr, Inner
<1>11. CASE removeClient(t)
  BY <1>11, Callings DEF removeClient, Inner
<1>12. CASE Removing(t) /\ ~Unwind(t)
  BY <1>12, Callings DEF Removing, Inner
<1>13. CASE checkStatus(t)
  BY <1>13, Callings DEF checkStatus, Inner
<1>14. CASE getDsp(t)
  BY <1>14, Callings DEF getDsp, Inner
<1>15. CASE stopDsp(t)
  BY <1>15, Callings DEF stopDsp, Inner
<1>16. CASE handleSdrAvailable(t) /\ ~Unwind(t)
  BY <1>16, Callings DEF handleSdrAvailable, Inner
<1>17. CASE addSpectrumClient(t)
  BY <1>17, Callings DEF addSpectrumClient, Inner
<1>18. CASE removeSpectrumClient(t)
  BY <1>18, Callings DEF removeSpectrumClient, Inner
<1> QED
  BY <1>1, <1>2, <1>3, <1>4, <1>5, <1>6, <1>7, <1>8, <1>9, <1>10, <1>11, <1>12, <1>13, <1>14, <1>15, <1>16, <1>17, <1>18 DEF InnerCall

\* One step of start() or stop() to the next.
LEMMA HolderGoesOn ==
  ASSUME LockInv, JoinInv, Domains, NEW t \in Thread, NEW l, Proceed(t, l),
         stack[t] # <<>>, Head(stack[t]).at \in Held,
         UNCHANGED <<modificationLock, monitor, alive>>,
         joining' = joining \/ \E j : joining' = [joining EXCEPT ![t] = j],
         l = "joining" => monitor \in {joining'[t], NoRun},
         l = "cleanup" => alive = {}
  PROVE  LockInv' /\ JoinInv'
<1>1. PICK new : Nested(new) /\ Become(t, new)
  BY GoesOn
<1>2. \A at : At(t, at)' => at = l
  BY GoesOn
<1>3. JoinAt(t)'
  BY <1>2 DEF JoinAt
<1> QED BY <1>1, <1>3, HolderKeeps

\* stop() by its steps; monitor is cleared by others, and a process whose
\* monitor thread has ended has ended itself.
LEMMA HolderCalls ==
  ASSUME LockInv, JoinInv, ProcessInv, NEW t \in Thread,
         \/ SetStopping(t) \/ Terminate(t) \/ Join10(t) \/ Joined10(t) \/ Kill(t)
         \/ JoinCheck(t) \/ (Join(t) /\ monitor # NoRun) \/ Joined(t)
  PROVE  LockInv' /\ JoinInv'
<1> USE DEF At, Held, procVars, lockVars
<1>a. Domains /\ alive \subseteq {monitor} /\ alive \subseteq Run
  BY DEF ProcessInv, Domains, Referred, Awaited
<1>1. CASE SetStopping(t)
  <2>1. PICK told, term : /\ told = Frame("Stopping", Arg(t), clients)
                          /\ term = Frame("term", Arg(t), <<>>)
    OBVIOUS
  <2>2. /\ "at" \in DOMAIN told /\ "at" \in DOMAIN term
        /\ told.at = "Stopping" /\ term.at = "term"
    BY <2>1, OutsideFrames
  <2>3. Nested(<<>> \o <<term>>)
    <3>1. <<>> \o <<term>> = <<term>>
      BY OutsideFrames
    <3> QED BY <2>2, <3>1, ShortFrames
  <2>4. Nested(<<told>> \o <<term>>)
    <3>1. <<told>> \o <<term>> = <<told, term>>
      BY OutsideFrames
    <3>2. PICK s : s = <<told, term>>
      OBVIOUS
    <3>3. Frames(s)
      BY <2>2, <3>2, ShortFrames
    <3>4. DOMAIN s = {1, 2} /\ s[1] = told /\ s[2] = term
      BY <3>2
    <3>5. HeldAt(s) = {2}
      BY <2>2, <3>4 DEF HeldAt
    <3>6. Nested(s)
      BY <2>2, <3>3, <3>4, <3>5 DEF Nested
    <3> QED BY <3>1, <3>2, <3>6, Zenon
  <2>5. PICK new : Nested(new) /\ Become(t, new)
                   /\ new \in {<<>> \o <<term>>, <<told>> \o <<term>>}
    BY <1>1, <2>1, <2>3, <2>4 DEF SetStopping, SetState
  <2>6. JoinAt(t)'
    <3>1. Frames(new) /\ new # <<>> /\ new[1] \in {told, term}
      <4>1. <<>> \o <<term>> = <<term>> /\ <<told>> \o <<term>> = <<told, term>>
        BY OutsideFrames
      <4> QED BY <2>5, <4>1 DEF Nested
    <3>2. stack[t] # <<>>
      BY <1>1 DEF SetStopping
    <3>3. \A at : At(t, at)' => at \in {"Stopping", "term"}
      BY <1>a, <2>2, <2>5, <3>1, <3>2, OnTop
    <3> QED BY <3>3 DEF JoinAt
  <2>7. /\ stack[t] # <<>> /\ Head(stack[t]).at \in Held
        /\ UNCHANGED <<modificationLock, monitor, alive, joining>>
    BY <1>1 DEF SetStopping
  <2> QED BY <1>a, <2>5, <2>6, <2>7, HolderKeeps
<1>2. CASE Terminate(t)
  <2>1. /\ stack[t] # <<>> /\ Head(stack[t]).at \in Held
        /\ UNCHANGED <<modificationLock, monitor, alive, joining>>
        /\ \E l \in {"join10", "joincheck"} : Proceed(t, l)
    BY <1>2 DEF Terminate
  <2> QED BY <1>a, <2>1, HolderGoesOn
<1>3. CASE Join10(t)
  <2>1. /\ stack[t] # <<>> /\ Head(stack[t]).at \in Held
        /\ UNCHANGED <<modificationLock, monitor, alive>>
        /\ joining' = [joining EXCEPT ![t] = monitor]
        /\ \E l \in {"joining10", "joincheck"} : Proceed(t, l)
    BY <1>3 DEF Join10
  <2> QED BY <1>a, <2>1, HolderGoesOn
<1>4. CASE Joined10(t)
  <2>1. /\ stack[t] # <<>> /\ Head(stack[t]).at \in Held
        /\ UNCHANGED <<modificationLock, monitor, alive>>
        /\ joining' = [joining EXCEPT ![t] = NoRun] /\ Proceed(t, "kill")
    BY <1>4 DEF Joined10
  <2> QED BY <1>a, <2>1, HolderGoesOn
<1>5. CASE Kill(t)
  <2>1. /\ stack[t] # <<>> /\ Head(stack[t]).at \in Held
        /\ UNCHANGED <<modificationLock, monitor, alive, joining>> /\ Proceed(t, "joincheck")
    BY <1>5 DEF Kill
  <2> QED BY <1>a, <2>1, HolderGoesOn
<1>6. CASE JoinCheck(t)
  <2>1. /\ stack[t] # <<>> /\ Head(stack[t]).at \in Held
        /\ UNCHANGED <<modificationLock, monitor, alive, joining>>
        /\ \E l \in {"join", "cleanup"} : Proceed(t, l) /\ (l = "cleanup" => monitor = NoRun)
    BY <1>6 DEF JoinCheck
  <2>2. monitor = NoRun => alive = {}
    BY <1>a, SourceBounds
  <2> QED BY <1>a, <2>1, <2>2, HolderGoesOn
<1>7. CASE Join(t) /\ monitor # NoRun
  <2>1. /\ stack[t] # <<>> /\ Head(stack[t]).at \in Held
        /\ UNCHANGED <<modificationLock, monitor, alive>>
        /\ joining' = [joining EXCEPT ![t] = monitor] /\ Proceed(t, "joining")
    BY <1>7 DEF Join
  <2>2. joining'[t] = monitor
    BY <2>1 DEF JoinInv
  <2> QED BY <1>a, <2>1, <2>2, HolderGoesOn
<1>8. CASE Joined(t)
  <2>1. /\ stack[t] # <<>> /\ Head(stack[t]).at \in Held
        /\ UNCHANGED <<modificationLock, monitor, alive>>
        /\ joining' = [joining EXCEPT ![t] = NoRun] /\ Proceed(t, "cleanup")
        /\ pc[Mon(joining[t])] \in {"ended", "dead"}
    BY <1>8 DEF Joined, Mon
  <2>2. monitor \in {joining[t], NoRun}
    BY <1>8 DEF Joined, JoinInv, JoinAt
  <2>3. alive = {}
    BY <1>a, <2>1, <2>2, SourceBounds DEF ProcessInv, Awaited
  <2> QED BY <1>a, <2>1, <2>3, HolderGoesOn
<1> QED BY <1>1, <1>2, <1>3, <1>4, <1>5, <1>6, <1>7, <1>8

LEMMA CallsKeep ==
  ASSUME LockInv, JoinInv, ProcessInv, NEW t \in Thread, CallNext(t)
  PROVE  LockInv' /\ JoinInv'
<1> USE DEF procVars, lockVars
<1>a. Domains
  BY DEF ProcessInv
<1>1. CASE InnerCall(t)
  BY <1>a, <1>1, InnerCalls, InnerKeeps DEF Inner
<1>2. CASE startProcess(t) /\ monitor = NoRun
  <2>1. PICK f : f.at = "connect" /\ "at" \in DOMAIN f /\ Become(t, <<f>>)
    <3>1. PICK r \in Run : Become(t, <<Frame("connect", <<"run", r>>, <<>>)>>)
      BY <1>2 DEF startProcess
    <3> QED BY <3>1, OutsideFrames
  <2>2. stack[t] # <<>> /\ modificationLock = {} /\ modificationLock' = {t} /\ joining' = joining
    BY <1>2 DEF startProcess, At
  <2>3. Frames(<<f>>) /\ Nested(<<f>>) /\ <<f>> # <<>> /\ <<f>>[1] = f
    BY <2>1, ShortFrames
  <2>4. \A at : At(t, at)' => at = "connect"
    BY <1>a, <2>1, <2>2, <2>3, OnTop
  <2>5. JoinAt(t)'
    BY <2>4 DEF JoinAt
  <2> QED BY <1>a, <2>1, <2>2, <2>3, <2>5, AcquireKeeps
<1>3. CASE stop(t)
  <2>1. /\ stack[t] # <<>> /\ modificationLock = {} /\ modificationLock' = {t} /\ joining' = joining
        /\ \E l \in {"stopping", "joincheck"} : Proceed(t, l)
    BY <1>3 DEF stop, At
  <2>2. PICK l \in {"stopping", "joincheck"} : Proceed(t, l)
    BY <2>1
  <2>3. PICK new : Nested(new) /\ Become(t, new)
    BY <1>a, <2>1, <2>2, GoesOn
  <2>4. \A at : At(t, at)' => at = l
    BY <1>a, <2>1, <2>2, GoesOn
  <2>5. JoinAt(t)'
    BY <2>4 DEF JoinAt
  <2> QED BY <1>a, <2>1, <2>3, <2>5, AcquireKeeps
<1>4. CASE Connect(t) \/ Cleanup(t)
  <2>1. /\ stack[t] # <<>> /\ Head(stack[t]).at \in Held /\ modificationLock' = {}
        /\ UNCHANGED <<monitor, alive, joining>>
        /\ Proceed(t, "check") \/ Return(t)
    BY <1>4 DEF Connect, Cleanup, At, Held
  <2>2. \E new : Pushes(t, new)
    BY <1>a, <2>1, Callings DEF Held
  <2> QED BY <1>a, <2>1, <2>2, ReleaseKeeps
<1>5. CASE Unwind(t) /\ (onFail(t) \/ Removing(t) \/ handleSdrAvailable(t))
  <2>1. UNCHANGED <<monitor, alive, joining>>
    BY <1>5 DEF onFail, Removing, handleSdrAvailable
  <2> QED BY <1>5, <1>a, <2>1, RaiseKeeps
<1>6. CASE Join(t) /\ monitor = NoRun
  <2>1. Unwind(t) /\ UNCHANGED <<monitor, alive, joining>>
    BY <1>6 DEF Join
  <2> QED BY <1>a, <2>1, RaiseKeeps
<1> QED BY <1>1, <1>2, <1>3, <1>4, <1>5, <1>6, HolderCalls DEF CallNext, InnerCall

\* A thread without calls makes one, outside of the lock.
LEMMA BeginKeeps ==
  ASSUME LockInv, JoinInv, Domains, NEW t \in Thread, NEW new, Outside(new), Begin(t, new),
         UNCHANGED <<modificationLock, monitor, alive, joining>>
  PROVE  LockInv' /\ JoinInv'
<1>1. stack'[t] = new /\ \A q \in Thread : q # t => stack'[q] = stack[q]
  BY DEF Begin, Domains
<1>2. new # <<>> => Head(new).at \notin {"joining", "cleanup"}
  <2>1. new # <<>> => 1 \in DOMAIN new /\ Head(new) = new[1]
    BY DEF Outside, Nested, Frames
  <2> QED BY <2>1 DEF Outside, HeldAt, Held
<1>3. LockInv'
  BY <1>1 DEF LockInv, Outside
<1>4. \A q \in Thread : JoinAt(q)'
  BY <1>1, <1>2 DEF JoinInv, JoinAt, At
<1> QED BY <1>3, <1>4 DEF JoinInv

\* No stack changes: monitor may be cleared, a process may end.
LEMMA StillKeeps ==
  ASSUME LockInv, JoinInv, UNCHANGED <<modificationLock, stack, joining>>,
         monitor' \in {monitor, NoRun}, alive' \subseteq alive
  PROVE  LockInv' /\ JoinInv'
<1>1. LockInv'
  BY DEF LockInv
<1>2. \A q \in Thread : JoinAt(q)'
  BY DEF JoinInv, JoinAt, At
<1> QED BY <1>1, <1>2 DEF JoinInv

LEMMA OthersKeepToo ==
  ASSUME LockInv, JoinInv, Domains,
         \/ \E u \in User : ConnectionNext(u, <<"connection", u>>) \/ close(u, <<"sender", u>>)
         \/ \E r \in Run : MonitorNext(r, Mon(r)) \/ ProcessEnds(r)
         \/ \E t \in Page : PageNext(t)
  PROVE  LockInv' /\ JoinInv'
<1> USE DEF procVars, lockVars
<1>a. \A at, arg, todo : at \notin Held => Good(Frame(at, arg, todo))
  BY OutsideFrames DEF Good
<1>1. ASSUME NEW u \in User,
             ConnectionNext(u, <<"connection", u>>) \/ close(u, <<"sender", u>>)
      PROVE  LockInv' /\ JoinInv'
  <2>1. PICK t \in Thread : ConnectionNext(u, t) \/ close(u, t)
    BY <1>1 DEF Thread, Connection, Sender
  <2>2. PICK add, get, rem, st :
          /\ add = Frame("add", rx(u), <<>>) /\ get = Frame("getdsp", rx(u), <<>>)
          /\ rem = Frame("remove", rx(u), <<>>) /\ st = Frame("stopdsp", rx(u), <<>>)
    OBVIOUS
  <2>3. Outside(<<add>>) /\ Outside(<<get>>)
    BY <1>a, <2>2, OutsideFrames DEF Held
  <2>4. Outside(<<>> \o <<st>>) /\ Outside(<<rem>> \o <<st>>)
    <3>1. Outside(<<st>>) /\ Outside(<<rem, st>>)
      BY <1>a, <2>2, OutsideFrames DEF Held
    <3>2. <<>> \o <<st>> = <<st>> /\ <<rem>> \o <<st>> = <<rem, st>>
      BY OutsideFrames
    <3> QED BY <3>1, <3>2, Zenon
  <2>5. /\ UNCHANGED <<modificationLock, monitor, alive, joining>>
        /\ \E new : Outside(new) /\ Begin(t, new)
    <3>1. CASE Select(u, t)
      BY <2>2, <2>3, <3>1 DEF Select
    <3>2. CASE DspControl(u, t)
      BY <2>2, <2>3, <3>2 DEF DspControl
    <3>3. CASE close(u, t)
      BY <2>2, <2>4, <3>3 DEF close
    <3> QED BY <2>1, <3>1, <3>2, <3>3 DEF ConnectionNext
  <2> QED BY <2>5, BeginKeeps
<1>2. ASSUME NEW t \in Page, Disable(t)
      PROVE  LockInv' /\ JoinInv'
  <2>1. PICK f, g : f = Frame("stop", Spectrum, <<>>) /\ g = Frame("calldisable", Spectrum, <<>>)
    OBVIOUS
  <2>2. Outside(<<f, g>>)
    BY <1>a, <2>1, OutsideFrames DEF Held
  <2>3. t \in Thread /\ Begin(t, <<f, g>>) /\ UNCHANGED <<modificationLock, monitor, alive, joining>>
    BY <1>2, <2>1 DEF Disable, Thread
  <2> QED BY <2>2, <2>3, BeginKeeps
<1>3. ASSUME NEW r \in Run, Judge(r, Mon(r))
      PROVE  LockInv' /\ JoinInv'
  <2>1. CASE state = "Running"
    <3>1. PICK f : f = Frame("fail", <<"run", r>>, clients)
      OBVIOUS
    <3>2. Outside(<<f>>)
      BY <1>a, <3>1, OutsideFrames DEF Held
    <3>3. Mon(r) \in Thread /\ Begin(Mon(r), <<f>>) /\ UNCHANGED <<modificationLock, monitor, alive, joining>>
      BY <1>3, <2>1, <3>1, Threads DEF Judge
    <3> QED BY <3>2, <3>3, BeginKeeps
  <2>2. CASE state # "Running"
    BY <1>3, <2>2, StillKeeps DEF Judge
  <2> QED BY <2>1, <2>2
<1>4. ASSUME NEW t, ClearMonitor(t) \/ SetStopped(t) \/ Enable(t)
      PROVE  LockInv' /\ JoinInv'
  BY <1>4, StillKeeps DEF ClearMonitor, SetStopped, Enable
<1>5. ASSUME NEW r \in Run, ProcessEnded(r, Mon(r)) \/ ProcessEnds(r)
      PROVE  LockInv' /\ JoinInv'
  BY <1>5, StillKeeps DEF ProcessEnded, ProcessEnds
<1>6. ASSUME NEW t \in Page, CallDisable(t)
      PROVE  LockInv' /\ JoinInv'
  <2>1. t \in Thread /\ Inner(t)
    BY <1>6, InnerCalls DEF Thread, InnerCall
  <2> QED BY <2>1, InnerKeeps DEF Inner
<1> QED BY <1>1, <1>2, <1>3, <1>4, <1>5, <1>6 DEF MonitorNext, PageNext

LEMMA LockInvHolds == SourceSpec => [](LockInv /\ JoinInv)
<1>1. SourceInit => LockInv /\ JoinInv
  BY ShortFrames DEF SourceInit, LockInv, JoinInv, JoinAt, At, Nested
<1>2. ASSUME ProcessInv, LockInv /\ JoinInv, [SourceNext]_sourceVars
      PROVE  (LockInv /\ JoinInv)'
  <2>1. CASE \E t \in Thread : CallNext(t)
    BY <1>2, <2>1, CallsKeep
  <2>2. CASE UNCHANGED sourceVars
    BY <1>2, <2>2, StillKeeps DEF sourceVars, procVars, lockVars
  <2> QED BY <1>2, <2>1, <2>2, OthersKeepToo DEF SourceNext, Mon, ProcessInv
<1> QED BY <1>1, <1>2, ProcessInvHolds, PTL DEF SourceSpec

\* When stop() of owrx/source/__init__.py is done with the monitor thread and
\* gives up the TCP client, no process runs: whether it joined the thread or
\* found none, and whatever was started, failed or crashed meanwhile.
THEOREM StopAlwaysEndsProcess == SourceSpec => []StopEndsProcess
<1>1. JoinInv => StopEndsProcess
  BY DEF JoinInv, JoinAt, StopEndsProcess
<1> QED BY <1>1, LockInvHolds, PTL

\* modificationLock in owrx/source/__init__.py: of all threads at most one is
\* between the first and the last step of start() or of stop(), and it does
\* not enter them again from the callbacks stop() makes.
OneStartsOrStops ==
  \A t, q \in Thread : \A i \in HeldAt(stack[t]), j \in HeldAt(stack[q]) : t = q /\ i = j

THEOREM OneAlwaysStartsOrStops == SourceSpec => []OneStartsOrStops
<1>1. LockInv => OneStartsOrStops
  <2>1. SUFFICES ASSUME LockInv, NEW t \in Thread, NEW q \in Thread,
                        NEW i \in HeldAt(stack[t]), NEW j \in HeldAt(stack[q])
                 PROVE  t = q /\ i = j
    BY DEF OneStartsOrStops
  <2>2. modificationLock = {t} /\ modificationLock = {q}
    BY <2>1 DEF LockInv
  <2>3. t = q
    BY <2>2
  <2> QED BY <2>1, <2>3 DEF LockInv, Nested
<1> QED BY <1>1, LockInvHolds, PTL
=============================================================================

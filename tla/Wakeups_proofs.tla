--------------------------- MODULE Wakeups_proofs ---------------------------
(* The two protocols of threads that wake each other: the handshake of      *)
(* receivestate.py, and the runners of csdr's modules.                      *)
EXTENDS WakeHistory, AsyncRunner, TLAPS
-----------------------------------------------------------------------------
(***************************************************************************)
(* As long as no handler asks while another one waits, and until           *)
(* shutdown(), the handshake of receivestate.py serves the handlers        *)
(* exactly as PollOnRequest says.                                          *)
(*                                                                         *)
(* The argument: wakeEvent stands for a request that no poll has taken up, *)
(* workedEvent for an answer that the handler has not taken; the one       *)
(* handler that waits and the poll thread pass one token through "wake",   *)
(* "clear"/"signal", "worked", and there is never a second one.            *)
(***************************************************************************)

Asking  == \E h \in Handler : hpc[h] \in {"towait", "blocked"}
AtMostOne == \A g, h \in Waiting : g = h

\* Where the token is, as long as the poll thread runs.
Token ==
  /\ wake => Asking /\ ~worked /\ ppc # "signal"
  /\ ppc = "clear" => wake
  /\ ppc = "signal" => Asking /\ ~worked
  /\ worked => \E h \in Handler : hpc[h] \in {"towait", "clear"}
  /\ \A h \in Handler : hpc[h] = "clear" => worked

\* A poll ended between the last workedEvent.set() and the next.
Fresh == ppc \in {"check", "clear", "signal"} => ready

HandshakeInv == HTypeOK /\ (doRun /\ ~overlap => AtMostOne /\ Token /\ Fresh)

LEMMA HandshakeInvHolds == HSpec => []HandshakeInv
<1> USE DEF HandshakeInv, HTypeOK, TypeOK, PollerPc, HandlerPc, Token, Fresh, AtMostOne,
            Asking, Waiting
<1>1. HInit => HandshakeInv
  BY DEF HInit, Init
<1>2. ASSUME HandshakeInv, [HNext]_hvars
      PROVE  HandshakeInv'
  <2>1. CASE PollDone /\ polled' = Handler /\ ready' = TRUE /\ UNCHANGED overlap
    BY <1>2, <2>1 DEF PollDone
  <2>2. CASE SetWorked /\ ready' = FALSE /\ UNCHANGED <<polled, overlap>>
    BY <1>2, <2>2 DEF SetWorked
  <2>3. ASSUME NEW h \in Handler, Request(h), polled' = polled \ {h}, UNCHANGED ready,
               overlap' = (overlap \/ Waiting # {})
        PROVE  HandshakeInv'
    BY <1>2, <2>3 DEF Request
  <2>4. ASSUME LeaveWait \/ PollRaises \/ CheckWake \/ ClearWake \/ Shutdown,
               UNCHANGED history
        PROVE  HandshakeInv'
    <3>1. CASE LeaveWait
      BY <1>2, <2>4, <3>1 DEF LeaveWait, history
    <3>2. CASE PollRaises \/ CheckWake
      BY <1>2, <2>4, <3>2 DEF PollRaises, CheckWake, history
    <3>3. CASE ClearWake
      BY <1>2, <2>4, <3>3 DEF ClearWake, history
    <3>4. CASE Shutdown
      BY <1>2, <2>4, <3>4 DEF Shutdown, history
    <3> QED BY <2>4, <3>1, <3>2, <3>3, <3>4
  <2>5. ASSUME NEW h \in Handler, EnterWait(h) \/ ClearWorked(h) \/ Finish(h),
               UNCHANGED history
        PROVE  HandshakeInv'
    <3>1. CASE EnterWait(h)
      BY <1>2, <2>5, <3>1 DEF EnterWait, history
    <3>2. CASE ClearWorked(h)
      <4>1. \A g \in Handler : hpc'[g] = IF g = h THEN "answered" ELSE hpc[g]
        BY <1>2, <3>2 DEF ClearWorked
      <4>2. HTypeOK'
        BY <1>2, <2>5, <3>2 DEF ClearWorked, history
      <4>3. ASSUME doRun', ~overlap'
            PROVE  AtMostOne /\ Token /\ Fresh
        BY <1>2, <2>5, <3>2, <4>3 DEF ClearWorked, history
      <4>4. ASSUME doRun', ~overlap'
            PROVE  \A g \in Handler : hpc'[g] \in {"idle", "answered"}
        BY <1>2, <3>2, <4>1, <4>3, <4>4 DEF ClearWorked
      <4>5. ASSUME doRun', ~overlap'
            PROVE  ~wake /\ ppc # "clear" /\ ppc # "signal"
        BY <3>2, <4>3, <4>5 DEF ClearWorked
      <4> QED BY <2>5, <3>2, <4>2, <4>3, <4>4, <4>5 DEF ClearWorked, history
    <3>3. CASE Finish(h)
      BY <1>2, <2>5, <3>3 DEF Finish, history
    <3> QED BY <2>5, <3>1, <3>2, <3>3
  <2>6. CASE UNCHANGED hvars
    BY <1>2, <2>6 DEF hvars, vars, history
  <2> QED BY <1>2, <2>1, <2>2, <2>3, <2>4, <2>5, <2>6 DEF HNext
<1> QED BY <1>1, <1>2, PTL DEF HSpec

\* The flag workedEvent never outlives the wait it is for, so the next
\* request is not answered by it (receivestate.py,
\* wake_and_wait_until_thread_works).
THEOREM NoStaleSignalAlways == HSpec => []NoStaleSignal
<1>1. HandshakeInv => NoStaleSignal
  BY DEF HandshakeInv, Token, NoStaleSignal
<1> QED BY <1>1, HandshakeInvHolds, PTL

\* The handshake implements PollOnRequest: a handler that asks is served
\* once, after a poll that served nobody before.
THEOREM HandshakeImplementsPollOnRequest == HSpec => ImplementsPollOnRequest
<1>1. HInit => Abstract!Init
  BY DEF HInit, Init, Abstract!Init, req
<1>2. ASSUME HandshakeInv, HandshakeInv', [HNext]_hvars, doRun', ~overlap'
      PROVE  (Abstract!Next \/ UNCHANGED <<req, ready>>) \/ UNCHANGED hvars
  <2> DEFINE view(hp, flag) == CASE hp \in {"idle", "answered"} -> "idle"
                                 [] hp = "clear" -> "served"
                                 [] hp \in {"towait", "blocked"} ->
                                      IF flag THEN "served" ELSE "asked"
  <2>1. /\ req = [h \in Handler |-> view(hpc[h], worked)]
        /\ req' = [h \in Handler |-> view(hpc'[h], worked')]
    BY DEF req
  <2>2. doRun /\ ~overlap /\ AtMostOne /\ Token /\ Fresh /\ HTypeOK
    <3>1. (doRun' => doRun) /\ (overlap => overlap')
      BY <1>2 DEF HNext, PollDone, SetWorked, Request, LeaveWait, PollRaises, CheckWake,
                  ClearWake, Shutdown, EnterWait, ClearWorked, Finish, hvars, vars, history,
                  HandshakeInv, HTypeOK
    <3> QED BY <1>2, <3>1 DEF HandshakeInv
  <2>3. hpc' = hpc /\ worked' = worked => UNCHANGED req
    BY <2>1
  <2>4. \A h \in Handler : hpc[h] \in HandlerPc
    BY <2>2 DEF HTypeOK, TypeOK
  <2>5. CASE PollDone /\ polled' = Handler /\ ready' = TRUE /\ UNCHANGED overlap
    BY <2>3, <2>5 DEF PollDone, Abstract!Next, Abstract!Poll
  <2>6. CASE SetWorked /\ ready' = FALSE /\ UNCHANGED <<polled, overlap>>
    <3>1. ready /\ ~worked /\ worked' /\ (\A h \in Handler : hpc[h] # "clear")
      BY <2>2, <2>6 DEF SetWorked, Token, Fresh
    <3>2. PICK x \in Handler : hpc[x] \in {"towait", "blocked"}
      BY <2>2, <2>6 DEF SetWorked, Token, Asking
    <3>3. req[x] = "asked"
      BY <2>1, <3>1, <3>2
    <3>4. ASSUME NEW h \in Handler
          PROVE  req'[h] = IF req[h] = "asked" THEN "served" ELSE req[h]
      <4>1. hpc'[h] = IF hpc[h] = "blocked" THEN "clear" ELSE hpc[h]
        BY <2>6 DEF SetWorked
      <4> QED BY <2>1, <2>4, <3>1, <4>1 DEF HandlerPc
    <3>5. req' = [h \in Handler |-> IF req[h] = "asked" THEN "served" ELSE req[h]]
      BY <2>1, <3>4
    <3> QED BY <2>6, <3>1, <3>3, <3>5 DEF Abstract!Next, Abstract!Serve
  <2>7. ASSUME NEW x \in Handler, Request(x), polled' = polled \ {x}, UNCHANGED ready,
               overlap' = (overlap \/ Waiting # {})
        PROVE  Abstract!Next
    <3>1. hpc[x] = "idle" /\ hpc' = [hpc EXCEPT ![x] = "towait"] /\ worked' = worked
      BY <2>7 DEF Request
    <3>2. ~worked
      BY <1>2, <2>2, <2>7 DEF Token, Waiting
    <3>3. ASSUME NEW h \in Handler
          PROVE  req'[h] = [req EXCEPT ![x] = "asked"][h]
      <4>1. hpc'[h] = IF h = x THEN "towait" ELSE hpc[h]
        BY <2>2, <3>1 DEF HTypeOK, TypeOK
      <4> QED BY <2>1, <2>4, <3>1, <3>2, <4>1 DEF HandlerPc
    <3>4. req[x] = "idle" /\ req' = [req EXCEPT ![x] = "asked"]
      BY <2>1, <3>1, <3>3
    <3> QED BY <2>7, <3>4 DEF Abstract!Next, Abstract!Ask
  <2>8. ASSUME LeaveWait \/ PollRaises \/ CheckWake \/ ClearWake \/ Shutdown,
               UNCHANGED history
        PROVE  UNCHANGED <<req, ready>>
    BY <2>3, <2>8 DEF LeaveWait, PollRaises, CheckWake, ClearWake, Shutdown, history
  <2>9. ASSUME NEW x \in Handler, EnterWait(x) \/ Finish(x), UNCHANGED history
        PROVE  UNCHANGED <<req, ready>>
    <3>1. /\ worked' = worked
          /\ \/ hpc[x] = "towait" /\ hpc' = [hpc EXCEPT ![x] = IF worked THEN "clear"
                                                                ELSE "blocked"]
             \/ hpc[x] = "answered" /\ hpc' = [hpc EXCEPT ![x] = "idle"]
      BY <2>9 DEF EnterWait, Finish
    <3>2. ASSUME NEW h \in Handler
          PROVE  req'[h] = req[h]
      <4>1. CASE h = x
        <5>1. \/ /\ hpc[x] = "towait"
                 /\ \/ worked /\ hpc'[x] = "clear"
                    \/ ~worked /\ hpc'[x] = "blocked"
              \/ hpc[x] = "answered" /\ hpc'[x] = "idle"
          BY <2>2, <3>1 DEF HTypeOK, TypeOK
        <5>2. req[x] = view(hpc[x], worked) /\ req'[x] = view(hpc'[x], worked)
          BY <2>1, <3>1
        <5>3. req'[x] = req[x]
          BY <5>1, <5>2
        <5> QED BY <4>1, <5>3
      <4>2. CASE h # x
        <5>1. hpc'[h] = hpc[h]
          BY <2>2, <3>1, <4>2 DEF HTypeOK, TypeOK
        <5>2. req[h] = view(hpc[h], worked) /\ req'[h] = view(hpc'[h], worked')
          BY <2>1
        <5> HIDE DEF view
        <5> QED BY <3>1, <5>1, <5>2
      <4> QED BY <4>1, <4>2
    <3>3. UNCHANGED req
      BY <2>1, <3>2
    <3> QED BY <2>9, <3>3 DEF history
  <2>10. ASSUME NEW x \in Handler, ClearWorked(x), UNCHANGED history
        PROVE  Abstract!Next
    <3>1. hpc[x] = "clear" /\ hpc' = [hpc EXCEPT ![x] = "answered"]
      BY <2>10 DEF ClearWorked
    <3>2. \A h \in Handler : h # x => hpc[h] \in {"idle", "answered"}
      BY <2>2, <2>4, <3>1 DEF AtMostOne, Waiting, HandlerPc
    <3>3. ASSUME NEW h \in Handler
          PROVE  req'[h] = [req EXCEPT ![x] = "idle"][h]
      <4>1. hpc'[h] = IF h = x THEN "answered" ELSE hpc[h]
        BY <2>2, <3>1 DEF HTypeOK, TypeOK
      <4> QED BY <2>1, <3>1, <3>2, <4>1
    <3>4. req[x] = "served" /\ req' = [req EXCEPT ![x] = "idle"]
      BY <2>1, <3>1, <3>3
    <3> QED BY <2>10, <3>4 DEF Abstract!Next, Abstract!GoOn, history
  <2> QED BY <1>2, <2>5, <2>6, <2>7, <2>8, <2>9, <2>10 DEF HNext
<1>3. HandshakeInv /\ HandshakeInv' /\ [HNext]_hvars =>
        [doRun' /\ ~overlap' => Abstract!Next \/ UNCHANGED <<req, ready>>]_hvars
  BY <1>2
<1> QED BY <1>1, <1>3, HandshakeInvHolds, PTL DEF HSpec, ImplementsPollOnRequest
-----------------------------------------------------------------------------
(* Whatever the order in which Python threads connect, stop and restart a   *)
(* module, and however many there are: nothing of it runs that nobody knows *)
(* of, and never do two threads process it.                                 *)

Pc == {"new", "loop", "wait", "process", "busy", "unlocked", "entering", "asleep",
       "awake", "ended"}

RunnerTypeOK ==
  /\ pc \in [Runner -> Pc]
  /\ call \in [Caller -> {"python", "stop", "join"}]
  /\ old \in [Caller -> Runner \union {nullptr}]
  /\ runner \in Runner \union {nullptr}
  /\ \A p \in Caller : call[p] # "python" => old[p] \in Runner

\* Who processes holds processMutex, and a thread that a stop() waits for is
\* not the one the Python object knows of.
RunnerInv ==
  /\ RunnerTypeOK
  /\ \A r \in Runner : pc[r] = "busy" => processMutex = r
  /\ NoStrayRunner

LEMMA WokenStates ==
  ASSUME RunnerTypeOK, NEW b
  PROVE  /\ Woken(b) \in [Runner -> Pc]
         /\ \A r \in Runner : /\ Woken(b)[r] = pc[r] \/ (pc[r] = "asleep" /\ Woken(b)[r] = "awake")
  BY DEF Woken, RunnerTypeOK, Pc

(* Starting a thread, if it is started, keeps what is known of the others.  *)
LEMMA CheckRunner ==
  ASSUME RunnerInv, NEW connected \in BOOLEAN, NEW S \in [Runner -> Pc],
         \A r \in Runner : S[r] = pc[r] \/ (pc[r] = "asleep" /\ S[r] = "awake"),
         checkRunner(connected, S), UNCHANGED <<call, old, processMutex>>
  PROVE  RunnerInv'
<1>1. CASE UNCHANGED runner /\ pc' = S
  BY <1>1 DEF RunnerInv, RunnerTypeOK, NoStrayRunner, Alive
<1>2. CASE /\ runner = nullptr
           /\ \E r \in Runner : pc[r] = "new" /\ runner' = r /\ pc' = [S EXCEPT ![r] = "loop"]
  <2>1. PICK r \in Runner : pc[r] = "new" /\ runner' = r /\ pc' = [S EXCEPT ![r] = "loop"]
    BY <1>2
  <2>2. RunnerTypeOK'
    BY <2>1 DEF RunnerInv, RunnerTypeOK, Pc
  <2>3. \A s \in Runner : s # r => pc'[s] = S[s]
    BY <2>1
  <2>4. pc'[r] = "loop"
    BY <2>1
  <2>5. NoStrayRunner'
    BY <1>2, <2>1, <2>3, NullAssumption DEF RunnerInv, NoStrayRunner, Alive
  <2>6. \A s \in Runner : pc'[s] = "busy" => processMutex' = s
    BY <2>3, <2>4 DEF RunnerInv
  <2> QED BY <2>2, <2>5, <2>6 DEF RunnerInv
<1> QED BY <1>1, <1>2 DEF checkRunner

THEOREM RunnerInvHolds == RunnerSpec => []RunnerInv
<1>1. RunnerInit => RunnerInv
  BY DEF RunnerInit, RunnerInv, RunnerTypeOK, NoStrayRunner, Alive, Pc
<1>2. RunnerInv /\ [RunnerNext]_rvars => RunnerInv'
  <2> SUFFICES ASSUME RunnerInv, [RunnerNext]_rvars
               PROVE  RunnerInv'
    OBVIOUS
  <2> USE DEF RunnerInv
  <2>1. ASSUME NEW p \in Caller, setWriter(p)
        PROVE  RunnerInv'
    BY <2>1, CheckRunner DEF setWriter, python, RunnerTypeOK
  <2>2. ASSUME NEW p \in Caller, NEW b \in Reader, setReader(p, b)
        PROVE  RunnerInv'
    <3> DEFINE S == IF reader = nullptr THEN pc ELSE Woken(reader)
    <3>1. S \in [Runner -> Pc] /\ \A r \in Runner : S[r] = pc[r] \/ (pc[r] = "asleep" /\ S[r] = "awake")
      BY WokenStates DEF RunnerTypeOK
    <3>2. checkRunner(writer, S) /\ UNCHANGED <<call, old, processMutex>>
      BY <2>2 DEF setReader, python
    <3>3. checkRunner(writer = TRUE, S)
      BY <3>2 DEF checkRunner
    <3> HIDE DEF S
    <3> QED BY <3>1, <3>2, <3>3, CheckRunner
  <2>3. ASSUME NEW p \in Caller, stopRunner(p)
        PROVE  RunnerInv'
    BY <2>3 DEF stopRunner, threads, RunnerTypeOK, NoStrayRunner, Alive
  <2>4. ASSUME NEW p \in Caller, stop(p)
        PROVE  RunnerInv'
    <3>1. pc' \in [Runner -> Pc] /\ \A r \in Runner : pc'[r] = pc[r] \/ (pc[r] = "asleep" /\ pc'[r] = "awake")
      BY <2>4, WokenStates DEF stop, RunnerTypeOK
    <3> QED BY <2>4, <3>1 DEF stop, RunnerTypeOK, NoStrayRunner, Alive
  <2>5. ASSUME NEW p \in Caller, join(p)
        PROVE  RunnerInv'
    BY <2>5 DEF join, threads, RunnerTypeOK, NoStrayRunner, Alive
  <2>6. ASSUME NEW r \in Runner, Loop(r) \/ wakeUp(r)
        PROVE  RunnerInv'
    <3>1. /\ UNCHANGED <<call, old, runner>>
          /\ pc[r] \notin {"new", "ended"}
          /\ \E l \in Pc : pc' = [pc EXCEPT ![r] = l]
      BY <2>6 DEF Loop, loop, process, processed, wait, enter, sleep, wakeUp, relock, Go,
                  python, Pc
    <3>2. RunnerTypeOK' /\ NoStrayRunner'
      BY <3>1 DEF RunnerTypeOK, NoStrayRunner, Alive
    <3>3. \A s \in Runner : pc'[s] = "busy" => processMutex' = s
      <4>1. CASE process(r)
        BY <4>1, NullAssumption DEF process, Go, RunnerTypeOK
      <4>2. CASE processed(r)
        BY <4>2 DEF processed, Go, RunnerTypeOK
      <4>3. CASE ~process(r) /\ ~processed(r)
        BY <2>6, <4>3 DEF Loop, loop, wait, enter, sleep, wakeUp, relock, Go, RunnerTypeOK
      <4> QED BY <4>1, <4>2, <4>3
    <3> QED BY <3>2, <3>3
  <2>7. ASSUME NEW b \in Reader, write(b)
        PROVE  RunnerInv'
    <3>1. pc' \in [Runner -> Pc] /\ \A r \in Runner : pc'[r] = pc[r] \/ (pc[r] = "asleep" /\ pc'[r] = "awake")
      BY <2>7, WokenStates DEF write
    <3> QED BY <2>7, <3>1 DEF write, python, RunnerTypeOK, NoStrayRunner, Alive
  <2>8. CASE UNCHANGED rvars
    BY <2>8 DEF rvars, threads, python, RunnerTypeOK, NoStrayRunner, Alive
  <2> QED BY <2>1, <2>2, <2>3, <2>4, <2>5, <2>6, <2>7, <2>8 DEF RunnerNext
<1> QED BY <1>1, <1>2, PTL DEF RunnerSpec

(* When stop() returns, nothing of the module runs but what was started     *)
(* since (async.cpp, pycsdr's module.cpp).                                  *)
THEOREM StopsForGood == RunnerSpec => []NoStrayRunner
<1>1. RunnerInv => NoStrayRunner
  BY DEF RunnerInv
<1> QED BY <1>1, RunnerInvHolds, PTL

(* processMutex is enough: two threads never process the same module.       *)
THEOREM ProcessesAlone == RunnerSpec => []OneProcesses
<1>1. RunnerInv => OneProcesses
  BY DEF RunnerInv, OneProcesses
<1> QED BY <1>1, RunnerInvHolds, PTL
=============================================================================

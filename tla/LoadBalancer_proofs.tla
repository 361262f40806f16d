------------------------ MODULE LoadBalancer_proofs ------------------------
(***************************************************************************)
(* Theorems about LoadBalancer, for any servers, handlers, failures and    *)
(* bounds: its types and how deep a poll calls itself, who owns            *)
(* state_lock, that a deleted server is not offered, and what the poll     *)
(* thread can die of.                                                      *)
(***************************************************************************)
EXTENDS LoadBalancer, TLAPS

----------------------------------------------------------------------------
(* Type correctness. TypeOK is inductive; it is taken apart by which part  *)
(* of the program owns the variables.                                      *)

PollTypes ==
  /\ phase \in Phase
  /\ start \subseteq Server /\ seen \subseteq Server /\ todo \subseteq Server
  /\ resp \in [Server -> Answer]
  /\ need \subseteq Server
  /\ inits \in [Server -> Answer]
  /\ raised \in Exception

DepthTypes == depth \in 0..MaxDepth

LockTypes == lock \in {"free", "poller", "lost"} \union Handler

DbTypes == keys \subseteq Server /\ info \in [Server -> Entry]

AdminTypes == config \subseteq Server /\ gone \subseteq Server

OpTypes ==
  /\ op \in [Handler -> Op]
  /\ scan \in [Client -> Scan]
  /\ reply \in [Client -> {"", "error", "no sdr", "server"}]

OwrxTypes ==
  /\ up \in [Server -> BOOLEAN]
  /\ conf \in [Server -> Version] /\ tag \in [Server -> Version]

LEMMA TypeParts ==
  TypeOK <=> /\ HS!TypeOK /\ PollTypes /\ DepthTypes /\ LockTypes /\ DbTypes
             /\ AdminTypes /\ OpTypes /\ OwrxTypes
BY DEF TypeOK, PollTypes, DepthTypes, LockTypes, DbTypes, AdminTypes, OpTypes, OwrxTypes

LEMMA Constructors ==
  /\ NewEntry \in Entry /\ NoAnswer \in Answer /\ NoAnswers \in [Server -> Answer]
  /\ NoScan \in Scan /\ NoOp \in Op /\ Ask \in Op
  /\ \A s \in Server, k \in {"modify", "modify_del", "put", "delete", "delete_db", "add_db"} :
       [kind |-> k, id |-> s] \in Op
  /\ \A k \in {"scan", "pick"} : [kind |-> k] \in Op
  /\ Version \subseteq VersionOrNone
BY Bounds DEF NewEntry, Entry, NoAnswer, Answer, NoAnswers, NoScan, Scan, NoOp, Op, Ask,
              VersionOrNone, None, Version

\* Every step is one of the handshake's, or leaves it alone.
LEMMA HandshakeSteps ==
  ASSUME Next
  PROVE  UNCHANGED hsVars \/ HS!PollerNext \/ \E h \in Handler : HS!HandlerNext(h)
<1>1. Poller => UNCHANGED hsVars \/ HS!PollerNext
  BY DEF Poller, CreateAcquire, CreateServer, CreatePut, CreateDone, PollServer, PollAll, IterationRaises,
         UpdateAcquire, UpdateServer, UpdateRaises, UpdateDone, UpdateNeeds, FetchInit,
         FetchInitTag, FetchRaises, FetchDone, AddAcquire, AddBuild, AddPut, AddRaises, AddDone,
         NextPoll, Acknowledge, Raise, HS!PollerNext
<1>2. ASSUME NEW h \in Client, ClientNext(h)
      PROVE  UNCHANGED hsVars \/ HS!HandlerNext(h)
  BY <1>2 DEF ClientNext, GetSdrsRaises, ScanAcquire, ScanServer, ScanDone, ScanRaises, Pick,
              HS!HandlerNext
<1>3. ASSUME NEW h \in Admin, AdminNext(h)
      PROVE  UNCHANGED hsVars \/ HS!HandlerNext(h)
  BY <1>3 DEF AdminNext, AskAfterStore, Redirect, NewServer, AddDb, Open, ModifyConfig,
              ModifyDel, PutDb, DeleteConfig, DeleteDb, HS!HandlerNext
<1>4. ASSUME NEW h \in Handler, WaitForPoll(h)
      PROVE  HS!HandlerNext(h)
  BY <1>4 DEF WaitForPoll, HS!HandlerNext
<1>5. Owrx => UNCHANGED hsVars
  BY DEF Owrx
<1> QED BY <1>1, <1>2, <1>3, <1>4, <1>5 DEF Next, Handlers, Handler

LEMMA HandshakeTypes ==
  ASSUME HS!TypeOK, Next
  PROVE  HS!TypeOK'
<1> USE DEF HS!TypeOK, HS!PollerPc, HS!HandlerPc
<1>1. CASE UNCHANGED hsVars
  BY <1>1 DEF hsVars
<1>2. CASE HS!PollerNext
  BY <1>2 DEF HS!PollerNext, HS!LeaveWait, HS!PollDone, HS!PollRaises, HS!CheckWake,
              HS!ClearWake, HS!SetWorked
<1>3. ASSUME NEW h \in Handler, HS!HandlerNext(h)
      PROVE  HS!TypeOK'
  BY <1>3 DEF HS!HandlerNext, HS!Request, HS!EnterWait, HS!ClearWorked, HS!Finish
<1> QED BY <1>1, <1>2, <1>3, HandshakeSteps

\* The variables of the poll thread.
LEMMA PollTypesKept ==
  ASSUME PollTypes, AdminTypes, OwrxTypes, Poller
  PROVE  PollTypes'
<1> USE Constructors DEF PollTypes, Phase, Exception
<1>1. CASE CreateAcquire
  BY <1>1 DEF CreateAcquire, AdminTypes
<1>2. CASE CreateDone
  BY <1>2 DEF CreateDone, AdminTypes, BeginPoll
<1>3. CASE PollAll
  BY <1>3 DEF PollAll
<1>4. CASE IterationRaises
  BY <1>4 DEF IterationRaises, Raise
<1>5. CASE UpdateAcquire
  BY <1>5 DEF UpdateAcquire
<1>6. CASE UpdateDone
  BY <1>6 DEF UpdateDone
<1>7. CASE UpdateNeeds
  BY <1>7 DEF UpdateNeeds
<1>8. CASE FetchDone
  BY <1>8 DEF FetchDone
<1>9. CASE AddAcquire
  BY <1>9 DEF AddAcquire
<1>10. CASE AddDone
  BY <1>10 DEF AddDone, AdminTypes, BeginPoll
<1>11. ASSUME NEW s \in Server, CreatePut(s)
      PROVE  PollTypes'
  BY <1>11 DEF CreatePut
<1>12. CASE NextPoll
  BY <1>12 DEF NextPoll, AdminTypes, BeginPoll
<1>13. CASE Acknowledge
  BY <1>13 DEF Acknowledge, pollVars
<1>14. ASSUME NEW s \in Server, CreateServer(s)
      PROVE  PollTypes'
  BY <1>14 DEF CreateServer
<1>15. ASSUME NEW s \in Server, PollServer(s)
      PROVE  PollTypes'
  <2>1. [ok |-> TRUE, tag |-> tag[s], conf |-> conf[s]] \in Answer
    BY DEF OwrxTypes, Answer
  <2>2. resp' \in [Server -> Answer]
    BY <1>15, <2>1 DEF PollServer
  <2> QED BY <1>15, <2>2 DEF PollServer
<1>16. ASSUME NEW s \in Server, UpdateServer(s)
      PROVE  PollTypes'
  BY <1>16 DEF UpdateServer
<1>17. ASSUME NEW s \in Server, UpdateRaises(s)
      PROVE  PollTypes'
  BY <1>17 DEF UpdateRaises, Raise
<1>18. ASSUME NEW s \in Server, FetchInit(s)
      PROVE  PollTypes'
  <2>1. inits' \in [Server -> Answer]
    <3>1. [inits[s] EXCEPT !.conf = conf[s]] \in Answer
      BY DEF OwrxTypes, Answer
    <3>2. inits' = [inits EXCEPT ![s] = [inits[s] EXCEPT !.conf = conf[s]]] \/ inits' = inits
      BY <1>18 DEF FetchInit
    <3> QED BY <3>1, <3>2
  <2> QED BY <1>18, <2>1 DEF FetchInit
<1>19. ASSUME NEW s \in Server, FetchInitTag(s)
      PROVE  PollTypes'
  <2>1. [[inits[s] EXCEPT !.ok = TRUE] EXCEPT !.tag = tag[s]] \in Answer
    BY DEF OwrxTypes, Answer
  <2>2. [inits[s] EXCEPT !.ok = TRUE, !.tag = tag[s]] \in Answer
    BY DEF OwrxTypes, Answer
  <2>3. inits' \in [Server -> Answer]
    BY <1>19, <2>2 DEF FetchInitTag
  <2> QED BY <1>19, <2>3 DEF FetchInitTag
<1>20. ASSUME NEW s \in Server, FetchRaises(s)
      PROVE  PollTypes'
  BY <1>20 DEF FetchRaises, Raise
<1>21. ASSUME NEW s \in Server, AddBuild(s)
      PROVE  PollTypes'
  BY <1>21 DEF AddBuild
<1>22. ASSUME NEW s \in Server, AddPut(s)
      PROVE  PollTypes'
  BY <1>22 DEF AddPut
<1>23. ASSUME NEW s \in Server, AddRaises(s)
      PROVE  PollTypes'
  BY <1>23 DEF AddRaises, Raise
<1> QED
  BY <1>1, <1>2, <1>3, <1>4, <1>5, <1>6, <1>7, <1>8, <1>9, <1>10, <1>11, <1>12, <1>13, <1>14, <1>15, <1>16, <1>17, <1>18, <1>19, <1>20, <1>21, <1>22, <1>23 DEF Poller

\* At the deepest call no server answers, so that nothing is left to fetch.
Deepest ==
  depth = MaxDepth =>
    /\ need = {} /\ phase \notin {"init", "init_tag", "add_lock", "add", "add_put"}
    /\ \A s \in Server : ~resp[s].ok

LEMMA DepthTypesKept ==
  ASSUME PollTypes, DepthTypes, Deepest, Poller
  PROVE  DepthTypes' /\ Deepest'
<1> USE DEF Deepest
<1>1. \A s \in Server : ~NoAnswers[s].ok
  BY DEF NoAnswers, NoAnswer
<1>2. ASSUME depth' = depth, need' = need, resp' \in {resp, NoAnswers},
             phase \in {"init", "init_tag", "add_lock", "add", "add_put"}
             \/ phase' \notin {"init", "init_tag", "add_lock", "add", "add_put"}
      PROVE  DepthTypes' /\ Deepest'
  BY <1>1, <1>2 DEF DepthTypes
<1>3. CASE \/ CreateAcquire \/ CreateDone \/ PollAll \/ FetchDone \/ AddAcquire \/ NextPoll
           \/ Acknowledge
  BY <1>2, <1>3 DEF CreateAcquire, CreateDone, PollAll, FetchDone, AddAcquire, NextPoll,
                    Acknowledge, BeginPoll, pollVars
<1>4. ASSUME NEW s \in Server,
             \/ CreateServer(s) \/ CreatePut(s) \/ FetchInit(s) \/ FetchInitTag(s)
             \/ AddBuild(s) \/ AddPut(s)
      PROVE  DepthTypes' /\ Deepest'
  BY <1>2, <1>4 DEF CreateServer, CreatePut, FetchInit, FetchInitTag, AddBuild, AddPut
<1>5. ASSUME depth' = 0, need' = {}, resp' = NoAnswers, phase' = "rest"
      PROVE  DepthTypes' /\ Deepest'
  <2>1. 0 \in 0..MaxDepth
    BY Bounds
  <2> QED BY <1>1, <1>5, <2>1 DEF DepthTypes
<1>6. CASE UpdateDone \/ IterationRaises
  BY <1>5, <1>6 DEF UpdateDone, IterationRaises, Raise
<1>7. ASSUME NEW s \in Server, UpdateRaises(s) \/ FetchRaises(s) \/ AddRaises(s)
      PROVE  DepthTypes' /\ Deepest'
  BY <1>5, <1>7 DEF UpdateRaises, FetchRaises, AddRaises, Raise
<1>8. CASE UpdateAcquire
  BY <1>8 DEF UpdateAcquire, DepthTypes
<1>9. CASE UpdateNeeds
  BY <1>9 DEF UpdateNeeds, DepthTypes
<1>10. CASE AddDone
  <2>1. depth < MaxDepth /\ depth' = depth + 1
    BY <1>10, Bounds DEF AddDone, DepthTypes
  <2>2. depth' \in 0..MaxDepth
    BY <2>1, Bounds DEF DepthTypes
  <2> QED BY <1>1, <1>10, <2>2 DEF AddDone, BeginPoll, DepthTypes
<1>11. ASSUME NEW s \in Server, PollServer(s)
       PROVE  DepthTypes' /\ Deepest'
  <2>1. /\ depth' = depth /\ need' = need /\ phase' = phase /\ phase = "poll"
        /\ \E a : resp' = [resp EXCEPT ![s] = a] /\ (a.ok => depth < MaxDepth)
    BY <1>11 DEF PollServer
  <2>2. depth = MaxDepth => \A q \in Server : ~resp'[q].ok
    BY <2>1, Bounds DEF PollTypes
  <2> QED BY <2>1, <2>2 DEF DepthTypes
<1>12. ASSUME NEW s \in Server, UpdateServer(s)
       PROVE  DepthTypes' /\ Deepest'
  BY <1>12 DEF UpdateServer, DepthTypes
<1> QED BY <1>3, <1>4, <1>6, <1>7, <1>8, <1>9, <1>10, <1>11, <1>12 DEF Poller

LEMMA LockTypesKept ==
  ASSUME LockTypes, Next
  PROVE  LockTypes'
<1> USE DEF LockTypes
<1>1. Poller => lock' \in {lock, "free", "poller", "lost"}
  BY DEF Poller, Acquire, Raise, CreateAcquire, CreateServer, CreatePut, CreateDone, PollServer, PollAll,
         IterationRaises, UpdateAcquire, UpdateServer, UpdateRaises, UpdateDone, UpdateNeeds,
         FetchInit, FetchInitTag, FetchRaises, FetchDone, AddAcquire, AddBuild, AddPut,
         AddRaises, AddDone, NextPoll, Acknowledge
<1>2. ASSUME NEW h \in Client, ClientNext(h)
      PROVE  lock' \in {lock, "free", "lost", h}
  BY <1>2 DEF ClientNext, GetSdrsRaises, ScanAcquire, ScanServer, ScanDone, ScanRaises, Pick
<1>3. ASSUME NEW h \in Admin, AdminNext(h)
      PROVE  lock' = lock
  BY <1>3 DEF AdminNext, AskAfterStore, Redirect, NewServer, AddDb, Open, ModifyConfig,
              ModifyDel, PutDb, DeleteConfig, DeleteDb
<1>4. ASSUME NEW h \in Handler, WaitForPoll(h)
      PROVE  lock' = lock
  BY <1>4 DEF WaitForPoll
<1>5. Owrx => lock' = lock
  BY DEF Owrx
<1> QED BY <1>1, <1>2, <1>3, <1>4, <1>5 DEF Next, Handlers, Handler

\* The entries: the poll thread and the settings pages write them.
LEMMA DbTypesKept ==
  ASSUME DbTypes, PollTypes, Next
  PROVE  DbTypes'
<1> USE Constructors DEF DbTypes, dbVars
<1>1. ASSUME Poller
      PROVE  DbTypes'
  <2>1. CASE CreateAcquire
    BY <2>1 DEF CreateAcquire
  <2>2. ASSUME NEW s \in Server, CreatePut(s)
        PROVE  DbTypes'
    BY <2>2 DEF CreatePut, Put
  <2>3. ASSUME NEW s \in Server, UpdateServer(s)
        PROVE  DbTypes'
    <3> DEFINE known == resp[s].ok /\ resp[s].tag = info[s].tag
               e == [info[s] EXCEPT !.responding = resp[s].ok,
                                    !.cur = IF known THEN resp[s].tag ELSE info[s].cur,
                                    !.now = IF known THEN resp[s].conf ELSE info[s].now]
    <3>1. info[s] \in Entry /\ resp[s] \in Answer
      BY DEF PollTypes
    <3>2. e \in Entry
      BY <3>1 DEF Entry, Answer
    <3>3. info' = [info EXCEPT ![s] = e]
      BY <2>3, <3>1 DEF UpdateServer, Entry
    <3>4. keys' = keys
      BY <2>3 DEF UpdateServer
    <3> HIDE DEF e
    <3> QED BY <3>2, <3>3, <3>4
  <2>4. ASSUME NEW s \in Server, UpdateRaises(s)
        PROVE  DbTypes'
    <3>1. [info[s] EXCEPT !.responding = TRUE] \in Entry
      BY DEF Entry
    <3> QED BY <2>4, <3>1 DEF UpdateRaises
  <2>5. ASSUME NEW s \in Server, AddPut(s)
        PROVE  DbTypes'
    <3>1. [NewEntry EXCEPT !.tag = inits[s].tag, !.conf = inits[s].conf] \in Entry
      BY DEF PollTypes, Entry, Answer
    <3> QED BY <2>5, <3>1 DEF AddPut, Put
  <2>6. ASSUME dbVars' = dbVars
        PROVE  DbTypes'
    BY <2>6
  <2> QED
    BY <1>1, <2>1, <2>2, <2>3, <2>4, <2>5, <2>6
    DEF Poller, CreateServer, CreateDone, PollServer, PollAll, IterationRaises, UpdateAcquire,
        UpdateDone, UpdateNeeds, FetchInit, FetchInitTag, FetchRaises, FetchDone, AddAcquire,
        AddBuild, AddRaises, AddDone, NextPoll, Acknowledge
<1>2. ASSUME NEW h \in Client, ClientNext(h)
      PROVE  DbTypes'
  BY <1>2 DEF ClientNext, GetSdrsRaises, ScanAcquire, ScanServer, ScanDone, ScanRaises, Pick
<1>3. ASSUME NEW h \in Admin, AdminNext(h)
      PROVE  DbTypes'
  BY <1>3 DEF AdminNext, AskAfterStore, Redirect, NewServer, AddDb, Open, ModifyConfig,
              ModifyDel, PutDb, DeleteConfig, DeleteDb, Put, RemoveEntry
<1>4. ASSUME NEW h \in Handler, WaitForPoll(h)
      PROVE  DbTypes'
  BY <1>4 DEF WaitForPoll
<1>5. Owrx => DbTypes'
  BY DEF Owrx
<1> QED BY <1>1, <1>2, <1>3, <1>4, <1>5 DEF Next, Handlers

LEMMA EmptyOrSingleton ==
  ASSUME NEW S, NEW r \in S, NEW m \in {{}, {r}}
  PROVE  m \subseteq S
OBVIOUS

\* The handlers' own variables.
LEMMA OpTypesKept ==
  ASSUME OpTypes, DbTypes, Next
  PROVE  OpTypes'
<1> USE Constructors DEF OpTypes
<1>1. Poller \/ Owrx => OpTypes'
  BY DEF Poller, Owrx, opVars
<1>2. ASSUME NEW h \in Client, ClientNext(h)
      PROVE  OpTypes'
  <2>1. h \in Handler
    BY DEF Handler
  <2>2. op' \in [Handler -> Op]
    BY <1>2, <2>1 DEF ClientNext, GetSdrsRaises, ScanAcquire, ScanServer, ScanDone, ScanRaises,
                      Pick, End, opVars
  <2>3. reply' \in [Client -> {"", "error", "no sdr", "server"}]
    BY <1>2, <2>1 DEF ClientNext, GetSdrsRaises, ScanAcquire, ScanServer, ScanDone, ScanRaises,
                      Pick, End, opVars
  <2>4. scan' \in [Client -> Scan]
    <3>1. CASE ScanAcquire(h)
      <4>1. [NoScan EXCEPT !.start = keys] \in Scan
        BY DEF DbTypes, Scan
      <4> QED BY <3>1, <4>1 DEF ScanAcquire
    <3>2. ASSUME NEW s \in Server, ScanServer(h, s)
          PROVE  scan' \in [Client -> Scan]
      <4> DEFINE new     == [id |-> s, conf |-> info[s].conf]
                 Matches == [id : Server, conf : VersionOrNone]
      <4>1. PICK m \in {{}, {new}} :
              scan' = [scan EXCEPT ![h].seen = @ \union {s}, ![h].match = @ \union m]
        BY <3>2 DEF ScanServer
      <4>2. new \in Matches
        BY DEF DbTypes, Entry
      <4>3. m \subseteq Matches
        <5> HIDE DEF new, Matches
        <5> QED BY <4>2, EmptyOrSingleton
      <4>4. scan[h] \in Scan
        OBVIOUS
      <4>5. [scan[h] EXCEPT !.seen = @ \union {s}, !.match = @ \union m] \in Scan
        BY <4>3, <4>4 DEF Scan
      <4>6. scan' = [scan EXCEPT ![h] = [scan[h] EXCEPT !.seen = @ \union {s},
                                                        !.match = @ \union m]]
        BY <4>1, <4>4 DEF Scan
      <4> QED BY <4>5, <4>6
    <3>3. CASE ScanDone(h)
      <4>1. [NoScan EXCEPT !.match = scan[h].match] \in Scan
        BY DEF Scan
      <4> QED BY <3>3, <4>1 DEF ScanDone
    <3>4. scan' = scan \/ scan' = [scan EXCEPT ![h] = NoScan] => scan' \in [Client -> Scan]
      OBVIOUS
    <3> QED BY <1>2, <3>1, <3>2, <3>3, <3>4
            DEF ClientNext, GetSdrsRaises, ScanRaises, Pick, End, opVars
  <2> QED BY <2>2, <2>3, <2>4
<1>3. ASSUME NEW h \in Admin, AdminNext(h)
      PROVE  OpTypes'
  <2>1. h \in Handler
    BY DEF Handler
  <2>2. ASSUME NEW o \in Op, Goto(h, o)
        PROVE  OpTypes'
    BY <2>1, <2>2 DEF Goto
  <2>3. AskAfterStore(h) => Goto(h, NoOp)
    BY DEF AskAfterStore
  <2>4. Redirect(h) => OpTypes'
    BY DEF Redirect, opVars
  <2>5. ASSUME NEW s \in Server,
               \/ NewServer(h, s) \/ AddDb(h, s) \/ PutDb(h, s) \/ Open(h, s)
               \/ ModifyConfig(h, s) \/ ModifyDel(h, s)
               \/ DeleteConfig(h, s) \/ DeleteDb(h, s)
        PROVE  \E o \in Op : Goto(h, o)
    BY <2>5 DEF NewServer, AddDb, Open, ModifyConfig, ModifyDel, PutDb, DeleteConfig, DeleteDb
  <2> QED BY <1>3, <2>2, <2>3, <2>4, <2>5 DEF AdminNext
<1>4. ASSUME NEW h \in Handler, WaitForPoll(h)
      PROVE  OpTypes'
  BY <1>4 DEF WaitForPoll, opVars
<1> QED BY <1>1, <1>2, <1>3, <1>4 DEF Next, Handlers

LEMMA AdminTypesKept ==
  ASSUME AdminTypes, Next
  PROVE  AdminTypes'
<1> USE DEF AdminTypes, adminVars
<1>1. Poller \/ Owrx => AdminTypes'
  BY DEF Poller, Owrx
<1>2. ASSUME NEW h \in Client, ClientNext(h)
      PROVE  AdminTypes'
  BY <1>2 DEF ClientNext, GetSdrsRaises, ScanAcquire, ScanServer, ScanDone, ScanRaises, Pick
<1>3. ASSUME NEW h \in Admin, AdminNext(h)
      PROVE  AdminTypes'
  BY <1>3 DEF AdminNext, AskAfterStore, Redirect, NewServer, AddDb, Open, ModifyConfig,
              ModifyDel, PutDb, DeleteConfig, DeleteDb
<1>4. ASSUME NEW h \in Handler, WaitForPoll(h)
      PROVE  AdminTypes'
  BY <1>4 DEF WaitForPoll
<1> QED BY <1>1, <1>2, <1>3, <1>4 DEF Next, Handlers

LEMMA OwrxTypesKept ==
  ASSUME OwrxTypes, Next
  PROVE  OwrxTypes'
<1>1. UNCHANGED owrxVars => OwrxTypes'
  BY DEF OwrxTypes, owrxVars
<1>2. ASSUME NEW s \in Server, Configure(s) \/ UpdateTag(s) \/ Stop(s) \/ Restart(s)
      PROVE  OwrxTypes'
  <2>1. conf[s] \in Version /\ (conf[s] < MaxVersion => conf[s] + 1 \in Version)
    BY Bounds DEF OwrxTypes, Version
  <2> QED BY <1>2, <2>1 DEF OwrxTypes, Configure, UpdateTag, Stop, Restart
<1> QED BY <1>1, <1>2 DEF Next, Poller, Handlers, Owrx

LEMMA TypesAndDepth == Spec => [](TypeOK /\ Deepest)
<1>1. Init => TypeOK /\ Deepest
  <2> SUFFICES ASSUME Init PROVE TypeOK /\ Deepest
    OBVIOUS
  <2>1. HS!TypeOK
    BY DEF Init, HS!Init, HS!TypeOK, HS!PollerPc, HS!HandlerPc
  <2>2. PollTypes
    BY Constructors DEF Init, PollTypes, Phase, Exception
  <2>3. DepthTypes
    <3>1. 0 \in 0..MaxDepth
      BY Bounds
    <3> QED BY <3>1 DEF Init, DepthTypes
  <2>4. LockTypes /\ AdminTypes
    BY Roles DEF Init, LockTypes, AdminTypes
  <2>5. DbTypes /\ OpTypes
    BY Constructors DEF Init, DbTypes, OpTypes
  <2>6. OwrxTypes
    <3>1. 1 \in Version
      BY Bounds DEF Version
    <3> QED BY <3>1 DEF Init, OwrxTypes
  <2>7. Deepest
    BY DEF Init, Deepest, NoAnswers, NoAnswer
  <2> QED BY <2>1, <2>2, <2>3, <2>4, <2>5, <2>6, <2>7, TypeParts
<1>2. ASSUME TypeOK /\ Deepest, [Next]_vars
      PROVE  (TypeOK /\ Deepest)'
  <2>1. CASE Next
    <3>1. PollTypes' /\ DepthTypes' /\ Deepest'
      BY <1>2, <2>1, TypeParts, PollTypesKept, DepthTypesKept
         DEF Next, Handlers, Owrx, pollVars, PollTypes, DepthTypes, Deepest
    <3> QED BY <1>2, <2>1, <3>1, TypeParts, HandshakeTypes, LockTypesKept, DbTypesKept,
               AdminTypesKept, OpTypesKept, OwrxTypesKept DEF TypeOK, PollTypes, DepthTypes,
               LockTypes, DbTypes, AdminTypes, OpTypes, OwrxTypes
  <2>2. CASE UNCHANGED vars
    BY <1>2, <2>2 DEF vars, hsVars, pollVars, dbVars, adminVars, opVars, owrxVars, TypeOK,
                      HS!TypeOK, HS!PollerPc, HS!HandlerPc, Deepest
  <2> QED BY <1>2, <2>1, <2>2
<1> QED BY <1>1, <1>2, PTL DEF Spec

\* Every variable keeps its type: what the poll thread and the handlers pass
\* each other through the shared state is always well-formed; and however
\* often the tag of a server is renewed, a poll calls itself no deeper than
\* to where its requests fail.
THEOREM TypeCorrect == Spec => []TypeOK
BY TypesAndDepth, PTL

----------------------------------------------------------------------------
(* state_lock. LockOwner is inductive together with the types of op and    *)
(* with Working: the loop of run() must not begin another poll while the   *)
(* lock is held by one.                                                    *)

Working == doRun /\ (phase # "rest" => ppc \in {"first", "poll"})

LEMMA WorkingKept ==
  ASSUME Working, [Next]_vars
  PROVE  Working'
<1> USE DEF Working
<1>1. CASE Poller
  BY <1>1 DEF Poller, Acquire, Raise, CreateAcquire, CreateServer, CreatePut, CreateDone, PollServer, PollAll,
     IterationRaises, UpdateAcquire, UpdateServer, UpdateRaises, UpdateDone, UpdateNeeds,
     FetchInit, FetchInitTag, FetchRaises, FetchDone, AddAcquire, AddBuild, AddPut, AddRaises,
     AddDone, NextPoll, Acknowledge, hsVars, pollVars, HS!PollRaises, HS!PollDone,
     HS!LeaveWait, HS!CheckWake, HS!ClearWake, HS!SetWorked
<1>2. CASE Handlers
  <2>1. doRun' = doRun /\ ppc' = ppc
    <3>1. ASSUME NEW h \in Client, ClientNext(h)
          PROVE  doRun' = doRun /\ ppc' = ppc
      BY <3>1 DEF ClientNext, GetSdrsRaises, ScanAcquire, ScanServer, ScanDone, ScanRaises, Pick,
                  hsVars, HS!Request, HS!Finish
    <3>2. ASSUME NEW h \in Admin, AdminNext(h)
          PROVE  doRun' = doRun /\ ppc' = ppc
      BY <3>2 DEF AdminNext, AskAfterStore, Redirect, NewServer, AddDb, Open, ModifyConfig,
                  ModifyDel, PutDb, DeleteConfig, DeleteDb, hsVars, HS!Request, HS!Finish
    <3>3. ASSUME NEW h \in Handler, WaitForPoll(h)
          PROVE  doRun' = doRun /\ ppc' = ppc
      BY <3>3 DEF WaitForPoll, HS!EnterWait, HS!ClearWorked
    <3> QED BY <1>2, <3>1, <3>2, <3>3 DEF Handlers
  <2> QED BY <1>2, <2>1 DEF Handlers, pollVars
<1>3. CASE Owrx \/ UNCHANGED vars
  BY <1>3 DEF Owrx, vars, hsVars, pollVars
<1> QED BY <1>1, <1>2, <1>3 DEF Next

LEMMA WorkingHolds == Spec => []Working
<1>1. Init => Working
  BY DEF Init, HS!Init, Working
<1> QED BY <1>1, WorkingKept, PTL DEF Spec

\* The poll thread takes the lock when it is free, gives it back or loses it
\* when it has it, and leaves it alone otherwise.
LEMMA PollerAndLock ==
  ASSUME LockOwner, Working, Poller
  PROVE  /\ lock' = "poller" <=> phase' \in LockedPhase
         /\ \/ lock' = lock
            \/ lock = "free" /\ lock' = "poller"
            \/ lock = "poller" /\ lock' \in {"free", "lost"}
<1> USE DEF LockOwner, LockedPhase, pollVars
<1>1. CASE CreateAcquire \/ CreateDone \/ PollAll \/ IterationRaises
  BY <1>1 DEF CreateAcquire, CreateDone, PollAll, IterationRaises, Acquire, Raise
<1>2. CASE UpdateAcquire \/ UpdateDone \/ UpdateNeeds \/ FetchDone
  BY <1>2 DEF UpdateAcquire, UpdateDone, UpdateNeeds, FetchDone, Acquire
<1>3. CASE AddAcquire \/ AddDone \/ NextPoll \/ Acknowledge
  BY <1>3 DEF AddAcquire, AddDone, NextPoll, Acknowledge, Acquire, Working,
              HS!LeaveWait
<1>4. ASSUME NEW s \in Server,
             \/ CreateServer(s) \/ CreatePut(s) \/ PollServer(s) \/ UpdateServer(s) \/ UpdateRaises(s)
             \/ FetchInit(s) \/ FetchInitTag(s) \/ FetchRaises(s)
             \/ AddBuild(s) \/ AddPut(s) \/ AddRaises(s)
      PROVE  /\ lock' = "poller" <=> phase' \in LockedPhase
             /\ lock' = lock \/ (lock = "poller" /\ lock' \in {"free", "lost"})
  BY <1>4 DEF CreateServer, CreatePut, PollServer, UpdateServer, UpdateRaises, FetchInit, FetchInitTag,
              FetchRaises, AddBuild, AddPut, AddRaises, Raise
<1> QED BY <1>1, <1>2, <1>3, <1>4 DEF Poller

\* A client takes the lock when it is free, for itself, and starts to scan;
\* when it stops to scan the lock is free or lost.
LEMMA ClientAndLock ==
  ASSUME TypeOK, LockOwner, NEW h \in Client, ClientNext(h)
  PROVE  /\ \A q \in Handler \ {h} : op'[q] = op[q]
         /\ \/ lock' = lock /\ (op'[h].kind = "scan" <=> op[h].kind = "scan")
            \/ lock = "free" /\ lock' = h /\ op'[h].kind = "scan"
            \/ lock = h /\ lock' \in {"free", "lost"} /\ op'[h].kind # "scan"
<1>1. h \in Handler /\ DOMAIN op = Handler
  BY DEF Handler, TypeOK
<1>2. lock = h <=> op[h].kind = "scan"
  BY <1>1 DEF LockOwner
<1>3. CASE ScanAcquire(h)
  BY <1>1, <1>2, <1>3 DEF ScanAcquire
<1>4. ASSUME NEW s \in Server, ScanServer(h, s)
      PROVE  lock' = lock /\ op' = op
  BY <1>4 DEF ScanServer
<1>5. CASE ScanDone(h)
  BY <1>1, <1>2, <1>5 DEF ScanDone
<1>6. CASE ScanRaises(h)
  BY <1>1, <1>2, <1>6 DEF ScanRaises, End, NoOp
<1>7. CASE GetSdrsRaises(h) \/ Pick(h)
  <2>1. lock' = lock /\ op[h].kind \in {"none", "pick"} /\ \E k : End(h, k)
    BY <1>7 DEF GetSdrsRaises, Pick
  <2>2. op' = [op EXCEPT ![h] = NoOp]
    BY <2>1 DEF End
  <2> QED BY <1>1, <2>1, <2>2 DEF NoOp
<1>8. ASSUME UNCHANGED <<lock, dbVars, adminVars, opVars>>
      PROVE  lock' = lock /\ op' = op
  BY <1>8 DEF opVars
<1> QED BY <1>3, <1>4, <1>5, <1>6, <1>7, <1>8 DEF ClientNext

\* The settings pages neither take the lock nor scan.
LEMMA AdminAndLock ==
  ASSUME TypeOK, LockOwner, NEW h \in Admin, AdminNext(h)
  PROVE  /\ lock' = lock
         /\ \A q \in Handler : op'[q].kind = "scan" <=> op[q].kind = "scan"
<1>1. h \in Handler /\ DOMAIN op = Handler
  BY DEF Handler, TypeOK
<1>2. lock' = lock
  BY DEF AdminNext, AskAfterStore, Redirect, NewServer, AddDb, Open, ModifyConfig, ModifyDel,
         PutDb, DeleteConfig, DeleteDb
<1>3. ASSUME NEW o, o.kind # "scan", op[h].kind # "scan", Goto(h, o)
      PROVE  \A q \in Handler : op'[q].kind = "scan" <=> op[q].kind = "scan"
  BY <1>1, <1>3 DEF Goto
<1>4. AskAfterStore(h) => op[h].kind # "scan" /\ Goto(h, NoOp)
  BY DEF AskAfterStore, Ask
<1>5. ASSUME NEW s \in Server,
             \/ NewServer(h, s) \/ AddDb(h, s) \/ PutDb(h, s) \/ Open(h, s)
             \/ ModifyConfig(h, s) \/ ModifyDel(h, s)
             \/ DeleteConfig(h, s) \/ DeleteDb(h, s)
      PROVE  op[h].kind # "scan" /\ \E o : o.kind # "scan" /\ Goto(h, o)
  BY <1>5 DEF NewServer, AddDb, Open, ModifyConfig, ModifyDel, PutDb, DeleteConfig, DeleteDb,
              Doing, NoOp, Ask
<1>6. NoOp.kind # "scan"
  BY DEF NoOp
<1> QED BY <1>2, <1>3, <1>4, <1>5, <1>6 DEF AdminNext, Redirect, opVars

\* state_lock is held by exactly the thread between its acquire() and its
\* release(): no exception path, and no other thread, ever releases it.
THEOREM LockOwnerAlways == Spec => []LockOwner
<1>1. Init => LockOwner /\ Working
  <2>1. \A h \in Handler : h # "free"
    BY Roles
  <2> SUFFICES ASSUME Init PROVE LockOwner /\ Working
    OBVIOUS
  <2>2. \A h \in Handler : op[h] = NoOp
    BY DEF Init
  <2>3. lock = "free" /\ phase = "create_lock" /\ doRun /\ ppc = "first"
    BY DEF Init, HS!Init
  <2> QED BY <2>1, <2>2, <2>3 DEF LockOwner, LockedPhase, NoOp, Working
<1>2. ASSUME TypeOK, LockOwner, Working, [Next]_vars
      PROVE  LockOwner'
  <2> USE DEF LockOwner
  <2>1. \A h \in Handler : h \notin {"free", "poller", "lost"}
    BY Roles
  <2>2. CASE Poller
    <3>1. op' = op
      BY <2>2 DEF Poller, opVars
    <3> QED BY <1>2, <2>1, <2>2, <3>1, PollerAndLock
  <2>3. ASSUME NEW h \in Client, ClientNext(h), UNCHANGED pollVars
        PROVE  LockOwner'
    BY <1>2, <2>1, <2>3, ClientAndLock DEF pollVars, Handler
  <2>4. ASSUME NEW h \in Admin, AdminNext(h), UNCHANGED pollVars
        PROVE  LockOwner'
    BY <1>2, <2>4, AdminAndLock DEF pollVars
  <2>5. ASSUME NEW h \in Handler, WaitForPoll(h), UNCHANGED pollVars
        PROVE  LockOwner'
    BY <1>2, <2>5 DEF WaitForPoll, pollVars, opVars
  <2>6. CASE Owrx \/ UNCHANGED vars
    BY <1>2, <2>6 DEF Owrx, vars, pollVars, opVars
  <2> QED BY <1>2, <2>2, <2>3, <2>4, <2>5, <2>6 DEF Next, Handlers
<1> QED BY <1>1, <1>2, WorkingKept, TypeCorrect, PTL DEF Spec

----------------------------------------------------------------------------
(* What state_lock protects.                                               *)

\* While a client scans, only a settings page that goes on with what it is
\* doing may change the state of the servers: the poll thread waits.
THEOREM DecisionUndisturbedAlways == Spec => DecisionUndisturbed
<1>1. ASSUME TypeOK, LockOwner, [Next]_vars, lock \in Client, \A a \in Admin : op'[a] = op[a]
      PROVE  dbVars' = dbVars
  <2>1. lock \notin {"free", "poller"} /\ phase \notin LockedPhase
    BY <1>1, Roles DEF LockOwner, Handler
  <2>2. CASE Poller
    BY <2>1, <2>2 DEF Poller, LockedPhase, Acquire, CreateAcquire, CreateServer, CreatePut, CreateDone,
       PollServer, PollAll, IterationRaises, UpdateAcquire, UpdateServer, UpdateRaises,
       UpdateDone, UpdateNeeds, FetchInit, FetchInitTag, FetchRaises, FetchDone, AddAcquire,
       AddBuild, AddPut, AddRaises, AddDone, NextPoll, Acknowledge
  <2>3. ASSUME NEW h \in Client, ClientNext(h)
        PROVE  dbVars' = dbVars
    BY <2>3 DEF ClientNext, GetSdrsRaises, ScanAcquire, ScanServer, ScanDone, ScanRaises, Pick
  <2>4. ASSUME NEW h \in Admin, AdminNext(h)
        PROVE  dbVars' = dbVars
    <3>1. ASSUME NEW s \in Server, AddDb(h, s) \/ ModifyDel(h, s) \/ PutDb(h, s)
                                  \/ DeleteDb(h, s)
          PROVE  FALSE
      <4>1. h \in Handler /\ DOMAIN op = Handler
        BY <1>1 DEF Handler, TypeOK
      <4>2. op'[h] = op[h]
        BY <1>1
      <4>3. ASSUME NEW o, Goto(h, o)
            PROVE  op'[h] = o
        BY <4>1, <4>3 DEF Goto
      <4> QED BY <3>1, <4>2, <4>3 DEF AddDb, ModifyDel, PutDb, DeleteDb, Doing, Ask, NoOp
    <3> QED BY <2>4, <3>1 DEF AdminNext, AskAfterStore, Redirect, NewServer, Open, ModifyConfig,
                              DeleteConfig
  <2>5. ASSUME NEW h \in Handler, WaitForPoll(h)
        PROVE  dbVars' = dbVars
    BY <2>5 DEF WaitForPoll
  <2>6. CASE Owrx \/ UNCHANGED vars
    BY <2>6 DEF Owrx, vars
  <2> QED BY <1>1, <2>2, <2>3, <2>4, <2>5, <2>6 DEF Next, Handlers
<1>2. TypeOK /\ LockOwner /\ [Next]_vars =>
        [(lock \in Client /\ \A a \in Admin : op'[a] = op[a]) => dbVars' = dbVars]_vars
  BY <1>1
<1> QED BY <1>2, TypeCorrect, LockOwnerAlways, PTL DEF Spec, DecisionUndisturbed

----------------------------------------------------------------------------
(* Deleted servers. DeletedNeverOffered is not inductive: what matters is  *)
(* whom the poll in progress is still going to update. An entry that       *)
(* add_init_state puts back after the deletion is not among them; one that *)
(* a page puts back may be, and has no sources.                            *)

ToUpdate ==
  IF phase \in {"poll", "update_lock"} THEN seen ELSE IF phase = "update" THEN todo ELSE {}

BeingDeleted(s) == \E a \in Admin : op[a] = [kind |-> "delete_db", id |-> s]

DeletedSettled ==
  \A s \in keys \ config :
    BeingDeleted(s) \/ info[s].conf = None \/ (~info[s].responding /\ s \notin ToUpdate)

\* Steps of the poll thread that leave the entries alone.
LEMMA SettledUntouched ==
  ASSUME DeletedSettled, UNCHANGED <<keys, info, config, op>>, ToUpdate' \subseteq ToUpdate \union config
  PROVE  DeletedSettled'
BY DEF DeletedSettled, BeingDeleted

LEMMA SettledByPoller ==
  ASSUME TypeOK, DeletedSettled, Poller
  PROVE  DeletedSettled'
<1> USE DEF ToUpdate
<1>1. config' = config /\ op' = op /\ \A s : BeingDeleted(s)' <=> BeingDeleted(s)
  BY DEF Poller, adminVars, opVars, BeingDeleted
<1>2. keys \subseteq Server /\ info \in [Server -> Entry]
  BY DEF TypeOK
<1>3. NewEntry.responding = FALSE
      /\ \A t, c : [NewEntry EXCEPT !.tag = t, !.conf = c].responding = FALSE
  BY DEF NewEntry
<1>4. ASSUME UNCHANGED dbVars, ToUpdate' \subseteq ToUpdate \union config
      PROVE  DeletedSettled'
  BY <1>1, <1>4, SettledUntouched DEF dbVars
<1>5. CASE CreateAcquire
  BY <1>5 DEF CreateAcquire, DeletedSettled
<1>6. CASE CreateDone \/ PollAll \/ UpdateAcquire
  BY <1>4, <1>6 DEF CreateDone, BeginPoll, PollAll, UpdateAcquire
<1>7. CASE UpdateDone \/ UpdateNeeds \/ FetchDone \/ AddAcquire
  BY <1>4, <1>7 DEF UpdateDone, UpdateNeeds, FetchDone, AddAcquire
<1>8. CASE AddDone \/ NextPoll
  BY <1>4, <1>8 DEF AddDone, NextPoll, BeginPoll
<1>9. CASE Acknowledge
  BY <1>4, <1>9 DEF Acknowledge, pollVars
<1>10. CASE IterationRaises \/ \E s \in Server : FetchRaises(s) \/ AddRaises(s)
  BY <1>4, <1>10 DEF IterationRaises, FetchRaises, AddRaises, Raise
<1>11. ASSUME NEW s \in Server,
              \/ CreateServer(s) \/ PollServer(s) \/ FetchInit(s) \/ FetchInitTag(s) \/ AddBuild(s)
       PROVE  DeletedSettled'
  BY <1>4, <1>11 DEF CreateServer, PollServer, FetchInit, FetchInitTag, AddBuild
<1>12. ASSUME NEW s \in Server, CreatePut(s) \/ AddPut(s)
       PROVE  DeletedSettled'
  <2>1. /\ ToUpdate' = {} /\ keys' = keys \union {s}
        /\ \E e : e.responding = FALSE /\ info' = [info EXCEPT ![s] = e]
    BY <1>3, <1>12 DEF CreatePut, AddPut, Put
  <2>2. ~info'[s].responding /\ \A q \in keys \ {s} : info'[q] = info[q]
    BY <1>2, <2>1
  <2> HIDE DEF ToUpdate
  <2> QED BY <1>1, <2>1, <2>2 DEF DeletedSettled
<1>13. ASSUME NEW s \in Server, UpdateServer(s) \/ UpdateRaises(s)
       PROVE  DeletedSettled'
  <2>1. s \in ToUpdate /\ ToUpdate' \subseteq ToUpdate /\ keys' = keys
    BY <1>13 DEF UpdateServer, UpdateRaises, Raise
  <2>3. info'[s].conf = info[s].conf
    <3>1. info[s] \in Entry
      BY <1>2
    <3>2. UpdateServer(s) => info'[s].conf = info[s].conf
      BY <1>2, <3>1 DEF UpdateServer, Entry
    <3>3. UpdateRaises(s) => info'[s].conf = info[s].conf
      BY <1>2, <3>1 DEF UpdateRaises, Entry
    <3> QED BY <1>13, <3>2, <3>3
  <2>2. \A q \in keys \ {s} : info'[q] = info[q]
    BY <1>2, <1>13 DEF UpdateServer, UpdateRaises
  <2> HIDE DEF ToUpdate
  <2> QED BY <1>1, <2>1, <2>2, <2>3 DEF DeletedSettled
<1> QED BY <1>5, <1>6, <1>7, <1>8, <1>9, <1>10, <1>11, <1>12, <1>13 DEF Poller

LEMMA SettledByAdmin ==
  ASSUME TypeOK, DeletedSettled, NEW h \in Admin, AdminNext(h), UNCHANGED pollVars
  PROVE  DeletedSettled'
<1>1. ToUpdate' = ToUpdate
  BY DEF ToUpdate, pollVars
<1>2. keys \subseteq Server /\ info \in [Server -> Entry] /\ DOMAIN op = Handler /\ h \in Handler
  BY DEF TypeOK, Handler
<1>3. NewEntry.conf = None
  BY DEF NewEntry
\* What an administrator does not delete stays in deletion by another.
<1>4. ASSUME NEW s, BeingDeleted(s), NEW o, Goto(h, o),
             op[h] # [kind |-> "delete_db", id |-> s]
      PROVE  BeingDeleted(s)'
  BY <1>2, <1>4 DEF BeingDeleted, Goto, Handler
<1>5. ASSUME NEW o, Goto(h, o), \A s : op[h] # [kind |-> "delete_db", id |-> s],
             config \subseteq config', UNCHANGED dbVars
      PROVE  DeletedSettled'
  BY <1>1, <1>4, <1>5 DEF DeletedSettled, dbVars
<1>6. CASE Redirect(h)
  BY <1>1, <1>6 DEF Redirect, dbVars, adminVars, opVars, DeletedSettled, BeingDeleted
<1>7. CASE AskAfterStore(h)
  BY <1>5, <1>7 DEF AskAfterStore, Ask, adminVars
<1>8. ASSUME NEW s \in Server,
             NewServer(h, s) \/ AddDb(h, s) \/ Open(h, s) \/ ModifyConfig(h, s)
      PROVE  DeletedSettled'
  BY <1>5, <1>8 DEF NewServer, AddDb, Open, ModifyConfig, adminVars, NoOp, Doing
<1>9. ASSUME NEW s \in Server, PutDb(h, s)
      PROVE  DeletedSettled'
  <2>1. /\ \A q : op[h] # [kind |-> "delete_db", id |-> q]
        /\ \E o : Goto(h, o)
        /\ config' = config /\ Put(s, NewEntry)
    BY <1>9 DEF PutDb, Doing, adminVars
  <2>2. /\ keys' = keys \union {s} /\ \A q \in keys \ {s} : info'[q] = info[q]
        /\ info'[s].conf = None
    BY <1>2, <1>3, <2>1 DEF Put
  <2> QED BY <1>1, <1>4, <2>1, <2>2 DEF DeletedSettled
<1>10. ASSUME NEW s \in Server, ModifyDel(h, s)
       PROVE  DeletedSettled'
  <2>1. /\ \A q : op[h] # [kind |-> "delete_db", id |-> q]
        /\ \E o : Goto(h, o)
        /\ config' = config
    BY <1>10 DEF ModifyDel, Doing, adminVars
  <2>2. CASE s \in keys
    <3>1. RemoveEntry(s)
      BY <1>10, <2>2 DEF ModifyDel
    <3>2. keys' = keys \ {s} /\ \A q \in keys \ {s} : info'[q] = info[q]
      BY <1>2, <3>1 DEF RemoveEntry
    <3> QED BY <1>1, <1>4, <2>1, <3>2 DEF DeletedSettled
  <2>3. CASE s \notin keys
    <3>1. UNCHANGED dbVars
      BY <1>10, <2>3 DEF ModifyDel
    <3> QED BY <1>5, <2>1, <3>1
  <2> QED BY <2>2, <2>3
<1>11. ASSUME NEW s \in Server, DeleteConfig(h, s)
       PROVE  DeletedSettled'
  <2>1. \A q : op[h] # [kind |-> "delete_db", id |-> q]
    BY <1>11 DEF DeleteConfig, Doing
  <2>2. UNCHANGED <<keys, info>> /\ config' = config \ {s} /\ \E o : Goto(h, o)
    BY <1>11 DEF DeleteConfig, dbVars
  <2>3. s \in config => BeingDeleted(s)'
    <3>1. s \in config => op' = [op EXCEPT ![h] = [kind |-> "delete_db", id |-> s]]
      BY <1>11 DEF DeleteConfig, Goto
    <3> QED BY <1>2, <3>1 DEF BeingDeleted
  <2> QED BY <1>1, <1>4, <2>1, <2>2, <2>3 DEF DeletedSettled
<1>12. ASSUME NEW s \in Server, DeleteDb(h, s)
       PROVE  DeletedSettled'
  <2>1. /\ \A q : op[h] = [kind |-> "delete_db", id |-> q] => q = s
        /\ Goto(h, NoOp) /\ config' = config
    BY <1>12 DEF DeleteDb, Doing, adminVars
  <2>2. keys' = keys \ {s} /\ \A q \in keys \ {s} : info'[q] = info[q]
    BY <1>2, <1>12 DEF DeleteDb, RemoveEntry, dbVars
  <2> QED BY <1>1, <1>4, <2>1, <2>2 DEF DeletedSettled
<1> QED BY <1>6, <1>7, <1>8, <1>9, <1>10, <1>11, <1>12 DEF AdminNext

LEMMA SettledByClient ==
  ASSUME TypeOK, DeletedSettled, NEW h \in Client, ClientNext(h), UNCHANGED pollVars
  PROVE  DeletedSettled'
<1>1. ToUpdate' = ToUpdate
  BY DEF ToUpdate, pollVars
<1>2. UNCHANGED <<keys, info, config>>
  BY DEF ClientNext, GetSdrsRaises, ScanAcquire, ScanServer, ScanDone, ScanRaises, Pick, dbVars,
         adminVars
<1>3. \A a \in Admin : op'[a] = op[a]
  <2>1. op' = op \/ \E o : op' = [op EXCEPT ![h] = o]
    BY DEF ClientNext, GetSdrsRaises, ScanAcquire, ScanServer, ScanDone, ScanRaises, Pick, End,
           opVars
  <2>2. DOMAIN op = Handler /\ h \notin Admin
    BY Roles DEF TypeOK
  <2> QED BY <2>1, <2>2 DEF Handler
<1> QED BY <1>1, <1>2, <1>3 DEF DeletedSettled, BeingDeleted

\* However deletions, edits, polls and late answers of the deleted server
\* interleave, between any two statements of the pages and of the poll: once
\* its page has finished, what is left of it in servers_state_db does not
\* respond or has no sources, so no browser is sent there.
THEOREM DeletedNeverOfferedAlways == Spec => []DeletedNeverOffered
<1>1. Init => DeletedSettled
  BY DEF Init, DeletedSettled
<1>2. ASSUME TypeOK, DeletedSettled, [Next]_vars
      PROVE  DeletedSettled'
  <2>1. ASSUME UNCHANGED <<pollVars, dbVars, adminVars, opVars>>
        PROVE  DeletedSettled'
    BY <1>2, <2>1 DEF pollVars, dbVars, adminVars, opVars, DeletedSettled, ToUpdate, BeingDeleted
  <2>2. ASSUME NEW h \in Handler, WaitForPoll(h), UNCHANGED pollVars
        PROVE  DeletedSettled'
    BY <2>1, <2>2 DEF WaitForPoll
  <2>3. CASE Owrx \/ UNCHANGED vars
    BY <2>1, <2>3 DEF Owrx, vars
  <2> QED BY <1>2, <2>2, <2>3, SettledByPoller, SettledByAdmin, SettledByClient
          DEF Next, Handlers
<1>3. ASSUME DeletedSettled
      PROVE  DeletedNeverOffered
  <2>1. ASSUME NEW s, BeingDeleted(s)
        PROVE  \E a \in Admin : "id" \in DOMAIN op[a] /\ op[a].id = s
    <3>1. "id" \in DOMAIN [kind |-> "delete_db", id |-> s]
          /\ [kind |-> "delete_db", id |-> s].id = s
      OBVIOUS
    <3> QED BY <2>1, <3>1, Zenon DEF BeingDeleted
  <2> QED BY <1>3, <2>1 DEF DeletedSettled, DeletedNeverOffered
<1> QED BY <1>1, <1>2, <1>3, TypeCorrect, PTL DEF Spec

----------------------------------------------------------------------------
(* The poll thread without settings pages at work. No key comes or goes    *)
(* but in create_init_state, so that no loop meets a resized dict and no   *)
(* lookup a server that is not there.                                      *)

Calm ==
  /\ keys \subseteq config /\ seen \subseteq config /\ todo \subseteq config
  /\ need \subseteq config
  /\ phase \in {"create", "create_put", "poll"} => start = config
  /\ phase \in {"create", "create_put"} => seen \subseteq keys
  /\ phase \notin {"create_lock", "create", "create_put"} => keys = config
  /\ raised # "" => phase = "rest" /\ ppc = "dead"
  /\ \A h \in Client : op[h].kind = "scan" => scan[h].start = keys

\* The entry that ends a decision: a current state that does not fit the
\* initial state it was filed with.
Inconsistent == \E s \in keys : info[s].now \notin {None, info[s].conf}

LEMMA SameKeys ==
  ASSUME NEW S
  PROVE  ~Resized(S, S)
BY DEF Resized

\* Only one exception can end the poll while it holds the lock.
LEMMA CalmByPoller ==
  ASSUME TypeOK, LockOwner, Working, Calm, Poller
  PROVE  Calm' /\ (PollerSurvives => PollerSurvives')
<1> USE DEF Calm, PollerSurvives, LockedPhase
<1>1. config' = config /\ op' = op /\ scan' = scan
  BY DEF Poller, adminVars, opVars
<1>2. phase \in LockedPhase => lock = "poller"
  BY DEF LockOwner
<1>3. lock \in {"free", "poller"} => \A h \in Client : op[h].kind # "scan"
  BY Roles DEF LockOwner, Handler
<1>4. ASSUME UNCHANGED <<keys, info, raised>>, lock' # "lost" \/ lock' = lock,
             raised = ""
      PROVE  PollerSurvives => PollerSurvives'
  BY <1>4
<1>5. CASE CreateAcquire
  BY <1>1, <1>3, <1>5 DEF CreateAcquire, Acquire
<1>6. ASSUME NEW s \in Server, CreateServer(s)
      PROVE  Calm' /\ (PollerSurvives => PollerSurvives')
  BY <1>1, <1>2, <1>3, <1>6 DEF CreateServer, dbVars, hsVars
<1>7. CASE CreateDone
  BY <1>1, <1>4, <1>7 DEF CreateDone, BeginPoll, dbVars, hsVars
<1>8. ASSUME NEW s \in Server, PollServer(s) \/ FetchInit(s) \/ FetchInitTag(s) \/ AddBuild(s)
      PROVE  Calm' /\ (PollerSurvives => PollerSurvives')
  BY <1>1, <1>4, <1>8 DEF PollServer, FetchInit, FetchInitTag, AddBuild, dbVars, hsVars
<1>9. CASE PollAll \/ FetchDone \/ UpdateAcquire \/ AddAcquire
  BY <1>1, <1>4, <1>9 DEF PollAll, FetchDone, UpdateAcquire, AddAcquire, Acquire, dbVars, hsVars
<1>10. ~IterationRaises
  BY SameKeys DEF IterationRaises
<1>11. ASSUME NEW s \in Server, UpdateServer(s)
       PROVE  Calm' /\ (PollerSurvives => PollerSurvives')
  BY <1>1, <1>2, <1>11 DEF UpdateServer, hsVars
<1>12. ASSUME NEW s \in Server, UpdateRaises(s)
       PROVE  Calm' /\ (PollerSurvives => PollerSurvives')
  <2>1. s \in keys /\ Raise("KeyError sdr") /\ keys' = keys
    BY <1>12 DEF UpdateRaises
  <2>2. /\ phase' = "rest" /\ raised' = "KeyError sdr" /\ ppc' = "dead"
        /\ start' = {} /\ seen' = {} /\ todo' = {} /\ need' = {}
        /\ phase = "update"
    BY <1>12, <2>1 DEF UpdateRaises, Raise, HS!PollRaises
  <2>3. Calm'
    BY <1>1, <2>1, <2>2
  <2>4. PollerSurvives'
    BY <2>2
  <2> QED BY <2>3, <2>4
<1>13. CASE UpdateDone \/ UpdateNeeds
  BY <1>1, <1>4, <1>13 DEF UpdateDone, UpdateNeeds, dbVars, hsVars
<1>14. ASSUME NEW s \in Server
       PROVE  ~FetchRaises(s) /\ ~AddRaises(s)
  BY DEF FetchRaises, AddRaises
<1>15. ASSUME NEW s \in Server, AddPut(s)
       PROVE  Calm' /\ (PollerSurvives => PollerSurvives')
  BY <1>1, <1>2, <1>3, <1>15 DEF AddPut, Put, hsVars
<1>16. CASE AddDone
  BY <1>1, <1>4, <1>16 DEF AddDone, BeginPoll, dbVars, hsVars
<1>17. ASSUME NEW s \in Server, CreatePut(s)
      PROVE  Calm' /\ (PollerSurvives => PollerSurvives')
  BY <1>1, <1>2, <1>3, <1>17 DEF CreatePut, Put, hsVars
<1>18. CASE NextPoll
  <2>1. /\ phase' = "poll" /\ start' = config /\ seen' = {} /\ ppc = "wait"
        /\ UNCHANGED <<todo, need, raised, lock, keys, info>>
    BY <1>18 DEF NextPoll, BeginPoll, HS!LeaveWait, dbVars
  <2>2. raised = "" /\ phase = "rest"
    BY <1>18, <2>1 DEF NextPoll, Working
  <2>3. Calm'
    BY <1>1, <2>1, <2>2
  <2> QED BY <1>4, <2>1, <2>2, <2>3
<1>19. CASE Acknowledge
  BY <1>1, <1>4, <1>19 DEF Acknowledge, HS!CheckWake, HS!ClearWake, HS!SetWorked, pollVars, dbVars
<1> QED BY <1>5, <1>6, <1>7, <1>8, <1>9, <1>10, <1>11, <1>12, <1>13, <1>14, <1>15, <1>16, <1>17,
           <1>18, <1>19 DEF Poller

LEMMA CalmByClient ==
  ASSUME Admin = {}, ~StaleProfile, TypeOK, Calm, NEW h \in Client, ClientNext(h),
         UNCHANGED pollVars
  PROVE  Calm' /\ (PollerSurvives => PollerSurvives')
<1>1. UNCHANGED <<pollVars, dbVars, adminVars, ppc>>
  BY DEF ClientNext, GetSdrsRaises, ScanAcquire, ScanServer, ScanDone, ScanRaises, Pick, hsVars,
         HS!Request, HS!Finish
<1>2. h \in Handler /\ DOMAIN op = Handler /\ DOMAIN scan = Client
      /\ scan \in [Client -> Scan]
  BY DEF TypeOK, Handler
<1>3. \A q \in Client \ {h} : op'[q] = op[q] /\ scan'[q] = scan[q]
  BY <1>2 DEF ClientNext, GetSdrsRaises, ScanAcquire, ScanServer, ScanDone, ScanRaises, Pick, End,
              opVars, Handler
<1>4. op'[h].kind = "scan" => scan'[h].start = keys
  <2>1. CASE ScanAcquire(h)
    BY <1>2, <2>1 DEF ScanAcquire, NoScan
  <2>2. ASSUME NEW s \in Server, ScanServer(h, s)
        PROVE  op' = op /\ scan'[h].start = scan[h].start
    BY <1>2, <2>2 DEF ScanServer, Scan
  <2>3. CASE ScanDone(h)
    BY <1>2, <2>3 DEF ScanDone
  <2>4. CASE ScanRaises(h) \/ Pick(h) \/ GetSdrsRaises(h)
    <3>1. op' = [op EXCEPT ![h] = NoOp]
      BY <2>4 DEF ScanRaises, Pick, GetSdrsRaises, End
    <3> QED BY <1>2, <3>1 DEF NoOp
  <2>5. ASSUME UNCHANGED opVars
        PROVE  op' = op /\ scan' = scan
    BY <2>5 DEF opVars
  <2> QED BY <2>1, <2>2, <2>3, <2>4, <2>5 DEF ClientNext, Calm
<1>5. Calm'
  BY <1>1, <1>3, <1>4 DEF Calm, pollVars, dbVars, adminVars
<1>6. lock' = "lost" => lock = "lost" \/ Inconsistent
  <2>1. CASE ScanRaises(h)
    <3>1. scan[h].start = keys
      BY <2>1 DEF ScanRaises, Calm
    <3> QED BY <2>1, <3>1, SameKeys DEF ScanRaises, Inconsistent
  <2>2. CASE ~ScanRaises(h)
    BY <1>2, <2>2, Roles DEF ClientNext, GetSdrsRaises, ScanAcquire, ScanServer, ScanDone, Pick
  <2> QED BY <2>1, <2>2
<1> QED BY <1>1, <1>5, <1>6 DEF PollerSurvives, Inconsistent, pollVars, dbVars

\* Without settings pages at work, and with profiles that exist: whatever
\* the servers answer or do not, however requests come and however deep the
\* poll calls itself, the poll thread ends only by the torn read of a
\* configuration and its tag, and state_lock is lost only to that.
THEOREM PollerSurvivesAlways ==
  ASSUME Admin = {}, ~StaleProfile
  PROVE  Spec => []PollerSurvives
<1>1. Init => Calm /\ PollerSurvives
  <2> SUFFICES ASSUME Init PROVE Calm /\ PollerSurvives
    OBVIOUS
  <2>1. \A h \in Client : op[h] = NoOp
    BY DEF Init, Handler
  <2>2. /\ keys = {} /\ seen = {} /\ todo = {} /\ need = {} /\ phase = "create_lock"
        /\ raised = ""
    BY DEF Init
  <2>3. \A h \in Client : op[h].kind # "scan"
    BY <2>1 DEF NoOp
  <2>4. Calm
    BY <2>2, <2>3 DEF Calm
  <2> QED BY <2>4 DEF Init, PollerSurvives
<1>2. ASSUME TypeOK, LockOwner, Working, Calm, PollerSurvives, [Next]_vars
      PROVE  Calm' /\ PollerSurvives'
  <2>1. ASSUME UNCHANGED <<pollVars, dbVars, adminVars, opVars, lock, ppc>>
        PROVE  Calm' /\ PollerSurvives'
    BY <1>2, <2>1 DEF pollVars, dbVars, adminVars, opVars, Calm, PollerSurvives
  <2>2. ASSUME NEW h \in Handler, WaitForPoll(h), UNCHANGED pollVars
        PROVE  Calm' /\ PollerSurvives'
    BY <2>1, <2>2 DEF WaitForPoll, HS!EnterWait, HS!ClearWorked
  <2>3. CASE Owrx \/ UNCHANGED vars
    BY <2>1, <2>3 DEF Owrx, vars, hsVars
  <2> QED BY <1>2, <2>2, <2>3, CalmByPoller, CalmByClient DEF Next, Handlers
<1> QED BY <1>1, <1>2, TypeCorrect, LockOwnerAlways, WorkingHolds, PTL DEF Spec
============================================================================

---------------------------- MODULE LoadBalancer ----------------------------
(***************************************************************************)
(* The load balancer process: the poll thread (receivestate.py), the state *)
(* it keeps of the OpenWebRX servers (distribution.py), the list of the    *)
(* registered servers (config/dynamic.py), the HTTP handlers that decide   *)
(* for a browser (controllers/assets.py) or edit the list                  *)
(* (controllers/settings/servers.py), and the servers' side of the poll    *)
(* (owrx/controllers/state.py).                                            *)
(*                                                                         *)
(* state_lock is taken with acquire() and given back with release(), not   *)
(* in a with block: an exception in between leaves it locked for good.     *)
(* The dicts are iterated live: a change of their size raises RuntimeError *)
(* at the next step of the loop.                                           *)
(***************************************************************************)
EXTENDS Naturals, FiniteSets

CONSTANTS
  Server,         \* the ids a server may have
  Registered,     \* those registered when the program starts
  Client, Admin,  \* handlers that decide, handlers that edit the servers
  MaxVersion,     \* bound: configurations a server goes through
  MaxDepth,       \* bound: nested calls of the poll that leave room for a request
                  \* under Python's recursion limit
  Lossy,          \* whether a request to a running server may fail
  StaleProfile,   \* whether the profile a browser selects may be deleted before
                  \* the decision, or may not be named in the query
  Fits(_, _)      \* Fits(c, d): every source that runs in configuration d of
                  \* a server is listed in configuration c

Handler == Client \union Admin

ASSUME Roles ==
  /\ Registered \subseteq Server
  /\ Client \intersect Admin = {}
  /\ Handler \intersect {"free", "poller", "lost"} = {}
ASSUME Bounds ==
  /\ MaxVersion \in Nat \ {0} /\ MaxDepth \in Nat
  /\ Lossy \in BOOLEAN /\ StaleProfile \in BOOLEAN

VARIABLES
  wake, worked, doRun, ppc, hpc,   \* see WakeHandshake; shutdown() is left to it
  phase,      \* where in a poll the poll thread is
  start,      \* the keys a live iteration started with
  seen,       \* ... and those it has visited
  todo,       \* the keys a loop over a private dict has yet to visit
  resp,       \* the answers to /curstate.json, by server
  need,       \* the servers whose initial state is to be fetched
  inits,      \* the answers to /initstate.json, by server
  depth,      \* nested calls of receive_cur_servers_state
  raised,     \* the exception that ended the poll thread
  lock,       \* state_lock: "free", its owner, or "lost" to an exception
  keys, info, \* servers_state_db: its keys and what it holds under them
  config,     \* the keys of DynamicConfig's servers
  gone,       \* the ids of deleted servers; a new server has a new uuid
  op,         \* per handler: what it is doing outside the handshake
  scan,       \* per client: the loop of decision_algorithm
  reply,      \* per client: its last answer
  up, conf, tag  \* per server: running, SDR configuration, init_state_tag

HS == INSTANCE WakeHandshake

hsVars    == <<wake, worked, doRun, ppc, hpc>>
pollVars  == <<phase, start, seen, todo, resp, need, inits, depth, raised>>
dbVars    == <<keys, info>>
adminVars == <<config, gone>>
opVars    == <<op, scan, reply>>
owrxVars  == <<up, conf, tag>>
vars == <<hsVars, pollVars, lock, dbVars, adminVars, opVars, owrxVars>>

----------------------------------------------------------------------------
Version == 1..MaxVersion
None    == 0                  \* no tag, no configuration
VersionOrNone == 0..MaxVersion

\* distribution.ServerInfo. conf stands for the sdrs dict, cur and now for the
\* part of it that update_cur fills in: the tag of the response it came from,
\* and the configuration of the server at that time.
Entry == [responding : BOOLEAN, tag : VersionOrNone, conf : VersionOrNone,
          cur : VersionOrNone, now : VersionOrNone]
NewEntry == [responding |-> FALSE, tag |-> None, conf |-> None, cur |-> None,
             now |-> None]

Answer   == [ok : BOOLEAN, tag : VersionOrNone, conf : VersionOrNone]
NoAnswer == [ok |-> FALSE, tag |-> None, conf |-> None]
NoAnswers == [s \in Server |-> NoAnswer]

Phase == {"create_lock", "create", "create_put", "poll", "update_lock", "update",
          "init", "init_tag", "add_lock", "add", "add_put", "rest"}
LockedPhase == {"create", "create_put", "update", "add", "add_put"}

NoOp == [kind |-> "none"]
Op   == [kind : {"none", "scan", "pick", "ask"}] \union
        [kind : {"modify", "modify_del", "add_db", "put", "delete", "delete_db"}, id : Server]
Scan == [start : SUBSET Server, seen : SUBSET Server,
         match : SUBSET [id : Server, conf : VersionOrNone]]
NoScan == [start |-> {}, seen |-> {}, match |-> {}]

Exception == {"", "RuntimeError", "KeyError server", "KeyError sdr", "AttributeError"}

TypeOK ==
  /\ HS!TypeOK
  /\ phase \in Phase
  /\ start \subseteq Server /\ seen \subseteq Server /\ todo \subseteq Server
  /\ resp \in [Server -> Answer]
  /\ need \subseteq Server
  /\ inits \in [Server -> Answer]
  /\ depth \in 0..MaxDepth
  /\ raised \in Exception
  /\ lock \in {"free", "poller", "lost"} \union Handler
  /\ keys \subseteq Server
  /\ info \in [Server -> Entry]
  /\ config \subseteq Server /\ gone \subseteq Server
  /\ op \in [Handler -> Op]
  /\ scan \in [Client -> Scan]
  /\ reply \in [Client -> {"", "error", "no sdr", "server"}]
  /\ up \in [Server -> BOOLEAN]
  /\ conf \in [Server -> Version] /\ tag \in [Server -> Version]

Init ==
  /\ HS!Init
  /\ phase = "create_lock"
  /\ start = {} /\ seen = {} /\ todo = {} /\ need = {}
  /\ resp = NoAnswers /\ inits = NoAnswers
  /\ depth = 0 /\ raised = ""
  /\ lock = "free"
  /\ keys = {} /\ info = [s \in Server |-> NewEntry]
  /\ config = Registered /\ gone = {}
  /\ op = [h \in Handler |-> NoOp]
  /\ scan = [h \in Client |-> NoScan] /\ reply = [h \in Client |-> ""]
  /\ up \in [Server -> BOOLEAN]
  /\ conf = [s \in Server |-> 1] /\ tag = [s \in Server |-> 1]

----------------------------------------------------------------------------
(* Steps that several actions share.                                       *)

Put(s, e) == keys' = keys \union {s} /\ info' = [info EXCEPT ![s] = e]
RemoveEntry(s) == keys' = keys \ {s} /\ info' = [info EXCEPT ![s] = NewEntry]

\* A live iteration over the keys of a dict.
Resized(from, now) == Cardinality(from) # Cardinality(now)

\* An exception ends the poll thread; state_lock stays locked if it held it.
Raise(e) ==
  /\ HS!PollRaises
  /\ raised' = e
  /\ phase' = "rest"
  /\ lock' = IF phase \in LockedPhase THEN "lost" ELSE lock
  /\ start' = {} /\ seen' = {} /\ todo' = {} /\ need' = {}
  /\ resp' = NoAnswers /\ inits' = NoAnswers /\ depth' = 0

\* receive_cur_servers_state is entered.
BeginPoll ==
  /\ start' = config /\ seen' = {}
  /\ resp' = NoAnswers

Acquire == lock = "free" /\ lock' = "poller"

----------------------------------------------------------------------------
(* The poll thread: Distribution.create_init_state.                        *)

CreateAcquire ==
  /\ phase = "create_lock" /\ Acquire
  /\ phase' = "create"
  /\ keys' = {} /\ info' = [s \in Server |-> NewEntry]
  /\ start' = config /\ seen' = {}
  /\ UNCHANGED <<todo, resp, need, inits, depth, raised, hsVars>>

\* ServerInfo(server_id) of the next server ...
CreateServer(s) ==
  /\ phase = "create" /\ ~Resized(start, config)
  /\ s \in config \ seen
  /\ phase' = "create_put" /\ todo' = {s}
  /\ UNCHANGED <<start, seen, resp, need, inits, depth, raised, lock, dbVars, hsVars>>

\* Mutant: a server that does not answer gets no entry.
CreatePutUp(s) ==
  /\ phase = "create_put" /\ s \in todo
  /\ phase' = "create" /\ todo' = {}
  /\ seen' = seen \union {s}
  /\ IF up[s] THEN Put(s, NewEntry) ELSE UNCHANGED dbVars
  /\ UNCHANGED <<start, resp, need, inits, depth, raised, lock, hsVars>>

\* ... is filed.
CreatePut(s) ==
  /\ phase = "create_put" /\ s \in todo
  /\ phase' = "create" /\ todo' = {}
  /\ seen' = seen \union {s}
  /\ Put(s, NewEntry)
  /\ UNCHANGED <<start, resp, need, inits, depth, raised, lock, hsVars>>

CreateDone ==
  /\ phase = "create" /\ ~Resized(start, config) /\ config \subseteq seen
  /\ lock' = "free"
  /\ phase' = "poll" /\ BeginPoll
  /\ UNCHANGED <<todo, need, inits, depth, raised, dbVars, hsVars>>

(* receive_cur_servers_state.                                              *)

\* GET /curstate.json of the next server. A server that is down or slow is
\* one that does not answer; and so is every server to a poll that has called
\* itself so often that requests.get(), which nests far deeper than all else
\* a poll calls, meets the recursion limit: the bare except takes any error.
PollServer(s) ==
  /\ phase = "poll" /\ ~Resized(start, config)
  /\ s \in config \ seen
  /\ seen' = seen \union {s}
  /\ \E a \in {NoAnswer, [ok |-> TRUE, tag |-> tag[s], conf |-> conf[s]]} :
       /\ IF a.ok THEN up[s] /\ depth < MaxDepth ELSE ~up[s] \/ Lossy \/ depth = MaxDepth
       /\ resp' = [resp EXCEPT ![s] = a]
  /\ UNCHANGED <<phase, start, todo, need, inits, depth, raised, lock, dbVars, hsVars>>

PollAll ==
  /\ phase = "poll" /\ ~Resized(start, config) /\ config \subseteq seen
  /\ phase' = "update_lock"
  /\ UNCHANGED <<start, seen, todo, resp, need, inits, depth, raised, lock, dbVars, hsVars>>

\* DynamicConfig's servers were resized under either live loop.
IterationRaises ==
  /\ phase \in {"create", "poll"} /\ Resized(start, config)
  /\ Raise("RuntimeError")
  /\ UNCHANGED dbVars

(* Distribution.update_cur_state.                                          *)

\* Mutant: the entries are updated without the lock.
UpdateUnlocked ==
  /\ phase = "update_lock"
  /\ phase' = "update"
  /\ todo' = seen /\ need' = {}
  /\ start' = {} /\ seen' = {}
  /\ UNCHANGED <<resp, inits, depth, raised, lock, dbVars, hsVars>>

UpdateAcquire ==
  /\ phase = "update_lock" /\ Acquire
  /\ phase' = "update"
  /\ todo' = seen /\ need' = {}
  /\ start' = {} /\ seen' = {}
  /\ UNCHANGED <<resp, inits, depth, raised, dbVars, hsVars>>

\* Mutant: a server that no longer answers is left as it was.
UpdateIfOk(s) ==
  /\ phase = "update" /\ s \in todo \intersect keys
  /\ todo' = todo \ {s}
  /\ LET a == resp[s]
         known == a.ok /\ a.tag = info[s].tag
     IN  /\ info' = [info EXCEPT ![s].responding = a.ok \/ @,
                                 ![s].cur = IF known THEN a.tag ELSE @,
                                 ![s].now = IF known THEN a.conf ELSE @]
         /\ need' = IF a.ok /\ ~known THEN need \union {s} ELSE need
  /\ UNCHANGED <<phase, start, seen, resp, inits, depth, raised, lock, keys, hsVars>>

\* ServerInfo.update_cur, and SdrInfo.update_cur of every source when the
\* tag is the known one.
UpdateServer(s) ==
  /\ phase = "update" /\ s \in todo \intersect keys
  /\ todo' = todo \ {s}
  /\ LET a == resp[s]
         known == a.ok /\ a.tag = info[s].tag
     IN  /\ known => Fits(info[s].conf, a.conf)
         /\ info' = [info EXCEPT ![s].responding = a.ok,
                                 ![s].cur = IF known THEN a.tag ELSE @,
                                 ![s].now = IF known THEN a.conf ELSE @]
         /\ need' = IF a.ok /\ ~known THEN need \union {s} ELSE need
  /\ UNCHANGED <<phase, start, seen, resp, inits, depth, raised, lock, keys, hsVars>>

\* servers_state_db[server_id], or sdrs[sdr_id] in it, is not there.
UpdateRaises(s) ==
  /\ phase = "update" /\ s \in todo
  /\ \/ s \notin keys /\ Raise("KeyError server") /\ UNCHANGED info
     \/ /\ s \in keys /\ resp[s].ok /\ resp[s].tag = info[s].tag
        /\ ~Fits(info[s].conf, resp[s].conf)
        /\ Raise("KeyError sdr")
        /\ info' = [info EXCEPT ![s].responding = TRUE]
  /\ UNCHANGED keys

\* Released with nothing to fetch: every nested call returns.
UpdateDone ==
  /\ phase = "update" /\ todo = {} /\ need = {}
  /\ HS!PollDone
  /\ lock' = "free" /\ phase' = "rest" /\ depth' = 0
  /\ resp' = NoAnswers
  /\ UNCHANGED <<start, seen, todo, need, inits, raised, dbVars>>

UpdateNeeds ==
  /\ phase = "update" /\ todo = {} /\ need # {}
  /\ lock' = "free" /\ phase' = "init"
  /\ todo' = need
  /\ resp' = NoAnswers /\ inits' = NoAnswers
  /\ UNCHANGED <<start, seen, need, depth, raised, dbVars, hsVars>>

(* receive_init_servers_state.                                             *)

\* GET /initstate.json: the server copies its SDRs first ... The request is
\* made one call deeper than the poll's.
FetchInit(s) ==
  /\ phase = "init" /\ s \in todo \intersect config
  /\ \/ /\ up[s]
        /\ inits' = [inits EXCEPT ![s].conf = conf[s]]
        /\ phase' = "init_tag" /\ UNCHANGED todo
     \/ /\ ~up[s] \/ Lossy \/ depth + 1 >= MaxDepth
        /\ todo' = todo \ {s} /\ UNCHANGED <<inits, phase>>
  /\ UNCHANGED <<start, seen, resp, need, depth, raised, lock, dbVars, hsVars>>

\* ... and reads init_state_tag after that.
FetchInitTag(s) ==
  /\ phase = "init_tag" /\ s \in todo /\ inits[s].conf # None
  /\ inits' = [inits EXCEPT ![s] = IF up[s] THEN [@ EXCEPT !.ok = TRUE, !.tag = tag[s]]
                                   ELSE NoAnswer]
  /\ todo' = todo \ {s} /\ phase' = "init"
  /\ UNCHANGED <<start, seen, resp, need, depth, raised, lock, dbVars, hsVars>>

FetchRaises(s) ==
  /\ phase = "init" /\ s \in todo \ config
  /\ Raise("KeyError server")
  /\ UNCHANGED dbVars

FetchDone ==
  /\ phase = "init" /\ todo = {}
  /\ phase' = "add_lock"
  /\ UNCHANGED <<start, seen, todo, resp, need, inits, depth, raised, lock, dbVars, hsVars>>

(* Distribution.add_init_state.                                            *)

AddAcquire ==
  /\ phase = "add_lock" /\ Acquire
  /\ phase' = "add" /\ todo' = need
  /\ UNCHANGED <<start, seen, resp, need, inits, depth, raised, dbVars, hsVars>>

\* ServerInfo(server_id) reads the registered server ...
AddBuild(s) ==
  /\ phase = "add" /\ s \in todo \intersect config
  /\ phase' = "add_put" /\ seen' = {s}
  /\ UNCHANGED <<start, todo, resp, need, inits, depth, raised, lock, dbVars, hsVars>>

\* ... and the finished entry replaces the old one.
AddPut(s) ==
  /\ phase = "add_put" /\ s \in seen
  /\ Put(s, IF inits[s].ok
            THEN [NewEntry EXCEPT !.tag = inits[s].tag, !.conf = inits[s].conf]
            ELSE NewEntry)
  /\ phase' = "add" /\ todo' = todo \ {s} /\ seen' = {}
  /\ UNCHANGED <<start, resp, need, inits, depth, raised, lock, hsVars>>

\* ServerInfo(server_id) of a server deleted since: None has no name.
AddRaises(s) ==
  /\ phase = "add" /\ s \in todo \ config
  /\ Raise("AttributeError")
  /\ UNCHANGED dbVars

\* Released; receive_cur_servers_state calls itself.
AddDone ==
  /\ phase = "add" /\ todo = {}
  /\ lock' = "free" /\ phase' = "poll" /\ depth' = depth + 1
  /\ BeginPoll
  /\ need' = {} /\ inits' = NoAnswers
  /\ UNCHANGED <<todo, raised, dbVars, hsVars>>

(* run(): the loop around the polls.                                       *)

NextPoll ==
  /\ HS!LeaveWait
  /\ phase' = "poll" /\ BeginPoll
  /\ UNCHANGED <<todo, need, inits, depth, raised, lock, dbVars>>

Acknowledge ==
  /\ HS!CheckWake \/ HS!ClearWake \/ HS!SetWorked
  /\ UNCHANGED <<pollVars, lock, dbVars>>

Poller ==
  /\ \/ CreateAcquire \/ CreateDone \/ PollAll \/ IterationRaises
     \/ UpdateAcquire \/ UpdateDone \/ UpdateNeeds \/ FetchDone
     \/ AddAcquire \/ AddDone \/ NextPoll \/ Acknowledge
     \/ \E s \in Server :
          \/ CreateServer(s) \/ CreatePut(s) \/ PollServer(s) \/ UpdateServer(s) \/ UpdateRaises(s)
          \/ FetchInit(s) \/ FetchInitTag(s) \/ FetchRaises(s)
          \/ AddBuild(s) \/ AddPut(s) \/ AddRaises(s)
  /\ UNCHANGED <<adminVars, opVars, owrxVars>>

----------------------------------------------------------------------------
(* The handlers: CompiledAssetsControllerVars.indexAction, from            *)
(* wake_and_wait_until_thread_works on.                                    *)

\* The handler returns to the browser.
End(h, kind) ==
  /\ op' = [op EXCEPT ![h] = NoOp]
  /\ IF h \in Client THEN /\ reply' = [reply EXCEPT ![h] = kind]
                          /\ scan' = [scan EXCEPT ![h] = NoScan]
     ELSE UNCHANGED <<reply, scan>>

\* get_sdrs goes over servers_state_db without the lock; a settings page that
\* resizes it meanwhile ends the request.
GetSdrsRaises(h) ==
  /\ Admin # {} /\ op[h].kind = "none"
  /\ HS!Finish(h) /\ End(h, "error")
  /\ UNCHANGED <<lock, dbVars, adminVars>>

\* decision_algorithm goes over the servers with the lock held.
ScanAcquire(h) ==
  /\ hpc[h] = "answered" /\ op[h].kind = "none"
  /\ lock = "free" /\ lock' = h
  /\ op' = [op EXCEPT ![h] = [kind |-> "scan"]]
  /\ scan' = [scan EXCEPT ![h] = [NoScan EXCEPT !.start = keys]]
  /\ UNCHANGED <<reply, hsVars, dbVars, adminVars>>

\* Only a responding server with sources can match; whether one does depends
\* on frequencies, users and load (module Decision).
ScanServer(h, s) ==
  /\ op[h].kind = "scan" /\ ~Resized(scan[h].start, keys)
  /\ s \in keys \ scan[h].seen
  /\ \E m \in {{}, {[id |-> s, conf |-> info[s].conf]}} :
       /\ m # {} => info[s].responding /\ info[s].conf # None
       /\ scan' = [scan EXCEPT ![h].seen = @ \union {s}, ![h].match = @ \union m]
  /\ UNCHANGED <<lock, op, reply, hsVars, dbVars, adminVars>>

\* Mutant: decision_algorithm forgets to release.
ScanDoneLocked(h) ==
  /\ op[h].kind = "scan" /\ ~Resized(scan[h].start, keys)
  /\ keys \subseteq scan[h].seen
  /\ op' = [op EXCEPT ![h] = [kind |-> "pick"]]
  /\ scan' = [scan EXCEPT ![h] = [NoScan EXCEPT !.match = scan[h].match]]
  /\ UNCHANGED <<lock, reply, hsVars, dbVars, adminVars>>

ScanDone(h) ==
  /\ op[h].kind = "scan" /\ ~Resized(scan[h].start, keys)
  /\ keys \subseteq scan[h].seen
  /\ lock' = "free"
  /\ op' = [op EXCEPT ![h] = [kind |-> "pick"]]
  /\ scan' = [scan EXCEPT ![h] = [NoScan EXCEPT !.match = scan[h].match]]
  /\ UNCHANGED <<reply, hsVars, dbVars, adminVars>>

\* The dict was resized under the loop; or a source is considered and the
\* selected profile is None, or the source is used with a profile that the
\* initial state kept of it does not have. The lock is not given back.
ScanRaises(h) ==
  /\ op[h].kind = "scan"
  /\ \/ Resized(scan[h].start, keys)
     \/ \E s \in keys \ scan[h].seen :
          /\ info[s].responding /\ info[s].conf # None
          /\ StaleProfile \/ info[s].now \notin {None, info[s].conf}
  /\ lock' = "lost"
  /\ HS!Finish(h) /\ End(h, "error")
  /\ UNCHANGED <<dbVars, adminVars>>

\* print_match_list reads servers_state_db without the lock, then the
\* decided server is looked up in the configuration, or "no decision" is
\* answered with the name of the selected profile.
Pick(h) ==
  /\ op[h].kind = "pick"
  /\ HS!Finish(h)
  /\ LET match == scan[h].match
         listed(m) == m.id \in keys /\ info[m.id].conf # None
     IN  \/ match = {} /\ End(h, "no sdr")
         \/ match = {} /\ StaleProfile /\ End(h, "error")
         \/ /\ \E m \in match : ~listed(m) \/ info[m.id].conf # m.conf \/ m.id \notin config
            /\ End(h, "error")
         \/ /\ \A m \in match : listed(m)
            /\ \E m \in match : m.id \in config
            /\ End(h, "server")
  /\ UNCHANGED <<lock, dbVars, adminVars>>

ClientNext(h) ==
  \/ HS!Request(h) /\ UNCHANGED <<lock, dbVars, adminVars, opVars>>
  \/ GetSdrsRaises(h)
  \/ ScanAcquire(h) \/ ScanDone(h) \/ ScanRaises(h) \/ Pick(h)
  \/ \E s \in Server : ScanServer(h, s)

----------------------------------------------------------------------------
(* The handlers: NewServerController.store, ServerController.store and     *)
(* deleteServer. None of them takes state_lock.                            *)

Doing(h, kind, s) == op[h].kind = kind /\ op[h].id = s
Goto(h, o) == op' = [op EXCEPT ![h] = o] /\ UNCHANGED <<scan, reply>>
Ask == [kind |-> "ask"]

NewServer(h, s) ==
  /\ hpc[h] = "idle" /\ op[h] = NoOp
  /\ s \notin config \union gone
  /\ config' = config \union {s}
  /\ Goto(h, [kind |-> "add_db", id |-> s])
  /\ UNCHANGED <<gone, lock, hsVars, dbVars>>

\* Distribution.add_server, and the end of modify_server: ServerInfo(server_id)
\* reads the registered server, or raises if it has been deleted since ...
AddDb(h, s) ==
  /\ Doing(h, "add_db", s)
  /\ Goto(h, IF s \in config THEN [kind |-> "put", id |-> s] ELSE NoOp)
  /\ UNCHANGED <<lock, hsVars, dbVars, adminVars>>

\* ... and the new entry is filed, whatever became of the server meanwhile.
PutDb(h, s) ==
  /\ Doing(h, "put", s)
  /\ Put(s, NewEntry) /\ Goto(h, Ask)
  /\ UNCHANGED <<lock, hsVars, adminVars>>

\* The controller finds the server before it processes the form or deletes.
Open(h, s) ==
  /\ hpc[h] = "idle" /\ op[h] = NoOp
  /\ s \in config
  /\ \E kind \in {"modify", "delete"} : Goto(h, [kind |-> kind, id |-> s])
  /\ UNCHANGED <<lock, hsVars, dbVars, adminVars>>

ModifyConfig(h, s) ==
  /\ Doing(h, "modify", s)
  /\ config' = config \union {s} /\ gone' = gone \ {s}
  /\ Goto(h, [kind |-> "modify_del", id |-> s])
  /\ UNCHANGED <<lock, hsVars, dbVars>>

ModifyDel(h, s) ==
  /\ Doing(h, "modify_del", s)
  /\ IF s \in keys THEN RemoveEntry(s) /\ Goto(h, [kind |-> "add_db", id |-> s])
     ELSE UNCHANGED dbVars /\ Goto(h, NoOp)
  /\ UNCHANGED <<lock, hsVars, adminVars>>

DeleteConfig(h, s) ==
  /\ Doing(h, "delete", s)
  /\ config' = config \ {s} /\ gone' = gone \union {s}
  /\ Goto(h, IF s \in config THEN [kind |-> "delete_db", id |-> s] ELSE NoOp)
  /\ UNCHANGED <<lock, hsVars, dbVars>>

\* Mutant: the state of a deleted server is kept.
DeleteKeep(h, s) ==
  /\ Doing(h, "delete_db", s)
  /\ Goto(h, NoOp)
  /\ UNCHANGED <<lock, hsVars, dbVars, adminVars>>

DeleteDb(h, s) ==
  /\ Doing(h, "delete_db", s)
  /\ IF s \in keys THEN RemoveEntry(s) ELSE UNCHANGED dbVars
  /\ Goto(h, NoOp)
  /\ UNCHANGED <<lock, hsVars, adminVars>>

\* store() ends with wake_and_wait_until_thread_works.
AskAfterStore(h) ==
  /\ op[h] = Ask /\ HS!Request(h)
  /\ Goto(h, NoOp)
  /\ UNCHANGED <<lock, dbVars, adminVars>>

Redirect(h) ==
  /\ HS!Finish(h)
  /\ UNCHANGED <<lock, dbVars, adminVars, opVars>>

AdminNext(h) ==
  \/ AskAfterStore(h) \/ Redirect(h)
  \/ \E s \in Server :
       \/ NewServer(h, s) \/ AddDb(h, s) \/ PutDb(h, s) \/ Open(h, s)
       \/ ModifyConfig(h, s) \/ ModifyDel(h, s)
       \/ DeleteConfig(h, s) \/ DeleteDb(h, s)

WaitForPoll(h) ==
  /\ HS!EnterWait(h) \/ HS!ClearWorked(h)
  /\ UNCHANGED <<lock, dbVars, adminVars, opVars>>

Handlers ==
  /\ \/ \E h \in Client : ClientNext(h)
     \/ \E h \in Admin : AdminNext(h)
     \/ \E h \in Handler : WaitForPoll(h)
  /\ UNCHANGED <<pollVars, owrxVars>>

----------------------------------------------------------------------------
(* The OpenWebRX servers. Configuration changes at once, the tag that tells *)
(* of it is renewed after the settings are stored; a restart renews both.  *)

Configure(s) ==
  /\ up[s] /\ conf[s] = tag[s] /\ conf[s] < MaxVersion
  /\ conf' = [conf EXCEPT ![s] = @ + 1]
  /\ UNCHANGED <<up, tag>>

UpdateTag(s) ==
  /\ up[s] /\ tag[s] # conf[s]
  /\ tag' = [tag EXCEPT ![s] = conf[s]]
  /\ UNCHANGED <<up, conf>>

Stop(s) == up[s] /\ up' = [up EXCEPT ![s] = FALSE] /\ UNCHANGED <<conf, tag>>

Restart(s) ==
  /\ ~up[s] /\ conf[s] < MaxVersion
  /\ up' = [up EXCEPT ![s] = TRUE]
  /\ conf' = [conf EXCEPT ![s] = @ + 1] /\ tag' = [tag EXCEPT ![s] = conf[s] + 1]

Owrx ==
  /\ \E s \in Server : Configure(s) \/ UpdateTag(s) \/ Stop(s) \/ Restart(s)
  /\ UNCHANGED <<hsVars, pollVars, lock, dbVars, adminVars, opVars>>

----------------------------------------------------------------------------
Next == Poller \/ Handlers \/ Owrx

Spec == Init /\ [][Next]_vars

\* Threads of one process run whenever they can, requests to the servers
\* time out, and a settings page that changed something renews the tag. No
\* browser or administrator has to come, no server to stop or start.
Fairness ==
  /\ WF_vars(Poller)
  /\ \A h \in Handler : WF_vars(WaitForPoll(h) /\ UNCHANGED <<pollVars, owrxVars>>)
  /\ \A h \in Client :
       SF_vars(ScanAcquire(h) /\ UNCHANGED <<pollVars, owrxVars>>)
  /\ \A h \in Client :
       WF_vars(/\ ScanDone(h) \/ ScanRaises(h) \/ Pick(h) \/ \E s \in Server : ScanServer(h, s)
               /\ UNCHANGED <<pollVars, owrxVars>>)
  /\ \A s \in Server :
       WF_vars(UpdateTag(s) /\ UNCHANGED <<hsVars, pollVars, lock, dbVars, adminVars, opVars>>)

FairSpec == Spec /\ Fairness

----------------------------------------------------------------------------
(* Properties.                                                             *)

\* state_lock is held by exactly the thread that is between its acquire()
\* and its release(), of the poll's three critical sections and the decision's.
LockOwner ==
  /\ lock = "poller" <=> phase \in LockedPhase
  /\ \A h \in Handler : lock = h <=> op[h].kind = "scan"

\* Only the settings pages may change the state under a deciding handler.
DecisionUndisturbed ==
  [][(lock \in Client /\ \A a \in Admin : op'[a] = op[a]) => dbVars' = dbVars]_vars

\* Without settings pages at work, the poll thread dies only when a
\* configuration was read with the tag of a later one, however often it calls
\* itself; and state_lock is lost only to such an inconsistency, met by the
\* poll thread or by a deciding handler.
PollerSurvives ==
  /\ raised \in {"", "KeyError sdr"}
  /\ lock = "lost" =>
       \/ raised = "KeyError sdr"
       \/ \E s \in keys : info[s].now \notin {None, info[s].conf}

\* What is left of a server that was deleted, and that nobody is editing, is
\* never offered by the decision, which wants a server that responds and has
\* sources. A page that files a new entry of a server while another deletes
\* it leaves one that may still be found to respond, but never gets a source.
DeletedNeverOffered ==
  \A s \in keys \ config :
    (\A a \in Admin : "id" \in DOMAIN op[a] => op[a].id # s)
      => ~info[s].responding \/ info[s].conf = None

\* The request of a lone client ends, with a server or without, unless the
\* poll thread died or state_lock was lost.
RequestEnds ==
  \A h \in Client :
    hpc[h] = "towait" ~> (hpc[h] = "idle" \/ ppc = "dead" \/ lock = "lost")

\* A request of the poll thread to a running server fails.
RequestLost ==
  \E s \in Server :
    /\ up[s]
    /\ \/ phase = "poll" /\ s \in seen' \ seen /\ ~resp'[s].ok
       \/ phase = "init" /\ s \in todo \ todo'

\* The load balancer catches up: if requests are lost only for some time, in
\* the end the entry of every server says whether it responds and, if it
\* does, carries its tag.
CatchesUp ==
  \A s \in Registered :
    \/ <>(ppc = "dead" \/ lock = "lost")
    \/ []<><<RequestLost>>_pollVars
    \/ <>[](s \in keys /\ info[s].responding = up[s] /\ (up[s] => info[s].tag = tag[s]))
=============================================================================

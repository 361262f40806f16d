# lbowrx in TLA+

lbowrx is a load balancer for OpenWebRX servers, together with a version of
OpenWebRX that reports its state to it and hands a browser over when a device
fails, and the programs that bring it samples. This directory holds TLA+ modules
of its core, TLC configurations that check them on small instances, and TLAPS
proofs of what matters most for every instance.

Paths are relative to `src/`; `LB` is `lbowrx-lb/lbowrx_lb`, `OWRX` is
`lbowrx-owrx/lbowrx_owrx/owrx`, `CSDR` is `lbowrx-owrx/csdr`. `PROJECT.json` maps
each definition to the lines it models.

## The system

```
 browser --GET--> load balancer --GET /curstate.json, /initstate.json--> OpenWebRX
    ^               poll thread, HTTP handlers                            servers
    +------------------ websocket: sdrselection, dspcontrol ---------------^

 inside a server:
 device --> connector --> ring buffer --> IQ port --> TcpSource --> client chain --> browser
            (a process)                  a thread     (or nmux)     csdr modules,
                 ^                       per client                 one thread each
                 +-- control port: frequency, gain ... <-- SDR source       |
                                            direwolf and other processes <--+
```

A browser asks the load balancer for a page for one of the profiles
(frequency ranges) the operator configured. The load balancer picks a server, an SDR and a
profile of it and answers a page whose script opens a websocket to that server and
selects that SDR. When the SDR fails, the server sends `sdr_error`, the script
adds the SDR to a cookie of failed ones and asks the load balancer again.

On the server the SDR source starts a connector for the device, which publishes its samples
on a TCP port; each client has a chain of csdr modules that tune, filter, demodulate
and encode. The modules are C++ objects that Python wires together through pycsdr,
each with a thread of its own and a ring buffer behind it. Older parts of the same
signal processing are the `csdr` command line (commands that pipes connect), `csdr++`, which
runs a module as a process, and `nmux`, which copies one stream to many sockets.

| component | state | operations | what makes it right |
|---|---|---|---|
| poll thread, `LB/receivestate.py` | two Events, `doRun` | poll all servers, fetch initial states, wake and wait | a request is answered by a poll of its own; the thread survives |
| state of the servers, `LB/distribution.py` | `servers_state_db`, `state_lock` | create, add, update, decide, list, and add/modify/delete a server | entries are consistent; the lock is given back; what is decided is servable |
| configuration, `LB/config/dynamic.py` | servers, profiles, details, settings file | add, modify, delete, store, load | the file holds what memory holds |
| web handlers, `LB/controllers/` | cookies, forms | decision request, settings pages | concurrent edits leave no stale or missing server |
| state pages, `OWRX/controllers/state.py` | `init_state_tag` | initial state, current state | the tag names the state it is sent with |
| SDR source, `OWRX/source/__init__.py` | process, monitor thread, clients, state, two locks | start, stop, fail, add/remove client, enable, disable | one process at a time, none for nobody, no deadlock |
| receiver client, `OWRX/connection.py` | source, DspManager, queue | text messages, callbacks, close | stream or error for everybody; nothing left after close |
| DspManager, `OWRX/dsp.py`, and chains, `lbowrx-owrx/lbowrx_owrx/csdr/` | modules, their formats, rates and links | change demodulator, secondary, rates, compression | every module has a reader and a writer of its own format and rate |
| SpectrumThread, `OWRX/fft.py` | client of the source | start, stop, callbacks | removed when its owner goes |
| websocket, `OWRX/websocket.py` | socket, interrupt pipe, timers | send, read loop, ping, close | no frame torn, dead peers noticed |
| connectors, `lbowrx-owrx/owrx_connector/` | device, its parameters, ring buffers | setup, change, read, send, signals | the device does what was asked last; the process ends when it is to; no connection swaps I and Q |
| csdr library, `CSDR/src/lib/` | ring buffers, runners, the state of each module | write, read, wait, stop, rewire, process | one thread per module; cuts of the stream do not show in the output |
| csdr command line, `CSDR/src/csdr.c` | buffers of each process | preamble, read, process, write | a pipeline pads nothing but its tail and ends when its input does |
| csdr++, `CSDR/src/csdr++/` | ring buffer, control fifo | read, process, line | partial elements are put together; nothing left at the end |
| nmux, `CSDR/src/nmux/` | pool of blocks, clients | read, send, overrun, leave | no client gets blocks out of order |
| processes that decode, `lbowrx-owrx/lbowrx_owrx/csdr/module/` | process, pump thread | start, stop, pump | after a stop no thread and no process is left |
| client registry, `OWRX/client.py` | clients | add, remove | the limit holds, slots come back |
| SDR service, `OWRX/sdr.py` | maps of sources and profiles | add, remove, failure, enable | the maps agree with the configuration |
| services, scheduler, `OWRX/service/` | background clients, timers | select profile, start, stop | never retunes a user |
| properties, `OWRX/property/` | layers, subscribers | set, replace layer, switch | each change reaches each subscriber once |
| decoder queue, CPU thread | workers, counters | put, start, stop | every job is done once; the thread runs while somebody listens |
| browser, `lbowrx-lb/htdocs/openwebrx.js` | cookie, backoff | reconnect, report failure | ends up at a working SDR |

What is hard: the Python side is threads (an HTTP handler or websocket each,
poll, monitor, spectrum, scheduler, pumps) that share dicts and lists, call each other
back with locks held, and are interrupted by processes that end and servers
that change or vanish. The C++ side is threads that are stopped, rewired and woken by
hand-made protocols while they process, buffers that writers never wait for,
and blocks that have to carry state over every cut in their input. `PROJECT.json`
lists the hazards line by line, with the properties that look for them.

## The modules

### The load balancer

`WakeHandshake` has one variable per attribute (`wake`, `worked`,
`doRun`) and the place of each thread. Every access to an Event is a step, since
the code does `wait()` and `clear()`, and `is_set()` and `clear()`, in separate
calls. `WakeHistory` adds two history variables (which handlers had a poll end
since they asked) and the refinement mapping `req` to `PollOnRequest`, which is what the
handshake promises: everybody who asks is served, no two rounds from the same
poll. The mapping is valid as long as no handler asks while another one waits,
which a third history variable, `overlap`, records: after an overlap the flag one handler
leaves may serve the next before any poll.

`LoadBalancer` instantiates `WakeHandshake` on its own variables and fills in the poll:
its `phase` walks through `create_init_state`, the loop of requests,
`update_cur_state`, `receive_init_servers_state`, `add_init_state` and the
nested call. A loop over a live dict visits its keys one by one and raises when
the dict was resized; a loop over a private copy does not. `lock` is
`state_lock`, with the value "lost" after an exception between acquire and
release. A server's configuration is a number (`conf`), so that the sources an
initial state lists, and those a current state mentions, are told apart only by the
number they were read at; the constant `Fits` says when the second are among the
first. `info[s].cur` and `info[s].now` remember which tag and configuration the current half of
an entry came from. Each access of the settings pages to shared state is a step of
its own, between any two steps of the poll: a page that adds or modifies a server makes a `ServerInfo` in one
and files it in another. Each set of initial states calls the poll again; from `MaxDepth` nested calls on, a request
raises a RecursionError, which the bare `except` around it takes for a server that does not answer.

`Decision` holds `decision_algorithm` as operators on a state of the servers,
`Decide` one call of it, with properties that are said without its definitions.
`LoadBalancer` keeps of the decision only which entries may match.

### The SDR source and the connections

`SdrSource` models the source together with its clients. Calls nest deeply
(stop tells a DspManager, which removes itself, which may stop the source), so
each thread has a stack of frames and each method is a few actions on the top
one. `Unwind` unwinds the stack and frees the locks of the `with` statements
on it. The monitor thread of each process is a thread of its own (`Monitor`), the
process is in `alive` until it ends. A browser in `Slow` may be closed by another
thread (`Sender`), the one that finds its queue full. Callbacks go over a copy of the list of
clients (`todo`), as in the code.

`Connection` models a websocket and the client behind it from the message that makes
the client to the end of the last thread: reader, pass-through thread, pumps, ping
timers, and whoever closes it from outside. It has a stack of frames per thread as
`SdrSource` does, here for the exceptions: `Raise` finds the innermost frame that
catches an OSError or anything else, and gives back `sendLock` on the way. Attributes
that another thread may set to None (`multithreadingQueue`, `interruptPipeSend`,
`pingTimer`) are read in as many steps as the code has accesses.

### The path of the samples

`RingBuffer` has the positions of csdr's ring buffer, with the size as it is after
rounding to pages. `LossyStream` is what a reader may rely on, without positions: it is some number of items
behind, a write that would make that a whole buffer takes exactly this buffer
away, and it never loses a part of one. `IqStream` uses both: the device
thread of a connector converts blocks into the ring buffer, a thread per client of
the IQ port sends what it finds, TcpSource puts bytes together to samples at the other end,
with `recv` ending anywhere. `ImplementsLossyStream` maps positions to distances.
The blocks of the device have any length: rtl_tcp_connector passes on what `recv()` returned, which may
be odd. Since the buffer holds whole samples, losing a buffer never swaps I and Q, and neither does an odd
block on a connection that is there (`SamplesPaired`: each sample begins with the kind of value that the
stream of its client began with). Which kind that is depends on when the client
joins: with rtl_tcp it may be the second value (`beginning`, the finding `BeginsWithI`).

`Connector` is the rest of such a process: the main thread that opens, sets up, reads
and closes the device over and over, the control thread that changes parameters at
any time without a lock, and signals. The three kinds (`rtl`, `rtl_tcp`, `soapy`)
differ in the operators `Has`, `Touched`, `Works`, `MayCrash`, `Effect`. A GainSpec that another
thread deletes is `Dangling`. `excused` collects the settings for which the code gives
no guarantee (a call to the device failed, or they were
changed while it was being set up), so that `DeviceFollows` is about the others. A change of
direct sampling makes an RTL device lose its frequency and gain: `rtl_connector` sets them again,
`rtl_tcp_connector` does not, and `Lost` names what it leaves so. `StopEnds` begins where `run` is FALSE:
a signal to `rtl_connector` in a pause between two attempts, or while it opens the device, does
not come that far (action `signal`), and the process stays until OpenWebRX kills it.

`Nmux` has the pool of blocks with its positions, a thread per client, and the
signal that ends a client. A block is two halves, so that a writer that overtakes a reader in
the middle of a block is seen: `lapped` says to whom that happened, and
`BlocksInOrder` that nobody else gets anything but the next half of a block (`due`).

### The signal processing

`AsyncRunner` has the threads that run modules and the Python threads that connect and stop
them: GIL, `stateMutex`, `processMutex`, the reader's lock and condition variable are
separate, since the bugs to look for are between them. `Pump` has the threads that
carry data out of a reader to a process or a browser, through a `stop()` and `resume()`
of the same reader: the condition variable, the flag that `resume()` takes back, and
the end of the process.

`Blocks` states how each class of csdr modules cuts its input: what it waits for, takes,
gives and carries over. Samples are numbers and an output is the set or tuple
of the numbers it is computed from, so that `ChunkingIrrelevant` compares it with the
output of one undivided input, and `WithinBounds` sees an access outside the buffers.
The runner lets go of its lock between `canProcess()` and `process()`: there `exchange` puts
another reader, filter or writer in place. `WithinBounds` says that only modules that do not look again
suffer from that; that some do is the finding `SafeWithoutLock`. The index of the fractional
decimator is uninitialised when its loop does not run, and is any number of `Garbage` then.

`Chain` has the operations of a csdr chain on its list of workers and links as operators
on a record, with the error that a wrong format raises in the middle of an operation.
`Dsp` has the client chain and DspManager on top: every message of a browser is
a sequence of such operations in the order of the property subscriptions, and stops
half way on an exception. `AudioFlows` says that all links exist and fit, `RatesAgree`
that each module has the rate of what it is fed. `gap` records which of the things the handlers do
not provide for has happened: a secondary demodulator that cannot follow to the new format, a
converter that no change of rate replaces, a writer whose format nobody looks at while the chain is empty,
and output rates that change under a running chain. The comments of the two properties say what each exempts
and for how long; that formats do break is the finding `FormatMended`.

`Csdr` puts a source file, commands of `csdr.c`, pipes and the reader at the end together. The
record `Does` says of a command how it reads (the preamble it expects, the size it
takes), what one round reads, writes and keeps, and where it checks for the end of file;
its actions are those of any command. What a function of `libcsdr.c` does to samples
is abstracted to how many it takes and gives, and is grouped by that: FFTs and plots whose blocks overlap
(`step` new samples in each) or leave out samples in between (`skip`) are groups of their own, as are commands
that copy stdin with `clone_` (a resampler of rate 1 is one) and those that read it character by character. Junk marks
output computed from data that was never read; `TailOnly` allows it at the end of the
stream only. `Command` is a process of csdr++ with its ring buffer, control fifo and, with
`--async`, its runner. The ring has a size: `overrun` records that a read came to what had not been
processed yet, `failed` that `read()` returned -1, which the code adds to an unsigned position.

### For TLC

The `_proofs` modules extend these and hold theorems only (`Samples_proofs` is about the IQ stream, nmux
and the blocks, `CommandLine_proofs` about csdr and csdr++, `Wakeups_proofs` about the handshake and the
runners). The `MC` modules extend the components they check, so that a run's property and a theorem's are the
same definition (`Dsp` and `Pump` are instances, and no theorem is about them); they define constants,
and some put machines that share nothing next to each other: a behaviour picks
one (`machine`) and the others stay at rest, so the states of such a run are the sum of
those of its parts, and fairness asks nothing of the absent ones.
`MCPrograms` holds the decision, the IQ stream, nmux, the blocks, the client chain and
a connection; `MCEndings` csdr pipelines, csdr++ and the pings of a connection;
`MCWakeups` the handshake, the runners and the pumps; `MCService` the balancer with a browser, a source, and
the connector the source starts; `MCPages` the load balancer and a source, with their settings pages.
`MCLoadBalancer` and `MCDecide` hold the constants that some of them share.

## The runs

| run | instance | shows |
|---|---|---|
| `programs` | 2 servers with an SDR and 3 profiles each; 1 client of the IQ port on a buffer of 6 items; nmux with 2 clients and 3 blocks; 25 samples in pieces of 1, 5 and 19; 3 audio and 2 HD rates; a connection with 1 pump and 1 close from outside | a decision can be served, tunes no listener away, and is refused only when nothing fits; no connection swaps I and Q, items and blocks come in order; cuts do not matter; each module has a fitting neighbour; after every close no thread |
| `endings` | pipelines of csdr commands on 6 samples with blocks of 4; csdr++ on 17 bytes with 2 per element, a ring of 7 elements and 2 fifo lines; 3 ping timers | pipelines end and pad only their tail; nothing is left over; pings go on, and a closed connection's threads end |
| `wakeups` | 3 handlers; 2 Python threads, 2 runners, 2 readers; 2 starts of a module with a process | a request is answered, but for the overlap of two, and no flag is left over; `PollOnRequest` implemented; one runner per module; stops take effect while data is written |
| `service` | 1 server with 3 configurations, 1 browser, 3 nested polls, lost requests; or 1 browser at a source with 3 processes that do not crash; or a connector with 3 settings, of each kind | `state_lock` has one owner; what can end the poll thread; requests end, the state catches up; one process at a time; state and process agree; nothing runs for a browser that is gone; locks come back; the device follows its settings, and the connector ends |
| `pages` | 1 server that is not registered at first, 1 browser, 2 settings pages that add, modify and delete it; or 1 browser, 1 process that may crash, and a settings page or a full queue | only pages change the state under a decision; a deleted server is not offered; after `stop()` no process |
| `handshake_update_first` | 1 handler | **violation**: an answer may rest on a poll from before the question |
| `decide_zero` | as in `programs` | **violation**: an SDR of priority 0 is offered |
| `iq_join` | as in `programs` | **violation**: a client of rtl_tcp may begin with Q |
| `process_unlocked` | as in `programs` | **violation**: a module works with a reader that has less than the one it has looked at |
| `source_failure` | 1 browser, 2 processes | **violation**: a failed device, and a browser that is never told |
| `runner_switch` | 1 Python thread, 1 runner, 2 readers | **violation**: a module waits on for the reader that it was taken away |
| `dsp_format` | as in `programs` | **violation**: an audio chain keeps a format its neighbour does not have |

Bounds. `MaxVersion` bounds how often a server is reconfigured or restarted; an
entry mixes at most three configurations (initial state, tag, current state), so
three are enough to tell a mixture from an entry that fits. In `pages` a server keeps
its one configuration: what it does between a restart and the next poll is in `service`,
and what `pages` checks of the load balancer are theorems for any number. `MaxDepth` stands for
Python's recursion limit of about 1000; the code behaves the same at each
depth, and 3 lets the limit be hit after as many changes as there are. Two settings pages may edit the same
server; they are alike, and `pages` checks safety only, so their symmetry is used.
`MaxRuns` is the number of SDR processes: one with crashes, where its end meets everything else, three when
restarts are cheap to check; `OneProcess` and `StopEndsProcess` with crashes, pages and several processes are
theorems. One browser already has three clients of the source and its thread
meets monitor threads and a page. `QueueSize` is 2 for the code's 100: room for a PoisonPill behind or before a
message, and full after two. `MaxTimers` and `MaxPings` keep apart the timers of one
connection: one ping thread at a time runs next to the reader (timers fire 30 s after
they were made, so two at a time take a `sendLock` held that long). A reader waits
in the model when it would find no Timer left for itself; three are enough to reach
all ways of losing one. `programs` leaves out pings of a connection, `endings` its pumps
and the close from outside: what they share, `open`, `socketError` and `sendLock`, is in both.

The IQ port has one client in the run, since clients do not see each other; the theorems are
about any number. A buffer of 6 items, blocks of 2 and 3, and numbers modulo 12 make
every remainder of a position, a second block while one is being sent, and being overtaken twice, happen.
nmux has the smallest pool that
tells "behind" from "overtaken", plus one. Blocks see 25 samples with blocks, filters
and FFTs of 2 to 4, so that each carries state over several cuts; the room of the writer is 18, or 1 after
an exchange, and an uninitialised index is negative, small, or beyond everything (`AnyIndex`). A csdr pipeline has at most
one command of an unusual way to read or write, next to plain ones, since commands
meet only their neighbours; sizes stay positive (`CsdrAssumption`: a filter and two steps
of a decimation fit in a buffer, a filter reaches over the step it decimates by, and the fractional
decimator looks ahead to the place of its next output). The pipe takes two blocks, so that
writers block. The ring of csdr++ has 7 elements for reads of up to 3, so that with `--async` a read comes
around to what is not processed in 17 bytes, and without it none does; `SizeMax` is 31 for 2^64 - 1. In `Pump` a dead process's
stdin takes one write more without an error.

Deadlock checking is off everywhere: connections and programs end, browsers and servers that have
used up their bound may stop, and in `SdrSource` threads can block each other when a process crashes.

Conditions. Some properties hold only under conditions that their comments name, because the
code does not provide for the rest, and no document promises that it does:

* `StateTruthful`, `NoOrphans` and `LockReleased` are about a lone browser that takes what it is sent, and
  processes that do not crash. With a crash, a monitor thread in `fail` wants a lock whose owner joins it;
  with a second browser or process it marks STOPPED what has started again, a browser may join while the last
  one leaves and be left without a stream, and a source may run for nobody; with a full queue, a
  DspManager stays. The module has all of these steps.
* `RequestAnswered` excuses handlers that have waited together: one can take down the flag
  meant for both, and the other waits until somebody asks again. Nothing else is excused.
* `StopsTakeEffect` takes it that buffers are written again and again (`WritesGoOn`). `Chain.stop()` stops
  the module upstream first; a stop whose notification is lost in the gap before the wait then joins for ever.
* `NothingLeftOver` is about a ring that has not been overrun and reads that have not failed; it also says that without
  `--async` no overrun occurs. `TailOnly` excepts the commands in `Excepted`, and says nothing of samples that
  an FFT leaves out or takes again because it was asked to.
* `DeviceFollows` leaves out what rtl_tcp loses with the sampling mode, `StopEnds` signals that rtl drops (see above).
* `AudioFlows` and `RatesAgree` leave out what `gap` names.

Fairness. All threads belong to one operating system process and run whenever they can (`WF`
per step); a lock that is free again and again is taken in the end (`SF`: on the acquiring step of the load
balancer, on the threads of a connection, of a module and of the calls that stop it); HTTP requests end by their timeouts, SIGKILL ends a process, ping timers fire, and
`select` has a timeout. A queue that has something in it again and again is read in the end
(`SF`). In `SdrSource` a thread that has a call under way and can go on does (`WF`).
In `AsyncRunner` and `Pump` nothing says that samples keep coming: `StopsTakeEffect` has it as
a condition, and nothing says which of two pumps gets the data. Processes of a pipeline are scheduled (`WF`).
No fairness for browsers,
administrators, servers that stop or start, devices that fail, lines written to a
fifo, or processes that crash.

Findings: see the seven violations. `handshake_update_first` contradicts the comment at
`LB/controllers/assets.py:193`, `decide_zero` the infotext at
`OWRX/source/__init__.py:532`, `iq_join` the README of the connectors (`lbowrx-owrx/owrx_connector/README.md:7`: each
client gets the IQ stream of the device), `process_unlocked` the comment at
`CSDR/src/lib/async.cpp:65` ("we should be safe during this period"), `source_failure` the promise at `README.md:12`,
`runner_switch` the comment at `CSDR/src/lib/sink.cpp:30` (a notification that comes between the check of the
data and the wait is lost), `dsp_format` the one at `OWRX/dsp.py:97` (an error "should be
mended" by the next step, which does not for every pair of demodulators).

## The proofs

All for arbitrary constants, under the ASSUMEs of the modules.

* `SdrSource_proofs!OneProcessAlways`. `OneProcess` is not inductive: that no
  process runs when `monitor` is None must be known of every thread between the check
  and the start. `ProcessInv` adds: the domains of the variables involved; a monitor thread
  that waits, or has yet to clear `monitor`, is the one `monitor` refers to; a process that
  runs has a thread that waits for it; a monitor thread makes calls only when it has done
  both. Most actions touch none of this, which lemma `HarmlessKeeps` says once for all of them.
* `SdrSource_proofs!StopAlwaysEndsProcess`. When `stop()` has found no monitor, or joined
  one, no process may have been started in the meantime. That it has
  `modificationLock` is a matter of frames: `stop()` calls clients back, they call
  other methods of the source, and the frame that owns the lock is somewhere below. `LockInv`
  says that at most one frame of one thread is inside `start()` or `stop()`, that it is on top unless it
  waits for callbacks, and that its thread owns the lock; `JoinInv` says that the thread
  `stop()` joins is the one of `monitor`, unless that was cleared. The
  lemmas `Replaced` to `Callings` are about stacks, and the calls fall into those that push
  frames outside of the lock, go on with it, take it, give it back, or raise.
  `OneAlwaysStartsOrStops` is a corollary: no two calls of `start()` and `stop()` overlap.
* `LoadBalancer_proofs`: `TypeCorrect`, with `Deepest` for the depth of nested polls; `LockOwnerAlways`, which needs `Working`
  (the poll thread is in a phase only while its handshake says it polls);
  `DecisionUndisturbedAlways` from `LockOwner`, since the other writers of
  the dict hold the lock or are pages. `DeletedNeverOfferedAlways` needs
  `DeletedSettled`: what is left of a server that is no longer registered, and not in the hands of a page,
  does not respond or has no sources, and is not in the answers the poll thread is about to enter. (With two pages, one
  may file its new `ServerInfo` after the other has deleted the server; polls may then find that it responds, but never
  fetch its initial state.)
  `PollerSurvivesAlways` assumes `Admin = {}` and `~StaleProfile`, as its run does (a page that resizes the dict
  under a loop does end the thread); `Calm` says that then all sets the thread loops over are the
  registered servers. Nested polls do not end it, since it is requests that meet the recursion limit.
* `Wakeups_proofs`, about the handshake: `NoStaleSignalAlways` from an invariant that says which
  flags may be up at which place of the two threads; with it
  `HandshakeImplementsPollOnRequest`, step by step. Both speak of the time before handlers overlap.
* `Decide_proofs`: `ServableAlways`, `UsersKeptAlways`, from a lemma that says what is in
  `MatchList`; `NoneOnlyIfNoneAlways`, for states with finitely many servers, SDRs and profiles,
  since a finite nonempty list has a best match: of the sets of those that beat a match, one is
  minimal, as proper inclusion of finite sets is well-founded, and it is empty.
* `Wakeups_proofs`, about the runners: `StopsForGood` (a thread that runs a module is the one
  Python knows of, or one that a `stop()` waits for) and `ProcessesAlone`, both from
  `RunnerInv`, which says at which place of a runner which of the locks is held and
  by whom.
* `Samples_proofs`, about the IQ stream: `IqStreamImplementsLossyStream`, the refinement, from the ranges
  of the positions and arithmetic modulo the size; `SamplesAlwaysPaired` from an
  invariant on the parity of every position: that of an item, of the buffer it
  was copied to and of the place on the wire, counted from where the client's stream began. The size of the buffer is even by
  `SizeAssumption`: a page holds an even number of every item in use, and the
  constructor throws when one does not divide it. Blocks have any length; `WholeBlocksBeginWithI` adds the
  hypothesis that they are even, as those of rtl and Soapy are: then the stream of every client begins with I
  (`WholeSamples`: the positions are even between blocks). `SamplesAlwaysInOrder` from `OrderInv`, which
  says what number each place of the buffer, of a client's chunk and of the wire has, counted from
  the one the client needs next, for as long as the writer has not come around to it.
* `Samples_proofs!BlocksAlwaysInOrder` from `MuxInv`: `PoolHolds` (an index of the pool holds the block
  that was read as many blocks ago as it is behind the current one) and `Place`
  (where in the stream a client is that was not lapped: what it must send next is what is at its
  `read_index`, or the rest of what it holds, which is not the block being written).
* `Samples_proofs!BlocksStayWithinBounds`. That `process()` accesses nothing outside of what it has rests on what
  `canProcess()` saw before it, with the lock given back in between: `BlocksInv` says that the room seen
  is still there (`RoomSeen`; only this module fills it), and the input too (`InputSeen`), unless the
  reader, the filter or the writer was exchanged in the meantime: then a block that does not look again goes
  beyond, which is what `WithinBounds` exempts and the finding shows. An index of the fractional decimator that was
  never set may be any integer.
* `CommandLine_proofs!NothingIsLeftOver` from `CommandInv`: the bytes behind the write pointer are the beginning
  of the next element, the ring buffer holds the ones before it in order as long as it was not overrun and no read
  failed, and without a runner the loop
  waits or ends only with nothing to process, so that the ring, which is larger than a read and what a module
  leaves, is not overrun. The lemmas `Division` and those after it do the
  arithmetic of elements and bytes.
* `CommandLine_proofs!OnlyTailsArePadded`. What a command reads is good only if what its neighbour
  wrote is, so the invariant follows the samples: `CsdrInv` says of each process that nothing to
  its left may pad (`MayPad`) that what it used up, keeps and is about to write is in order, that the
  size it works with fits, and that its stdin holds what follows, up to what its
  writer has written, with the preamble first as long as it has no size (`InOrderAt`). `StepKeeps`: a step touches a
  process, its stdin and the next one's, so the others keep their part. `EachCommand` goes through the kinds
  of commands: each that is not excepted works on whole blocks, or asks for a size at least
  as long as its filter. A command that overlaps keeps the end of its block, one that skips reads on to the
  next, and both know where they are in the stream.
* `Connection_proofs!NoThreadIsLeft`, with `ConnTypeCorrect`. Threads that close a connection empty
  its queue, and so take away each other's PoisonPill. `PillInv`: while the pass-through thread
  may come back to the queue, there is a pill in it, or a close found no room for one (`full`), or a
  thread is on its way from the first get of a close to the put of the pill, or the reader has its own close before
  it. The lemmas up to `RaiseFollows` say what a return, a call and an exception
  leave of a stack: its outermost frame, which is what the rest needs.
* `Connection_proofs!PingsGoOn` (`KeepAlive`), for `MaxPings = 1`. The reader and a ping thread replace the timer in
  seven unlocked steps each, and both can die of an AttributeError or RuntimeError there. `KeepInv` says where each
  of them can be, and that while the reader is in its loop and not replacing the timer, a Timer is `Armed` or
  the ping thread still has what its next steps need (`WillArm`): the reader comes back to its
  loop only after it armed one or saw the connection closed, and leaves it for good when it raises; then
  nobody but the ping thread touches the timer. That a ping is sent only when no other is
  under way (`OnlyPing`) is where the hypothesis is used, and it is needed: with two ping threads the property
  is false (the comment of `KeepAlive`).
* `Connector_proofs!DeviceAlwaysFollows` from `FollowInv`: of each setting that is not excused, the device
  has the stored value in effect, or a thread has the call still before it (`Pending`; a gain that
  a mode change lost counts as long as the mode is 0), or it is one that rtl_tcp lost with the mode (`Lost`). What makes it inductive is which value a thread
  calls with. The control thread always has the stored one, since it takes one line after the other;
  `main` may have an old one, but only in `setup()`, where the change that made it old is excused, and when that
  is one of the sampling mode, the gain is excused with it. `OrderComplete` says that `setup()` calls
  for everything the connector has. The hypothesis `Followed` is the comment of `Settings`: they are
  among the eight that `setup()` knows, the frequency and the gain with them.

The theorems without a property of a passing run are invariants that others rest on (`TypeCorrect`, `ConnTypeCorrect`,
`OneAlwaysStartsOrStops`), and `WholeBlocksBeginWithI`, which says when a finding does not bite.

Only model-checked: all liveness, which is beyond the prover. `ChunkingIrrelevant` of `Blocks` compares
what a block gives with what it gives for one undivided input, whatever came before: an induction over
data. `AudioFlows` and `RatesAgree` of `Dsp` speak of a path through a list of workers that messages build step
by step; for every list this is again an induction. `StateTruthful` and `NoOrphans` of `SdrSource`
hold only in the instance their comments name, so there is nothing to prove for every one. The run checks of
`Pump` that it ends, which is liveness.

## Not modelled, and the plan

Not modelled for good: parsing and rendering of forms and pages, routing, decoders and
their text formats, the arithmetic of signal processing (what a filter computes, as opposed
to from which samples), device drivers, feature detection, the option parser of csdr++
(vendored). They are sequential, and their correctness is wording or numerics.

Planned, in this order:

1. `Registries`: the shared instances that connections come and go with. The list of
   clients (`owrx/client.py`: the limit is checked and the client appended without a
   lock, a `close()` that fails keeps its slot) and `CpuUsageThread` (`owrx/cpu.py`: the last
   client ends the thread while a new one comes). Properties: the limit holds but for one client per
   concurrent handshake, slots come back, the thread runs while somebody listens.
2. `Failover`: browsers with their cookie of failed SDRs and their backoff
   (`lbowrx-lb/htdocs/openwebrx.js`, `LB/controllers/assets.py`), servers whose SDRs fail and
   recover, and the decision (`Decision`, instantiated). A browser ends up with a working SDR if
   there is one that fits; two browsers are not sent to the same idle SDR for ever.
3. `Background`: services and scheduler (`owrx/service/`) as clients of the
   source, composed with an abstract source that `SdrSource` refines: a background
   client never retunes a user.
4. `Sources`: `owrx/sdr.py`, the maps of sources under configuration changes and failure.
5. `Persistence`: the settings and user files of both programs, written in place:
   memory, file and a restart between two writes.
6. `DecoderQueue`: the bounded queue of decoding jobs and its workers (`owrx/audio/queue.py`).
7. `Properties`: layers, stacks and the profile carousel (`owrx/property/`): each change
   reaches each subscriber once, with the value a read would give.

Each is joined to one of the MC modules above rather than given a run of its own.

Modelled, but without a property that could hold, since the code does not do it and no document says that it
does (TLC finds each of them; the hazards' notes in `PROJECT.json` name them): with two browsers and two runs, a
process that stays for nobody and a browser that stays without a stream; with a crash or a second browser at the
locks, threads that wait for each other; the frequency that rtl_tcp loses with the sampling mode; audio that
keeps its rate when the browser's changes; a configuration filed under the tag of the next one; a handler that waits
alone after two have waited together; `stop()` of a chain whose writer has stopped first.

Hazards met on the way that `PROJECT.json` does not list, with no property yet:
a control line cut at
the 256 bytes of a `recv` (`lib/control_connection.cpp:45`), "None" given to
`std::stod` (`lib/connector.cpp:290`); in csdr the index of a fifo line (`csdr.c:341`), a second
preamble (`csdr.c:2477`), the refill of the varicode decoder (`csdr.c:2937`), the skip counts of `fft_fc`
(`csdr.c:3614`); in csdr++ a buffer deleted before its runner (`commands.cpp:137`) and a second fifo
line that stays in the FILE buffer (`commands.cpp:98`); in OpenWebRX a reader that is stopped after its chain
(`dsp.py:664`), the client added while the CPU thread ends (`cpu.py:8`), the timer of
the scheduler (`service/schedule.py:295`), a client whose `close()` raises (`connection.py:310`), a source
disabled between a check and its use (`connection.py:281`), the busy state written after `start()`
(`source/__init__.py:416`); in the load balancer a server deleted between match and use (`distribution.py:283`)
and the failed SDRs' cookie (`controllers/assets.py:216`, `:224`).

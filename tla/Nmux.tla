-------------------------------- MODULE Nmux --------------------------------
(* nmux: the main thread copies its standard input into a pool of num       *)
(* blocks (tsmpool) and a thread per client sends them to its socket.  The  *)
(* main thread never waits for a client.  A block is known by its number    *)
(* in the stream, its two halves stand for the pieces in which it is read   *)
(* and sent.                                                                *)
EXTENDS Integers, FiniteSets

CONSTANTS
  Peer,         \* Connections.
  num,          \* Blocks of the pool (--bufcnt); direct.py asks for at least two.
  MaxBlock      \* Bound: blocks that are read.

ASSUME SomeBlocks == num \in Nat \ {0}

VARIABLES
  write_index,  \* The block that get_write_buffer() gives out next.
  current,      \* current_write_buffer.
  filled,       \* Halves of it that are read (index_in_current_write_buffer).
  reading,      \* Its number.
  buffers,      \* The pool: index -> numbers of the two halves.
  clients,      \* The connections the main thread knows, each registered.
  status,       \* client_t::status: "none", "running", "finished".
  doing,        \* A client thread: "get", "wait", "sleeping", "send".
  read_index,   \* tsmthread_t::read_index.
  holding,      \* The index of the block it sends (pool_read_buffer).
  halves,       \* Halves of it that are sent (client_buffer_index).
  left,         \* The peer of a connection is gone.
  exited        \* The standard input has ended, and nmux with it.

\* What the properties are about: the half each client must send next, whether
\* the main thread has come around to a block it had not sent, and whether it
\* sent anything else than the next half.
VARIABLES due, lapped, wrong

pool   == <<write_index, current, filled, reading, buffers, exited>>
observed == <<due, lapped, wrong>>
nvars  == <<pool, clients, status, doing, read_index, holding, halves, left, observed>>

Index == 0 .. num - 1

index_next(i)   == IF i + 1 = num THEN 0 ELSE i + 1
index_before(i) == IF i - 1 < 0 THEN num - 1 ELSE i - 1

\* main() takes the first block before it accepts anybody.
NmuxInit ==
  /\ write_index = index_next(0) /\ current = 0 /\ filled = 0 /\ reading = 0
  /\ buffers = [i \in Index |-> <<0, 0>>]
  /\ clients = {} /\ exited = FALSE
  /\ status = [c \in Peer |-> "none"]
  /\ doing = [c \in Peer |-> "get"]
  /\ read_index = [c \in Peer |-> 0]
  /\ holding = [c \in Peer |-> 0]
  /\ halves = [c \in Peer |-> 2]
  /\ left = [c \in Peer |-> FALSE]
  /\ due = [c \in Peer |-> <<0, 0>>]
  /\ lapped = [c \in Peer |-> FALSE]
  /\ wrong = [c \in Peer |-> FALSE]
-----------------------------------------------------------------------------
(* The main thread.                                                         *)

\* accept(): the finished clients are removed first, then the new one is
\* registered just behind the block that is being read.  A new connection is
\* the only occasion on which finished clients are removed.
Accept(c) ==
  /\ ~exited /\ status[c] = "none"
  /\ clients' = {d \in clients : status[d] # "finished"} \union {c}
  /\ status' = [status EXCEPT ![c] = "running"]
  /\ read_index' = [read_index EXCEPT ![c] = index_before(write_index)]
  /\ due' = [due EXCEPT ![c] = <<reading, 1>>]
  /\ UNCHANGED <<pool, doing, holding, halves, left, lapped, wrong>>

\* get_write_buffer() once the current block is full: this is what makes it
\* available; the sleeping clients are woken.  The block it returns may be
\* the one a slow client is about to send, or is sending.
NextBlock ==
  /\ ~exited /\ filled = 2 /\ reading < MaxBlock
  /\ current' = write_index
  /\ write_index' = index_next(write_index)
  /\ filled' = 0
  /\ reading' = reading + 1
  /\ doing' = [c \in Peer |-> IF doing[c] = "sleeping" THEN "get" ELSE doing[c]]
  /\ lapped' = [c \in Peer |->
       lapped[c] \/ (/\ status[c] = "running"
                        /\ \/ halves[c] < 2 /\ holding[c] = write_index
                           \/ read_index[c] = write_index)]
  /\ UNCHANGED <<buffers, exited, clients, status, read_index, holding, halves, left, due, wrong>>

\* read() of the standard input into the current block.
ReadInput ==
  /\ ~exited /\ filled < 2
  /\ filled' = filled + 1
  /\ buffers' = [buffers EXCEPT ![current][filled + 1] = reading]
  /\ UNCHANGED <<write_index, current, reading, exited, clients, status, doing, read_index,
                 holding, halves, left, observed>>

\* The end of the input, or a signal, ends the process and with it every thread.
Exit ==
  /\ ~exited /\ exited' = TRUE
  /\ UNCHANGED <<write_index, current, filled, reading, buffers, clients, status, doing,
                 read_index, holding, halves, left, observed>>
-----------------------------------------------------------------------------
(* client_thread().                                                         *)

Runs(c) == ~exited /\ status[c] = "running"

\* Mutant: the block that is being read is given away, too.
ReadUnfinished(c) ==
  LET none == read_index[c] = write_index IN
  /\ Runs(c) /\ doing[c] = "get"
  /\ doing' = [doing EXCEPT ![c] = IF none THEN "wait" ELSE "send"]
  /\ holding' = IF none THEN holding ELSE [holding EXCEPT ![c] = read_index[c]]
  /\ halves' = IF none THEN halves ELSE [halves EXCEPT ![c] = 0]
  /\ read_index' = IF none THEN read_index
                   ELSE [read_index EXCEPT ![c] = index_next(@)]
  /\ UNCHANGED <<pool, clients, status, left, observed>>

\* get_read_buffer(): nothing while the reader is just behind the block that
\* is being read.
get_read_buffer(c) ==
  LET none == read_index[c] = index_before(write_index) IN
  /\ Runs(c) /\ doing[c] = "get"
  /\ doing' = [doing EXCEPT ![c] = IF none THEN "wait" ELSE "send"]
  /\ holding' = IF none THEN holding ELSE [holding EXCEPT ![c] = read_index[c]]
  /\ halves' = IF none THEN halves ELSE [halves EXCEPT ![c] = 0]
  /\ read_index' = IF none THEN read_index
                   ELSE [read_index EXCEPT ![c] = index_next(@)]
  /\ UNCHANGED <<pool, clients, status, left, observed>>

\* pthread_cond_wait(), not under the mutex of the pool: a broadcast since
\* get_read_buffer() is lost.
Sleep(c) ==
  /\ Runs(c) /\ doing[c] = "wait"
  /\ doing' = [doing EXCEPT ![c] = "sleeping"]
  /\ UNCHANGED <<pool, clients, status, read_index, holding, halves, left, observed>>

\* send() of the next half, from the memory of the pool.
Send(c) ==
  LET k == halves[c] + 1
      x == <<buffers[holding[c]][k], k>> IN
  /\ Runs(c) /\ doing[c] = "send" /\ ~left[c]
  /\ halves' = [halves EXCEPT ![c] = k]
  /\ doing' = [doing EXCEPT ![c] = IF k = 2 THEN "get" ELSE "send"]
  /\ wrong' = [wrong EXCEPT ![c] = @ \/ x # due[c]]
  /\ due' = [due EXCEPT ![c] = IF k = 1 THEN <<x[1], 2>> ELSE <<x[1] + 1, 1>>]
  /\ UNCHANGED <<pool, clients, status, read_index, holding, left, lapped>>

Leave(c) ==
  /\ Runs(c) /\ ~left[c] /\ left' = [left EXCEPT ![c] = TRUE]
  /\ UNCHANGED <<pool, clients, status, doing, read_index, holding, halves, observed>>

\* poll() or send() fails: the thread ends.  Its socket is not closed, and the
\* main thread learns of it with the next connection.
Finish(c) ==
  /\ Runs(c) /\ doing[c] = "send" /\ left[c]
  /\ status' = [status EXCEPT ![c] = "finished"]
  /\ UNCHANGED <<pool, clients, doing, read_index, holding, halves, left, observed>>
-----------------------------------------------------------------------------
NmuxNext ==
  \/ NextBlock \/ ReadInput \/ Exit
  \/ \E c \in Peer : \/ Accept(c) \/ get_read_buffer(c) \/ Sleep(c)
                       \/ Send(c) \/ Leave(c) \/ Finish(c)

NmuxSpec == NmuxInit /\ [][NmuxNext]_nvars
-----------------------------------------------------------------------------
(* A client that the main thread has not come around to gets every block of *)
(* the input from the one that was being read when it came, whole and in    *)
(* order: none is sent before it is complete, none twice, none left out.    *)
BlocksInOrder == \A c \in Peer : wrong[c] => lapped[c]
=============================================================================

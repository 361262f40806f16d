------------------------------ MODULE IqStream ------------------------------
(* The path of the samples: a device connector (owrx_connector) converts    *)
(* the blocks of its device into a ring buffer of single floats; a thread   *)
(* per client of the IQ port sends what its reader finds there; at the      *)
(* other end a csdr TcpSource in OpenWebRX puts the bytes together again,   *)
(* to complex samples of two items each.                                    *)
(*                                                                          *)
(* An item is known by its number in the stream of the device, modulo       *)
(* Numbers: even items are the first value of a sample, odd ones the        *)
(* second.  All threads run in parallel and nothing holds the writer back.  *)
EXTENDS RingBuffer, FiniteSets, Sequences, SequencesExt

CONSTANTS
  Client,     \* Connections to the IQ port.
  Lens,       \* The lengths of the blocks a device delivers, in items.
  Numbers,    \* Bound: items are counted modulo this number.
  SockSize    \* Bound: items in flight on one connection.

\* rtl_connector passes on blocks of exactly its buffer size only and Soapy
\* counts samples of two items, but rtl_tcp_connector passes on what recv()
\* returned, which may end in the middle of a sample.  The ring buffer holds
\* ten of the largest blocks.
ASSUME LensAssumption == Lens \subseteq 1 .. writeable
ASSUME BoundAssumption ==
  /\ Numbers \in Nat /\ Numbers > size /\ Numbers % size = 0 /\ Numbers % 2 = 0
  /\ SockSize \in Nat \ {0}

VARIABLES
  write_pos,  \* The writer's position.
  data,       \* The memory: position -> number of the item that is there.
  todo,       \* Items of the current block that are not in the buffer yet.
  chunk,      \* Items written at write_pos, but not made available yet.
  item,       \* The number of the next item of the device.
  pc,         \* The thread of a connection: "none", "wait", "waiting",
              \* "check", "send", "gone".
  run,        \* IQConnection::run, per connection.
  read_pos,   \* The position of its reader.
  sending,    \* The items the current send() is to take.
  sent,       \* The items it has copied.
  flight,     \* What the receiver has not taken yet: first (0) and second (1) values.
  closed,     \* The receiver has closed the connection.
  half        \* The value of an incomplete sample that the TcpSource holds
              \* (offset), as a sequence of none or one.

\* What the properties are about: whether the writer has come around to what a
\* client had not read; the next item it must see until then, and whether it
\* saw anything else; whether the stream of the client began with a first (0)
\* or a second value (1), and whether its TcpSource made a complex sample of
\* any other pair than one that begins like this.
VARIABLES next, overtaken, broken, beginning, swapped

device   == <<write_pos, data, todo, chunk, item>>
ghosts   == <<next, overtaken, broken, beginning, swapped>>
ivars    == <<device, pc, run, read_pos, sending, sent, flight, closed, half, ghosts>>

Reading(c) == pc[c] \notin {"none", "gone"}

IqInit ==
  /\ write_pos = 0 /\ todo = 0 /\ chunk = 0 /\ item = 0
  /\ data = [p \in 0 .. size - 1 |-> p]   \* A reader sees what is written only.
  /\ pc = [c \in Client |-> "none"]
  /\ run = [c \in Client |-> TRUE]
  /\ read_pos = [c \in Client |-> 0]
  /\ sending = [c \in Client |-> 0]
  /\ sent = [c \in Client |-> 0]
  /\ flight = [c \in Client |-> << >>]
  /\ closed = [c \in Client |-> FALSE]
  /\ half = [c \in Client |-> << >>]
  /\ next = [c \in Client |-> 0]
  /\ overtaken = [c \in Client |-> FALSE]
  /\ broken = [c \in Client |-> FALSE]
  /\ beginning = [c \in Client |-> 0]
  /\ swapped = [c \in Client |-> FALSE]
-----------------------------------------------------------------------------
(* The thread of the device.                                                *)

\* The device hands a block to processSamples().
Block(len) ==
  /\ todo = 0 /\ chunk = 0
  /\ todo' = len
  /\ UNCHANGED <<write_pos, data, chunk, item, pc, run, read_pos, sending, sent,
                 flight, closed, half, ghosts>>

\* convert() writes at the write pointer: over items that a slow reader has
\* not got yet, while it may be sending them.
Convert ==
  LET n == IF todo < writeable THEN todo ELSE writeable IN
  /\ todo > 0 /\ chunk = 0
  /\ chunk' = n
  /\ data' = [p \in 0 .. size - 1 |->
                LET i == available(p, write_pos)
                IN  IF i < n THEN (item + i) % Numbers ELSE data[p]]
  /\ item' = (item + n) % Numbers
  /\ overtaken' = [c \in Client |->
       overtaken[c] \/ (Reading(c) /\ available(write_pos, read_pos[c]) + n >= size)]
  /\ UNCHANGED <<write_pos, todo, pc, run, read_pos, sending, sent, flight, closed,
                 half, next, broken, beginning, swapped>>

\* Ringbuffer::advance() publishes them and wakes whoever waits.
Advance ==
  /\ chunk > 0
  /\ write_pos' = advance(write_pos, chunk)
  /\ todo' = todo - chunk
  /\ chunk' = 0
  /\ pc' = [c \in Client |-> IF pc[c] = "waiting" THEN "check" ELSE pc[c]]
  /\ UNCHANGED <<data, item, run, read_pos, sending, sent, flight, closed, half, ghosts>>
-----------------------------------------------------------------------------
(* A connection: IQSocket::accept_loop and IQConnection::loop.              *)

\* The new reader starts at the writer's position: between two advances, and
\* after an odd block in the middle of a sample.
startNewConnection(c) ==
  /\ pc[c] = "none"
  /\ pc' = [pc EXCEPT ![c] = "wait"]
  /\ read_pos' = [read_pos EXCEPT ![c] = write_pos]
  /\ next' = [next EXCEPT ![c] = (item + Numbers - chunk) % Numbers]
  /\ beginning' = [beginning EXCEPT ![c] = (item + Numbers - chunk) % 2]
  /\ UNCHANGED <<device, run, sending, sent, flight, closed, half, overtaken, broken, swapped>>

\* loop() waits before it looks: what came since the reader was made, or
\* since it last looked, is seen with the next advance() only.
Wait(c) ==
  /\ pc[c] = "wait"
  /\ pc' = [pc EXCEPT ![c] = "waiting"]
  /\ UNCHANGED <<device, run, read_pos, sending, sent, flight, closed, half, ghosts>>

\* A send() of everything available, another wait(), or the end of the loop.
Check(c) ==
  LET n == available(write_pos, read_pos[c]) IN
  /\ pc[c] = "check"
  /\ pc' = [pc EXCEPT ![c] = IF n > 0 THEN "send" ELSE IF run[c] THEN "wait" ELSE "gone"]
  /\ sending' = [sending EXCEPT ![c] = n]
  /\ UNCHANGED <<device, run, read_pos, sent, flight, closed, half, ghosts>>

\* send() copies from the memory as the connection takes it.
Copy(c) ==
  LET i == data[advance(read_pos[c], sent[c])] IN
  /\ pc[c] = "send" /\ sent[c] < sending[c]
  /\ ~closed[c] /\ run[c] /\ Len(flight[c]) < SockSize
  /\ flight' = [flight EXCEPT ![c] = Append(@, i % 2)]
  /\ sent' = [sent EXCEPT ![c] = @ + 1]
  /\ next' = [next EXCEPT ![c] = IF overtaken[c] THEN 0 ELSE (i + 1) % Numbers]
  /\ broken' = [broken EXCEPT ![c] = @ \/ (~overtaken[c] /\ i # next[c])]
  /\ UNCHANGED <<device, pc, run, read_pos, sending, closed, half, overtaken,
                 beginning, swapped>>

\* Mutant: the reader skips what came while it was sending.
SentUpToNow(c) ==
  /\ pc[c] = "send"
  /\ \/ sent[c] = sending[c] /\ run' = run
     \/ closed[c] /\ run' = [run EXCEPT ![c] = FALSE]
  /\ read_pos' = [read_pos EXCEPT ![c] = write_pos]
  /\ pc' = [pc EXCEPT ![c] = "check"]
  /\ sending' = [sending EXCEPT ![c] = 0]
  /\ sent' = [sent EXCEPT ![c] = 0]
  /\ UNCHANGED <<device, flight, closed, half, ghosts>>

\* The reader advances by what was available, whatever was sent; a send()
\* that failed ends the loop once nothing is available.
Sent(c) ==
  /\ pc[c] = "send"
  /\ \/ sent[c] = sending[c] /\ run' = run
     \/ closed[c] /\ run' = [run EXCEPT ![c] = FALSE]
  /\ read_pos' = [read_pos EXCEPT ![c] = advance(@, sending[c])]
  /\ pc' = [pc EXCEPT ![c] = "check"]
  /\ sending' = [sending EXCEPT ![c] = 0]
  /\ sent' = [sent EXCEPT ![c] = 0]
  /\ UNCHANGED <<device, flight, closed, half, ghosts>>
-----------------------------------------------------------------------------
(* The receiver.                                                            *)

\* The bytes as complex samples, and what is left of them.
Sampled(c, bytes) ==
  LET whole == Len(bytes) \div 2
      sample(k) == <<bytes[2*k - 1], bytes[2*k]>>
  IN  /\ swapped' = [swapped EXCEPT ![c] =
                       @ \/ \E k \in 1 .. whole :
                              sample(k) # <<beginning[c], 1 - beginning[c]>>]
      /\ half' = [half EXCEPT ![c] = SubSeq(bytes, 2 * whole + 1, Len(bytes))]

\* Mutant: the incomplete sample is overwritten by what comes next.
RecvAfresh(c) == \E n \in 1 .. Len(flight[c]) :
  /\ ~closed[c]
  /\ Sampled(c, SubSeq(flight[c], 1, n))
  /\ flight' = [flight EXCEPT ![c] = SubSeq(@, n + 1, Len(@))]
  /\ UNCHANGED <<device, pc, run, read_pos, sending, sent, closed, next, overtaken, broken,
                 beginning>>

\* recv() returns any number of bytes; whole samples are made available and
\* the rest stays at the write pointer, in front of what comes next.
Recv(c) == \E n \in 1 .. Len(flight[c]) :
  /\ ~closed[c]
  /\ Sampled(c, half[c] \o SubSeq(flight[c], 1, n))
  /\ flight' = [flight EXCEPT ![c] = SubSeq(@, n + 1, Len(@))]
  /\ UNCHANGED <<device, pc, run, read_pos, sending, sent, closed, next, overtaken, broken,
                 beginning>>

\* ~TcpSource closes the socket; what was in flight is lost.
Close(c) ==
  /\ Reading(c) /\ ~closed[c]
  /\ closed' = [closed EXCEPT ![c] = TRUE]
  /\ flight' = [flight EXCEPT ![c] = << >>]
  /\ half' = [half EXCEPT ![c] = << >>]
  /\ UNCHANGED <<device, pc, run, read_pos, sending, sent, ghosts>>
-----------------------------------------------------------------------------
Connection(c) == \/ startNewConnection(c) \/ Wait(c) \/ Check(c) \/ Copy(c) \/ Sent(c)

IqNext ==
  \/ \E len \in Lens : Block(len)
  \/ Convert
  \/ Advance
  \/ \E c \in Client : Connection(c) \/ Recv(c) \/ Close(c)

IqSpec == IqInit /\ [][IqNext]_ivars

-----------------------------------------------------------------------------
(* Whatever the block sizes, the speed of a client and the pieces in which  *)
(* the bytes arrive, a client's complex samples all begin with the kind of  *)
(* value its stream began with: not an odd recv() of rtl_tcp, nor an        *)
(* overrun, a failed send() or a cut in the bytes swaps I and Q on a        *)
(* connection.  One that joins rtl_tcp in the middle of a sample has them   *)
(* swapped from the start to the end: see BeginsWithI.                      *)
SamplesPaired == \A c \in Client : ~swapped[c]

(* README.md of owrx_connector: the data socket "relays the IQ stream read  *)
(* from the SDR device to multiple clients."  The stream of each begins     *)
(* with a first value.  Not so of an rtl_tcp device: a client may join      *)
(* after a recv() that ended in the middle of a sample.                     *)
BeginsWithI == \A c \in Client : beginning[c] = 0

(* A client that the writer has not come around to gets the samples of the  *)
(* device without gap, repetition or reordering from where it joined.       *)
InOrder == \A c \in Client : ~broken[c]

\* How far a reader is behind, as the readers themselves compute it.
behind == [c \in Client |->
             IF Reading(c) THEN available(write_pos, read_pos[c]) ELSE -1]

Stream == INSTANCE LossyStream
            WITH Client <- Client, Length <- size, Absent <- -1,
                 behind <- behind, taking <- sending

(* The ring buffer implements the lossy stream: all readers are moved back  *)
(* by the same number of items, only by whole buffers when they are slow,   *)
(* and none is moved by another.                                            *)
ImplementsLossyStream == Stream!Spec
=============================================================================

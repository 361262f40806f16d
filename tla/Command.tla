------------------------------ MODULE Command -------------------------------
(* A command of csdr++ (Command::runModule): the process reads its standard *)
(* input into a ring buffer, where the elements of a read may end in the    *)
(* middle, and has a module process what is there: by itself after every    *)
(* read, or (--async) by an AsyncRunner at any time.  Some commands take    *)
(* settings, line by line, from a control fifo.                             *)
(*                                                                          *)
(* A byte is its number on stdin, counted from 1; Stale is one that is in   *)
(* the memory of the buffer, but not from the last round.                   *)
EXTENDS Integers, Sequences

CONSTANTS
  itemBytes,   \* sizeof(T).
  clamp,       \* Elements that are read at once (1024).
  ringSize,    \* Elements in the memory of the buffer (10485760 at least).
  SizeMax,     \* The largest size_t, which is what -1 is read as.
  Total,       \* Bound: bytes on stdin.
  MaxLines     \* Bound: lines that are written to the fifo.

ASSUME Sizes == itemBytes \in Nat \ {0} /\ clamp \in Nat

VARIABLES
  command,     \* What runModule() has to know of the command, see Runs.
  async,       \* --async
  at,          \* "select", "process", "delete", "ended", "crashed".
  got,         \* Bytes that have been read.
  memory,      \* The bytes at the write pointer (read_over of them).
  items,       \* The elements the module has not processed, as their bytes.
  made,        \* How many it has.
  torn,        \* One of them was not the bytes that come next.
  overrun,     \* A read has come to elements that were not processed yet.
  failed,      \* read() has returned -1.
  inFifo,      \* Lines in the fifo,
  inFile,      \* and those fgets() has read ahead, which select() does not see.
  lines,       \* Lines written.
  fifoEnd      \* The fifo has no writer any more.

readVars  == <<got, memory>>
workVars  == <<items, made, torn>>
failVars  == <<overrun, failed>>
fifoVars  == <<inFifo, inFile, lines, fifoEnd>>
plusVars  == <<command, async, at, readVars, workVars, failVars, fifoVars>>
-----------------------------------------------------------------------------
\* The module of a command processes once there are `needs' elements, and
\* takes `takes' of them; the command may have a control fifo.
Runs(needs, takes, fifo) == [needs |-> needs, takes |-> takes, fifo |-> fifo]

Single  == Runs(1, 1, FALSE)   \* One after the other.
InPairs == Runs(2, 2, FALSE)   \* Several at once.
Blocks  == Runs(3, 2, FALSE)   \* Blocks of fixed length, and one element more.
Taps    == Runs(3, 1, FALSE)   \* Behind a filter.
Steps   == Runs(4, 2, FALSE)   \* The same, decimating.
WithFifo(runs) == [runs EXCEPT !.fifo = TRUE]

Audio       == {Single, Blocks}                           \* agc fmdemod amdemod dcblock convert
Spectrum    == {Single, Blocks}                           \* fft logpower logaveragepower fftswap
Rates       == {Single, WithFifo(Blocks), Steps}          \* realpart shift firdecimate
Fractions   == {Steps}                                    \* fractionaldecimator
Codecs      == {Single, InPairs, Blocks, WithFifo(Blocks)} \* adpcm fftadpcm limit power squelch
Demodulated == {Single, Taps, WithFifo(Taps), Steps}
               \* deemphasis gain bandpass dbpskdecode varicodedecode timingrecovery

Commands == UNION {Audio, Spectrum, Rates, Fractions, Codecs, Demodulated}

\* What a module waits for and one more read fit into the buffer.
ASSUME RingHolds ==
  /\ ringSize \in Nat /\ SizeMax \in Nat
  /\ \A c \in Commands : c.needs + clamp <= ringSize

PlusInit ==
  /\ command \in Commands /\ async \in BOOLEAN
  /\ at = "select" /\ got = 0 /\ memory = << >>
  /\ items = << >> /\ made = 0 /\ torn = FALSE
  /\ overrun = FALSE /\ failed = FALSE
  /\ inFifo = 0 /\ inFile = 0 /\ lines = 0 /\ fifoEnd = FALSE
-----------------------------------------------------------------------------
\* Bytes that read() puts at the write pointer, as elements and the rest.
Elements(bytes) ==
  [k \in 1 .. Len(bytes) \div itemBytes |->
     SubSeq(bytes, (k - 1) * itemBytes + 1, k * itemBytes)]
Rest(bytes) == SubSeq(bytes, Len(bytes) - (Len(bytes) % itemBytes) + 1, Len(bytes))

Stdin(n) == [k \in 1 .. n |-> got + k]

\* Mutant: read() writes over the element that is incomplete.
ReadOver(n) ==
  /\ at = "select" /\ got + n <= Total /\ n <= clamp * itemBytes - Len(memory)
  /\ memory' = Stdin(n) \o SubSeq(memory, n + 1, Len(memory))
  /\ got' = got + n /\ at' = "advance"
  /\ overrun' = (overrun \/ Len(items) + Len(memory') \div itemBytes >= ringSize)
  /\ UNCHANGED <<command, async, workVars, failed, fifoVars>>

\* read() behind what there is of an element, whether or not a runner has
\* processed what was there before.
Read(n) ==
  /\ at = "select" /\ got + n <= Total /\ n <= clamp * itemBytes - Len(memory)
  /\ memory' = memory \o Stdin(n)
  /\ got' = got + n /\ at' = "advance"
  /\ overrun' = (overrun \/ Len(items) + Len(memory') \div itemBytes >= ringSize)
  /\ UNCHANGED <<command, async, workVars, failed, fifoVars>>

\* What a reader sees behind its position once the write pointer has moved on:
\* the elements that were written last, without whole rounds.
Seen(all) == SubSeq(all, Len(all) - (Len(all) % ringSize) + 1, Len(all))

\* Then advance() by whole elements.
AfterRead == at' = IF async THEN "select" ELSE "process"
advanceWrite ==
  /\ at = "advance" /\ AfterRead
  /\ items' = Seen(items \o Elements(memory)) /\ memory' = Rest(memory)
  /\ UNCHANGED <<command, async, got, made, torn, failVars, fifoVars>>

\* read() returns -1, which nobody looks for: as many bytes are counted as a
\* size_t can tell, or one less than none.  Bound: once, within the last element.
Stale == 0
ReadFails ==
  /\ at = "select" /\ ~failed /\ Total - got < itemBytes /\ AfterRead
  /\ LET sum   == (SizeMax + Len(memory)) % (SizeMax + 1)
         stale == [k \in 1 .. sum \div itemBytes |-> [i \in 1 .. itemBytes |-> Stale]]
         all   == items \o stale
     IN /\ items' = SubSeq(all, 1, Len(all) % ringSize)
        /\ memory' = [i \in 1 .. sum % itemBytes |->
                        IF i <= Len(memory) THEN memory[i] ELSE Stale]
  /\ failed' = TRUE
  /\ UNCHANGED <<command, async, got, made, torn, overrun, fifoVars>>

\* read() returns 0, or select() has failed.
End ==
  /\ at = "select"
  /\ at' = "delete"
  /\ UNCHANGED <<command, async, readVars, workVars, failVars, fifoVars>>

canProcess == Len(items) >= command.needs

Next(k) == [i \in 1 .. itemBytes |-> (made + k - 1) * itemBytes + i]

\* A read has written over what the reader is about to read.
Overwritten == Len(memory) > (ringSize - Len(items)) * itemBytes

process ==
  /\ canProcess
  /\ items' = SubSeq(items, command.takes + 1, Len(items))
  /\ made' = made + command.takes
  /\ torn' = (torn \/ Overwritten \/ \E k \in 1 .. command.takes : items[k] # Next(k))
  /\ UNCHANGED <<command, async, at, readVars, failVars, fifoVars>>

\* while (module->canProcess()) module->process();
Processed ==
  /\ at = "process" /\ ~canProcess
  /\ at' = "select"
  /\ UNCHANGED <<command, async, readVars, workVars, failVars, fifoVars>>

\* "delete buffer" comes before "delete runner": a runner that is at work
\* then reads from memory that is gone, one that waits is woken to find its
\* reader without a buffer, and ends.
delete ==
  /\ at = "delete"
  /\ at' \in {"ended"} \union (IF async THEN {"crashed"} ELSE {})
  /\ UNCHANGED <<command, async, readVars, workVars, failVars, fifoVars>>
-----------------------------------------------------------------------------
(* The control fifo.                                                        *)

WriteLine ==
  /\ command.fifo /\ ~fifoEnd /\ lines < MaxLines
  /\ lines' = lines + 1 /\ inFifo' = inFifo + 1
  /\ UNCHANGED <<command, async, at, readVars, workVars, failVars, inFile, fifoEnd>>

CloseFifo ==
  /\ command.fifo /\ ~fifoEnd /\ lines > 0
  /\ fifoEnd' = TRUE
  /\ UNCHANGED <<command, async, at, readVars, workVars, failVars, inFifo, inFile, lines>>

\* select() says that the fifo is readable: fgets() returns what it has read
\* ahead, or reads all there is and returns the first line of it.
processFifoData ==
  /\ at = "select" /\ (inFifo > 0 \/ fifoEnd) /\ inFifo + inFile > 0
  /\ IF inFile > 0 THEN inFile' = inFile - 1 /\ UNCHANGED inFifo
     ELSE inFile' = inFifo - 1 /\ inFifo' = 0
  /\ UNCHANGED <<command, async, at, readVars, workVars, failVars, lines, fifoEnd>>

\* At the end of the fifo the command terminates, whatever is on stdin.
FifoEof ==
  /\ at = "select" /\ fifoEnd /\ inFifo + inFile = 0
  /\ at' = "delete"
  /\ UNCHANGED <<command, async, readVars, workVars, failVars, fifoVars>>

\* The AsyncRunner works beside the loop, the loop works by itself.
Works == at = "process" \/ (async /\ at \in {"select", "advance"})

Step == End \/ advanceWrite \/ ReadFails \/ (Works /\ process) \/ Processed \/ delete \/ processFifoData \/ FifoEof
          \/ \E n \in 1 .. clamp * itemBytes : Read(n)

PlusNext == Step \/ WriteLine \/ CloseFifo

PlusSpec == PlusInit /\ [][PlusNext]_plusVars
-----------------------------------------------------------------------------
(* As long as read() does not fail, the module gets whole elements, in      *)
(* order and none left out, wherever the reads of stdin end.  With --async  *)
(* that is so only until a read comes to what the runner has not processed  *)
(* yet, since the loop does not wait for it; without, that never happens,   *)
(* and when the command ends it has processed all its module can: what is   *)
(* left are fewer elements than it needs.                                   *)
NothingLeftOver ==
  /\ failed \/ overrun \/
       /\ ~torn
       /\ made + Len(items) + Len(memory) \div itemBytes = got \div itemBytes
  /\ ~async => failed \/ ~overrun
  /\ ~async /\ at \in {"delete", "ended"} => ~canProcess
=============================================================================

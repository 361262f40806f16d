------------------------------- MODULE Blocks -------------------------------
(* The signal processing blocks of csdr.  A runner asks a block whether it  *)
(* can process (canProcess), and calls process() in a second step: between  *)
(* the two more input arrives, or another thread gives the block another    *)
(* reader, filter or writer.  Input arrives in pieces of any size, and a    *)
(* block must make the same of it as if it came in one piece: what a block  *)
(* carries from one call to the next is the hard part.                      *)
(*                                                                          *)
(* An item is known by its position in the input.  An item of output is the *)
(* tuple or set of what it is computed from; `mem' is what a block carries, *)
(* known by the position of the last item (or block) that went into it.     *)
EXTENDS Integers, Sequences, FiniteSets, SequencesExt, FiniteSetsExt

CONSTANTS
  Total,         \* Bound: items of the input.
  Pieces,        \* Bound: the pieces in which they arrive.
  Room,          \* What the writer takes in one piece.
  OtherRooms,    \* Bound: what another writer takes.
  Garbage,       \* Bound: what an uninitialised index may hold.
  length,        \* Of a block of fixed length; the size of an FFT (1024 ...).
  buffer_size,   \* Of the temporary buffers of FmDemod (1024).
  taps_length,   \* Of the filters.
  inputSize,     \* What an FFT filter takes at once, fftSize - taps_length + 1.
  decimation, channels, avgNumber, everyNSamples,
  Flush,         \* Silent blocks that a squelch still passes on (5).
  SyncEvery,     \* Bytes between two SYNC frames (1000).
  SyncLen,       \* Bytes of a SYNC frame (8).
  Pad            \* COMPRESS_FFT_PAD_N (10).

\* An FFT is longer than what is padded in front of it.
ASSUME BlocksAssumption ==
  /\ {Room, length, buffer_size, taps_length, inputSize, decimation, channels,
      avgNumber, everyNSamples, SyncEvery} \union OtherRooms \subseteq Nat \ {0}
  /\ {Total, Flush, SyncLen} \subseteq Nat /\ Pieces \subseteq Nat
  /\ Pad \in 2 .. length /\ Garbage \subseteq Int

VARIABLES
  block,         \* The block: [name, family, carries].
  stage,         \* "check", "process", "done".
  pos,           \* Items the block has taken.
  avail,         \* Items its reader has.
  room,          \* Items its writer takes.
  mem,           \* What it carries.
  out,           \* What it has written.
  exchanged,     \* Its reader, filter or writer was exchanged before process().
  last           \* What the last process() did to its buffers.

bvars == <<block, stage, pos, avail, room, mem, out, exchanged, last>>

Named(name, family, carries) == [name |-> name, family |-> family, carries |-> carries]

\* Sample by sample; carries the last sample, its phase, a gain, an output, a phase.
Gain          == Named("gain", "any", FALSE)
FmDemod       == Named("fmdemod", "any", TRUE)
DBPskDecoder  == Named("dbpsk", "any", TRUE)
Agc           == Named("agc", "any", TRUE)
WfmDeemphasis == Named("wfmdeemphasis", "any", TRUE)
ShiftMath     == Named("shift", "any", TRUE)
\* Blocks of fixed length; carries the last level, a phase.
FftExchangeSides == Named("fftswap", "fixed", FALSE)
DcBlock          == Named("dcblock", "fixed", TRUE)
ShiftAddfast     == Named("shiftaddfast", "fixed", TRUE)
\* Blocks with a process() of their own.
Fft                 == Named("fft", "fft", TRUE)
FirFilter           == Named("fir", "filter", FALSE)
FftFilter           == Named("fftfilter", "fftfilter", TRUE)
FirDecimate         == Named("firdecimate", "decimate", FALSE)
FractionalDecimator == Named("fractional", "fractional", TRUE)
Downmix             == Named("downmix", "downmix", FALSE)
LogAveragePower     == Named("average", "average", TRUE)
Squelch             == Named("squelch", "squelch", TRUE)
TimingRecovery      == Named("timing", "timing", FALSE)
AdpcmEncoder        == Named("adpcm", "adpcm", TRUE)
AdpcmDecoder        == Named("adpcmdecoder", "adpcmdecoder", TRUE)
FftAdpcmEncoder     == Named("fftadpcm", "fftadpcm", FALSE)
AudioResampler      == Named("resampler", "resampler", TRUE)

BlockKind ==
  {Gain, FmDemod, DBPskDecoder, Agc, WfmDeemphasis, ShiftMath, FftExchangeSides,
   DcBlock, ShiftAddfast, Fft, FirFilter, FftFilter, FirDecimate, FractionalDecimator,
   Downmix, LogAveragePower, Squelch, TimingRecovery, AdpcmEncoder, AdpcmDecoder,
   FftAdpcmEncoder, AudioResampler}

\* The rate of the fractional decimator is three halves: places between two
\* items are counted in halves.  It interpolates over four items.
Rate == 3
num_poly_points == 4
xifirst == -(num_poly_points \div 2) + 1
Ceil(halves) == (halves + 1) \div 2

Fresh(b) == CASE b.family = "fft"        -> 0
              [] b.family = "fftfilter"  -> [i \in 1 .. taps_length - 1 |-> {}]
              [] b.family = "fractional" -> -2 * xifirst
              [] b.family = "average"    -> {}
              [] b.family = "squelch"    -> 0
              [] b.family = "adpcm"      -> 0
              [] OTHER                   -> -1

BlocksInit ==
  /\ block \in BlockKind
  /\ stage = "check" /\ pos = 0 /\ avail = 0 /\ room = Room /\ out = << >>
  /\ mem = Fresh(block)
  /\ exchanged = FALSE
  /\ last = [had |-> 0, space |-> Room, reads |-> 0, takes |-> 0, gives |-> 0,
             changed |-> TRUE]
-----------------------------------------------------------------------------
\* The writer of the input.
Arrive(n) ==
  /\ stage # "done" /\ pos + avail + n <= Total
  /\ avail' = avail + n
  /\ UNCHANGED <<block, stage, pos, room, mem, out, exchanged, last>>

\* Another thread sets a reader that has less than the one that was asked, or
\* a filter that needs more.
exchange(n) ==
  /\ stage = "process" /\ n < avail
  /\ avail' = n
  /\ exchanged' = TRUE
  /\ UNCHANGED <<block, stage, pos, room, mem, out, last>>

\* Another thread sets another writer.
setWriter(r) ==
  /\ stage = "process" /\ r # room
  /\ room' = r
  /\ exchanged' = TRUE
  /\ UNCHANGED <<block, stage, pos, avail, mem, out, last>>

\* The loop of the runner: canProcess(), then process().
canProcess(can) ==
  /\ stage = "check" /\ can
  /\ stage' = "process"
  /\ UNCHANGED <<block, pos, avail, room, mem, out, exchanged, last>>

\* A process() that reads up to the item `reads', takes some of them, writes
\* `made' and carries m.
Process(reads, takes, made, m) ==
  /\ stage = "process"
  /\ stage' = IF exchanged THEN "done" ELSE "check"
  /\ pos' = pos + takes
  /\ avail' = avail - takes
  /\ out' = out \o made
  /\ mem' = m
  /\ last' = [had |-> avail, space |-> room, reads |-> reads, takes |-> takes,
              gives |-> Len(made), changed |-> takes # 0 \/ made # << >> \/ m # mem]
  /\ UNCHANGED <<block, room, exchanged>>

Item(i) == pos + i - 1

\* The output for item p of a block that carries what came before.
From(carried, p) == IF block.carries THEN <<carried, p>> ELSE <<p>>
-----------------------------------------------------------------------------
(* AnyLengthModule.                                                         *)

\* Mutant: FmDemod is given more than its temporary buffers hold.
UnlimitedWorkSize == Min({avail, room})

getWorkSize ==
  Min({avail, room, IF block = FmDemod THEN buffer_size ELSE room})

AnyLength ==
  LET n == getWorkSize IN
  \/ canProcess(n > 0)
  \/ Process(IF block = FmDemod THEN Max({1, n}) ELSE n, n,
             [i \in 1 .. n |-> From(IF i = 1 THEN mem ELSE Item(i - 1), Item(i))],
             IF block.carries /\ n > 0 THEN Item(n) ELSE mem)

(* FixedLengthModule: process() does not look again.                        *)

\* FftExchangeSides swaps the halves of its block.
Place(i) == IF block # FftExchangeSides THEN i
            ELSE IF i <= length \div 2 THEN i + length \div 2 ELSE i - length \div 2

FixedLength ==
  \/ canProcess(avail > length /\ room > length)
  \/ Process(length, length,
             [i \in 1 .. length |-> From(mem, Item(Place(i)))],
             IF block.carries THEN Item(length) ELSE mem)
-----------------------------------------------------------------------------
(* Fft: a frame every everyNSamples items, of which `skipped' are gone.     *)

fftSize == length

\* Mutant: skipped is not reset after a frame.
FftKeepsSkipped ==
  LET toSkip == IF everyNSamples > mem THEN everyNSamples - mem ELSE 0
      frame   == avail - toSkip >= fftSize
      inRange == mem + avail >= everyNSamples
  IN  \/ canProcess(avail > fftSize /\ room > fftSize)
      \/ /\ inRange /\ frame
         /\ Process(toSkip + fftSize, toSkip,
                    [i \in 1 .. fftSize |-> <<Item(toSkip + 1), i>>], mem + toSkip)
      \/ inRange /\ ~frame /\ Process(0, toSkip, << >>, mem + toSkip)
      \/ ~inRange /\ Process(0, avail, << >>, mem + avail)

FftProcess ==
  LET toSkip == IF everyNSamples > mem THEN everyNSamples - mem ELSE 0
      frame   == avail - toSkip >= fftSize
      inRange == mem + avail >= everyNSamples
  IN  \/ canProcess(avail > fftSize /\ room > fftSize)
      \/ /\ inRange /\ frame
         /\ Process(toSkip + fftSize, toSkip,
                    [i \in 1 .. fftSize |-> <<Item(toSkip + 1), i>>], 0)
      \/ inRange /\ ~frame /\ Process(0, toSkip, << >>, mem + toSkip)
      \/ ~inRange /\ Process(0, avail, << >>, mem + avail)
-----------------------------------------------------------------------------
(* FilterModule: with a FIR filter, which needs taps_length items more than *)
(* it takes, or by FFT, overlapping and adding.                             *)

Filter ==
  LET n == Min({avail - taps_length, room}) IN
  \/ canProcess(avail > taps_length /\ room > 0)
  \/ IF avail < taps_length THEN Process(0, 0, << >>, mem)
     ELSE Process(IF n = 0 THEN 0 ELSE n - 1 + taps_length, n,
                  [i \in 1 .. n |-> {Item(i + k) : k \in 0 .. taps_length - 1}], mem)

\* Item i of the inverse FFT is made of the items that a tap reaches it from;
\* what lies behind inputSize is carried, with what was carried to it.
apply ==
  LET own    == [i \in 1 .. inputSize + taps_length - 1 |->
                   {Item(k) : k \in {j \in 1 .. inputSize : i - j \in 0 .. taps_length - 1}}]
      result == [i \in DOMAIN own |-> own[i] \union (IF i < taps_length THEN mem[i] ELSE {})]
  IN  Process(inputSize, inputSize, SubSeq(result, 1, inputSize),
              SubSeq(result, inputSize + 1, Len(result)))

FftFiltering == \/ canProcess(avail > inputSize /\ room > inputSize)
                \/ apply

Decimate ==
  LET n == Min({(avail - taps_length) \div decimation, room}) IN
  \/ canProcess(avail > taps_length /\ n > 0 /\ room > 0)
  \/ IF avail < taps_length THEN Process(0, 0, << >>, mem)
     ELSE Process(IF n = 0 THEN 0 ELSE (n - 1) * decimation + taps_length,
                  n * decimation, [i \in 1 .. n |-> <<Item((i - 1) * decimation + 1)>>], mem)

\* mem is `where', the place of the next output after pos.  Without any output
\* the index of the item it stopped at is not initialized.
Fractional ==
  LET size  == Min({avail, (2 * room + Rate - 1) \div Rate})
      fits(k) == Ceil(mem + k * Rate) + num_poly_points + taps_length < size
      n     == Cardinality({k \in 0 .. Total : fits(k)})
      index == IF n = 0 THEN Garbage ELSE {Ceil(mem + (n - 1) * Rate) - 1}
  IN  \/ canProcess(fits(0))
      \/ \E i \in index :
           Process(IF n = 0 THEN 0 ELSE i + num_poly_points + taps_length - 1,
                   i + xifirst, [k \in 1 .. n |-> <<2 * pos + mem + (k - 1) * Rate>>],
                   mem + n * Rate - 2 * (i + xifirst))
-----------------------------------------------------------------------------
Mix ==
  LET n == Min({avail \div channels, room}) IN
  \/ canProcess(avail >= channels /\ room > 0)
  \/ Process(n * channels, n * channels,
             [i \in 1 .. n |-> {Item((i - 1) * channels + k) : k \in 1 .. channels}], mem)

\* mem is the collector: the frames that were added up.
Average ==
  LET collector == mem \union {pos} IN
  \/ canProcess(avail > fftSize /\ room > fftSize)
  \/ IF Cardinality(collector) = avgNumber
     THEN Process(fftSize, fftSize, [i \in 1 .. fftSize |-> <<collector, i>>], {})
     ELSE Process(fftSize, fftSize, << >>, collector)

\* The power of a block is what is in it; here it follows from its position.
Loud(p) == p % (4 * length) = 0

\* mem is flushCounter.
forwardData ==
  \/ Loud(pos) /\ Process(length, length,
                          [i \in 1 .. length |-> <<Item(i)>>], 0)
  \/ ~Loud(pos) /\ mem < Flush
     /\ Process(length, length, [i \in 1 .. length |-> << >>], mem + 1)
  \/ ~Loud(pos) /\ mem >= Flush /\ Process(length, length, << >>, mem)

Squelching == \/ canProcess(avail > length /\ room > length)
              \/ forwardData

\* The error that is measured, and so the correction, follows from the items.
halfbit == decimation \div 2
Correction(p) == (p % (2 * halfbit + 1)) - halfbit

Timing ==
  \/ canProcess(avail > halfbit * 3 /\ room > 0)
  \/ Process(halfbit * 3 + 1, decimation + Correction(pos),
             <<<<pos + halfbit>>>>, mem)
-----------------------------------------------------------------------------
\* mem is syncCounter.  The SYNC frame of byte i is written at i, without the
\* offset of an earlier one in the same call: there must not be two.  With less
\* room than a frame the unsigned difference is beyond the other bounds.
AdpcmEncoding ==
  LET n     == Min({avail \div 2, SyncEvery}
                    \union (IF room >= SyncLen THEN {room - SyncLen} ELSE {}))
      syncs == {i \in mem + 1 .. n : (i - mem - 1) % (SyncEvery + 1) = 0}
      Index(i)  == i + SyncLen * Cardinality({s \in syncs : s <= i})
      bytes(p)  == {i \in 1 .. n : Index(i) = p}
      frames(p) == {s \in syncs : p \in s .. s + SyncLen - 1}
      At(p) == IF \E s \in frames(p) : \A i \in bytes(p) : s > i
               THEN <<"SYNC", Item(2 * Max(frames(p)) - 1), p - Max(frames(p)) + 1>>
               ELSE LET i == Max(bytes(p) \union {0}) IN <<Item(2 * i - 1), Item(2 * i)>>
  IN  \/ canProcess(avail >= 2 /\ room > SyncLen)
      \/ Process(2 * n, 2 * n, [p \in 1 .. n + SyncLen * Cardinality(syncs) |-> At(p)],
                 IF syncs = {} THEN mem - n ELSE SyncEvery - (n - Max(syncs)))

AdpcmDecoding ==
  LET n == Min({avail, room \div 2}) IN
  \/ canProcess(avail > 0 /\ room >= Pad)
  \/ Process(n, n,
             [k \in 1 .. 2 * n |-> <<Item((k + 1) \div 2), k % 2>>], mem)

\* The codec starts again with every FFT, behind a padding of its first value.
FftAdpcmEncoding ==
  \/ canProcess(avail >= fftSize /\ (Pad + room) \div 2 > fftSize)
  \/ Process(fftSize, fftSize,
             [k \in 1 .. Pad \div 2 |-> <<pos, pos>>]
               \o [k \in 1 .. fftSize \div 2 |-> <<Item(2 * k - 1), Item(2 * k)>>], mem)

\* libsamplerate (external) takes and gives what it likes, within bounds.
Resampling ==
  \/ canProcess(avail > 0 /\ room > 0)
  \/ \E n \in 1 .. avail : Process(n, n, << >>, Item(n))
-----------------------------------------------------------------------------
BlocksNext ==
  \/ \E n \in Pieces : Arrive(n)
  \/ \E n \in 0 .. avail - 1 : exchange(n)
  \/ \E r \in OtherRooms : setWriter(r)
  \/ block.family = "any" /\ AnyLength
  \/ block.family = "fixed" /\ FixedLength
  \/ block.family = "fft" /\ FftProcess
  \/ block.family = "filter" /\ Filter
  \/ block.family = "fftfilter" /\ FftFiltering
  \/ block.family = "decimate" /\ Decimate
  \/ block.family = "fractional" /\ Fractional
  \/ block.family = "downmix" /\ Mix
  \/ block.family = "average" /\ Average
  \/ block.family = "squelch" /\ Squelching
  \/ block.family = "timing" /\ Timing
  \/ block.family = "adpcm" /\ AdpcmEncoding
  \/ block.family = "adpcmdecoder" /\ AdpcmDecoding
  \/ block.family = "fftadpcm" /\ FftAdpcmEncoding
  \/ block.family = "resampler" /\ Resampling

BlocksSpec == BlocksInit /\ [][BlocksNext]_bvars
-----------------------------------------------------------------------------
(* What a block is to make of its input: item k of the output, whatever the  *)
(* pieces were.                                                             *)

\* The blocks a squelch passes on: the loud ones, and Flush silent ones after
\* each, and at the beginning.
Passed == SelectSeq([b \in 1 .. Total \div length |-> (b - 1) * length],
                    LAMBDA p : \/ Loud(p)
                               \/ \E j \in 1 .. Flush : p < j * length \/ Loud(p - j * length))

\* Where a timing recovery takes its symbols.
Symbol[k \in 1 .. Total] ==
  IF k = 1 THEN 0 ELSE Symbol[k - 1] + decimation + Correction(Symbol[k - 1])

Whole(k, n) == ((k - 1) \div n)     \* The frame of n items that item k is in, from 0,
Part(k, n)  == ((k - 1) % n) + 1     \* and its number there, from 1.

Ideal(k) ==
  CASE block.family = "any"        -> From(k - 2, k - 1)
    [] block.family = "fixed"      -> LET b == Whole(k, length) * length
                                      IN  From(b - 1, b + Place(Part(k, length)) - 1)
    [] block.family = "fft"        -> <<(Whole(k, fftSize) + 1) * everyNSamples, Part(k, fftSize)>>
    [] block.family = "filter"     -> k - 1 .. k + taps_length - 2
    [] block.family = "fftfilter"  -> (k - taps_length .. k - 1) \intersect Nat
    [] block.family = "decimate"   -> <<(k - 1) * decimation>>
    [] block.family = "fractional" -> <<-2 * xifirst + (k - 1) * Rate>>
    [] block.family = "downmix"    -> (k - 1) * channels .. k * channels - 1
    [] block.family = "average"    ->
         <<{(Whole(k, fftSize) * avgNumber + j) * fftSize : j \in 0 .. avgNumber - 1},
           Part(k, fftSize)>>
    [] block.family = "squelch"    -> LET p == Passed[Whole(k, length) + 1]
                                      IN  IF Loud(p) THEN <<p + Part(k, length) - 1>> ELSE << >>
    [] block.family = "timing"     -> <<Symbol[k] + halfbit>>
    [] block.family = "adpcm"      ->
         LET frame == SyncLen + SyncEvery + 1
             b     == Whole(k, frame) * (SyncEvery + 1)
             i     == Part(k, frame)
         IN  IF i <= SyncLen THEN <<"SYNC", 2 * b, i>>
             ELSE <<2 * (b + i - SyncLen - 1), 2 * (b + i - SyncLen) - 1>>
    [] block.family = "adpcmdecoder" -> <<Whole(k, 2), k % 2>>
    [] block.family = "fftadpcm"   ->
         LET frame == (Pad + fftSize) \div 2
             p == Whole(k, frame) * fftSize
             i == Part(k, frame) - Pad \div 2
         IN  IF i <= 0 THEN <<p, p>> ELSE <<p + 2 * i - 2, p + 2 * i - 1>>

(* However the input is cut into pieces, and whenever a block is called, it *)
(* writes the same output: what it carries from one call to the next        *)
(* (overlap, phase, skipped items, counters, a place between two items)     *)
(* leaves no seam.                                                          *)
ChunkingIrrelevant ==
  stage # "done" => \A k \in 1 .. Len(out) : out[k] = Ideal(k)

\* Blocks whose process() relies on the input, or the space for the output,
\* that canProcess() has seen, without looking again.
TrustsReader(b) == b = FmDemod \/ b.family \in {"fixed", "fftfilter", "fractional", "average",
                                                "squelch", "timing", "fftadpcm"}
TrustsWriter(b) == b.family \in {"fixed", "fft", "fftfilter", "average", "squelch", "adpcm",
                                 "fftadpcm"}

(* As long as a block keeps its reader, filter and writer from canProcess() *)
(* to process(), process() reads and takes no more than there is, writes no *)
(* more than fits, and always gets something done, so that the runner never *)
(* spins.  After an exchange, only the blocks that look again are safe: the *)
(* others (TrustsReader, TrustsWriter) go beyond the new buffers.  Never is *)
(* a temporary buffer of FmDemod overrun.                                   *)
WithinBounds ==
  /\ block = FmDemod => last.gives <= buffer_size
  /\ last.gives > last.space => exchanged /\ TrustsWriter(block)
  /\ \/ last.reads > last.had
     \/ last.takes > last.had
     \/ last.takes < (IF block = FractionalDecimator THEN -1 ELSE 0)
     => exchanged /\ TrustsReader(block)
  /\ ~last.changed => exchanged

(* The runner lets go of its lock between canProcess() and process(): "we   *)
(* should be safe during this period as far as state is concerned"          *)
(* (async.cpp).  No block reads what its reader does not have, or writes    *)
(* more than its writer takes.                                              *)
SafeWithoutLock == last.reads <= last.had /\ last.gives <= last.space
=============================================================================

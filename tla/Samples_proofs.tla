---------------------------- MODULE Samples_proofs ---------------------------
(* The path of the samples, for every value of the constants.               *)
(*                                                                          *)
(* IqStream: for every size of the ring buffer, every block size of a       *)
(* device and any number of clients, the positions of the ring buffer are a *)
(* lossy stream for each reader, and no complex sample is put together the  *)
(* wrong way.                                                               *)
(*                                                                          *)
(* Nmux: for any number of connections, any size of the pool and any input, *)
(* nmux sends each client successive blocks, as long as the main thread has *)
(* not come around to it.                                                   *)
(*                                                                          *)
(* Blocks: whatever the sizes, the blocks of csdr keep within their         *)
(* buffers.                                                                 *)
EXTENDS IqStream, Nmux, Blocks, FiniteSetTheorems, SequenceTheorems, TLAPS

Position == 0 .. size - 1
Pc == {"none", "wait", "waiting", "check", "send", "gone"}

LEMMA Size == size \in Nat /\ size > 1 /\ writeable = size - 1
  BY SizeAssumption DEF writeable

LEMMA Wrap ==
  ASSUME NEW n \in Nat \ {0}, NEW x \in 0 .. 2 * n - 1
  PROVE  x % n = IF x < n THEN x ELSE x - n
<1>1. CASE x < n
  BY <1>1, SMT
<1>2. CASE x >= n
  BY <1>2, SMT
<1> QED BY <1>1, <1>2

LEMMA AdvanceValue ==
  ASSUME NEW p \in Position, NEW n \in Position
  PROVE  /\ advance(p, n) = IF p + n < size THEN p + n ELSE p + n - size
         /\ advance(p, n) \in Position
<1>1. p + n \in 0 .. 2 * size - 1 /\ size \in Nat \ {0}
  BY Size DEF Position
<1> DEFINE x == p + n
<1>2. x % size = IF x < size THEN x ELSE x - size
  <2> HIDE DEF x
  <2> QED BY <1>1, Wrap DEF x
<1>3. advance(p, n) = x % size
  BY DEF advance
<1> QED BY <1>1, <1>2, <1>3, Size DEF Position

LEMMA AvailableValue ==
  ASSUME NEW w \in Position, NEW r \in Position
  PROVE  /\ available(w, r) = IF r <= w THEN w - r ELSE size + w - r
         /\ available(w, r) \in Position
<1>1. size + w - r \in 0 .. 2 * size - 1 /\ size \in Nat \ {0}
  BY Size DEF Position
<1> DEFINE x == size + w - r
<1>2. x % size = IF x < size THEN x ELSE x - size
  <2> HIDE DEF x
  <2> QED BY <1>1, Wrap DEF x
<1>3. available(w, r) = x % size
  BY DEF available
<1> QED BY <1>1, <1>2, <1>3, Size DEF Position

(* A write of n items puts a reader n items further behind, or takes a      *)
(* whole buffer away.                                                       *)
LEMMA WriterAdvances ==
  ASSUME NEW w \in Position, NEW r \in Position, NEW n \in Position
  PROVE  available(advance(w, n), r) =
           IF available(w, r) + n < size THEN available(w, r) + n
                                         ELSE available(w, r) + n - size
<1>1. /\ advance(w, n) = IF w + n < size THEN w + n ELSE w + n - size
      /\ advance(w, n) \in Position
  BY AdvanceValue
<1>2. available(w, r) = IF r <= w THEN w - r ELSE size + w - r
  BY AvailableValue
<1>3. available(advance(w, n), r) =
        IF r <= advance(w, n) THEN advance(w, n) - r ELSE size + advance(w, n) - r
  BY <1>1, AvailableValue
<1> QED BY <1>1, <1>2, <1>3, Size DEF Position

(* A reader that advances by what it found is as much less behind, or a     *)
(* whole buffer more if it was overtaken.                                   *)
LEMMA ReaderAdvances ==
  ASSUME NEW w \in Position, NEW r \in Position, NEW n \in Position
  PROVE  available(w, advance(r, n)) =
           IF n <= available(w, r) THEN available(w, r) - n
                                   ELSE available(w, r) + size - n
<1>1. /\ advance(r, n) = IF r + n < size THEN r + n ELSE r + n - size
      /\ advance(r, n) \in Position
  BY AdvanceValue
<1>2. available(w, r) = IF r <= w THEN w - r ELSE size + w - r
  BY AvailableValue
<1>3. available(w, advance(r, n)) =
        IF advance(r, n) <= w THEN w - advance(r, n) ELSE size + w - advance(r, n)
  BY <1>1, AvailableValue
<1> QED BY <1>1, <1>2, <1>3, Size DEF Position

LEMMA NothingAvailable ==
  ASSUME NEW w \in Position
  PROVE  available(w, w) = 0
  BY AvailableValue DEF Position
-----------------------------------------------------------------------------
(* Positions are positions; sending is what the send() in progress takes.   *)
StreamInv ==
  /\ write_pos \in Position
  /\ todo \in Nat /\ chunk \in 0 .. writeable /\ chunk <= todo
  /\ pc \in [Client -> Pc]
  /\ read_pos \in [Client -> Position]
  /\ sending \in [Client -> Position]
  /\ \A c \in Client : pc[c] # "send" => sending[c] = 0

LEMMA StreamInvHolds == IqSpec => []StreamInv
<1>1. IqInit => StreamInv
  BY Size DEF IqInit, StreamInv, Position, Pc
<1>2. StreamInv /\ [IqNext]_ivars => StreamInv'
  <2> SUFFICES ASSUME StreamInv, [IqNext]_ivars
               PROVE  StreamInv'
    OBVIOUS
  <2> USE DEF StreamInv
  <2>1. ASSUME NEW len \in Lens, Block(len)
        PROVE  StreamInv'
    BY <2>1, LensAssumption, Size DEF Block
  <2>2. CASE Convert
    BY <2>2, Size DEF Convert
  <2>3. CASE Advance
    <3>1. write_pos' \in Position
      BY <2>3, AdvanceValue, Size DEF Advance, Position
    <3>2. pc' \in [Client -> Pc] /\ \A c \in Client : pc'[c] # "send" => pc[c] # "send"
      BY <2>3 DEF Advance, Pc
    <3> QED BY <2>3, <3>1, <3>2, Size DEF Advance
  <2>4. ASSUME NEW c \in Client, startNewConnection(c)
        PROVE  StreamInv'
    BY <2>4 DEF startNewConnection, device, Pc
  <2>5. ASSUME NEW c \in Client, Wait(c)
        PROVE  StreamInv'
    BY <2>5 DEF Wait, device, Pc
  <2>6. ASSUME NEW c \in Client, Check(c)
        PROVE  StreamInv'
    <3>1. available(write_pos, read_pos[c]) \in Position
      BY AvailableValue
    <3> QED BY <2>6, <3>1 DEF Check, device, Pc, Position
  <2>7. ASSUME NEW c \in Client, Copy(c)
        PROVE  StreamInv'
    BY <2>7 DEF Copy, device
  <2>8. ASSUME NEW c \in Client, Sent(c)
        PROVE  StreamInv'
    <3>1. advance(read_pos[c], sending[c]) \in Position
      BY AdvanceValue
    <3> QED BY <2>8, <3>1, Size DEF Sent, device, Pc, Position
  <2>9. ASSUME NEW c \in Client, Recv(c)
        PROVE  StreamInv'
    BY <2>9 DEF Recv, device
  <2>10. ASSUME NEW c \in Client, Close(c)
         PROVE  StreamInv'
    BY <2>10 DEF Close, device
  <2>11. CASE UNCHANGED ivars
    BY <2>11 DEF ivars, device
  <2> QED BY <2>1, <2>2, <2>3, <2>4, <2>5, <2>6, <2>7, <2>8, <2>9, <2>10, <2>11
          DEF IqNext, Connection
<1> QED BY <1>1, <1>2, PTL DEF IqSpec
-----------------------------------------------------------------------------
(* Every step of the buffer, its writer and its readers is one of the lossy *)
(* stream, or none.                                                         *)
THEOREM IqStreamImplementsLossyStream == IqSpec => ImplementsLossyStream
<1>1. IqInit => Stream!Init
  BY DEF IqInit, Stream!Init, behind, Reading
<1>2. StreamInv /\ [IqNext]_ivars => [Stream!Next]_(Stream!vars)
  <2> SUFFICES ASSUME StreamInv, [IqNext]_ivars
               PROVE  Stream!Next \/ UNCHANGED <<behind, sending>>
    BY DEF Stream!vars
  <2> USE DEF StreamInv
  <2> DEFINE lag(w, p, r) == IF p \notin {"none", "gone"} THEN available(w, r) ELSE -1
  <2>1. /\ behind = [c \in Client |-> lag(write_pos, pc[c], read_pos[c])]
        /\ behind' = [c \in Client |-> lag(write_pos', pc'[c], read_pos'[c])]
    BY DEF behind, Reading
  <2>2. ASSUME write_pos' = write_pos, read_pos' = read_pos,
               \A c \in Client : pc'[c] \in {"none", "gone"} <=> pc[c] \in {"none", "gone"}
        PROVE  UNCHANGED behind
    BY <2>1, <2>2
  <2>3. ASSUME \/ Convert
               \/ \E len \in Lens : Block(len)
               \/ \E c \in Client : Wait(c) \/ Copy(c) \/ Recv(c) \/ Close(c)
               \/ UNCHANGED ivars
        PROVE  UNCHANGED <<behind, sending>>
    BY <2>2, <2>3 DEF Convert, Block, Wait, Copy, Recv, Close, ivars, device
  <2>4. CASE Advance
    <3>1. chunk \in Position
      BY Size DEF Position
    <3>2. ASSUME NEW c \in Client
          PROVE  behind'[c] = IF behind[c] = -1 THEN -1
                              ELSE IF behind[c] + chunk < size THEN behind[c] + chunk
                                   ELSE behind[c] + chunk - size
      <4>1. /\ write_pos' = advance(write_pos, chunk)
            /\ read_pos' = read_pos
            /\ pc'[c] \in {"none", "gone"} <=> pc[c] \in {"none", "gone"}
        BY <2>4 DEF Advance
      <4>2. available(write_pos, read_pos[c]) # -1
        BY AvailableValue DEF Position
      <4> QED BY <2>1, <3>1, <4>1, <4>2, WriterAdvances
    <3>3. Stream!Write(chunk)
      BY <2>1, <2>4, <3>2 DEF Advance, Stream!Write
    <3> QED BY <3>1, <3>3 DEF Stream!Next, Stream!Behind, Position
  <2>5. ASSUME NEW c \in Client, startNewConnection(c)
        PROVE  Stream!Next
    <3>1. behind[c] = -1 /\ UNCHANGED sending
      BY <2>1, <2>5 DEF startNewConnection
    <3>2. ASSUME NEW d \in Client
          PROVE  behind'[d] = [behind EXCEPT ![c] = 0][d]
      BY <2>1, <2>5, NothingAvailable DEF startNewConnection, device
    <3>3. Stream!Join(c)
      BY <2>1, <3>1, <3>2 DEF Stream!Join
    <3> QED BY <3>3 DEF Stream!Next
  <2>6. ASSUME NEW c \in Client, Check(c)
        PROVE  Stream!Next
    <3> DEFINE n == available(write_pos, read_pos[c])
    <3>1. behind[c] = n /\ n # -1 /\ sending' = [sending EXCEPT ![c] = n]
      BY <2>1, <2>6, AvailableValue DEF Check, Position
    <3>2. CASE pc'[c] # "gone"
      <4>1. UNCHANGED behind
        BY <2>2, <2>6, <3>2 DEF Check, device
      <4> QED BY <3>1, <4>1 DEF Stream!Next, Stream!Begin
    <3>3. CASE pc'[c] = "gone"
      <4>1. n = 0
        BY <2>6, <3>3, AvailableValue DEF Check, Position
      <4>2. UNCHANGED sending
        BY <2>6, <3>1, <4>1 DEF Check
      <4>3. ASSUME NEW d \in Client
            PROVE  behind'[d] = [behind EXCEPT ![c] = -1][d]
        BY <2>1, <2>6, <3>3 DEF Check, device
      <4>4. Stream!Leave(c)
        BY <2>1, <3>1, <4>1, <4>2, <4>3 DEF Stream!Leave
      <4> QED BY <4>4 DEF Stream!Next
    <3> QED BY <3>2, <3>3
  <2>7. ASSUME NEW c \in Client, Sent(c)
        PROVE  Stream!Next
    <3>1. /\ behind[c] = available(write_pos, read_pos[c]) /\ behind[c] # -1
          /\ sending' = [sending EXCEPT ![c] = 0]
      BY <2>1, <2>7, AvailableValue DEF Sent, Position
    <3>2. ASSUME NEW d \in Client
          PROVE  behind'[d] = [behind EXCEPT ![c] = IF sending[c] <= @ THEN @ - sending[c]
                                                    ELSE @ + size - sending[c]][d]
      BY <2>1, <2>7, <3>1, ReaderAdvances DEF Sent, device
    <3>3. Stream!End(c)
      BY <2>1, <3>1, <3>2 DEF Stream!End
    <3> QED BY <3>3 DEF Stream!Next
  <2> QED BY <2>3, <2>4, <2>5, <2>6, <2>7 DEF IqNext, Connection
<1> QED BY <1>1, <1>2, StreamInvHolds, PTL DEF IqSpec, ImplementsLossyStream, Stream!Spec
-----------------------------------------------------------------------------
(* Even items are first values and odd ones second values all the way from  *)
(* the device: at even places of the memory are even items, and what a      *)
(* receiver has not made a sample of alternates, from the value on with     *)
(* which its stream began.                                                  *)
Alternates(s, v) == \A k \in 1 .. Len(s) : s[k] = (v + k - 1) % 2

Pending(c) == half[c] \o flight[c]

DeviceParity ==
  /\ item \in 0 .. Numbers - 1 /\ (item + chunk) % 2 = write_pos % 2
  /\ data \in [Position -> Nat]
  /\ \A p \in Position : data[p] % 2 = p % 2

ReadersStart ==
  /\ sent \in [Client -> Nat]
  /\ \A c \in Client : pc[c] # "send" => sent[c] = 0

ReceiversPaired ==
  /\ half \in [Client -> Seq(Nat)] /\ flight \in [Client -> Seq(Nat)]
  /\ swapped \in [Client -> BOOLEAN] /\ closed \in [Client -> BOOLEAN]
  /\ beginning \in [Client -> {0, 1}]
  /\ \A c \in Client :
       /\ ~closed[c] => /\ Alternates(Pending(c), beginning[c])
                        /\ (beginning[c] + Len(Pending(c))) % 2 = (read_pos[c] + sent[c]) % 2
       /\ pc[c] = "none" => Len(Pending(c)) = 0

PairInv == DeviceParity /\ ReadersStart /\ ReceiversPaired /\ SamplesPaired

-----------------------------------------------------------------------------
(* Arithmetic and sequences.                                                *)
LEMMA Parity ==
  /\ \A n \in Int : n % 2 \in {0, 1}
  /\ \A n, w \in Int : (n + 2 * w) % 2 = n % 2
  /\ \A n \in Int : (n + 1) % 2 = 1 - (n % 2)
  /\ 0 % 2 = 0 /\ 1 % 2 = 1
<1>1. \A n \in Int : n % 2 \in {0, 1}
  OBVIOUS
<1>2. \A n, w \in Int : (n + 2 * w) % 2 = n % 2
  OBVIOUS
<1>3. \A n \in Int : (n + 1) % 2 = 1 - (n % 2)
  OBVIOUS
<1>4. 0 % 2 = 0 /\ 1 % 2 = 1
  OBVIOUS
<1> QED BY <1>1, <1>2, <1>3, <1>4

LEMMA SumParity ==
  ASSUME NEW x \in Int, NEW y \in Int, NEW p \in Int, NEW q \in Int,
         x % 2 = p % 2, y % 2 = q % 2
  PROVE  (x + y) % 2 = (p + q) % 2
<1>1. (x % 2 = 0 \/ x % 2 = 1) /\ (y % 2 = 0 \/ y % 2 = 1)
  OBVIOUS
<1>2. CASE x % 2 = 0 /\ y % 2 = 0
  BY <1>2
<1>3. CASE x % 2 = 0 /\ y % 2 = 1
  BY <1>3
<1>4. CASE x % 2 = 1 /\ y % 2 = 0
  BY <1>4
<1>5. CASE x % 2 = 1 /\ y % 2 = 1
  BY <1>5
<1> QED BY <1>1, <1>2, <1>3, <1>4, <1>5

LEMMA Taken ==
  ASSUME NEW f \in Seq(Nat), NEW n \in 1 .. Len(f)
  PROVE  /\ SubSeq(f, 1, n) \in Seq(Nat) /\ Len(SubSeq(f, 1, n)) = n
         /\ \A k \in 1 .. n : SubSeq(f, 1, n)[k] = f[k]
         /\ SubSeq(f, n + 1, Len(f)) \in Seq(Nat) /\ Len(SubSeq(f, n + 1, Len(f))) = Len(f) - n
         /\ \A k \in 1 .. Len(f) - n : SubSeq(f, n + 1, Len(f))[k] = f[n + k]
<1>1. PICK l \in Nat : l = Len(f) /\ n \in 1 .. l
  OBVIOUS
<1>2. /\ SubSeq(f, 1, n) \in Seq(Nat) /\ Len(SubSeq(f, 1, n)) = n
      /\ \A k \in 1 .. n : SubSeq(f, 1, n)[k] = f[k]
  BY <1>1, SubSeqProperties
<1>3. /\ SubSeq(f, n + 1, l) \in Seq(Nat) /\ Len(SubSeq(f, n + 1, l)) = l - n
      /\ \A k \in 1 .. l - n : SubSeq(f, n + 1, l)[k] = f[n + k]
  BY <1>1, SubSeqProperties
<1> QED BY <1>1, <1>2, <1>3
LEMMA Joined ==
  ASSUME NEW f \in Seq(Nat), NEW g \in Seq(Nat)
  PROVE  /\ f \o g \in Seq(Nat) /\ Len(f \o g) = Len(f) + Len(g)
         /\ \A k \in 1 .. Len(f) : (f \o g)[k] = f[k]
         /\ \A k \in 1 .. Len(g) : (f \o g)[Len(f) + k] = g[k]
  OBVIOUS
\* What an even number of items leaves of a sequence.
LEMMA LeftOver ==
  ASSUME NEW s \in Seq(Nat), NEW w \in Nat, Len(s) = 2 * w \/ Len(s) = 2 * w + 1
  PROVE  LET rest == SubSeq(s, 2 * w + 1, Len(s))
         IN  /\ rest \in Seq(Nat) /\ Len(rest) = Len(s) - 2 * w
             /\ \A k \in 1 .. Len(rest) : rest[k] = s[2 * w + k]
<1> DEFINE n == Len(s)
           m == 2 * w + 1
<1>1. n \in Nat /\ m \in Nat /\ (n = m - 1 \/ n = m)
  OBVIOUS
<1>2. \A i \in 1 .. n : s[i] \in Nat
  OBVIOUS
<1> HIDE DEF n, m
<1>3. CASE n = m
  <2>1. SubSeq(s, m, n) \in Seq(Nat) /\ Len(SubSeq(s, m, n)) = 1
    BY <1>1, <1>2, <1>3 DEF n, m
  <2>2. SubSeq(s, m, n)[1] = s[m]
    BY <1>1, <1>2, <1>3 DEF n, m
  <2> QED BY <1>3, <2>1, <2>2 DEF n, m
<1>4. CASE n = m - 1
  <2>1. SubSeq(s, m, n) \in Seq(Nat) /\ Len(SubSeq(s, m, n)) = 0
    BY <1>1, <1>2, <1>4
  <2> QED BY <1>4, <2>1 DEF n, m
<1> QED BY <1>1, <1>3, <1>4
\* What alternates goes on to do so when the front of it is taken away ...
LEMMA ReceivedItems ==
  ASSUME NEW h \in Seq(Nat), NEW f \in Seq(Nat), NEW n \in 1 .. Len(f),
         NEW v \in {0, 1}, Alternates(h \o f, v)
  PROVE  LET bytes == h \o SubSeq(f, 1, n)
             later == SubSeq(f, n + 1, Len(f))
         IN  /\ bytes \in Seq(Nat) /\ later \in Seq(Nat)
             /\ Len(bytes) = Len(h) + n /\ Len(later) = Len(f) - n
             /\ \A k \in 1 .. Len(bytes) : bytes[k] = (v + k - 1) % 2
             /\ \A k \in 1 .. Len(later) : later[k] = (v + Len(bytes) + k - 1) % 2
<1> DEFINE all == h \o f
           front == SubSeq(f, 1, n)
           later == SubSeq(f, n + 1, Len(f))
           bytes == h \o front
<1>1. /\ front \in Seq(Nat) /\ Len(front) = n
      /\ \A k \in 1 .. n : front[k] = f[k]
      /\ later \in Seq(Nat) /\ Len(later) = Len(f) - n
      /\ \A k \in 1 .. Len(f) - n : later[k] = f[n + k]
  BY Taken
<1>2. /\ all \in Seq(Nat) /\ Len(all) = Len(h) + Len(f)
      /\ \A k \in 1 .. Len(h) : all[k] = h[k]
      /\ \A k \in 1 .. Len(f) : all[Len(h) + k] = f[k]
  BY Joined
<1> HIDE DEF front, later
<1>3. /\ bytes \in Seq(Nat) /\ Len(bytes) = Len(h) + Len(front)
      /\ \A k \in 1 .. Len(h) : bytes[k] = h[k]
      /\ \A k \in 1 .. Len(front) : bytes[Len(h) + k] = front[k]
  BY <1>1, Joined
<1>4. \A k \in 1 .. Len(all) : all[k] = (v + k - 1) % 2
  BY DEF Alternates
<1>5. Len(h) \in Nat /\ Len(f) \in Nat
  OBVIOUS
<1> HIDE DEF all, bytes
<1>6. ASSUME NEW k \in 1 .. Len(bytes)
      PROVE  bytes[k] = (v + k - 1) % 2
  <2>1. k \in 1 .. Len(all)
    BY <1>1, <1>2, <1>3, <1>5
  <2>2. CASE k <= Len(h)
    BY <1>2, <1>3, <1>4, <1>5, <2>1, <2>2
  <2>3. CASE k > Len(h)
    <3>1. k - Len(h) \in 1 .. n /\ k = Len(h) + (k - Len(h)) /\ k - Len(h) \in 1 .. Len(f)
      <4>1. PICK l \in Nat, m \in Nat : l = Len(h) /\ m = Len(f)
        BY <1>5
      <4>2. n \in 1 .. m /\ k \in 1 .. l + n
        BY <1>1, <1>3, <4>1
      <4>3. k > l
        BY <2>3, <4>1
      <4>4. k - l \in 1 .. n /\ k = l + (k - l) /\ k - l \in 1 .. m
        BY <4>2, <4>3
      <4> QED BY <4>1, <4>4
    <3>2. bytes[k] = front[k - Len(h)]
      BY <1>1, <1>3, <3>1
    <3>3. all[k] = f[k - Len(h)]
      BY <1>2, <3>1
    <3>4. front[k - Len(h)] = f[k - Len(h)]
      BY <1>1, <3>1
    <3> QED BY <1>4, <2>1, <3>2, <3>3, <3>4
  <2> QED BY <1>1, <1>3, <1>5, <2>2, <2>3
<1>7. ASSUME NEW k \in 1 .. Len(later)
      PROVE  later[k] = (v + Len(bytes) + k - 1) % 2
  <2>1. n + k \in 1 .. Len(f) /\ k \in 1 .. Len(f) - n
    BY <1>1, <1>5
  <2>2. later[k] = f[n + k]
    BY <1>1, <2>1
  <2>3. f[n + k] = all[Len(h) + (n + k)]
    BY <1>2, <2>1
  <2>4. Len(h) + (n + k) \in 1 .. Len(all) /\ v + (Len(h) + (n + k)) - 1 = v + Len(bytes) + k - 1
    BY <1>1, <1>2, <1>3, <1>5, <2>1
  <2> QED BY <1>4, <2>2, <2>3, <2>4
<1> QED BY <1>1, <1>3, <1>6, <1>7 DEF bytes, later, front

\* ... in front of what there is still to come, as it began or not at all.
LEMMA Rejoined ==
  ASSUME NEW rest \in Seq(Nat), NEW later \in Seq(Nat), NEW b \in Nat, NEW w \in Nat,
         NEW v \in {0, 1},
         b = 2 * w \/ b = 2 * w + 1, Len(rest) = b - 2 * w,
         \A k \in 1 .. Len(rest) : rest[k] = (v + 2 * w + k - 1) % 2,
         \A k \in 1 .. Len(later) : later[k] = (v + b + k - 1) % 2
  PROVE  Alternates(rest \o later, v) /\ Len(rest \o later) = b - 2 * w + Len(later)
<1> DEFINE s == rest \o later
<1>1. /\ s \in Seq(Nat) /\ Len(s) = Len(rest) + Len(later)
      /\ \A k \in 1 .. Len(rest) : s[k] = rest[k]
      /\ \A k \in 1 .. Len(later) : s[Len(rest) + k] = later[k]
  BY Joined
<1>2. Len(rest) \in Nat /\ Len(later) \in Nat
  OBVIOUS
<1> HIDE DEF s
<1>3. ASSUME NEW k \in 1 .. Len(s)
      PROVE  s[k] = (v + k - 1) % 2
  <2>0. (v + k - 1 + 2 * w) % 2 = (v + k - 1) % 2
    BY <1>1, <1>2, Parity
  <2>1. CASE k <= Len(rest)
    <3>1. s[k] = rest[k] /\ rest[k] = (v + 2 * w + k - 1) % 2
      BY <1>1, <1>2, <2>1
    <3>2. v + 2 * w + k - 1 = v + k - 1 + 2 * w
      BY <1>1, <1>2
    <3> QED BY <2>0, <3>1, <3>2
  <2>2. CASE k > Len(rest)
    <3>1. k - Len(rest) \in 1 .. Len(later) /\ k = Len(rest) + (k - Len(rest))
      BY <1>1, <1>2, <2>2
    <3>2. s[k] = later[k - Len(rest)]
      BY <1>1, <3>1
    <3>3. later[k - Len(rest)] = (v + b + (k - Len(rest)) - 1) % 2
      BY <3>1
    <3>4. v + b + (k - Len(rest)) - 1 = v + k - 1 + 2 * w
      BY <1>1, <1>2
    <3> QED BY <2>0, <3>2, <3>3, <3>4
  <2> QED BY <1>1, <1>2, <2>1, <2>2
<1> QED BY <1>1, <1>3 DEF Alternates, s

\* Whatever a recv() returns of it, the samples it makes all begin
\* with the same value, and what is left alternates again.
LEMMA Received ==
  ASSUME NEW h \in Seq(Nat), NEW f \in Seq(Nat), NEW n \in 1 .. Len(f),
         NEW v \in {0, 1}, Alternates(h \o f, v)
  PROVE  LET bytes == h \o SubSeq(f, 1, n)
             whole == Len(bytes) \div 2
             rest == SubSeq(bytes, 2 * whole + 1, Len(bytes))
             later == SubSeq(f, n + 1, Len(f))
         IN  /\ rest \in Seq(Nat) /\ later \in Seq(Nat)
             /\ \A k \in 1 .. whole : bytes[2*k - 1] = v /\ bytes[2*k] = 1 - v
             /\ Alternates(rest \o later, v)
             /\ (v + Len(rest \o later)) % 2 = (v + Len(h \o f)) % 2
<1> DEFINE bytes == h \o SubSeq(f, 1, n)
           b == Len(bytes)
           whole == b \div 2
           rest == SubSeq(bytes, 2 * whole + 1, b)
           later == SubSeq(f, n + 1, Len(f))
<1>1. /\ bytes \in Seq(Nat) /\ later \in Seq(Nat)
      /\ b = Len(h) + n /\ Len(later) = Len(f) - n
      /\ \A k \in 1 .. b : bytes[k] = (v + k - 1) % 2
      /\ \A k \in 1 .. Len(later) : later[k] = (v + b + k - 1) % 2
  BY ReceivedItems
<1>2. Len(h \o f) = Len(h) + Len(f) /\ Len(h) \in Nat /\ Len(f) \in Nat
  BY Joined
<1> HIDE DEF bytes, later
<1>3. b \in Nat
  BY <1>1
<1>4. whole \in Nat /\ (b = 2 * whole \/ b = 2 * whole + 1)
  <2> HIDE DEF b
  <2> QED BY <1>3
<1>5. /\ rest \in Seq(Nat) /\ Len(rest) = b - 2 * whole
      /\ \A k \in 1 .. Len(rest) : rest[k] = bytes[2 * whole + k]
  BY <1>1, <1>4, LeftOver
<1> HIDE DEF whole, rest
<1>6. ASSUME NEW k \in 1 .. whole
      PROVE  bytes[2*k - 1] = v /\ bytes[2*k] = 1 - v
  <2>1. 2*k - 1 \in 1 .. b /\ 2*k \in 1 .. b /\ k \in Nat
    BY <1>3, <1>4
  <2>2. bytes[2*k] = (v + 2*k - 1) % 2
    BY <1>1, <2>1
  <2>3. bytes[2*k - 1] = (v + (2*k - 1) - 1) % 2
    BY <1>1, <2>1
  <2>4. (v + (2*k - 1) - 1) % 2 = v /\ (v + 2*k - 1) % 2 = 1 - v
    <3>1. CASE v = 0
      BY <2>1, <3>1
    <3>2. CASE v = 1
      BY <2>1, <3>2
    <3> QED BY <3>1, <3>2
  <2> QED BY <2>2, <2>3, <2>4
<1>7. \A k \in 1 .. Len(rest) : rest[k] = (v + 2 * whole + k - 1) % 2
  <2> SUFFICES ASSUME NEW k \in 1 .. Len(rest)
               PROVE  rest[k] = (v + 2 * whole + k - 1) % 2
    OBVIOUS
  <2>1. 2 * whole + k \in 1 .. b
    BY <1>3, <1>4, <1>5
  <2>2. bytes[2 * whole + k] = (v + 2 * whole + k - 1) % 2
    <3> DEFINE j == 2 * whole + k
    <3>1. j \in 1 .. b
      BY <2>1
    <3> HIDE DEF j
    <3>2. bytes[j] = (v + j - 1) % 2
      BY <1>1, <3>1
    <3>3. v + j - 1 = v + 2 * whole + k - 1
      BY <1>4 DEF j
    <3>4. bytes[j] = (v + 2 * whole + k - 1) % 2
      BY <3>2, <3>3
    <3> QED BY <3>4 DEF j
  <2>3. rest[k] = bytes[2 * whole + k]
    BY <1>5
  <2> QED BY <2>2, <2>3
<1>8. Alternates(rest \o later, v) /\ Len(rest \o later) = b - 2 * whole + Len(later)
  BY <1>1, <1>3, <1>4, <1>5, <1>7, Rejoined
<1>9. (v + Len(rest \o later)) % 2 = (v + Len(h \o f)) % 2
  <2> DEFINE l == v + Len(rest \o later)
             m == v + Len(h \o f)
  <2>1. m = l + 2 * whole
    BY <1>1, <1>2, <1>3, <1>4, <1>8
  <2>2. l \in Int
    BY <1>1, <1>2, <1>3, <1>4, <1>8
  <2> HIDE DEF b, l, m
  <2>3. l % 2 = m % 2
    BY <1>4, <2>1, <2>2, Parity
  <2> QED BY <2>3 DEF l, m
<1> QED BY <1>1, <1>5, <1>6, <1>8, <1>9 DEF bytes, whole, rest, later
-----------------------------------------------------------------------------
(* The buffer has an even number of items: going around it, or around the   *)
(* numbers of the items, keeps them even or odd.                            *)
LEMMA Halves == (\E h \in Nat : size = 2 * h) /\ (\E h \in Nat : Numbers = 2 * h)
<1> DEFINE s == size
<1>1. s \in Nat /\ s % 2 = 0
  BY Size, SizeAssumption
<1> HIDE DEF s
<1>2. s \div 2 \in Nat /\ s = 2 * (s \div 2)
  BY <1>1
<1>3. Numbers \div 2 \in Nat /\ Numbers = 2 * (Numbers \div 2)
  BY BoundAssumption
<1> QED BY <1>2, <1>3 DEF s

LEMMA Around ==
  ASSUME NEW t \in Int, NEW s \in Int, NEW a \in Int, NEW h \in Int, s = 2 * h,
         a = t \/ a = t - s \/ a = t + s
  PROVE  a % 2 = t % 2
<1>1. (t + 2 * h) % 2 = t % 2 /\ (a + 2 * h) % 2 = a % 2
  BY Parity
<1>2. a = t \/ t = a + 2 * h \/ a = t + 2 * h
  OBVIOUS
<1> QED BY <1>1, <1>2

LEMMA AdvanceParity ==
  ASSUME NEW p \in Position, NEW n \in Position
  PROVE  advance(p, n) % 2 = (p + n) % 2
<1> DEFINE a == advance(p, n)
<1>1. PICK h \in Nat : size = 2 * h
  BY Halves
<1>2. (a = p + n \/ a = p + n - size) /\ a \in Position
  BY AdvanceValue
<1> HIDE DEF a
<1>3. a \in Int /\ p + n \in Int /\ size \in Int /\ h \in Int
  BY <1>2, Size DEF Position
<1>4. a % 2 = (p + n) % 2
  <2> DEFINE t == p + n
             s == size
  <2> HIDE DEF t, s
  <2>1. t \in Int /\ s \in Int /\ a \in Int /\ h \in Int /\ s = 2 * h /\ (a = t \/ a = t - s)
    BY <1>1, <1>2, <1>3 DEF t, s
  <2>2. a % 2 = t % 2
    BY <2>1, Around
  <2> QED BY <2>2 DEF t
<1> QED BY <1>4 DEF a

LEMMA AvailableParity ==
  ASSUME NEW w \in Position, NEW r \in Position
  PROVE  (w + available(w, r)) % 2 = r % 2
<1> DEFINE a == available(w, r)
           t == w + a
           s == size
<1>1. PICK h \in Nat : size = 2 * h
  BY Halves
<1>2. (a = w - r \/ a = size + w - r) /\ a \in Position
  BY AvailableValue
<1>3. w \in Int /\ r \in Int /\ a \in Int /\ s \in Int /\ h \in Int
  BY <1>2, Size DEF Position
<1> HIDE DEF a
<1>4. t + 2 * (r - w) = r \/ t + 2 * (r - w) = s + r
  BY <1>2, <1>3
<1>5. (t + 2 * (r - w)) % 2 = t % 2
  BY <1>3, Parity
<1> HIDE DEF t, s
<1>6. (s + r) % 2 = r % 2
  <2>1. s + r = r + 2 * h
    BY <1>1, <1>3 DEF s
  <2> QED BY <1>3, <2>1, Parity
<1> QED BY <1>4, <1>5, <1>6 DEF t, a

\* The numbers go around after an even number of them.
LEMMA NumberParity ==
  ASSUME NEW x \in 0 .. 2 * Numbers - 1
  PROVE  x % Numbers \in 0 .. Numbers - 1 /\ (x % Numbers) % 2 = x % 2
<1> DEFINE y == x % Numbers
<1>1. PICK h \in Nat : Numbers = 2 * h
  BY Halves
<1>2. Numbers \in Nat \ {0}
  BY BoundAssumption
<1>3. y = IF x < Numbers THEN x ELSE x - Numbers
  BY <1>2, Wrap
<1> HIDE DEF y
<1>4. y \in 0 .. Numbers - 1
  BY <1>2, <1>3
<1>5. (y = x \/ y = x - Numbers) /\ x \in Int /\ y \in Int /\ Numbers \in Int /\ h \in Int
  BY <1>1, <1>2, <1>3
<1>6. y % 2 = x % 2
  BY <1>1, <1>5, Around
<1> QED BY <1>4, <1>6 DEF y
-----------------------------------------------------------------------------
\* The memory after a block was converted.
LEMMA Converted ==
  ASSUME StreamInv, DeviceParity, Convert
  PROVE  DeviceParity'
<1> USE DEF StreamInv, DeviceParity
<1> DEFINE n == IF todo < writeable THEN todo ELSE writeable
<1>1. /\ chunk = 0 /\ chunk' = n /\ write_pos' = write_pos /\ item' = (item + n) % Numbers
      /\ data' = [p \in Position |-> IF available(p, write_pos) < n
                                    THEN (item + available(p, write_pos)) % Numbers ELSE data[p]]
  BY DEF Convert, Position
<1>2. n \in Position
  BY Size DEF Convert, Position
<1> HIDE DEF n
<1>3. ASSUME NEW i \in Position
      PROVE  /\ (item + i) % Numbers \in 0 .. Numbers - 1
             /\ ((item + i) % Numbers) % 2 = (item + i) % 2
  <2> DEFINE x == item + i
  <2>1. x \in 0 .. 2 * Numbers - 1
    BY BoundAssumption, Size DEF Position
  <2> HIDE DEF x
  <2>2. x % Numbers \in 0 .. Numbers - 1 /\ (x % Numbers) % 2 = x % 2
    BY <2>1, NumberParity
  <2> QED BY <2>2 DEF x
<1>4. item \in Nat /\ item % 2 = write_pos % 2 /\ write_pos \in Nat
  BY <1>1, BoundAssumption DEF Position
<1>5. item' \in 0 .. Numbers - 1 /\ (item' + chunk') % 2 = write_pos' % 2
  <2> DEFINE y == (item + n) % Numbers
             w == write_pos
  <2>1. item' = y /\ y \in 0 .. Numbers - 1 /\ y % 2 = (item + n) % 2 /\ n \in Nat
    BY <1>1, <1>2, <1>3 DEF Position
  <2>2. y \in Int /\ item \in Int /\ n \in Int /\ item + n \in Int /\ w \in Int
    BY <1>4, <2>1, BoundAssumption
  <2> HIDE DEF y, w
  <2>3. (y + n) % 2 = (item + n + n) % 2
    BY <2>1, <2>2, SumParity
  <2>4. item + n + n = item + 2 * n
    BY <2>2
  <2>5. (item + 2 * n) % 2 = item % 2
    BY <2>2, Parity
  <2> QED BY <1>1, <1>4, <2>1, <2>3, <2>4, <2>5 DEF w
<1>6. ASSUME NEW p \in Position
      PROVE  data'[p] \in Nat /\ data'[p] % 2 = p % 2
  <2> DEFINE i == available(p, write_pos)
             j == write_pos + available(write_pos, p)
  <2>1. i \in Position /\ (p + i) % 2 = write_pos % 2
    BY AvailableValue, AvailableParity
  <2>2. data'[p] = (item + i) % Numbers \/ data'[p] = data[p]
    BY <1>1
  <2> HIDE DEF i
  <2>3. (item + i) % Numbers \in Nat /\ ((item + i) % Numbers) % 2 = (item + i) % 2
    BY <1>3, <2>1, BoundAssumption
  <2>4. (item + i) % 2 = p % 2
    <3>1. i \in Int /\ p \in Int /\ item \in Int /\ p + i \in Int
      BY <1>4, <2>1, Size DEF Position
    <3>2. (item + i) % 2 = (p + i + i) % 2
      BY <1>4, <2>1, <3>1, SumParity
    <3>3. p + i + i = p + 2 * i
      BY <3>1
    <3> QED BY <3>1, <3>2, <3>3, Parity
  <2> QED BY <2>2, <2>3, <2>4
<1>7. data' \in [Position -> Nat]
  <2>1. data' = [p \in Position |-> data'[p]]
    BY <1>1
  <2> QED BY <1>6, <2>1
<1> QED BY <1>5, <1>6, <1>7

LEMMA Advanced ==
  ASSUME StreamInv, DeviceParity, Advance
  PROVE  DeviceParity'
<1> USE DEF StreamInv, DeviceParity
<1>1. chunk' = 0 /\ UNCHANGED <<data, item>> /\ write_pos' = advance(write_pos, chunk)
  BY DEF Advance
<1>2. chunk \in Position /\ item \in Nat
  BY Size, BoundAssumption DEF Position
<1>3. (item + chunk) % 2 = write_pos % 2 /\ write_pos \in Int /\ chunk \in Int /\ item \in Int
  BY <1>2 DEF Position
<1>4. write_pos' % 2 = (write_pos + chunk) % 2
  BY <1>1, <1>2, AdvanceParity
<1>5. (write_pos + chunk) % 2 = (item + chunk + chunk) % 2
  <2>1. item + chunk \in Int
    BY <1>3
  <2> QED BY <1>3, <2>1, SumParity
<1>6. (item + 2 * chunk) % 2 = item % 2 /\ item + chunk + chunk = item + 2 * chunk
  BY <1>3, Parity
<1>7. item' + chunk' = item
  BY <1>1, <1>3
<1> QED BY <1>1, <1>4, <1>5, <1>6, <1>7

\* The next item that is made available is of the kind of its place.
LEMMA FirstValue ==
  ASSUME StreamInv, DeviceParity
  PROVE  LET b == (item + Numbers - chunk) % 2 IN b \in {0, 1} /\ b = write_pos % 2
<1> DEFINE x == item + Numbers - chunk
           w == write_pos
<1>1. PICK h \in Nat : Numbers = 2 * h
  BY Halves
<1>2. /\ x \in Int /\ item \in Int /\ chunk \in Int /\ w \in Int /\ item + chunk \in Int
      /\ h - chunk \in Int /\ x = item + chunk + 2 * (h - chunk)
      /\ (item + chunk) % 2 = w % 2
  BY <1>1, BoundAssumption, Size DEF StreamInv, DeviceParity, Position
<1> HIDE DEF w, x
<1>3. x % 2 = (item + chunk) % 2
  <2>1. (item + chunk + 2 * (h - chunk)) % 2 = (item + chunk) % 2
    BY <1>2, Parity
  <2> QED BY <1>2, <2>1
<1> QED BY <1>2, <1>3, Parity DEF x, w

\* A client begins with the value at the place where its reader is put.
LEMMA Begins ==
  ASSUME StreamInv, PairInv, NEW c \in Client, startNewConnection(c)
  PROVE  ReceiversPaired' /\ SamplesPaired'
<1> USE DEF PairInv, ReceiversPaired, SamplesPaired
<1> DEFINE b == (item + Numbers - chunk) % 2
<1>1. /\ pc[c] = "none" /\ pc' = [pc EXCEPT ![c] = "wait"]
      /\ read_pos' = [read_pos EXCEPT ![c] = write_pos]
      /\ beginning' = [beginning EXCEPT ![c] = b]
      /\ UNCHANGED <<half, flight, closed, sent, swapped>>
  BY DEF startNewConnection
<1>2. b \in {0, 1} /\ b = write_pos % 2
  BY FirstValue
<1> HIDE DEF b
<1>3. sent[c] = 0 /\ Len(Pending(c)) = 0
  BY <1>1 DEF ReadersStart
<1>4. (b + 0) % 2 = (write_pos + 0) % 2
  <2>1. b + 0 = b /\ write_pos + 0 = write_pos /\ write_pos \in Int
    BY <1>2, Size DEF StreamInv, Position
  <2>2. b % 2 = b
    BY <1>2, Parity
  <2> QED BY <1>2, <2>1, <2>2
<1>5. \A d \in Client : Pending(d)' = Pending(d)
  BY <1>1 DEF Pending
<1>6. ASSUME NEW d \in Client
      PROVE  /\ ~closed'[d] => /\ Alternates(Pending(d)', beginning'[d])
                               /\ (beginning'[d] + Len(Pending(d)')) % 2
                                     = (read_pos'[d] + sent'[d]) % 2
             /\ pc'[d] = "none" => Len(Pending(d)') = 0
  <2>1. CASE d = c
    <3>1. Alternates(Pending(c), b)
      BY <1>3 DEF Alternates
    <3>2. Pending(c)' = Pending(c) /\ beginning'[c] = b /\ read_pos'[c] = write_pos
          /\ sent'[c] = 0 /\ pc'[c] = "wait"
      BY <1>1, <1>3, <1>5 DEF StreamInv
    <3> QED BY <1>3, <1>4, <2>1, <3>1, <3>2
  <2>2. CASE d # c
    BY <1>1, <1>5, <2>2 DEF StreamInv
  <2> QED BY <2>1, <2>2
<1>7. beginning' \in [Client -> {0, 1}]
  BY <1>1, <1>2
<1> QED BY <1>1, <1>6, <1>7

\* The item that a send() copies goes on where the last one was.
LEMMA Copied ==
  ASSUME StreamInv, PairInv, NEW c \in Client, Copy(c)
  PROVE  ReceiversPaired'
<1> DEFINE i == data[advance(read_pos[c], sent[c])] % 2
           old == Pending(c)
           new == half[c] \o Append(flight[c], i)
           b == beginning[c]
<1> USE DEF PairInv, ReceiversPaired
<1>1. /\ sent[c] \in Nat /\ sent[c] \in Position /\ sent[c] < sending[c] /\ ~closed[c]
      /\ read_pos[c] \in Position /\ pc[c] = "send" /\ b \in {0, 1}
  BY Size DEF StreamInv, ReadersStart, Copy, Position
<1>2. i = (read_pos[c] + sent[c]) % 2
  <2>1. /\ advance(read_pos[c], sent[c]) \in Position
        /\ advance(read_pos[c], sent[c]) % 2 = (read_pos[c] + sent[c]) % 2
    BY <1>1, AdvanceValue, AdvanceParity
  <2> QED BY <2>1 DEF DeviceParity
<1>3. i \in Nat
  <2>1. read_pos[c] + sent[c] \in Int
    BY <1>1 DEF Position
  <2> QED BY <1>2, <2>1, Parity
<1> HIDE DEF i
<1>4. /\ new \in Seq(Nat) /\ Len(new) = Len(old) + 1 /\ new[Len(old) + 1] = i
      /\ \A k \in 1 .. Len(old) : new[k] = old[k]
      /\ Len(old) \in Nat
  BY <1>3 DEF Pending
<1>5. Alternates(old, b) /\ (b + Len(old)) % 2 = (read_pos[c] + sent[c]) % 2
  BY <1>1
<1> HIDE DEF old, new, b
<1>6. Alternates(new, b)
  <2> SUFFICES ASSUME NEW k \in 1 .. Len(new)
               PROVE  new[k] = (b + k - 1) % 2
    BY DEF Alternates
  <2>1. CASE k = Len(old) + 1
    <3>1. new[k] = (b + Len(old)) % 2
      BY <1>2, <1>4, <1>5, <2>1
    <3>2. b + k - 1 = b + Len(old)
      BY <1>1, <1>4, <2>1
    <3> QED BY <3>1, <3>2
  <2>2. CASE k \in 1 .. Len(old)
    BY <1>4, <1>5, <2>2 DEF Alternates
  <2> QED BY <1>4, <2>1, <2>2
<1>7. (b + Len(new)) % 2 = (read_pos[c] + (sent[c] + 1)) % 2
  <2> DEFINE l == b + Len(old)
             m == read_pos[c] + sent[c]
             n == b + Len(new)
             o == read_pos[c] + (sent[c] + 1)
  <2>1. l \in Int /\ m \in Int /\ n = l + 1 /\ o = m + 1 /\ l % 2 = m % 2
    <3> DEFINE y == Len(old)
               z == Len(new)
    <3>1. y \in Nat /\ z = y + 1
      BY <1>4
    <3> HIDE DEF y, z
    <3>2. read_pos[c] \in Nat /\ sent[c] \in Nat /\ b \in Nat
      BY <1>1, Size DEF Position
    <3>3. b + y \in Int /\ b + z = b + y + 1
      BY <3>1, <3>2
    <3>4. m \in Int /\ o = m + 1
      BY <3>2
    <3> QED BY <1>5, <3>3, <3>4 DEF y, z
  <2> HIDE DEF l, m, n, o
  <2>2. (l + 1) % 2 = 1 - (l % 2) /\ (m + 1) % 2 = 1 - (m % 2)
    BY <2>1, Parity
  <2>3. n % 2 = o % 2
    BY <2>1, <2>2
  <2> QED BY <2>3 DEF n, o
<1>8. /\ half' = half /\ closed' = closed /\ swapped' = swapped /\ beginning' = beginning
      /\ read_pos' = read_pos /\ pc' = pc
      /\ flight' = [flight EXCEPT ![c] = Append(flight[c], i)]
      /\ sent' = [sent EXCEPT ![c] = sent[c] + 1]
  BY DEF Copy, i
<1>9. flight' \in [Client -> Seq(Nat)]
  BY <1>3, <1>8
<1>10. Pending(c)' = new /\ sent'[c] = sent[c] + 1
  BY <1>8 DEF Pending, new, ReadersStart
<1>11. ASSUME NEW d \in Client, d # c
       PROVE  Pending(d)' = Pending(d) /\ sent'[d] = sent[d]
  BY <1>8, <1>11 DEF Pending, ReadersStart
<1>12. ASSUME NEW d \in Client
       PROVE  /\ ~closed'[d] => /\ Alternates(Pending(d)', beginning'[d])
                                /\ (beginning'[d] + Len(Pending(d)')) % 2
                                      = (read_pos'[d] + sent'[d]) % 2
              /\ pc'[d] = "none" => Len(Pending(d)') = 0
  <2>1. CASE d = c
    BY <1>1, <1>6, <1>7, <1>8, <1>10, <2>1 DEF b
  <2>2. CASE d # c
    BY <1>8, <1>11, <2>2
  <2> QED BY <2>1, <2>2
<1> QED BY <1>8, <1>9, <1>12

\* A send() ends when it has taken all of it, or its receiver is gone.
LEMMA SendEnds ==
  ASSUME StreamInv, PairInv, NEW c \in Client, Sent(c)
  PROVE  ReadersStart' /\ ReceiversPaired'
<1> USE DEF PairInv, ReadersStart, ReceiversPaired
<1>1. /\ sent' = [sent EXCEPT ![c] = 0] /\ pc[c] = "send" /\ pc' = [pc EXCEPT ![c] = "check"]
      /\ read_pos' = [read_pos EXCEPT ![c] = advance(read_pos[c], sending[c])]
      /\ UNCHANGED <<half, flight, closed, swapped, beginning>>
      /\ closed[c] \/ sent[c] = sending[c]
  BY DEF Sent, ghosts
<1>2. ~closed[c] => (advance(read_pos[c], sending[c]) + 0) % 2 = (read_pos[c] + sent[c]) % 2
  <2>1. /\ advance(read_pos[c], sending[c]) \in Position
        /\ advance(read_pos[c], sending[c]) % 2 = (read_pos[c] + sending[c]) % 2
    BY AdvanceValue, AdvanceParity DEF StreamInv
  <2>2. advance(read_pos[c], sending[c]) + 0 = advance(read_pos[c], sending[c])
    BY <2>1, Size DEF Position
  <2> QED BY <1>1, <2>1, <2>2
<1>3. ReadersStart'
  BY <1>1 DEF StreamInv
<1>4. \A d \in Client : Pending(d)' = Pending(d)
  BY <1>1 DEF Pending
<1>5. ASSUME NEW d \in Client
      PROVE  /\ ~closed'[d] => /\ Alternates(Pending(d)', beginning'[d])
                               /\ (beginning'[d] + Len(Pending(d)')) % 2
                                     = (read_pos'[d] + sent'[d]) % 2
             /\ pc'[d] = "none" => Len(Pending(d)') = 0
  <2>1. CASE d = c
    BY <1>1, <1>2, <1>4, <2>1 DEF StreamInv
  <2>2. CASE d # c
    BY <1>1, <1>4, <2>2 DEF StreamInv
  <2> QED BY <2>1, <2>2
<1> QED BY <1>1, <1>3, <1>5

\* The TcpSource makes samples of what alternates.
LEMMA Receives ==
  ASSUME StreamInv, PairInv, NEW c \in Client, Recv(c)
  PROVE  ReceiversPaired' /\ SamplesPaired'
<1> USE DEF PairInv, ReceiversPaired, SamplesPaired
<1>1. PICK n \in 1 .. Len(flight[c]) :
        /\ ~closed[c]
        /\ Sampled(c, half[c] \o SubSeq(flight[c], 1, n))
        /\ flight' = [flight EXCEPT ![c] = SubSeq(flight[c], n + 1, Len(flight[c]))]
        /\ UNCHANGED <<closed, sent, beginning, read_pos, pc>>
  BY DEF Recv
<1> DEFINE bytes == half[c] \o SubSeq(flight[c], 1, n)
           whole == Len(bytes) \div 2
           rest == SubSeq(bytes, 2 * whole + 1, Len(bytes))
           later == SubSeq(flight[c], n + 1, Len(flight[c]))
           v == beginning[c]
<1>2. /\ rest \in Seq(Nat) /\ later \in Seq(Nat)
      /\ \A k \in 1 .. whole : bytes[2*k - 1] = v /\ bytes[2*k] = 1 - v
      /\ Alternates(rest \o later, v)
      /\ (v + Len(rest \o later)) % 2 = (v + Len(half[c] \o flight[c])) % 2
  <2>1. /\ half[c] \in Seq(Nat) /\ flight[c] \in Seq(Nat) /\ v \in {0, 1}
        /\ Alternates(half[c] \o flight[c], v)
    BY <1>1 DEF Pending
  <2> QED BY <1>1, <2>1, Received
<1>3. /\ half' = [half EXCEPT ![c] = rest]
      /\ swapped' = [swapped EXCEPT ![c] =
                      swapped[c] \/ \E k \in 1 .. whole :
                                      <<bytes[2*k - 1], bytes[2*k]>> # <<v, 1 - v>>]
  BY <1>1 DEF Sampled
<1>4. pc[c] # "none"
  <2>1. half[c] \o SubSeq(flight[c], 1, n) \in Seq(Nat) /\ Len(flight[c]) \in Nat /\ Len(flight[c]) > 0
    BY <1>1
  <2>2. Len(Pending(c)) = Len(half[c]) + Len(flight[c]) /\ Len(half[c]) \in Nat
    BY DEF Pending
  <2>3. Len(Pending(c)) # 0
    BY <2>1, <2>2
  <2> QED BY <2>3
<1> HIDE DEF bytes, whole, rest, later, v
<1>5. ~\E k \in 1 .. whole : <<bytes[2*k - 1], bytes[2*k]>> # <<v, 1 - v>>
  BY <1>2
<1>6. swapped' \in [Client -> BOOLEAN] /\ \A d \in Client : ~swapped'[d]
  BY <1>3, <1>5
<1>7. flight' = [flight EXCEPT ![c] = later]
  BY <1>1 DEF later
<1>8. Pending(c)' = rest \o later
  BY <1>3, <1>7 DEF Pending
<1>9. ASSUME NEW d \in Client, d # c
      PROVE  Pending(d)' = Pending(d)
  BY <1>3, <1>7, <1>9 DEF Pending
<1>10. half' \in [Client -> Seq(Nat)] /\ flight' \in [Client -> Seq(Nat)]
  BY <1>2, <1>3, <1>7
<1>11. (v + Len(rest \o later)) % 2 = (v + Len(Pending(c))) % 2
  BY <1>2 DEF Pending
<1>12. ASSUME NEW d \in Client
       PROVE  /\ ~closed'[d] => /\ Alternates(Pending(d)', beginning'[d])
                                /\ (beginning'[d] + Len(Pending(d)')) % 2
                                      = (read_pos'[d] + sent'[d]) % 2
              /\ pc'[d] = "none" => Len(Pending(d)') = 0
  <2>1. CASE d = c
    <3>1. (v + Len(Pending(c))) % 2 = (read_pos[c] + sent[c]) % 2
      BY <1>1 DEF v
    <3>2. (v + Len(rest \o later)) % 2 = (read_pos[c] + sent[c]) % 2
      BY <1>11, <3>1
    <3>3. beginning'[c] = v /\ read_pos'[c] = read_pos[c] /\ sent'[c] = sent[c] /\ pc'[c] # "none"
      BY <1>1, <1>4 DEF v
    <3> QED BY <1>2, <1>8, <2>1, <3>2, <3>3
  <2>2. CASE d # c
    BY <1>1, <1>9, <2>2
  <2> QED BY <2>1, <2>2
<1>13. beginning' \in [Client -> {0, 1}] /\ closed' \in [Client -> BOOLEAN]
  BY <1>1
<1> QED BY <1>6, <1>10, <1>12, <1>13
-----------------------------------------------------------------------------
LEMMA PairInvHolds == IqSpec => []PairInv
<1>1. IqInit => PairInv
  <2> SUFFICES ASSUME IqInit
               PROVE  PairInv
    OBVIOUS
  <2>1. 0 % 2 = 0 /\ 0 + 0 = 0
    BY Parity
  <2>2. DeviceParity
    BY <2>1, Size, BoundAssumption DEF IqInit, DeviceParity, Position
  <2>3. ReadersStart /\ SamplesPaired
    BY <2>1 DEF IqInit, ReadersStart, SamplesPaired
  <2>4. \A c \in Client : Pending(c) = << >> \o << >> /\ sent[c] = 0 /\ read_pos[c] = 0
    BY DEF IqInit, Pending
  <2>5. << >> \o << >> = << >> /\ Len(<< >>) = 0
    OBVIOUS
  <2>6. ReceiversPaired
    BY <2>1, <2>4, <2>5 DEF IqInit, ReceiversPaired, Alternates
  <2> QED BY <2>2, <2>3, <2>6 DEF PairInv
<1>2. StreamInv /\ PairInv /\ [IqNext]_ivars => PairInv'
  <2> SUFFICES ASSUME StreamInv, PairInv, [IqNext]_ivars
               PROVE  PairInv'
    OBVIOUS
  <2> USE DEF PairInv
  <2>1. ASSUME UNCHANGED <<write_pos, data, chunk, item>>
        PROVE  DeviceParity'
    BY <2>1 DEF DeviceParity
  <2>2. ASSUME UNCHANGED sent, \A c \in Client : pc[c] = "send" => pc'[c] = "send"
        PROVE  ReadersStart'
    BY <2>2 DEF ReadersStart
  <2>3. ASSUME UNCHANGED <<half, flight, closed, sent, read_pos, swapped, beginning>>,
               \A c \in Client : pc'[c] = "none" => pc[c] = "none"
        PROVE  ReceiversPaired' /\ SamplesPaired'
    <3>1. \A c \in Client : Pending(c)' = Pending(c)
      BY <2>3 DEF Pending
    <3> QED BY <2>3, <3>1 DEF ReceiversPaired, SamplesPaired
  <2>4. ASSUME NEW len \in Lens, Block(len)
        PROVE  PairInv'
    BY <2>1, <2>2, <2>3, <2>4 DEF Block, ghosts
  <2>5. CASE Convert
    BY <2>2, <2>3, <2>5, Converted DEF Convert
  <2>6. CASE Advance
    <3>1. \A c \in Client : /\ pc[c] = "send" => pc'[c] = "send"
                            /\ pc'[c] = "none" => pc[c] = "none"
      BY <2>6 DEF Advance, StreamInv
    <3> QED BY <2>2, <2>3, <2>6, <3>1, Advanced DEF Advance, ghosts
  <2>7. ASSUME NEW c \in Client, startNewConnection(c)
        PROVE  PairInv'
    <3>1. \A d \in Client : pc[d] = "send" => pc'[d] = "send"
      BY <2>7 DEF startNewConnection, StreamInv
    <3> QED BY <2>1, <2>2, <2>7, <3>1, Begins DEF startNewConnection, device
  <2>8. ASSUME NEW c \in Client, Wait(c)
        PROVE  PairInv'
    <3>1. \A d \in Client : /\ pc[d] = "send" => pc'[d] = "send"
                            /\ pc'[d] = "none" => pc[d] = "none"
      BY <2>8 DEF Wait, StreamInv
    <3> QED BY <2>1, <2>2, <2>3, <2>8, <3>1 DEF Wait, device, ghosts
  <2>9. ASSUME NEW c \in Client, Check(c)
        PROVE  PairInv'
    <3>1. \A d \in Client : /\ pc[d] = "send" => pc'[d] = "send"
                            /\ pc'[d] = "none" => pc[d] = "none"
      BY <2>9 DEF Check, StreamInv
    <3> QED BY <2>1, <2>2, <2>3, <2>9, <3>1 DEF Check, device, ghosts
  <2>10. ASSUME NEW c \in Client, Copy(c)
         PROVE  PairInv'
    <3>1. ReadersStart'
      BY <2>10 DEF Copy, ReadersStart
    <3> QED BY <2>1, <2>10, <3>1, Copied DEF Copy, device, SamplesPaired
  <2>11. ASSUME NEW c \in Client, Sent(c)
         PROVE  PairInv'
    BY <2>1, <2>11, SendEnds DEF Sent, device, ghosts, SamplesPaired
  <2>12. ASSUME NEW c \in Client, Recv(c)
         PROVE  PairInv'
    BY <2>1, <2>2, <2>12, Receives DEF Recv, device
  <2>13. ASSUME NEW c \in Client, Close(c)
         PROVE  PairInv'
    <3>1. ReceiversPaired'
      <4>1. ASSUME NEW d \in Client, d # c
            PROVE  /\ Pending(d)' = Pending(d) /\ sent'[d] = sent[d]
                   /\ closed'[d] = closed[d]
        BY <2>13, <4>1 DEF Close, Pending, ReceiversPaired
      <4>2. closed'[c] /\ closed' \in [Client -> BOOLEAN] /\ pc' = pc /\ pc[c] # "none"
            /\ UNCHANGED <<read_pos, sent, beginning, swapped>>
        BY <2>13 DEF Close, ReceiversPaired, Reading, ghosts
      <4>3. half' \in [Client -> Seq(Nat)] /\ flight' \in [Client -> Seq(Nat)]
        BY <2>13 DEF Close, ReceiversPaired
      <4>4. ASSUME NEW d \in Client
            PROVE  /\ ~closed'[d] => /\ Alternates(Pending(d)', beginning'[d])
                                     /\ (beginning'[d] + Len(Pending(d)')) % 2
                                           = (read_pos'[d] + sent'[d]) % 2
                   /\ pc'[d] = "none" => Len(Pending(d)') = 0
        <5>1. CASE d = c
          BY <4>2, <5>1
        <5>2. CASE d # c
          BY <4>1, <4>2, <5>2 DEF ReceiversPaired
        <5> QED BY <5>1, <5>2
      <4> QED BY <4>2, <4>3, <4>4 DEF ReceiversPaired
    <3> QED BY <2>1, <2>2, <2>13, <3>1 DEF Close, device, ghosts, SamplesPaired
  <2>14. CASE UNCHANGED ivars
    BY <2>1, <2>2, <2>3, <2>14 DEF ivars, device, ghosts
  <2> QED BY <2>4, <2>5, <2>6, <2>7, <2>8, <2>9, <2>10, <2>11, <2>12, <2>13, <2>14
          DEF IqNext, Connection
<1> QED BY <1>1, <1>2, StreamInvHolds, PTL DEF IqSpec

(* Whatever the sizes, the blocks and the clients, where recv() of the      *)
(* device and of the client cuts, and whoever is overtaken: all samples of  *)
(* a client are put together like its first.                                *)
THEOREM SamplesAlwaysPaired == IqSpec => []SamplesPaired
<1>1. PairInv => SamplesPaired
  BY DEF PairInv
<1> QED BY <1>1, PairInvHolds, PTL

(* A device that delivers whole samples, as rtl and Soapy do, never starts  *)
(* a client in the middle of one.                                           *)
WholeSamples ==
  /\ todo % 2 = 0 /\ todo <= writeable /\ chunk \in {0, todo} /\ write_pos % 2 = 0
  /\ BeginsWithI

THEOREM WholeBlocksBeginWithI ==
  ASSUME \A len \in Lens : len % 2 = 0
  PROVE  IqSpec => []BeginsWithI
<1>1. IqInit => WholeSamples
  <2>1. 0 % 2 = 0 /\ 0 <= writeable
    BY Parity, Size
  <2> QED BY <2>1 DEF IqInit, WholeSamples, BeginsWithI
<1>2. StreamInv /\ PairInv /\ WholeSamples /\ [IqNext]_ivars => WholeSamples'
  <2> SUFFICES ASSUME StreamInv, PairInv, WholeSamples, [IqNext]_ivars
               PROVE  WholeSamples'
    OBVIOUS
  <2> USE DEF WholeSamples, BeginsWithI
  <2>1. ASSUME NEW len \in Lens, Block(len)
        PROVE  WholeSamples'
    <3>1. len % 2 = 0 /\ len <= writeable
      BY LensAssumption, Size
    <3> QED BY <2>1, <3>1 DEF Block, ghosts
  <2>2. CASE Convert
    BY <2>2, Size DEF Convert, StreamInv
  <2>3. CASE Advance
    <3>1. chunk = todo /\ chunk' = 0 /\ todo' = 0 /\ UNCHANGED beginning
      BY <2>3 DEF Advance, StreamInv, ghosts
    <3>2. write_pos' % 2 = (write_pos + chunk) % 2 /\ write_pos \in Int /\ chunk \in Int
      BY <2>3, AdvanceParity, Size DEF Advance, StreamInv, Position
    <3>3. (write_pos + chunk) % 2 = (0 + 0) % 2
      <4>1. chunk % 2 = 0 % 2 /\ write_pos % 2 = 0 % 2
        BY <3>1, Parity
      <4> QED BY <3>2, <4>1, SumParity
    <3>4. 0 + 0 = 0 /\ 0 % 2 = 0 /\ 0 <= writeable
      BY Parity, Size
    <3> QED BY <3>1, <3>2, <3>3, <3>4
  <2>4. ASSUME NEW c \in Client, startNewConnection(c)
        PROVE  WholeSamples'
    <3>1. (item + Numbers - chunk) % 2 = 0
      BY FirstValue DEF PairInv
    <3> QED BY <2>4, <3>1 DEF startNewConnection, device, PairInv, ReceiversPaired
  <2>5. ASSUME \E c \in Client : Wait(c) \/ Check(c) \/ Copy(c) \/ Sent(c) \/ Recv(c) \/ Close(c)
        PROVE  WholeSamples'
    BY <2>5 DEF Wait, Check, Copy, Sent, Recv, Close, device, ghosts
  <2>6. CASE UNCHANGED ivars
    BY <2>6 DEF ivars, device, ghosts
  <2> QED BY <2>1, <2>2, <2>3, <2>4, <2>5, <2>6 DEF IqNext, Connection
<1>3. WholeSamples => BeginsWithI
  BY DEF WholeSamples
<1> QED BY <1>1, <1>2, <1>3, StreamInvHolds, PairInvHolds, PTL DEF IqSpec
-----------------------------------------------------------------------------
(* The order of the items: the part of the memory that a reader has still   *)
(* to send holds successive items as long as the writer has not come around *)
(* to it, and the client has seen those before the ones it is at.           *)
Number == 0 .. Numbers - 1

\* The number of the n-th item after the one with the number first.
Plus(first, n) == (first + n) % Numbers

\* What the writer has put before the reader of a client, published or not.
Unread(c) == available(write_pos, read_pos[c]) + chunk

ChunkInOrder ==
  \E first \in Number :
    /\ item = Plus(first, chunk)
    /\ \A p \in Position : available(p, write_pos) < chunk =>
         data[p] = Plus(first, available(p, write_pos))

ReaderInOrder(c, first) ==
  /\ item = Plus(first, Unread(c))
  /\ \A p \in Position : available(p, read_pos[c]) < Unread(c) =>
       data[p] = Plus(first, available(p, read_pos[c]))
  /\ ~closed[c] => next[c] = Plus(first, sent[c])

ClientInOrder(c) ==
  Reading(c) /\ ~overtaken[c] =>
    /\ Unread(c) < size
    /\ sent[c] <= sending[c] /\ sending[c] <= available(write_pos, read_pos[c])
    /\ \E first \in Number : ReaderInOrder(c, first)

OrderInv ==
  /\ item \in Number
  /\ next \in [Client -> Nat] /\ overtaken \in [Client -> BOOLEAN]
  /\ ChunkInOrder
  /\ \A c \in Client : ClientInOrder(c)
  /\ broken \in [Client -> BOOLEAN] /\ InOrder

LEMMA PlusValue ==
  ASSUME NEW first \in Number, NEW n \in 0 .. size
  PROVE  /\ Plus(first, n) = IF first + n < Numbers THEN first + n ELSE first + n - Numbers
         /\ Plus(first, n) \in Number
<1> DEFINE x == first + n
<1>1. x \in 0 .. 2 * Numbers - 1 /\ Numbers \in Nat \ {0}
  BY Size, BoundAssumption DEF Number
<1>2. x % Numbers = IF x < Numbers THEN x ELSE x - Numbers
  <2> HIDE DEF x
  <2> QED BY <1>1, Wrap
<1> QED BY <1>1, <1>2, BoundAssumption, Size DEF Plus, Number

LEMMA PlusZero ==
  ASSUME NEW first \in Number
  PROVE  Plus(first, 0) = first
<1>1. 0 \in 0 .. size /\ first \in Nat /\ first + 0 = first /\ first < Numbers
  BY Size, BoundAssumption DEF Number
<1> QED BY <1>1, PlusValue

LEMMA PlusPlus ==
  ASSUME NEW first \in Number, NEW m \in Nat, NEW n \in Nat, m + n <= size
  PROVE  Plus(Plus(first, m), n) = Plus(first, m + n)
<1>1. m \in 0 .. size /\ n \in 0 .. size /\ m + n \in 0 .. size
  BY Size
<1>2. /\ Plus(first, m) = IF first + m < Numbers THEN first + m ELSE first + m - Numbers
      /\ Plus(first, m) \in Number
  BY <1>1, PlusValue
<1>3. Plus(first, m + n) = IF first + (m + n) < Numbers THEN first + (m + n)
                           ELSE first + (m + n) - Numbers
  BY <1>1, PlusValue
<1> DEFINE f == Plus(first, m)
<1> HIDE DEF f
<1>4. Plus(f, n) = IF f + n < Numbers THEN f + n ELSE f + n - Numbers
  BY <1>1, <1>2, PlusValue DEF f
<1>5. first \in Nat /\ first < Numbers /\ Numbers \in Nat /\ size \in Nat /\ size < Numbers
  BY BoundAssumption, Size DEF Number
<1>6. f = IF first + m < Numbers THEN first + m ELSE first + m - Numbers
  BY <1>2 DEF f
<1>7. Plus(f, n) = Plus(first, m + n)
  BY <1>1, <1>3, <1>4, <1>5, <1>6
<1> QED BY <1>7 DEF f

(* The number before n items is what a new client counts from.              *)
LEMMA PlusBack ==
  ASSUME NEW first \in Number, NEW n \in Position
  PROVE  (Plus(first, n) + Numbers - n) % Numbers = first
<1> DEFINE x == Plus(first, n) + Numbers - n
<1>1. Plus(first, n) = IF first + n < Numbers THEN first + n ELSE first + n - Numbers
  BY PlusValue, Size DEF Position
<1>2. /\ Numbers \in Nat \ {0} /\ n \in Nat /\ n < Numbers
      /\ first \in Nat /\ first < Numbers
  BY Size, BoundAssumption DEF Position, Number
<1>3. x \in 0 .. 2 * Numbers - 1 /\ (x = first \/ x = first + Numbers)
  BY <1>1, <1>2
<1> HIDE DEF x
<1>4. x % Numbers = IF x < Numbers THEN x ELSE x - Numbers
  BY <1>2, <1>3, Wrap
<1>5. x % Numbers = first
  BY <1>2, <1>3, <1>4
<1> QED BY <1>5 DEF x

(* Seen from a reader, a position lies as far behind the writer's as it is  *)
(* from the writer, unless that is more than once around.                   *)
LEMMA Through ==
  ASSUME NEW p \in Position, NEW w \in Position, NEW r \in Position
  PROVE  available(p, r) = IF available(w, r) + available(p, w) < size
                           THEN available(w, r) + available(p, w)
                           ELSE available(w, r) + available(p, w) - size
<1>1. /\ available(p, r) = IF r <= p THEN p - r ELSE size + p - r
      /\ available(w, r) = IF r <= w THEN w - r ELSE size + w - r
      /\ available(p, w) = IF w <= p THEN p - w ELSE size + p - w
  BY AvailableValue
<1> QED BY <1>1, Size DEF Position

(* Seen from where a reader advances to, the positions behind it are as     *)
(* much nearer.                                                             *)
LEMMA Moved ==
  ASSUME NEW p \in Position, NEW r \in Position, NEW n \in Position,
         available(p, advance(r, n)) + n < size
  PROVE  available(p, r) = available(p, advance(r, n)) + n
<1>1. advance(r, n) \in Position /\ available(r, r) = 0
  BY AdvanceValue, NothingAvailable
<1>2. available(advance(r, n), r) = n
  BY <1>1, WriterAdvances, Size DEF Position
<1> DEFINE w == advance(r, n)
           a == available(p, w)
<1>3. a \in Position /\ a + n < size
  BY <1>1, AvailableValue
<1>4. available(p, r) = IF n + a < size THEN n + a ELSE n + a - size
  BY <1>1, <1>2, Through
<1> HIDE DEF a
<1>5. available(p, r) = a + n
  BY <1>3, <1>4, Size DEF Position
<1> QED BY <1>5 DEF a

\* Steps that leave the device, the positions and what was sent alone.
LEMMA OrderUntouched ==
  ASSUME StreamInv, OrderInv,
         UNCHANGED <<write_pos, data, chunk, item, read_pos, sent, next, overtaken, broken>>,
         \A c \in Client : closed[c] => closed'[c],
         \A c \in Client : Reading(c)' /\ ~overtaken[c] =>
           Reading(c) /\ sent[c] <= sending'[c]
           /\ sending'[c] <= available(write_pos, read_pos[c])
  PROVE  OrderInv'
<1>1. ChunkInOrder' /\ InOrder' /\ item' \in Number
  BY DEF OrderInv, ChunkInOrder, InOrder
<1>2. ASSUME NEW c \in Client
      PROVE  ClientInOrder(c)'
  <2> SUFFICES ASSUME Reading(c)', ~overtaken[c]
               PROVE  /\ Unread(c) < size
                      /\ sent[c] <= sending'[c]
                      /\ sending'[c] <= available(write_pos, read_pos[c])
                      /\ \E first \in Number : ReaderInOrder(c, first)'
    BY DEF ClientInOrder, Unread
  <2>1. Reading(c) /\ ClientInOrder(c)
    BY DEF OrderInv
  <2>2. PICK first \in Number : ReaderInOrder(c, first)
    BY <2>1 DEF ClientInOrder
  <2>3. ReaderInOrder(c, first)'
    BY <2>2 DEF ReaderInOrder, Unread
  <2> QED BY <2>1, <2>3 DEF ClientInOrder
<1> QED BY <1>1, <1>2 DEF OrderInv

\* What convert() writes lies behind all that a reader has still to get.
LEMMA OrderConverted ==
  ASSUME StreamInv, PairInv, OrderInv, Convert
  PROVE  OrderInv'
<1> DEFINE n == IF todo < writeable THEN todo ELSE writeable
<1>1. /\ n \in Position /\ n \in 0 .. size
      /\ chunk = 0 /\ chunk' = n /\ item' = Plus(item, n)
      /\ UNCHANGED <<write_pos, pc, read_pos, sending, sent, closed, next, broken>>
  BY Size DEF Convert, StreamInv, Position, Plus
<1>2. \A p \in Position : data'[p] = IF available(p, write_pos) < n
                                     THEN Plus(item, available(p, write_pos)) ELSE data[p]
  BY DEF Convert, Position, Plus
<1>3. /\ overtaken' \in [Client -> BOOLEAN]
      /\ \A c \in Client : Reading(c) /\ ~overtaken'[c] =>
           ~overtaken[c] /\ available(write_pos, read_pos[c]) + n < size
  <2>1. overtaken' = [c \in Client |->
          overtaken[c] \/ (Reading(c) /\ available(write_pos, read_pos[c]) + n >= size)]
    BY DEF Convert
  <2>2. \A c \in Client : available(write_pos, read_pos[c]) \in Position
    BY AvailableValue DEF StreamInv
  <2> HIDE DEF n
  <2>3. overtaken' \in [Client -> BOOLEAN]
    BY <2>1 DEF OrderInv
  <2>4. ASSUME NEW c \in Client, Reading(c), ~overtaken'[c]
        PROVE  ~overtaken[c] /\ available(write_pos, read_pos[c]) + n < size
    <3>1. ~overtaken[c] /\ ~(available(write_pos, read_pos[c]) + n >= size)
      BY <2>1, <2>4
    <3> QED BY <1>1, <2>2, <3>1, Size DEF Position
  <2> QED BY <2>3, <2>4
<1> HIDE DEF n
<1>4. item \in Number /\ item' \in Number
  BY <1>1, PlusValue DEF OrderInv
<1>5. ChunkInOrder'
  BY <1>1, <1>2, <1>4 DEF ChunkInOrder
<1>6. ASSUME NEW c \in Client, Reading(c)', ~overtaken'[c]
      PROVE  /\ Unread(c)' < size
             /\ sent'[c] <= sending'[c]
             /\ sending'[c] <= available(write_pos', read_pos'[c])
             /\ \E first \in Number : ReaderInOrder(c, first)'
  <2> DEFINE w == write_pos
             r == read_pos[c]
             m == available(w, r)
  <2>1. Reading(c) /\ ~overtaken[c] /\ m + n < size
    BY <1>1, <1>3, <1>6 DEF Reading
  <2>2. w \in Position /\ r \in Position /\ m \in Position
    BY AvailableValue DEF StreamInv
  <2>3. Unread(c) = m /\ Unread(c)' = m + n
    BY <1>1, <2>2, Size DEF Unread, Position
  <2>4. PICK first \in Number : ReaderInOrder(c, first)
    BY <2>1 DEF OrderInv, ClientInOrder
  <2>5. item = Plus(first, m)
    BY <2>3, <2>4 DEF ReaderInOrder
  <2>6. m \in Nat /\ n \in Nat /\ m + n <= size
    BY <1>1, <2>1, <2>2, Size DEF Position
  <2>7. item' = Plus(first, m + n)
    BY <1>1, <2>5, <2>6, PlusPlus
  <2>8. ASSUME NEW p \in Position, available(p, r) < m + n
        PROVE  data'[p] = Plus(first, available(p, r))
    <3> DEFINE i == available(p, w)
    <3>1. i \in Position /\ available(p, r) \in Position
      BY <2>2, AvailableValue
    <3>2. available(p, r) = IF m + i < size THEN m + i ELSE m + i - size
      BY <2>2, Through
    <3> HIDE DEF i, m
    <3>3. CASE i < n
      <4>1. available(p, r) = m + i /\ i \in Nat /\ m + i <= size
        BY <2>1, <2>6, <3>1, <3>2, <3>3, Size DEF Position
      <4>2. data'[p] = Plus(item, i)
        BY <1>2, <3>3 DEF i
      <4> QED BY <2>5, <2>6, <4>1, <4>2, PlusPlus
    <3>4. CASE ~(i < n)
      <4>1. available(p, r) < m
        BY <1>1, <2>2, <2>6, <2>8, <3>1, <3>2, <3>4, Size DEF Position
      <4>2. data'[p] = data[p]
        BY <1>2, <3>4 DEF i
      <4> QED BY <2>3, <2>4, <4>1, <4>2 DEF ReaderInOrder, m
    <3> QED BY <3>3, <3>4
  <2>9. ReaderInOrder(c, first)'
    BY <1>1, <2>3, <2>4, <2>7, <2>8 DEF ReaderInOrder
  <2>10. sent[c] <= sending[c] /\ sending[c] <= m
    BY <2>1 DEF OrderInv, ClientInOrder
  <2> QED BY <1>1, <2>1, <2>3, <2>9, <2>10
<1>7. \A c \in Client : ClientInOrder(c)'
  BY <1>6 DEF ClientInOrder
<1> QED BY <1>1, <1>3, <1>4, <1>5, <1>7 DEF OrderInv, InOrder

\* advance() makes a part of what lies before a reader available to it.
LEMMA OrderAdvanced ==
  ASSUME StreamInv, PairInv, OrderInv, Advance
  PROVE  OrderInv'
<1>1. /\ chunk \in Position /\ chunk' = 0 /\ write_pos' = advance(write_pos, chunk)
      /\ write_pos' \in Position
      /\ UNCHANGED <<data, item, read_pos, sending, sent, closed, next, overtaken, broken>>
      /\ \A c \in Client : Reading(c)' <=> Reading(c)
  BY AdvanceValue, Size DEF Advance, ghosts, StreamInv, Reading, Position
<1>2. ChunkInOrder'
  <2>1. item \in Number /\ Plus(item, 0) = item
    BY PlusZero DEF OrderInv
  <2>2. \A p \in Position : ~(available(p, write_pos') < 0)
    BY <1>1, AvailableValue DEF Position
  <2> QED BY <1>1, <2>1, <2>2 DEF ChunkInOrder
<1>3. ASSUME NEW c \in Client, Reading(c), ~overtaken[c]
      PROVE  /\ Unread(c)' < size
             /\ sent[c] <= sending[c]
             /\ sending[c] <= available(write_pos', read_pos[c])
             /\ \E first \in Number : ReaderInOrder(c, first)'
  <2>1. Unread(c) < size /\ ClientInOrder(c)
    BY <1>3 DEF OrderInv, ClientInOrder
  <2>2. available(write_pos, read_pos[c]) \in Position
    BY AvailableValue DEF StreamInv
  <2>3. available(write_pos', read_pos[c]) = Unread(c)
    BY <1>1, <2>1, WriterAdvances DEF StreamInv, Unread
  <2>4. Unread(c)' = Unread(c)
    BY <1>1, <2>2, <2>3, Size DEF Unread, Position
  <2>5. PICK first \in Number : ReaderInOrder(c, first)
    BY <1>3, <2>1 DEF ClientInOrder
  <2>6. ReaderInOrder(c, first)'
    BY <1>1, <2>4, <2>5 DEF ReaderInOrder
  <2>7. sent[c] <= sending[c] /\ sending[c] <= available(write_pos, read_pos[c])
    BY <1>3, <2>1 DEF ClientInOrder
  <2>8. sending[c] <= Unread(c)
    <3>1. sending[c] \in Position
      BY DEF StreamInv
    <3> QED BY <1>1, <2>2, <2>7, <3>1, Size DEF Unread, Position
  <2> QED BY <2>1, <2>3, <2>4, <2>6, <2>7, <2>8
<1>4. ASSUME NEW c \in Client
      PROVE  ClientInOrder(c)'
  BY <1>1, <1>3 DEF ClientInOrder
<1> QED BY <1>1, <1>2, <1>4 DEF OrderInv, InOrder

\* A new client counts from the first item that is not published yet.
LEMMA OrderJoined ==
  ASSUME StreamInv, PairInv, OrderInv, NEW c \in Client, startNewConnection(c)
  PROVE  OrderInv'
<1>1. /\ UNCHANGED <<write_pos, data, chunk, item, sending, sent, closed, overtaken, broken>>
      /\ read_pos' = [read_pos EXCEPT ![c] = write_pos]
      /\ next' = [next EXCEPT ![c] = (item + Numbers - chunk) % Numbers]
      /\ \A d \in Client : d # c => (Reading(d)' <=> Reading(d))
  BY DEF startNewConnection, device, StreamInv, Reading
<1>2. chunk \in Position
  BY Size DEF StreamInv, Position
<1>3. PICK first \in Number : /\ item = Plus(first, chunk)
                             /\ \A p \in Position : available(p, write_pos) < chunk =>
                                  data[p] = Plus(first, available(p, write_pos))
  BY DEF OrderInv, ChunkInOrder
<1>4. next'[c] = first
  BY <1>1, <1>2, <1>3, PlusBack DEF OrderInv
<1>5. next' \in [Client -> Nat]
  BY <1>1, <1>3, <1>4 DEF OrderInv, Number
<1>6. /\ read_pos'[c] = write_pos /\ available(write_pos, write_pos) = 0
      /\ sent[c] = 0 /\ sending[c] = 0
  BY <1>1, NothingAvailable
     DEF startNewConnection, StreamInv, PairInv, ReadersStart
<1>7. Unread(c)' = chunk
  BY <1>1, <1>2, <1>6, Size DEF Unread, Position
<1>8. Plus(first, 0) = first
  BY PlusZero
<1>9. ReaderInOrder(c, first)'
  BY <1>1, <1>3, <1>4, <1>6, <1>7, <1>8 DEF ReaderInOrder
<1>10. ClientInOrder(c)'
  BY <1>1, <1>2, <1>6, <1>7, <1>9, Size DEF ClientInOrder, Position
<1>11. ASSUME NEW d \in Client, d # c
       PROVE  ClientInOrder(d)'
  <2> SUFFICES ASSUME Reading(d), ~overtaken[d]
               PROVE  /\ Unread(d)' < size
                      /\ sent[d] <= sending[d]
                      /\ sending[d] <= available(write_pos, read_pos'[d])
                      /\ \E f \in Number : ReaderInOrder(d, f)'
    BY <1>1, <1>11 DEF ClientInOrder
  <2>1. read_pos'[d] = read_pos[d] /\ next'[d] = next[d]
    BY <1>1, <1>11 DEF StreamInv, OrderInv
  <2>2. Unread(d)' = Unread(d)
    BY <1>1, <2>1 DEF Unread
  <2>3. PICK f \in Number : ReaderInOrder(d, f)
    BY DEF OrderInv, ClientInOrder
  <2>4. ReaderInOrder(d, f)'
    BY <1>1, <2>1, <2>2, <2>3 DEF ReaderInOrder
  <2> QED BY <2>1, <2>2, <2>4 DEF OrderInv, ClientInOrder
<1>12. ChunkInOrder' /\ InOrder' /\ item' \in Number
  BY <1>1 DEF OrderInv, ChunkInOrder, InOrder
<1>13. \A d \in Client : ClientInOrder(d)'
  BY <1>10, <1>11
<1> QED BY <1>1, <1>5, <1>12, <1>13 DEF OrderInv

\* send() copies the item that the client has to see next.
LEMMA OrderCopied ==
  ASSUME StreamInv, PairInv, OrderInv, NEW c \in Client, Copy(c)
  PROVE  OrderInv'
<1> DEFINE i == data[advance(read_pos[c], sent[c])]
<1>1. /\ UNCHANGED <<write_pos, data, chunk, item, pc, read_pos, sending, closed, overtaken>>
      /\ sent' = [sent EXCEPT ![c] = @ + 1]
      /\ next' = [next EXCEPT ![c] = IF overtaken[c] THEN 0 ELSE (i + 1) % Numbers]
      /\ broken' = [broken EXCEPT ![c] = @ \/ (~overtaken[c] /\ i # next[c])]
      /\ pc[c] = "send" /\ sent[c] < sending[c] /\ ~closed[c]
  BY DEF Copy, device
<1>2. /\ sent[c] \in Nat /\ sent[c] \in Position
      /\ sending[c] \in Position /\ read_pos[c] \in Position
      /\ advance(read_pos[c], sent[c]) \in Position
  <2>1. sent[c] \in Nat /\ sending[c] \in Position /\ read_pos[c] \in Position
    BY DEF StreamInv, PairInv, ReadersStart
  <2>2. sent[c] \in Position
    BY <1>1, <2>1, Size DEF Position
  <2> QED BY <2>1, <2>2, AdvanceValue
<1>3. Reading(c)
  BY <1>1 DEF Reading
<1>4. ASSUME ~overtaken[c]
      PROVE  i = next[c] /\ i \in Number /\ ClientInOrder(c)'
  <2>1. /\ Unread(c) < size
        /\ sent[c] <= sending[c] /\ sending[c] <= available(write_pos, read_pos[c])
    BY <1>3, <1>4 DEF OrderInv, ClientInOrder
  <2>2. PICK first \in Number : ReaderInOrder(c, first)
    BY <1>3, <1>4 DEF OrderInv, ClientInOrder
  <2>3. available(write_pos, read_pos[c]) \in Position /\ chunk \in Nat
    BY AvailableValue, Size DEF StreamInv
  <2>4. sent[c] < Unread(c) /\ sent[c] + 1 <= sending[c]
    BY <1>1, <1>2, <2>1, <2>3, Size DEF Unread, Position
  <2>5. available(advance(read_pos[c], sent[c]), read_pos[c]) = sent[c]
    <3>1. available(read_pos[c], read_pos[c]) = 0
      BY <1>2, NothingAvailable
    <3> QED BY <1>2, <3>1, WriterAdvances, Size DEF Position
  <2>6. i = Plus(first, sent[c]) /\ i = next[c] /\ i \in Number
    <3>1. sent[c] \in 0 .. size
      BY <1>2, Size DEF Position
    <3> QED BY <1>1, <1>2, <2>2, <2>4, <2>5, <3>1, PlusValue DEF ReaderInOrder
  <2>7. next'[c] = Plus(first, sent[c] + 1)
    <3>1. next'[c] = Plus(i, 1)
      BY <1>1, <1>4 DEF OrderInv, Plus
    <3>2. sent[c] \in Nat /\ 1 \in Nat /\ sent[c] + 1 <= size
      BY <1>2, Size DEF Position
    <3> HIDE DEF i
    <3> QED BY <2>6, <3>1, <3>2, PlusPlus
  <2>8. sent'[c] = sent[c] + 1
    BY <1>1 DEF PairInv, ReadersStart
  <2>9. Unread(c)' = Unread(c)
    BY <1>1 DEF Unread
  <2>10. ReaderInOrder(c, first)'
    BY <1>1, <2>2, <2>7, <2>8, <2>9 DEF ReaderInOrder
  <2> QED BY <1>1, <2>1, <2>4, <2>6, <2>8, <2>9, <2>10 DEF ClientInOrder
<1> HIDE DEF i
<1>5. next' \in [Client -> Nat] /\ broken' \in [Client -> BOOLEAN] /\ InOrder'
  <2>1. ~overtaken[c] => i \in Number /\ Plus(i, 1) = (i + 1) % Numbers
    BY <1>4 DEF Plus
  <2>2. ~overtaken[c] => (i + 1) % Numbers \in Nat
    BY <2>1, PlusValue, Size, BoundAssumption DEF Number
  <2>3. next' \in [Client -> Nat]
    BY <1>1, <2>2 DEF OrderInv
  <2>4. broken' = [broken EXCEPT ![c] = @]
    BY <1>1, <1>4 DEF OrderInv, InOrder
  <2> QED BY <2>3, <2>4 DEF OrderInv, InOrder
<1>6. ASSUME NEW d \in Client, d # c
      PROVE  ClientInOrder(d)'
  <2>1. sent'[d] = sent[d] /\ next'[d] = next[d]
    BY <1>1, <1>6 DEF PairInv, ReadersStart, OrderInv
  <2>2. Unread(d)' = Unread(d) /\ (Reading(d)' <=> Reading(d))
    BY <1>1 DEF Unread, Reading
  <2> SUFFICES ASSUME Reading(d), ~overtaken[d]
               PROVE  /\ Unread(d) < size
                      /\ sent[d] <= sending[d]
                      /\ sending[d] <= available(write_pos, read_pos[d])
                      /\ \E f \in Number : ReaderInOrder(d, f)'
    BY <1>1, <2>1, <2>2 DEF ClientInOrder
  <2>3. PICK f \in Number : ReaderInOrder(d, f)
    BY DEF OrderInv, ClientInOrder
  <2>4. ReaderInOrder(d, f)'
    BY <1>1, <2>1, <2>2, <2>3 DEF ReaderInOrder
  <2> QED BY <2>4 DEF OrderInv, ClientInOrder
<1>7. CASE overtaken[c]
  <2>1. ClientInOrder(c)'
    BY <1>1, <1>7 DEF ClientInOrder
  <2> QED BY <1>1, <1>5, <1>6, <2>1 DEF OrderInv, ChunkInOrder
<1>8. CASE ~overtaken[c]
  BY <1>1, <1>4, <1>5, <1>6, <1>8 DEF OrderInv, ChunkInOrder
<1> QED BY <1>7, <1>8

\* A reader that has sent all it was to send goes on behind it.
LEMMA OrderSent ==
  ASSUME StreamInv, PairInv, OrderInv, NEW c \in Client, Sent(c)
  PROVE  OrderInv'
<1> DEFINE r == read_pos[c]
           n == sending[c]
<1>1. /\ UNCHANGED <<write_pos, data, chunk, item, closed, next, overtaken, broken>>
      /\ read_pos' = [read_pos EXCEPT ![c] = advance(r, n)]
      /\ sending' = [sending EXCEPT ![c] = 0] /\ sent' = [sent EXCEPT ![c] = 0]
      /\ sent[c] = sending[c] \/ closed[c]
      /\ pc[c] = "send" /\ pc' = [pc EXCEPT ![c] = "check"]
  BY DEF Sent, device, ghosts
<1>2. /\ r \in Position /\ n \in Position /\ advance(r, n) \in Position
      /\ read_pos'[c] = advance(r, n) /\ sending'[c] = 0 /\ sent'[c] = 0
      /\ write_pos \in Position
  BY <1>1, AdvanceValue DEF StreamInv, PairInv, ReadersStart
<1>3. \A d \in Client : Reading(d)' <=> Reading(d)
  BY <1>1 DEF StreamInv, Reading
<1>4. ASSUME Reading(c), ~overtaken[c]
      PROVE  /\ Unread(c)' < size
             /\ 0 <= available(write_pos, advance(r, n))
             /\ \E first \in Number : ReaderInOrder(c, first)'
  <2> DEFINE m == available(write_pos, r)
  <2>1. /\ Unread(c) < size /\ n <= m /\ m \in Position
        /\ chunk \in Nat /\ Unread(c) = m + chunk
    BY <1>2, <1>4, AvailableValue, Size DEF OrderInv, ClientInOrder, Unread, StreamInv
  <2>2. PICK first \in Number : ReaderInOrder(c, first)
    BY <1>4 DEF OrderInv, ClientInOrder
  <2>3. available(write_pos, advance(r, n)) = m - n
    BY <1>2, <2>1, ReaderAdvances
  <2>4. Unread(c)' = m - n + chunk
    BY <1>1, <1>2, <2>3 DEF Unread
  <2> HIDE DEF m
  <2>5. /\ m - n + chunk \in Nat /\ n \in Nat /\ n \in 0 .. size /\ m - n \in Nat
        /\ n + (m - n + chunk) = m + chunk /\ m + chunk < size
    BY <1>2, <2>1, Size DEF Position
  <2> DEFINE u == m - n + chunk
  <2> HIDE DEF r, n, u
  <2>6. PICK first2 \in Number : first2 = Plus(first, n)
    BY <2>5, PlusValue
  <2>7. u \in Nat /\ n + u = m + chunk /\ n + u <= size
    BY <2>5, Size DEF u
  <2>8. item = Plus(first2, u)
    <3>1. item = Plus(first, n + u)
      BY <2>1, <2>2, <2>7 DEF ReaderInOrder
    <3> QED BY <2>5, <2>6, <2>7, <3>1, PlusPlus
  <2>9. ASSUME NEW p \in Position, available(p, advance(r, n)) < u
        PROVE  data[p] = Plus(first2, available(p, advance(r, n)))
    <3> DEFINE k == available(p, advance(r, n))
    <3>1. k \in Position /\ k \in Nat
      BY <1>2, AvailableValue, Size DEF Position
    <3>2. k + n < size /\ k + n = n + k /\ n + k <= size /\ n + k < m + chunk
      BY <2>5, <2>7, <2>9, <3>1, Size
    <3>3. available(p, r) = n + k
      BY <1>2, <3>1, <3>2, Moved
    <3>4. data[p] = Plus(first, n + k)
      BY <2>1, <2>2, <3>2, <3>3 DEF ReaderInOrder, r
    <3> HIDE DEF k
    <3>5. Plus(first2, k) = Plus(first, n + k)
      BY <2>5, <2>6, <3>1, <3>2, PlusPlus
    <3> QED BY <3>4, <3>5 DEF k
  <2>10. ~closed[c] => next[c] = Plus(first2, 0)
    <3>1. Plus(first2, 0) = first2
      BY <2>6, PlusZero
    <3>2. ~closed[c] => next[c] = Plus(first, n)
      BY <1>1, <2>2 DEF ReaderInOrder, n
    <3> QED BY <2>6, <3>1, <3>2
  <2>11. ReaderInOrder(c, first2)'
    <3>1. Unread(c)' = u /\ read_pos'[c] = advance(r, n) /\ sent'[c] = 0
      BY <1>2, <2>4 DEF u
    <3> QED BY <1>1, <2>8, <2>9, <2>10, <3>1 DEF ReaderInOrder
  <2>12. Unread(c)' < size
    BY <2>4, <2>5, Size
  <2>13. 0 <= available(write_pos, advance(r, n))
    BY <2>3, <2>5
  <2> QED BY <2>11, <2>12, <2>13
<1>5. ClientInOrder(c)'
  BY <1>1, <1>2, <1>3, <1>4 DEF ClientInOrder
<1>6. ASSUME NEW d \in Client, d # c
      PROVE  ClientInOrder(d)'
  <2>1. sent'[d] = sent[d] /\ sending'[d] = sending[d] /\ read_pos'[d] = read_pos[d]
    BY <1>1, <1>6 DEF PairInv, ReadersStart, StreamInv
  <2>2. Unread(d)' = Unread(d)
    BY <1>1, <2>1 DEF Unread
  <2> SUFFICES ASSUME Reading(d), ~overtaken[d]
               PROVE  /\ Unread(d) < size
                      /\ sent[d] <= sending[d]
                      /\ sending[d] <= available(write_pos, read_pos[d])
                      /\ \E f \in Number : ReaderInOrder(d, f)'
    BY <1>1, <1>3, <2>1, <2>2 DEF ClientInOrder
  <2>3. PICK f \in Number : ReaderInOrder(d, f)
    BY DEF OrderInv, ClientInOrder
  <2>4. ReaderInOrder(d, f)'
    BY <1>1, <2>1, <2>2, <2>3 DEF ReaderInOrder
  <2> QED BY <2>4 DEF OrderInv, ClientInOrder
<1>7. ChunkInOrder' /\ InOrder' /\ item' \in Number
  BY <1>1 DEF OrderInv, ChunkInOrder, InOrder
<1>8. \A d \in Client : ClientInOrder(d)'
  BY <1>5, <1>6
<1> QED BY <1>1, <1>7, <1>8 DEF OrderInv

LEMMA OrderInvHolds == IqSpec => []OrderInv
<1>1. IqInit => OrderInv
  <2> SUFFICES ASSUME IqInit
               PROVE  OrderInv
    OBVIOUS
  <2>1. 0 \in Number /\ Plus(0, 0) = 0
    BY BoundAssumption, PlusValue, Size DEF Number
  <2>2. \A p \in Position : ~(available(p, write_pos) < 0)
    BY AvailableValue, Size DEF Position, IqInit
  <2>3. ChunkInOrder
    BY <2>1, <2>2 DEF IqInit, ChunkInOrder
  <2>4. \A c \in Client : ClientInOrder(c)
    BY DEF IqInit, ClientInOrder, Reading
  <2> QED BY <2>1, <2>3, <2>4 DEF IqInit, OrderInv, InOrder
<1>2. StreamInv /\ PairInv /\ OrderInv /\ [IqNext]_ivars => OrderInv'
  <2> SUFFICES ASSUME StreamInv, PairInv, OrderInv, [IqNext]_ivars
               PROVE  OrderInv'
    OBVIOUS
  <2>1. \A c \in Client : Reading(c) /\ ~overtaken[c] =>
          sent[c] <= sending[c] /\ sending[c] <= available(write_pos, read_pos[c])
    BY DEF OrderInv, ClientInOrder
  <2>2. ASSUME UNCHANGED <<write_pos, data, chunk, item, read_pos, sent, sending, ghosts>>,
               \A c \in Client : closed[c] => closed'[c],
               \A c \in Client : Reading(c)' => Reading(c)
        PROVE  OrderInv'
    <3>1. UNCHANGED <<write_pos, data, chunk, item, read_pos, sent, next, overtaken, broken>>
      BY <2>2 DEF ghosts
    <3> QED BY <2>1, <2>2, <3>1, OrderUntouched
  <2>3. ASSUME NEW len \in Lens, Block(len)
        PROVE  OrderInv'
    BY <2>2, <2>3 DEF Block, Reading
  <2>4. ASSUME NEW c \in Client, Wait(c)
        PROVE  OrderInv'
    BY <2>2, <2>4 DEF Wait, device, Reading, StreamInv
  <2>5. ASSUME NEW c \in Client, Check(c)
        PROVE  OrderInv'
    <3> DEFINE n == available(write_pos, read_pos[c])
    <3>1. /\ UNCHANGED <<write_pos, data, chunk, item, read_pos, sent, closed,
                        next, overtaken, broken>>
          /\ sending' = [sending EXCEPT ![c] = n] /\ pc[c] = "check"
      BY <2>5 DEF Check, device, ghosts
    <3>2. \A d \in Client : Reading(d)' => Reading(d)
      BY <2>5 DEF Check, StreamInv, Reading
    <3>3. sent[c] = 0 /\ n \in Position
      BY <3>1, AvailableValue DEF PairInv, ReadersStart, StreamInv
    <3>4. ASSUME NEW d \in Client, Reading(d)', ~overtaken[d]
          PROVE  /\ Reading(d) /\ sent[d] <= sending'[d]
                 /\ sending'[d] <= available(write_pos, read_pos[d])
      <4>1. CASE d = c
        BY <3>1, <3>2, <3>3, <3>4, <4>1, Size DEF StreamInv, Position
      <4>2. CASE d # c
        BY <2>1, <3>1, <3>2, <3>4, <4>2 DEF StreamInv
      <4> QED BY <4>1, <4>2
    <3> QED BY <3>1, <3>4, OrderUntouched
  <2>6. ASSUME NEW c \in Client, Recv(c)
        PROVE  OrderInv'
    <3>1. UNCHANGED <<write_pos, data, chunk, item, read_pos, sent, sending, closed, pc,
                      next, overtaken, broken>>
      BY <2>6 DEF Recv, device
    <3>2. \A d \in Client : Reading(d)' <=> Reading(d)
      BY <3>1 DEF Reading
    <3> QED BY <2>1, <3>1, <3>2, OrderUntouched
  <2>7. ASSUME NEW c \in Client, Close(c)
        PROVE  OrderInv'
    <3>1. \A d \in Client : closed[d] => closed'[d]
      BY <2>7 DEF Close, PairInv, ReceiversPaired
    <3> QED BY <2>2, <2>7, <3>1 DEF Close, device, Reading
  <2>8. CASE UNCHANGED ivars
    BY <2>2, <2>8 DEF ivars, device, Reading
  <2>9. CASE Convert
    BY <2>9, OrderConverted
  <2>10. CASE Advance
    BY <2>10, OrderAdvanced
  <2>11. ASSUME NEW c \in Client, startNewConnection(c)
         PROVE  OrderInv'
    BY <2>11, OrderJoined
  <2>12. ASSUME NEW c \in Client, Copy(c)
         PROVE  OrderInv'
    BY <2>12, OrderCopied
  <2>13. ASSUME NEW c \in Client, Sent(c)
         PROVE  OrderInv'
    BY <2>13, OrderSent
  <2> QED BY <2>3, <2>4, <2>5, <2>6, <2>7, <2>8, <2>9, <2>10, <2>11, <2>12, <2>13
          DEF IqNext, Connection
<1> QED BY <1>1, <1>2, StreamInvHolds, PairInvHolds, PTL DEF IqSpec

(* Whatever the size of the buffer, the blocks of the device and the speed  *)
(* of the clients: what a client gets goes on from where it joined, item by *)
(* item, until the writer comes around to it.                               *)
THEOREM SamplesAlwaysInOrder == IqSpec => []InOrder
<1>1. OrderInv => InOrder
  BY DEF OrderInv
<1> QED BY <1>1, OrderInvHolds, PTL
-----------------------------------------------------------------------------
(* nmux.                                                                    *)

\* How many blocks before the one at index w the one at index i was written.
age(i, w) == IF i <= w THEN w - i ELSE w - i + num

\* The number of the block at an index.
number(i) == reading - age(i, current)

NmuxTypes ==
  /\ current \in Index /\ write_index = index_next(current)
  /\ filled \in 0 .. 2 /\ reading \in Nat
  /\ buffers \in [Index -> [1 .. 2 -> Nat]]
  /\ status \in [Peer -> {"none", "running", "finished"}]
  /\ doing \in [Peer -> {"get", "wait", "sleeping", "send"}]
  /\ read_index \in [Peer -> Index] /\ holding \in [Peer -> Index]
  /\ halves \in [Peer -> 0 .. 2]
  /\ due \in [Peer -> Nat \X Nat]
  /\ lapped \in [Peer -> BOOLEAN] /\ wrong \in [Peer -> BOOLEAN]
  /\ \A c \in Peer : halves[c] = 2 <=> doing[c] # "send"

\* The pool holds the latest blocks: whole ones, but for the current one.
PoolHolds ==
  /\ \A i \in Index : i # current /\ number(i) >= 0 =>
       buffers[i][1] = number(i) /\ buffers[i][2] = number(i)
  /\ \A k \in 1 .. filled : buffers[current][k] = reading

\* Where a client that was not overtaken is in the stream.
PlaceOf(c) ==
  /\ number(read_index[c]) >= 0
  /\ IF doing[c] = "send"
     THEN /\ holding[c] # current /\ read_index[c] = index_next(holding[c])
          /\ number(holding[c]) >= 0
          /\ due[c] = <<number(holding[c]), halves[c] + 1>>
     ELSE due[c] = <<number(read_index[c]), 1>>

\* BlocksInOrder is not inductive: that the next half is the right one needs
\* to know what the pool holds and where the client is in it.
MuxInv ==
  /\ NmuxTypes /\ PoolHolds /\ BlocksInOrder
  /\ \A c \in Peer : status[c] = "none" => doing[c] = "get"
  /\ \A c \in Peer : status[c] = "running" /\ ~lapped[c] => PlaceOf(c)

\* The index before the next one is the index, and there is nobody between.
LEMMA AroundPool ==
  ASSUME NEW i \in Index
  PROVE  /\ index_next(i) \in Index /\ index_before(i) \in Index
         /\ index_before(index_next(i)) = i
         /\ index_next(index_before(i)) = i
BY SomeBlocks DEF Index, index_next, index_before

-----------------------------------------------------------------------------
(* A new block: everything in the pool is one block older, and a client     *)
(* whose place is given up is overtaken.                                    *)

LEMMA Ages ==
  ASSUME NmuxTypes, NextBlock, NEW i \in Index
  PROVE  /\ i # write_index => age(i, current') = age(i, current) + 1
         /\ age(i, current) \in Nat /\ age(i, current') \in Nat
         /\ i # write_index => reading' - age(i, current') = reading - age(i, current)
<1>1. current' = (IF current + 1 = num THEN 0 ELSE current + 1) /\ current \in Index
      /\ write_index = current' /\ reading' = reading + 1 /\ reading \in Nat
  BY DEF NmuxTypes, NextBlock, index_next
<1>2. i # write_index => age(i, current') = age(i, current) + 1
  BY <1>1, SomeBlocks DEF age, Index
<1>3. age(i, current) \in Nat /\ age(i, current') \in Nat
  BY <1>1, SomeBlocks DEF age, Index
<1> QED BY <1>1, <1>2, <1>3

LEMMA PoolKept ==
  ASSUME MuxInv, NextBlock
  PROVE  NmuxTypes' /\ PoolHolds'
<1>1. NmuxTypes'
  BY AroundPool DEF MuxInv, NmuxTypes, NextBlock
<1>2. ASSUME NEW i \in Index, i # current', reading' - age(i, current') >= 0
      PROVE  /\ buffers'[i][1] = reading' - age(i, current')
             /\ buffers'[i][2] = reading' - age(i, current')
  <2>1. i # write_index /\ buffers' = buffers
    BY <1>2 DEF NextBlock
  <2>2. reading' - age(i, current') = number(i)
    BY <2>1, Ages DEF MuxInv, number
  <2>3. CASE i = current
    <3>1. number(i) = reading /\ filled = 2
      BY <2>3, SomeBlocks DEF MuxInv, NmuxTypes, NextBlock, age, number, Index
    <3> QED BY <2>1, <2>2, <2>3, <3>1 DEF MuxInv, PoolHolds
  <2>4. CASE i # current
    BY <1>2, <2>1, <2>2, <2>4 DEF MuxInv, PoolHolds
  <2> QED BY <2>3, <2>4
<1>3. filled' = 0
  BY DEF NextBlock
<1> QED BY <1>1, <1>2, <1>3 DEF PoolHolds, number

LEMMA PlacesKept ==
  ASSUME MuxInv, NextBlock,
         NEW c \in Peer, status[c] = "running", ~lapped'[c]
  PROVE  PlaceOf(c)'
<1>1. ~lapped[c] /\ read_index[c] # write_index
      /\ (halves[c] < 2 => holding[c] # write_index)
  BY DEF MuxInv, NmuxTypes, NextBlock
<1>2. PlaceOf(c) /\ read_index[c] \in Index /\ holding[c] \in Index
      /\ (doing[c] = "send" => holding[c] # write_index)
  BY <1>1 DEF MuxInv, NmuxTypes
<1>3. UNCHANGED <<read_index, holding, due, halves>> /\ write_index = current'
  BY DEF NextBlock
<1>4. (doing'[c] = "send") = (doing[c] = "send")
  BY DEF MuxInv, NmuxTypes, NextBlock
<1>5. reading' - age(read_index[c], current') = number(read_index[c])
  BY <1>1, <1>2, Ages DEF MuxInv, number
<1>6. CASE doing[c] = "send"
  <2>1. reading' - age(holding[c], current') = number(holding[c])
    BY <1>2, <1>6, Ages DEF MuxInv, number
  <2>2. /\ holding[c] # current /\ read_index[c] = index_next(holding[c])
        /\ number(read_index[c]) >= 0 /\ number(holding[c]) >= 0
        /\ due[c] = <<number(holding[c]), halves[c] + 1>>
    BY <1>2, <1>6 DEF PlaceOf
  <2> QED BY <1>2, <1>3, <1>4, <1>5, <1>6, <2>1, <2>2 DEF PlaceOf, number
<1>7. CASE doing[c] # "send"
  <2>1. number(read_index[c]) >= 0 /\ due[c] = <<number(read_index[c]), 1>>
    BY <1>2, <1>7 DEF PlaceOf
  <2> QED BY <1>3, <1>4, <1>5, <1>7, <2>1 DEF PlaceOf, number
<1> QED BY <1>6, <1>7

-----------------------------------------------------------------------------
(* The other steps.                                                         *)

\* The place of a client depends on nothing else.
LEMMA PlaceUntouched ==
  ASSUME NEW c \in Peer, UNCHANGED <<current, reading>>,
         read_index'[c] = read_index[c], holding'[c] = holding[c],
         halves'[c] = halves[c], due'[c] = due[c],
         (doing'[c] = "send") = (doing[c] = "send")
  PROVE  PlaceOf(c)' = PlaceOf(c)
BY DEF PlaceOf, number

LEMMA PoolUntouched ==
  ASSUME PoolHolds, UNCHANGED pool
  PROVE  PoolHolds'
BY DEF PoolHolds, pool, number

\* The block at the next index is the next one, but behind the current one.
LEMMA NextNumber ==
  ASSUME NmuxTypes, NEW i \in Index, i # current
  PROVE  number(index_next(i)) = number(i) + 1 /\ number(i) \in Int
<1>1. ASSUME NEW w \in Index, i # w
      PROVE  /\ age(index_next(i), w) = age(i, w) - 1
             /\ age(i, w) \in Int /\ age(index_next(i), w) \in Int
  BY <1>1, SomeBlocks DEF age, index_next, Index
<1>2. age(index_next(i), current) = age(i, current) - 1 /\ reading \in Nat
      /\ age(i, current) \in Int /\ age(index_next(i), current) \in Int
  BY <1>1 DEF NmuxTypes
<1> QED BY <1>2 DEF number

LEMMA ReadInputKeeps ==
  ASSUME MuxInv, ReadInput
  PROVE  MuxInv'
<1>1. /\ UNCHANGED <<current, reading, read_index, holding, halves, due, doing, status,
                     lapped, wrong>>
      /\ filled' = filled + 1 /\ filled < 2
  BY DEF ReadInput, observed
<1>2. NmuxTypes'
  BY <1>1 DEF MuxInv, NmuxTypes, ReadInput
<1>3. ASSUME NEW i \in Index, i # current
      PROVE  buffers'[i] = buffers[i]
  BY <1>3 DEF MuxInv, NmuxTypes, ReadInput
<1>4. ASSUME NEW k \in 1 .. filled'
      PROVE  buffers'[current][k] = reading
  BY <1>1, <1>4 DEF MuxInv, NmuxTypes, PoolHolds, ReadInput
<1>5. PoolHolds'
  BY <1>1, <1>3, <1>4 DEF MuxInv, PoolHolds, number
<1>6. \A c \in Peer : PlaceOf(c)' = PlaceOf(c)
  BY <1>1, PlaceUntouched
<1> QED BY <1>1, <1>2, <1>5, <1>6 DEF MuxInv, BlocksInOrder

\* A client is put at the block that is being read.
LEMMA AcceptKeeps ==
  ASSUME MuxInv, NEW c \in Peer, Accept(c)
  PROVE  MuxInv'
<1>1. /\ UNCHANGED <<current, reading, write_index, holding, halves, doing, lapped, wrong>>
      /\ \A d \in Peer \ {c} : read_index'[d] = read_index[d] /\ due'[d] = due[d]
      /\ \A d \in Peer \ {c} : status'[d] = status[d]
      /\ status'[c] = "running" /\ doing[c] = "get"
      /\ read_index'[c] = current /\ due'[c] = <<reading, 1>>
  BY AroundPool DEF Accept, pool, MuxInv, NmuxTypes
<1>2. NmuxTypes'
  BY AroundPool DEF Accept, pool, MuxInv, NmuxTypes
<1>3. PoolHolds'
  BY PoolUntouched DEF Accept, MuxInv
<1>4. PlaceOf(c)'
  BY <1>1, SomeBlocks DEF PlaceOf, number, age, MuxInv, NmuxTypes, Index
<1>5. \A d \in Peer \ {c} : PlaceOf(d)' = PlaceOf(d)
  BY <1>1, PlaceUntouched
<1> QED BY <1>1, <1>2, <1>3, <1>4, <1>5 DEF MuxInv, BlocksInOrder

\* What get_read_buffer() gives out is a whole block.
LEMMA GetKeeps ==
  ASSUME MuxInv, NEW c \in Peer, get_read_buffer(c)
  PROVE  MuxInv'
<1>1. /\ UNCHANGED <<current, reading, write_index, due, status, lapped, wrong>>
      /\ \A d \in Peer \ {c} : /\ read_index'[d] = read_index[d] /\ holding'[d] = holding[d]
                               /\ halves'[d] = halves[d] /\ doing'[d] = doing[d]
      /\ status[c] = "running" /\ doing[c] = "get"
      /\ index_before(write_index) = current
  BY AroundPool DEF get_read_buffer, Runs, pool, observed, MuxInv, NmuxTypes
<1>2. NmuxTypes'
  BY <1>1, AroundPool DEF get_read_buffer, pool, observed, MuxInv, NmuxTypes
<1>3. PoolHolds'
  BY PoolUntouched DEF get_read_buffer, MuxInv
<1>4. \A d \in Peer \ {c} : PlaceOf(d)' = PlaceOf(d)
  BY <1>1, PlaceUntouched
<1>5. ASSUME PlaceOf(c)
      PROVE  PlaceOf(c)'
  <2>1. number(read_index[c]) >= 0 /\ due[c] = <<number(read_index[c]), 1>>
    BY <1>1, <1>5 DEF PlaceOf
  <2>2. CASE read_index[c] = current
    BY <1>1, <1>5, <2>2, PlaceUntouched DEF get_read_buffer, MuxInv, NmuxTypes
  <2>3. CASE read_index[c] # current
    <3>1. /\ holding'[c] = read_index[c] /\ read_index'[c] = index_next(read_index[c])
          /\ halves'[c] = 0 /\ doing'[c] = "send" /\ read_index[c] \in Index
      BY <1>1, <2>3 DEF get_read_buffer, MuxInv, NmuxTypes
    <3>2. number(read_index'[c]) >= 0
      <4>1. /\ number(index_next(read_index[c])) = number(read_index[c]) + 1
            /\ number(read_index[c]) \in Int
        BY <2>3, <3>1, NextNumber DEF MuxInv
      <4>2. number(index_next(read_index[c])) = number(read_index'[c])
        BY <3>1
      <4> QED BY <2>1, <4>1, <4>2
    <3> QED BY <1>1, <2>1, <2>3, <3>1, <3>2 DEF PlaceOf, number
  <2> QED BY <2>2, <2>3
<1> QED BY <1>1, <1>2, <1>3, <1>4, <1>5 DEF MuxInv, BlocksInOrder

\* The half that is sent is the one that comes next.
LEMMA SendKeeps ==
  ASSUME MuxInv, NEW c \in Peer, Send(c)
  PROVE  MuxInv'
<1>1. /\ UNCHANGED <<current, reading, read_index, holding, status, lapped>>
      /\ \A d \in Peer \ {c} : /\ halves'[d] = halves[d] /\ doing'[d] = doing[d]
                               /\ due'[d] = due[d] /\ wrong'[d] = wrong[d]
      /\ status[c] = "running" /\ doing[c] = "send" /\ halves[c] \in {0, 1}
      /\ holding[c] \in Index /\ read_index[c] \in Index
      /\ buffers[holding[c]][halves[c] + 1] \in Nat
  BY DEF Send, Runs, pool, MuxInv, NmuxTypes
<1>2. NmuxTypes'
  <2>1. /\ halves' \in [Peer -> 0 .. 2] /\ wrong' \in [Peer -> BOOLEAN]
        /\ doing' \in [Peer -> {"get", "wait", "sleeping", "send"}]
        /\ due' \in [Peer -> Nat \X Nat]
    BY <1>1 DEF Send, MuxInv, NmuxTypes
  <2>2. \A d \in Peer : halves'[d] = 2 <=> doing'[d] # "send"
    BY <1>1 DEF Send, MuxInv, NmuxTypes
  <2> QED BY <2>1, <2>2 DEF Send, pool, MuxInv, NmuxTypes
<1>3. PoolHolds'
  BY PoolUntouched DEF Send, MuxInv
<1>4. \A d \in Peer \ {c} : PlaceOf(d)' = PlaceOf(d)
  BY <1>1, PlaceUntouched
<1>5. ASSUME PlaceOf(c)
      PROVE  PlaceOf(c)' /\ wrong'[c] = wrong[c]
  <2>1. /\ holding[c] # current /\ read_index[c] = index_next(holding[c])
        /\ number(read_index[c]) >= 0 /\ number(holding[c]) >= 0
        /\ due[c] = <<number(holding[c]), halves[c] + 1>>
    BY <1>1, <1>5 DEF PlaceOf
  <2>2. buffers[holding[c]][halves[c] + 1] = number(holding[c])
    BY <1>1, <2>1 DEF MuxInv, PoolHolds
  <2>3. number(read_index[c]) = number(holding[c]) + 1
    BY <1>1, <2>1, NextNumber DEF MuxInv
  <2>4. /\ halves'[c] = halves[c] + 1 /\ wrong'[c] = wrong[c]
        /\ doing'[c] = IF halves[c] = 1 THEN "get" ELSE "send"
        /\ due'[c] = IF halves[c] = 0 THEN <<number(holding[c]), 2>>
                     ELSE <<number(holding[c]) + 1, 1>>
    BY <1>1, <2>1, <2>2 DEF Send, MuxInv, NmuxTypes
  <2> QED BY <1>1, <2>1, <2>3, <2>4 DEF PlaceOf, number
<1> QED BY <1>1, <1>2, <1>3, <1>4, <1>5 DEF MuxInv, BlocksInOrder

\* A fast enough client gets every block, whole and in order, whatever the
\* main thread and the other clients do meanwhile.
THEOREM BlocksAlwaysInOrder == NmuxSpec => []BlocksInOrder
<1>1. NmuxInit => MuxInv
  <2> SUFFICES ASSUME NmuxInit PROVE MuxInv
    OBVIOUS
  <2>1. 0 \in Index
    BY SomeBlocks DEF Index
  <2>2. NmuxTypes
    BY <2>1 DEF NmuxInit, NmuxTypes
  <2>3. \A i \in Index : i # 0 => age(i, 0) > 0
    BY SomeBlocks DEF age, Index
  <2>4. PoolHolds
    BY <2>3, SomeBlocks DEF NmuxInit, PoolHolds, number, age, Index
  <2> QED BY <2>2, <2>4 DEF NmuxInit, MuxInv, BlocksInOrder
<1>2. ASSUME MuxInv, [NmuxNext]_nvars
      PROVE  MuxInv'
  <2>1. CASE NextBlock
    <3>1. /\ \A c \in Peer : wrong'[c] = wrong[c] /\ (lapped[c] => lapped'[c])
          /\ \A c \in Peer : status[c] = "none" => doing'[c] = "get"
          /\ status' = status
      BY <1>2, <2>1 DEF MuxInv, NmuxTypes, NextBlock
    <3> QED BY <1>2, <2>1, <3>1, PoolKept, PlacesKept DEF MuxInv, BlocksInOrder
  <2>2. ASSUME UNCHANGED <<pool, read_index, holding, halves, observed, doing>>,
               \A c \in Peer : status'[c] = "none" => status[c] = "none",
               \A c \in Peer : status'[c] = "running" => status[c] = "running",
               status' \in [Peer -> {"none", "running", "finished"}]
        PROVE  MuxInv'
    <3>1. \A c \in Peer : PlaceOf(c)' = PlaceOf(c)
      BY <2>2, PlaceUntouched DEF pool, observed
    <3>2. PoolHolds'
      BY <1>2, <2>2, PoolUntouched DEF MuxInv
    <3> QED BY <1>2, <2>2, <3>1, <3>2 DEF MuxInv, NmuxTypes, BlocksInOrder, pool, observed
  <2>3. CASE Exit \/ UNCHANGED nvars
    <3>1. UNCHANGED <<write_index, current, filled, reading, buffers, status, doing,
                      read_index, holding, halves, due, lapped, wrong>>
      BY <2>3 DEF Exit, nvars, pool, observed
    <3>2. \A c \in Peer : PlaceOf(c)' = PlaceOf(c)
      BY <3>1, PlaceUntouched
    <3> QED BY <1>2, <3>1, <3>2 DEF MuxInv, NmuxTypes, PoolHolds, number, BlocksInOrder
  <2>4. ASSUME NEW c \in Peer, Sleep(c)
        PROVE  MuxInv'
    <3>1. /\ UNCHANGED <<pool, read_index, holding, halves, observed, status>>
          /\ doing[c] = "wait" /\ status[c] = "running"
          /\ doing' = [doing EXCEPT ![c] = "sleeping"]
      BY <2>4 DEF Sleep, Runs
    <3>2. NmuxTypes'
      BY <1>2, <3>1 DEF MuxInv, NmuxTypes, pool, observed
    <3>3. \A d \in Peer : PlaceOf(d)' = PlaceOf(d)
      BY <1>2, <3>1, PlaceUntouched DEF MuxInv, NmuxTypes, pool, observed
    <3>4. PoolHolds'
      BY <1>2, <3>1, PoolUntouched DEF MuxInv
    <3> QED BY <1>2, <3>1, <3>2, <3>3, <3>4 DEF MuxInv, NmuxTypes, BlocksInOrder, observed
  <2>5. ASSUME NEW c \in Peer, Leave(c) \/ Finish(c)
        PROVE  MuxInv'
    <3>1. status[c] = "running" /\ status' \in {status, [status EXCEPT ![c] = "finished"]}
          /\ UNCHANGED <<pool, read_index, holding, halves, observed, doing>>
      BY <2>5 DEF Leave, Finish, Runs
    <3> QED BY <1>2, <2>2, <3>1 DEF MuxInv, NmuxTypes
  <2> QED BY <1>2, <2>1, <2>3, <2>4, <2>5, ReadInputKeeps, AcceptKeeps, GetKeeps, SendKeeps
          DEF NmuxNext
<1> QED BY <1>1, <1>2, PTL DEF NmuxSpec, MuxInv
-----------------------------------------------------------------------------
(* The blocks of csdr.                                                      *)

\* What canProcess() has found of the output,
RoomSeen ==
  /\ block.family \in {"fixed", "squelch", "fft", "average"} => room > length
  /\ block.family = "fftfilter" => room > inputSize
  /\ block.family = "adpcm" => room > SyncLen
  /\ block.family = "adpcmdecoder" => room >= Pad
  /\ block.family = "fftadpcm" => (Pad + room) \div 2 > length

\* and of the input: more may have arrived since, but nothing was taken.
InputSeen ==
  /\ block.family \in {"any", "adpcmdecoder", "resampler"} => avail > 0
  /\ block.family \in {"fixed", "squelch", "fft", "average"} => avail > length
  /\ block.family = "filter" => avail > taps_length
  /\ block.family = "fftfilter" => avail > inputSize
  /\ block.family = "decimate" => avail >= taps_length + decimation
  /\ block.family = "fractional" => Ceil(mem) + num_poly_points + taps_length < avail
                                    /\ 3 * (Ceil(mem) + num_poly_points + taps_length) < 2 * room
  /\ block.family = "downmix" => avail >= channels
  /\ block.family = "timing" => avail > halfbit * 3
  /\ block.family = "adpcm" => avail >= 2
  /\ block.family = "fftadpcm" => avail >= length

\* The counters that a block carries, and the place of its next output.
Carried(c) ==
  /\ block.family \in {"fft", "adpcm"} => c \in Nat
  /\ block.family = "fractional" => c \in Nat /\ c >= 2

BlocksTypes ==
  /\ block \in BlockKind /\ stage \in {"check", "process", "done"}
  /\ pos \in Int /\ exchanged \in BOOLEAN /\ room \in Nat \ {0}
  /\ stage # "done" => avail \in Nat /\ Carried(mem)
  /\ exchanged => stage # "check"

\* WithinBounds is not inductive: that process() stays within its buffers
\* needs to know what canProcess() has seen, and that it is still there
\* unless something was exchanged.
BlocksInv ==
  /\ BlocksTypes /\ WithinBounds
  /\ stage = "process" => exchanged \/ (RoomSeen /\ InputSeen)
-----------------------------------------------------------------------------
LEMMA Amounts ==
  /\ Room \in Nat \ {0} /\ OtherRooms \subseteq Nat \ {0} /\ Garbage \subseteq Int
  /\ length \in Nat \ {0} /\ buffer_size \in Nat \ {0}
  /\ taps_length \in Nat \ {0} /\ inputSize \in Nat \ {0} /\ decimation \in Nat \ {0}
  /\ channels \in Nat \ {0} /\ avgNumber \in Nat \ {0} /\ everyNSamples \in Nat \ {0}
  /\ SyncEvery \in Nat \ {0} /\ Total \in Nat /\ Flush \in Nat /\ SyncLen \in Nat
  /\ Pieces \subseteq Nat /\ Pad \in Nat /\ 2 <= Pad /\ Pad <= length
BY BlocksAssumption

LEMMA MinOfTwo ==
  ASSUME NEW a \in Int, NEW b \in Int
  PROVE  Min({a, b}) = IF a <= b THEN a ELSE b
<1>1. \E x \in {a, b} : \A y \in {a, b} : x <= y
  OBVIOUS
<1>2. Min({a, b}) \in {a, b} /\ \A y \in {a, b} : Min({a, b}) <= y
  BY <1>1 DEF Min
<1> QED BY <1>2

LEMMA MinOfThree ==
  ASSUME NEW a \in Int, NEW b \in Int, NEW c \in Int
  PROVE  Min({a, b, c}) = IF a <= b /\ a <= c THEN a ELSE IF b <= c THEN b ELSE c
<1>1. \E x \in {a, b, c} : \A y \in {a, b, c} : x <= y
  OBVIOUS
<1>2. Min({a, b, c}) \in {a, b, c} /\ \A y \in {a, b, c} : Min({a, b, c}) <= y
  BY <1>1 DEF Min
<1> QED BY <1>2

\* The quotient of a division, times what it is divided by.
LEMMA Quotient ==
  ASSUME NEW a \in Nat, NEW d \in Nat \ {0}
  PROVE  /\ a \div d \in Nat /\ d * (a \div d) <= a /\ (a \div d) * d = d * (a \div d)
         /\ a >= d <=> a \div d > 0
<1>1. a \div d \in Int /\ a \div d >= 0
  OBVIOUS
<1>2. PICK q \in Int : q = a \div d
  BY <1>1
<1>3. d * q <= a /\ q >= 0
  BY <1>1, <1>2
<1>4. q * d = d * q
  BY <1>2
<1>5. a >= d <=> q > 0
  BY <1>2
<1> QED BY <1>2, <1>3, <1>4, <1>5

\* A process() that keeps within the bounds.
LEMMA ProcessKeeps ==
  ASSUME BlocksInv, NEW reads \in Int, NEW takes \in Int, NEW made, NEW m, NEW n \in Nat,
         Process(reads, takes, made, m), n = Len(made),
         n > room => exchanged /\ TrustsWriter(block),
         block = FmDemod => n <= buffer_size,
         \/ reads > avail \/ takes > avail
         \/ takes < (IF block = FractionalDecimator THEN -1 ELSE 0)
         => exchanged /\ TrustsReader(block),
         takes # 0 \/ made # << >> \/ m # mem \/ exchanged,
         exchanged \/ Carried(m)
  PROVE  BlocksInv'
<1>1. /\ stage = "process" /\ stage' = (IF exchanged THEN "done" ELSE "check")
      /\ pos' = pos + takes /\ avail' = avail - takes /\ mem' = m
      /\ block' = block /\ exchanged' = exchanged /\ room' = room
  BY DEF Process
<1>2. /\ last'.had = avail /\ last'.reads = reads /\ last'.takes = takes
      /\ last'.gives = n /\ last'.space = room
      /\ last'.changed = (takes # 0 \/ made # << >> \/ m # mem)
  BY DEF Process
<1>3. avail \in Nat /\ pos \in Int /\ room \in Nat \ {0}
  BY <1>1 DEF BlocksInv, BlocksTypes, Carried
<1>4. BlocksTypes'
  <2>1. exchanged \in BOOLEAN
    BY DEF BlocksInv, BlocksTypes
  <2>2. ASSUME ~exchanged
        PROVE  avail' \in Nat /\ Carried(mem)'
    <3>1. takes <= avail
      BY <1>3, <2>2
    <3> QED BY <1>1, <1>3, <2>2, <3>1 DEF Carried
  <2> QED BY <1>1, <1>3, <2>1, <2>2 DEF BlocksInv, BlocksTypes
<1>5. WithinBounds'
  BY <1>1, <1>2 DEF WithinBounds, TrustsReader, TrustsWriter
<1> QED BY <1>1, <1>4, <1>5 DEF BlocksInv

LEMMA CanProcessKeeps ==
  ASSUME BlocksInv, NEW can, canProcess(can), can => RoomSeen /\ InputSeen
  PROVE  BlocksInv'
<1>1. /\ stage = "check" /\ stage' = "process" /\ can
      /\ UNCHANGED <<block, pos, avail, room, mem, out, exchanged, last>>
  BY DEF canProcess
<1>2. BlocksTypes'
  BY <1>1 DEF BlocksInv, BlocksTypes, Carried
<1>3. WithinBounds'
  BY <1>1 DEF BlocksInv, WithinBounds, TrustsReader, TrustsWriter
<1>4. RoomSeen' /\ InputSeen'
  BY <1>1 DEF RoomSeen, InputSeen
<1> QED BY <1>2, <1>3, <1>4 DEF BlocksInv

LEMMA ArriveKeeps ==
  ASSUME BlocksInv, NEW n \in Pieces, Arrive(n)
  PROVE  BlocksInv'
<1>1. /\ stage # "done" /\ avail' = avail + n /\ n \in Nat
      /\ UNCHANGED <<block, stage, pos, room, mem, out, exchanged, last>>
  BY Amounts DEF Arrive
<1>2. avail \in Nat /\ avail' \in Nat
  BY <1>1 DEF BlocksInv, BlocksTypes, Carried
<1>3. BlocksTypes' /\ WithinBounds'
  BY <1>1, <1>2 DEF BlocksInv, BlocksTypes, Carried, WithinBounds, TrustsReader, TrustsWriter
<1>4. stage = "process" => exchanged' \/ (RoomSeen' /\ InputSeen')
  <2>1. ASSUME InputSeen, ~exchanged
        PROVE  InputSeen'
    <3> DEFINE c == Ceil(mem) + num_poly_points + taps_length
    <3>1. block.family = "fractional" => c \in Int
      BY <1>1, Amounts DEF BlocksInv, BlocksTypes, Carried, Ceil, num_poly_points
    <3>2. halfbit * 3 \in Int
      BY Amounts DEF halfbit
    <3> HIDE DEF c
    <3>3. block.family = "fractional" => c' = c
      BY <1>1 DEF c, Ceil
    <3>4. block.family = "fractional" => c < avail'
      BY <1>1, <1>2, <2>1, <3>1 DEF InputSeen, c
    <3>5. block'.family = "fractional" =>
            Ceil(mem') + num_poly_points + taps_length < avail'
            /\ 3 * (Ceil(mem') + num_poly_points + taps_length) < 2 * room
      BY <1>1, <2>1, <3>4 DEF InputSeen, c
    <3> QED BY <1>1, <1>2, <2>1, <3>2, <3>5, Amounts DEF InputSeen
  <2> QED BY <1>1, <2>1 DEF BlocksInv, RoomSeen
<1> QED BY <1>1, <1>3, <1>4 DEF BlocksInv

LEMMA ExchangeKeeps ==
  ASSUME BlocksInv, NEW n \in 0 .. avail - 1, exchange(n)
  PROVE  BlocksInv'
<1>1. /\ stage = "process" /\ avail' = n /\ exchanged' = TRUE
      /\ UNCHANGED <<block, stage, pos, room, mem, out, last>>
  BY DEF exchange
<1>2. avail' \in Nat
  BY <1>1 DEF BlocksInv, BlocksTypes, Carried
<1>3. BlocksTypes' /\ WithinBounds'
  BY <1>1, <1>2 DEF BlocksInv, BlocksTypes, Carried, WithinBounds, TrustsReader, TrustsWriter
<1> QED BY <1>1, <1>3 DEF BlocksInv

LEMMA SetWriterKeeps ==
  ASSUME BlocksInv, NEW r \in OtherRooms, setWriter(r)
  PROVE  BlocksInv'
<1>1. /\ stage = "process" /\ room' = r /\ exchanged' = TRUE /\ r \in Nat \ {0}
      /\ UNCHANGED <<block, stage, pos, avail, mem, out, last>>
  BY Amounts DEF setWriter
<1>2. BlocksTypes' /\ WithinBounds'
  BY <1>1 DEF BlocksInv, BlocksTypes, Carried, WithinBounds, TrustsReader, TrustsWriter
<1> QED BY <1>1, <1>2 DEF BlocksInv
-----------------------------------------------------------------------------
(* The blocks.                                                              *)

LEMMA Lively ==
  ASSUME BlocksInv, stage # "done"
  PROVE  avail \in Nat /\ pos \in Int /\ room \in Nat \ {0}
BY DEF BlocksInv, BlocksTypes, Carried

LEMMA AnyLengthKeeps ==
  ASSUME BlocksInv, block.family = "any", AnyLength
  PROVE  BlocksInv'
<1> DEFINE n == getWorkSize
           reads == IF block = FmDemod THEN Max({1, n}) ELSE n
           made == [i \in 1 .. n |-> From(IF i = 1 THEN mem ELSE Item(i - 1), Item(i))]
           m == IF block.carries /\ n > 0 THEN Item(n) ELSE mem
<1>1. stage # "done"
  BY DEF AnyLength, canProcess, Process
<1>2. avail \in Nat /\ room \in Nat \ {0}
  BY <1>1, Lively
<1>3. /\ n \in Nat /\ n <= avail /\ n <= room /\ (block = FmDemod => n <= buffer_size)
      /\ (avail > 0 => n > 0)
  <2>1. PICK fetched : fetched = IF block = FmDemod THEN buffer_size ELSE room
    OBVIOUS
  <2>2. fetched \in Nat \ {0} /\ (block = FmDemod => fetched = buffer_size)
    BY <1>2, <2>1, Amounts
  <2>3. n = Min({avail, room, fetched})
    BY <2>1 DEF getWorkSize
  <2> QED BY <1>2, <2>2, <2>3, Amounts, MinOfThree
<1>4. CASE canProcess(n > 0)
  <2>1. n > 0 => RoomSeen /\ InputSeen
    BY <1>2, <1>3 DEF RoomSeen, InputSeen
  <2> QED BY <1>4, <2>1, CanProcessKeeps
<1>5. CASE Process(reads, n, made, m)
  <2>1. Len(made) = n
    BY <1>3
  <2>2. Max({1, n}) \in Int /\ (n > 0 => Max({1, n}) = n)
    <3>1. \E x \in {1, n} : \A y \in {1, n} : x >= y
      BY <1>3
    <3>2. Max({1, n}) \in {1, n} /\ \A y \in {1, n} : Max({1, n}) >= y
      BY <3>1 DEF Max
    <3> QED BY <1>3, <3>2
  <2>3. exchanged \/ avail > 0
    BY <1>5 DEF Process, BlocksInv, InputSeen
  <2>4. reads \in Int /\ (reads > avail => exchanged /\ TrustsReader(block))
    BY <1>2, <1>3, <2>2, <2>3 DEF TrustsReader
  <2>5. block # FractionalDecimator
    BY DEF FractionalDecimator, Named
  <2>6. n # 0 \/ exchanged
    BY <1>3, <2>3
  <2> HIDE DEF n, reads, made, m
  <2> QED BY <1>2, <1>3, <1>5, <2>1, <2>4, <2>5, <2>6, ProcessKeeps DEF Carried
<1> QED BY <1>4, <1>5 DEF AnyLength

LEMMA FixedLengthKeeps ==
  ASSUME BlocksInv, block.family = "fixed", FixedLength
  PROVE  BlocksInv'
<1> DEFINE made == [i \in 1 .. length |-> From(mem, Item(Place(i)))]
           m == IF block.carries THEN Item(length) ELSE mem
<1>1. CASE canProcess(avail > length /\ room > length)
  <2>1. avail > length /\ room > length => RoomSeen /\ InputSeen
    BY <1>1, Lively, Amounts DEF RoomSeen, InputSeen, canProcess
  <2> QED BY <1>1, <2>1, CanProcessKeeps
<1>2. CASE Process(length, length, made, m)
  <2>1. Len(made) = length
    BY Amounts
  <2>2. (exchanged \/ (room > length /\ avail > length)) /\ avail \in Nat /\ room \in Nat
    BY <1>2, Lively DEF Process, BlocksInv, RoomSeen, InputSeen
  <2>3. block # FractionalDecimator /\ block # FmDemod
        /\ TrustsReader(block) /\ TrustsWriter(block)
    BY DEF FractionalDecimator, FmDemod, Named, TrustsReader, TrustsWriter
  <2> HIDE DEF made, m
  <2> QED BY <1>2, <2>1, <2>2, <2>3, Amounts, ProcessKeeps DEF Carried
<1> QED BY <1>1, <1>2 DEF FixedLength

LEMMA FftKeeps ==
  ASSUME BlocksInv, block.family = "fft", FftProcess
  PROVE  BlocksInv'
<1> DEFINE toSkip == IF everyNSamples > mem THEN everyNSamples - mem ELSE 0
           frame == avail - toSkip >= fftSize
           inRange == mem + avail >= everyNSamples
           made == [i \in 1 .. fftSize |-> <<Item(toSkip + 1), i>>]
<1>1. avail \in Nat /\ room \in Nat \ {0} /\ mem \in Nat /\ fftSize = length
  BY Lively DEF FftProcess, canProcess, Process, BlocksInv, BlocksTypes, Carried, fftSize
<1>2. toSkip \in Nat /\ (inRange => toSkip <= avail)
  BY <1>1, Amounts
<1>3. block # FractionalDecimator /\ block # FmDemod /\ TrustsWriter(block)
  BY DEF FractionalDecimator, FmDemod, Named, TrustsWriter
<1>4. CASE canProcess(avail > fftSize /\ room > fftSize)
  <2>1. avail > fftSize /\ room > fftSize => RoomSeen /\ InputSeen
    BY <1>1, Amounts DEF RoomSeen, InputSeen
  <2> QED BY <1>4, <2>1, CanProcessKeeps
<1>5. ASSUME stage = "process"
      PROVE  exchanged \/ (room > length /\ avail > length)
  BY <1>5 DEF BlocksInv, RoomSeen, InputSeen
<1>6. CASE inRange /\ frame /\ Process(toSkip + fftSize, toSkip, made, 0)
  <2>1. Len(made) = length /\ made # << >>
    BY <1>1, Amounts
  <2>2. exchanged \/ room > length
    BY <1>5, <1>6 DEF Process
  <2>3. toSkip + length <= avail
    BY <1>1, <1>2, <1>6, Amounts
  <2> HIDE DEF made, toSkip
  <2> QED BY <1>1, <1>2, <1>3, <1>6, <2>1, <2>2, <2>3, Amounts, ProcessKeeps DEF Carried
<1>7. CASE inRange /\ ~frame /\ Process(0, toSkip, << >>, mem + toSkip)
  <2>1. exchanged \/ toSkip # 0
    BY <1>1, <1>5, <1>7, Amounts DEF Process
  <2>2. toSkip <= avail /\ mem + toSkip \in Nat /\ Len(<< >>) = 0
    BY <1>1, <1>2, <1>7
  <2> HIDE DEF toSkip
  <2> QED BY <1>1, <1>2, <1>3, <1>7, <2>1, <2>2, Amounts, ProcessKeeps DEF Carried
<1>8. CASE ~inRange /\ Process(0, avail, << >>, mem + avail)
  <2>1. exchanged \/ avail # 0
    BY <1>1, <1>5, <1>8, Amounts DEF Process
  <2>2. mem + avail \in Nat /\ Len(<< >>) = 0
    BY <1>1
  <2> QED BY <1>1, <1>3, <1>8, <2>1, <2>2, Amounts, ProcessKeeps DEF Carried
<1> QED BY <1>4, <1>6, <1>7, <1>8 DEF FftProcess

LEMMA FilterKeeps ==
  ASSUME BlocksInv, block.family = "filter", Filter
  PROVE  BlocksInv'
<1> DEFINE n == Min({avail - taps_length, room})
           made == [i \in 1 .. n |-> {Item(i + k) : k \in 0 .. taps_length - 1}]
           reads == IF n = 0 THEN 0 ELSE n - 1 + taps_length
<1>1. avail \in Nat /\ room \in Nat \ {0}
  BY Lively DEF Filter, canProcess, Process
<1>2. n = IF avail - taps_length <= room THEN avail - taps_length ELSE room
  BY <1>1, Amounts, MinOfTwo
<1>3. block # FractionalDecimator /\ block # FmDemod
  BY DEF FractionalDecimator, FmDemod, Named
<1>4. CASE canProcess(avail > taps_length /\ room > 0)
  <2>1. avail > taps_length /\ room > 0 => RoomSeen /\ InputSeen
    BY <1>1, Amounts DEF RoomSeen, InputSeen
  <2> QED BY <1>4, <2>1, CanProcessKeeps
<1>5. ASSUME stage = "process"
      PROVE  exchanged \/ avail > taps_length
  BY <1>5 DEF BlocksInv, InputSeen
<1>6. CASE avail < taps_length /\ Process(0, 0, << >>, mem)
  <2>1. exchanged /\ Len(<< >>) = 0
    BY <1>1, <1>5, <1>6, Amounts DEF Process
  <2> QED BY <1>1, <1>3, <1>6, <2>1, Amounts, ProcessKeeps DEF Carried
<1>7. CASE ~(avail < taps_length) /\ Process(reads, n, made, mem)
  <2>1. n \in Nat /\ n <= room /\ n <= avail /\ reads \in Nat /\ reads <= avail
        /\ Len(made) = n
    BY <1>1, <1>2, <1>7, Amounts
  <2>2. exchanged \/ n # 0
    BY <1>1, <1>2, <1>5, <1>7, Amounts DEF Process
  <2> HIDE DEF n, made, reads
  <2> QED BY <1>1, <1>3, <1>7, <2>1, <2>2, ProcessKeeps DEF Carried
<1> QED BY <1>4, <1>6, <1>7 DEF Filter

LEMMA FftFilterKeeps ==
  ASSUME BlocksInv, block.family = "fftfilter", FftFiltering
  PROVE  BlocksInv'
<1> DEFINE own == [i \in 1 .. inputSize + taps_length - 1 |->
                     {Item(k) : k \in {j \in 1 .. inputSize : i - j \in 0 .. taps_length - 1}}]
           result == [i \in DOMAIN own |->
                        own[i] \union (IF i < taps_length THEN mem[i] ELSE {})]
           made == SubSeq(result, 1, inputSize)
           m == SubSeq(result, inputSize + 1, Len(result))
<1>1. avail \in Nat /\ room \in Nat \ {0}
  BY Lively DEF FftFiltering, apply, canProcess, Process
<1>2. CASE canProcess(avail > inputSize /\ room > inputSize)
  <2>1. avail > inputSize /\ room > inputSize => RoomSeen /\ InputSeen
    BY <1>1, Amounts DEF RoomSeen, InputSeen
  <2> QED BY <1>2, <2>1, CanProcessKeeps
<1>3. CASE Process(inputSize, inputSize, made, m)
  <2>1. Len(made) = inputSize
    <3>1. PICK k \in Nat : k = inputSize + taps_length - 1 /\ inputSize <= k
      BY Amounts
    <3>2. DOMAIN result = 1 .. k
      BY <3>1
    <3> HIDE DEF result
    <3>3. result \in Seq({result[i] : i \in 1 .. k}) /\ Len(result) = k
      <4> DEFINE S == {result[i] : i \in 1 .. k}
      <4>1. PICK r \in [1 .. k -> S] : r = result
        <5>1. result = [i \in 1 .. k |-> result[i]]
          BY <3>2 DEF result
        <5>2. [i \in 1 .. k |-> result[i]] \in [1 .. k -> S]
          OBVIOUS
        <5> QED BY <5>1, <5>2
      <4> HIDE DEF S
      <4>2. r \in Seq(S) /\ Len(r) = k
        OBVIOUS
      <4> QED BY <4>1, <4>2 DEF S
    <3> QED BY <3>1, <3>3, SubSeqProperties, Amounts
  <2>2. exchanged \/ (room > inputSize /\ avail > inputSize)
    BY <1>3 DEF Process, BlocksInv, RoomSeen, InputSeen
  <2>3. block # FractionalDecimator /\ block # FmDemod
        /\ TrustsReader(block) /\ TrustsWriter(block)
    BY DEF FractionalDecimator, FmDemod, Named, TrustsReader, TrustsWriter
  <2>4. Carried(m)
    BY DEF Carried
  <2> HIDE DEF made, m
  <2> QED BY <1>1, <1>3, <2>1, <2>2, <2>3, <2>4, Amounts, ProcessKeeps
<1> QED BY <1>2, <1>3 DEF FftFiltering, apply

LEMMA DecimateKeeps ==
  ASSUME BlocksInv, block.family = "decimate", Decimate
  PROVE  BlocksInv'
<1> DEFINE q == (avail - taps_length) \div decimation
           n == Min({q, room})
           made == [i \in 1 .. n |-> <<Item((i - 1) * decimation + 1)>>]
           reads == IF n = 0 THEN 0 ELSE (n - 1) * decimation + taps_length
<1>1. avail \in Nat /\ room \in Nat \ {0}
  BY Lively DEF Decimate, canProcess, Process
<1>2. block # FractionalDecimator /\ block # FmDemod
  BY DEF FractionalDecimator, FmDemod, Named
<1>3. ASSUME avail >= taps_length
      PROVE  /\ q \in Nat /\ q * decimation <= avail - taps_length
             /\ avail - taps_length >= decimation <=> q > 0
             /\ n = IF q <= room THEN q ELSE room
  <2>1. avail - taps_length \in Nat /\ decimation \in Nat \ {0}
    BY <1>1, <1>3, Amounts
  <2>2. /\ q \in Nat /\ q * decimation <= avail - taps_length
        /\ avail - taps_length >= decimation <=> q > 0
    BY <2>1, Quotient
  <2> QED BY <1>1, <2>2, MinOfTwo
<1>4. CASE canProcess(avail > taps_length /\ n > 0 /\ room > 0)
  <2>1. ASSUME avail > taps_length, n > 0
        PROVE  RoomSeen /\ InputSeen
    <3>1. q > 0
      BY <1>1, <1>3, <2>1, Amounts
    <3>2. avail >= taps_length + decimation
      <4> HIDE DEF q
      <4> QED BY <1>1, <1>3, <2>1, <3>1, Amounts
    <3> QED BY <3>2 DEF RoomSeen, InputSeen
  <2> HIDE DEF n
  <2> QED BY <1>4, <2>1, CanProcessKeeps
<1>5. ASSUME stage = "process"
      PROVE  exchanged \/ avail >= taps_length + decimation
  BY <1>5 DEF BlocksInv, InputSeen
<1>6. CASE avail < taps_length /\ Process(0, 0, << >>, mem)
  <2>1. exchanged /\ Len(<< >>) = 0
    BY <1>1, <1>5, <1>6, Amounts DEF Process
  <2> QED BY <1>1, <1>2, <1>6, <2>1, Amounts, ProcessKeeps DEF Carried
<1>7. CASE ~(avail < taps_length) /\ Process(reads, n * decimation, made, mem)
  <2>1. avail >= taps_length
    BY <1>1, <1>7, Amounts
  <2>2. n \in Nat /\ n <= room /\ n <= q
    BY <1>1, <1>3, <2>1
  <2>3. Len(made) = n
    BY <2>2
  <2>4. exchanged \/ n # 0
    <3>1. exchanged \/ avail - taps_length >= decimation
      BY <1>1, <1>5, <1>7, Amounts DEF Process
    <3> HIDE DEF q, n
    <3> QED BY <1>1, <1>3, <2>1, <3>1, Amounts
  <2>5. n * decimation \in Nat /\ n * decimation <= avail - taps_length
        /\ (n # 0 => n * decimation # 0)
        /\ (n # 0 => (n - 1) * decimation \in Nat /\ (n - 1) * decimation <= n * decimation)
    <3>1. PICK r \in Nat : q = n + r
      <4>1. q - n \in Nat /\ q = n + (q - n)
        BY <1>3, <2>1, <2>2
      <4> QED BY <4>1
    <3>2. q * decimation = n * decimation + r * decimation /\ r * decimation \in Nat
      <4> HIDE DEF n, q
      <4> QED BY <2>2, <3>1, Amounts
    <3>3. n * decimation \in Nat
      <4> HIDE DEF n
      <4> QED BY <2>2, Amounts
    <3>4. n * decimation <= avail - taps_length
      <4> HIDE DEF n, q
      <4> QED BY <1>1, <1>3, <2>1, <3>2, <3>3, Amounts
    <3>5. ASSUME n # 0
          PROVE  n * decimation = (n - 1) * decimation + decimation
                 /\ (n - 1) * decimation \in Nat
      <4> HIDE DEF n
      <4> QED BY <2>2, <3>5, Amounts
    <3> HIDE DEF n
    <3> QED BY <2>2, <3>3, <3>4, <3>5, Amounts
  <2>6. reads \in Nat /\ reads <= avail
    <3> HIDE DEF n
    <3> QED BY <1>1, <2>1, <2>5, Amounts
  <2> HIDE DEF n, made, reads
  <2> QED BY <1>1, <1>2, <1>7, <2>2, <2>3, <2>4, <2>5, <2>6, Amounts, ProcessKeeps DEF Carried
<1> QED BY <1>4, <1>6, <1>7 DEF Decimate

LEMMA MixKeeps ==
  ASSUME BlocksInv, block.family = "downmix", Mix
  PROVE  BlocksInv'
<1> DEFINE q == avail \div channels
           n == Min({q, room})
           made == [i \in 1 .. n |-> {Item((i - 1) * channels + k) : k \in 1 .. channels}]
<1>1. avail \in Nat /\ room \in Nat \ {0}
  BY Lively DEF Mix, canProcess, Process
<1>2. block # FractionalDecimator /\ block # FmDemod
  BY DEF FractionalDecimator, FmDemod, Named
<1>3. CASE canProcess(avail >= channels /\ room > 0)
  <2>1. avail >= channels /\ room > 0 => RoomSeen /\ InputSeen
    BY <1>1, Amounts DEF RoomSeen, InputSeen
  <2> QED BY <1>3, <2>1, CanProcessKeeps
<1>4. CASE Process(n * channels, n * channels, made, mem)
  <2>1. q \in Nat /\ q * channels <= avail /\ (avail >= channels <=> q > 0)
    BY <1>1, Amounts, Quotient
  <2>2. n = IF q <= room THEN q ELSE room
    BY <1>1, <2>1, MinOfTwo
  <2>3. n \in Nat /\ n <= room /\ n <= q /\ Len(made) = n
    BY <1>1, <2>1, <2>2
  <2>4. exchanged \/ n # 0
    <3> HIDE DEF q
    <3> QED BY <1>1, <1>4, <2>1, <2>2, Amounts DEF Process, BlocksInv, InputSeen
  <2>5. n * channels \in Nat /\ n * channels <= avail /\ (n # 0 => n * channels # 0)
    <3>1. PICK r \in Nat : q = n + r
      <4>1. q - n \in Nat /\ q = n + (q - n)
        BY <2>1, <2>3
      <4> QED BY <4>1
    <3> HIDE DEF n, q
    <3>2. q * channels = n * channels + r * channels
          /\ r * channels \in Nat /\ n * channels \in Nat
      BY <2>3, <3>1, Amounts
    <3>3. n # 0 => n * channels # 0
      BY <2>3, Amounts
    <3>4. n * channels <= avail
      BY <1>1, <2>1, <3>2
    <3> QED BY <3>2, <3>3, <3>4
  <2> HIDE DEF n, made
  <2> QED BY <1>1, <1>2, <1>4, <2>3, <2>4, <2>5, Amounts, ProcessKeeps DEF Carried
<1> QED BY <1>3, <1>4 DEF Mix

LEMMA AverageKeeps ==
  ASSUME BlocksInv, block.family = "average", Average
  PROVE  BlocksInv'
<1> DEFINE collector == mem \union {pos}
           made == [i \in 1 .. fftSize |-> <<collector, i>>]
<1>1. avail \in Nat /\ room \in Nat \ {0} /\ fftSize = length
  BY Lively DEF Average, canProcess, Process, fftSize
<1>2. block # FractionalDecimator /\ block # FmDemod
      /\ TrustsReader(block) /\ TrustsWriter(block)
  BY DEF FractionalDecimator, FmDemod, Named, TrustsReader, TrustsWriter
<1>3. CASE canProcess(avail > fftSize /\ room > fftSize)
  <2>1. avail > fftSize /\ room > fftSize => RoomSeen /\ InputSeen
    BY <1>1, Amounts DEF RoomSeen, InputSeen
  <2> QED BY <1>3, <2>1, CanProcessKeeps
<1>4. ASSUME stage = "process"
      PROVE  exchanged \/ (room > length /\ avail > length)
  BY <1>4 DEF BlocksInv, RoomSeen, InputSeen
<1>5. CASE Process(fftSize, fftSize, made, {})
  <2>1. Len(made) = length
    BY <1>1, Amounts
  <2>2. stage = "process"
    BY <1>5 DEF Process
  <2> HIDE DEF made
  <2> QED BY <1>1, <1>2, <1>4, <1>5, <2>1, <2>2, Amounts, ProcessKeeps DEF Carried
<1>6. CASE Process(fftSize, fftSize, << >>, collector)
  <2>1. stage = "process" /\ Len(<< >>) = 0
    BY <1>6 DEF Process
  <2> HIDE DEF collector
  <2> QED BY <1>1, <1>2, <1>4, <1>6, <2>1, Amounts, ProcessKeeps DEF Carried
<1> QED BY <1>3, <1>5, <1>6 DEF Average

LEMMA SquelchKeeps ==
  ASSUME BlocksInv, block.family = "squelch", Squelching
  PROVE  BlocksInv'
<1>1. avail \in Nat /\ room \in Nat \ {0}
  BY Lively DEF Squelching, forwardData, canProcess, Process
<1>2. block # FractionalDecimator /\ block # FmDemod
      /\ TrustsReader(block) /\ TrustsWriter(block)
  BY DEF FractionalDecimator, FmDemod, Named, TrustsReader, TrustsWriter
<1>3. CASE canProcess(avail > length /\ room > length)
  <2>1. avail > length /\ room > length => RoomSeen /\ InputSeen
    BY <1>1, Amounts DEF RoomSeen, InputSeen
  <2> QED BY <1>3, <2>1, CanProcessKeeps
<1>4. ASSUME NEW made, NEW m, Process(length, length, made, m), Len(made) \in {0, length}
      PROVE  BlocksInv'
  <2>1. exchanged \/ (room > length /\ avail > length)
    BY <1>4 DEF Process, BlocksInv, RoomSeen, InputSeen
  <2> QED BY <1>1, <1>2, <1>4, <2>1, Amounts, ProcessKeeps DEF Carried
<1>5. CASE Process(length, length, [i \in 1 .. length |-> <<Item(i)>>], 0)
  BY <1>4, <1>5, Amounts
<1>6. CASE Process(length, length, [i \in 1 .. length |-> << >>], mem + 1)
  BY <1>4, <1>6, Amounts
<1>7. CASE Process(length, length, << >>, mem)
  BY <1>4, <1>7
<1> QED BY <1>3, <1>5, <1>6, <1>7 DEF Squelching, forwardData

LEMMA TimingKeeps ==
  ASSUME BlocksInv, block.family = "timing", Timing
  PROVE  BlocksInv'
<1>1. avail \in Nat /\ pos \in Int /\ room \in Nat \ {0}
  BY Lively DEF Timing, canProcess, Process
<1>2. block # FractionalDecimator /\ block # FmDemod /\ TrustsReader(block)
  BY DEF FractionalDecimator, FmDemod, Named, TrustsReader
<1>3. halfbit \in Nat /\ decimation \in {2 * halfbit, 2 * halfbit + 1} /\ decimation > 0
  BY Amounts DEF halfbit
<1>4. CASE canProcess(avail > halfbit * 3 /\ room > 0)
  <2>1. avail > halfbit * 3 /\ room > 0 => RoomSeen /\ InputSeen
    BY <1>1, Amounts DEF RoomSeen, InputSeen
  <2> QED BY <1>4, <2>1, CanProcessKeeps
<1>5. CASE Process(halfbit * 3 + 1, decimation + Correction(pos), <<<<pos + halfbit>>>>, mem)
  <2>1. Correction(pos) \in -halfbit .. halfbit
    <3>1. PICK d \in Nat \ {0} : d = 2 * halfbit + 1
      BY <1>3
    <3>2. pos % d \in 0 .. d - 1
      BY <1>1
    <3> QED BY <1>3, <3>1, <3>2 DEF Correction
  <2>2. exchanged \/ avail > halfbit * 3
    BY <1>5 DEF Process, BlocksInv, InputSeen
  <2>3. Len(<<<<pos + halfbit>>>>) = 1 /\ <<<<pos + halfbit>>>> # << >>
    OBVIOUS
  <2>4. PICK takes \in Nat : takes = decimation + Correction(pos)
                             /\ takes <= halfbit * 3 + 1
    BY <1>3, <2>1
  <2>5. PICK h \in Nat : h = halfbit * 3
    BY <1>3
  <2>6. PICK made : made = <<<<pos + halfbit>>>>
    OBVIOUS
  <2>7. Process(h + 1, takes, made, mem) /\ Len(made) = 1 /\ made # << >>
    BY <1>5, <2>3, <2>4, <2>5, <2>6
  <2>8. exchanged \/ h + 1 <= avail
    BY <1>1, <2>2, <2>5
  <2>9. exchanged \/ takes <= avail
    BY <1>1, <2>4, <2>5, <2>8
  <2>10. PICK reads \in Nat, n \in Nat : reads = h + 1 /\ n = 1
    OBVIOUS
  <2>11. /\ Process(reads, takes, made, mem)
         /\ reads > avail \/ takes > avail => exchanged /\ TrustsReader(block)
    BY <1>1, <1>2, <2>7, <2>8, <2>9, <2>10
  <2>12. n <= room /\ n = Len(made) /\ made # << >> /\ Carried(mem)
    BY <1>1, <2>7, <2>10 DEF Carried
  <2>13. takes >= (IF block = FractionalDecimator THEN -1 ELSE 0)
    BY <1>2
  <2> QED BY <1>1, <1>2, <2>11, <2>12, <2>13, ProcessKeeps
<1> QED BY <1>4, <1>5 DEF Timing

LEMMA DecodeKeeps ==
  ASSUME BlocksInv, block.family = "adpcmdecoder", AdpcmDecoding
  PROVE  BlocksInv'
<1> DEFINE n == Min({avail, room \div 2})
           made == [k \in 1 .. 2 * n |-> <<Item((k + 1) \div 2), k % 2>>]
<1>1. avail \in Nat /\ room \in Nat \ {0}
  BY Lively DEF AdpcmDecoding, canProcess, Process
<1>2. block # FractionalDecimator /\ block # FmDemod
  BY DEF FractionalDecimator, FmDemod, Named
<1>3. n = IF avail <= room \div 2 THEN avail ELSE room \div 2
  BY <1>1, Amounts, MinOfTwo
<1>4. CASE canProcess(avail > 0 /\ room >= Pad)
  <2>1. avail > 0 /\ room >= Pad => RoomSeen /\ InputSeen
    BY <1>1, Amounts DEF RoomSeen, InputSeen
  <2> QED BY <1>4, <2>1, CanProcessKeeps
<1>5. CASE Process(n, n, made, mem)
  <2>1. n \in Nat /\ 2 * n <= room /\ n <= avail
    BY <1>1, <1>3, Amounts
  <2>2. exchanged \/ n # 0
    <3>1. exchanged \/ (room >= 2 /\ avail > 0)
      BY <1>1, <1>5, Amounts DEF Process, BlocksInv, RoomSeen, InputSeen
    <3> QED BY <1>1, <1>3, <3>1, Amounts
  <2>3. Len(made) = 2 * n
    BY <2>1
  <2> HIDE DEF n, made
  <2> QED BY <1>1, <1>2, <1>5, <2>1, <2>2, <2>3, Amounts, ProcessKeeps DEF Carried
<1> QED BY <1>4, <1>5 DEF AdpcmDecoding

LEMMA FftAdpcmKeeps ==
  ASSUME BlocksInv, block.family = "fftadpcm", FftAdpcmEncoding
  PROVE  BlocksInv'
<1> DEFINE one == [k \in 1 .. Pad \div 2 |-> <<pos, pos>>]
           two == [k \in 1 .. fftSize \div 2 |-> <<Item(2 * k - 1), Item(2 * k)>>]
<1>1. avail \in Nat /\ pos \in Int /\ room \in Nat \ {0} /\ fftSize = length
  BY Lively DEF FftAdpcmEncoding, canProcess, Process, fftSize
<1>2. block # FractionalDecimator /\ block # FmDemod
      /\ TrustsReader(block) /\ TrustsWriter(block)
  BY DEF FractionalDecimator, FmDemod, Named, TrustsReader, TrustsWriter
<1>3. CASE canProcess(avail >= fftSize /\ (Pad + room) \div 2 > fftSize)
  <2>1. avail >= fftSize /\ (Pad + room) \div 2 > fftSize => RoomSeen /\ InputSeen
    BY <1>1, Amounts DEF RoomSeen, InputSeen
  <2> QED BY <1>3, <2>1, CanProcessKeeps
<1>4. CASE Process(fftSize, fftSize, one \o two, mem)
  <2>1. PICK p \in Nat, q \in Nat : p = Pad \div 2 /\ q = fftSize \div 2
    BY <1>1, Amounts
  <2>2. one \in Seq(Int \X Int) /\ Len(one) = p
    BY <1>1, <2>1
  <2>3. two \in Seq(Int \X Int) /\ Len(two) = q
    <3>1. \A k \in 1 .. q : Item(2 * k - 1) \in Int /\ Item(2 * k) \in Int
      BY <1>1 DEF Item
    <3>2. PICK s : s = two /\ s = [k \in 1 .. q |-> <<Item(2 * k - 1), Item(2 * k)>>]
      BY <2>1
    <3>3. s \in [1 .. q -> Int \X Int]
      BY <3>1, <3>2
    <3>4. s \in Seq(Int \X Int) /\ Len(s) = q
      BY <3>3
    <3> HIDE DEF two
    <3> QED BY <3>2, <3>4
  <2>4. PICK made : made = one \o two
    OBVIOUS
  <2>5. Len(made) = p + q
    <3> HIDE DEF one, two
    <3> QED BY <2>2, <2>3, <2>4, ConcatProperties
  <2>6. /\ exchanged \/ ((Pad + room) \div 2 > length /\ avail >= length)
        /\ Process(length, length, made, mem)
    BY <1>1, <1>4, <2>4 DEF Process, BlocksInv, RoomSeen, InputSeen
  <2>7. exchanged \/ p + q <= room
    BY <1>1, <2>1, <2>6, Amounts
  <2> HIDE DEF one, two
  <2>8. p + q \in Nat
    BY <2>1
  <2> QED BY <1>1, <1>2, <2>5, <2>6, <2>7, <2>8, Amounts, ProcessKeeps DEF Carried
<1> QED BY <1>3, <1>4 DEF FftAdpcmEncoding

LEMMA ResampleKeeps ==
  ASSUME BlocksInv, block.family = "resampler", Resampling
  PROVE  BlocksInv'
<1>1. avail \in Nat /\ room \in Nat \ {0}
  BY Lively DEF Resampling, canProcess, Process
<1>2. CASE canProcess(avail > 0 /\ room > 0)
  <2>1. avail > 0 /\ room > 0 => RoomSeen /\ InputSeen
    BY <1>1, Amounts DEF RoomSeen, InputSeen
  <2> QED BY <1>2, <2>1, CanProcessKeeps
<1>3. ASSUME NEW n \in 1 .. avail, Process(n, n, << >>, Item(n))
      PROVE  BlocksInv'
  <2>1. block # FractionalDecimator /\ block # FmDemod
    BY DEF FractionalDecimator, FmDemod, Named
  <2>2. Len(<< >>) = 0
    OBVIOUS
  <2> QED BY <1>1, <1>3, <2>1, <2>2, Amounts, ProcessKeeps DEF Carried
<1> QED BY <1>2, <1>3 DEF Resampling

LEMMA Ceiling ==
  ASSUME NEW a \in Int, NEW b \in Int, a <= b
  PROVE  /\ Ceil(a) \in Int /\ Ceil(a) <= Ceil(b)
         /\ a <= 2 * Ceil(a) /\ 2 * Ceil(a) <= a + 1
BY DEF Ceil

LEMMA Below ==
  ASSUME NEW n \in Nat, NEW S, S \subseteq 0 .. n - 1
  PROVE  IsFiniteSet(S) /\ Cardinality(S) \in Nat /\ Cardinality(S) <= n
<1>1. IsFiniteSet(0 .. n - 1) /\ Cardinality(0 .. n - 1) = n
  BY FS_Interval
<1> QED BY <1>1, FS_Subset, FS_CardinalityType

\* The outputs that the items allow are the first ones, and no more than fit.
LEMMA Fitting ==
  ASSUME NEW c \in Nat, NEW fetched \in Int, NEW S, NEW n, n = Cardinality(S),
         room \in Nat,
         3 * fetched <= 2 * room + 2,
         \A k : k \in S <=> k \in 0 .. Total
                            /\ Ceil(c + k * Rate) + num_poly_points + taps_length < fetched
  PROVE  /\ n \in Nat /\ n <= room
         /\ n # 0 => Ceil(c + (n - 1) * Rate) + num_poly_points + taps_length < fetched
         /\ n = 0 => 0 \notin S
<1>1. \A k \in S : k \in Nat /\ k <= room - 1
  <2> SUFFICES ASSUME NEW k \in S
               PROVE  k \in Nat /\ k <= room - 1
    OBVIOUS
  <2>1. k \in Nat /\ Ceil(c + k * Rate) + num_poly_points + taps_length < fetched
    OBVIOUS
  <2>2. c + k * Rate <= 2 * Ceil(c + k * Rate) /\ Ceil(c + k * Rate) \in Int
    BY <2>1, Ceiling DEF Rate
  <2>3. c + k * 3 <= 2 * (fetched - 4 - taps_length)
    BY <2>1, <2>2, Amounts DEF Rate, num_poly_points
  <2> QED BY <2>1, <2>3, Amounts
<1>2. S \subseteq 0 .. room - 1
  BY <1>1
<1>3. IsFiniteSet(S) /\ n \in Nat /\ n <= room
  BY <1>2, Below, Amounts
<1>4. ASSUME n # 0
      PROVE  Ceil(c + (n - 1) * Rate) + num_poly_points + taps_length < fetched
  <2>1. n - 1 \in Nat
    BY <1>3, <1>4
  <2> DEFINE place == Ceil(c + (n - 1) * Rate)
  <2>2. SUFFICES ASSUME ~(place + num_poly_points + taps_length < fetched)
                 PROVE  FALSE
    OBVIOUS
  <2>3. ASSUME NEW k \in S
        PROVE  k \in 0 .. (n - 1) - 1
    <3>1. k \in Nat /\ Ceil(c + k * Rate) + num_poly_points + taps_length < fetched
      OBVIOUS
    <3>2. CASE k >= n - 1
      <4>1. c + (n - 1) * Rate \in Int /\ c + k * Rate \in Int
            /\ c + (n - 1) * Rate <= c + k * Rate
        BY <2>1, <3>1, <3>2 DEF Rate
      <4>2. place <= Ceil(c + k * Rate) /\ place \in Int /\ Ceil(c + k * Rate) \in Int
        BY <4>1, Ceiling
      <4> HIDE DEF place
      <4> QED BY <2>2, <3>1, <4>2, Amounts DEF num_poly_points
    <3> QED BY <2>1, <3>1, <3>2
  <2>4. S \subseteq 0 .. (n - 1) - 1
    BY <2>3
  <2> QED BY <1>3, <2>1, <2>4, Below
<1>5. n = 0 => 0 \notin S
  BY <1>3, FS_EmptySet
<1> QED BY <1>3, <1>4, <1>5

LEMMA FractionalKeeps ==
  ASSUME BlocksInv, block.family = "fractional", Fractional
  PROVE  BlocksInv'
<1> DEFINE fetched == Min({avail, (2 * room + Rate - 1) \div Rate})
           fits(k) == Ceil(mem + k * Rate) + num_poly_points + taps_length < fetched
           S == {k \in 0 .. Total : fits(k)}
           n == Cardinality(S)
           index == IF n = 0 THEN Garbage ELSE {Ceil(mem + (n - 1) * Rate) - 1}
           reads(i) == IF n = 0 THEN 0 ELSE i + num_poly_points + taps_length - 1
           made == [k \in 1 .. n |-> <<2 * pos + mem + (k - 1) * Rate>>]
           m(i) == mem + n * Rate - 2 * (i + xifirst)
<1>1. avail \in Nat /\ pos \in Int /\ room \in Nat \ {0} /\ mem \in Nat /\ mem >= 2
  BY Lively DEF Fractional, canProcess, Process, BlocksInv, BlocksTypes, Carried
<1>2. fetched \in Nat /\ fetched <= avail /\ 3 * fetched <= 2 * room + 2
      /\ (fetched = avail \/ 3 * fetched >= 2 * room)
  <2>1. PICK q \in Nat : /\ q = (2 * room + Rate - 1) \div Rate
                         /\ 3 * q <= 2 * room + 2 /\ 3 * q >= 2 * room
    BY <1>1 DEF Rate
  <2>2. fetched = Min({avail, q})
    BY <2>1
  <2> HIDE DEF fetched
  <2>3. fetched = IF avail <= q THEN avail ELSE q
    BY <1>1, <2>2, MinOfTwo
  <2> QED BY <1>1, <2>1, <2>3, Amounts
<1>3. n \in Nat /\ n <= room
      /\ (n # 0 => Ceil(mem + (n - 1) * Rate) + num_poly_points + taps_length < fetched)
      /\ (n = 0 => 0 \notin S)
  <2>1. \A k : k \in S <=> k \in 0 .. Total
                 /\ Ceil(mem + k * Rate) + num_poly_points + taps_length < fetched
    OBVIOUS
  <2>2. n = Cardinality(S) /\ fetched \in Int
    BY <1>2
  <2> HIDE DEF fetched, S, n
  <2> QED BY <1>1, <1>2, <2>1, <2>2, Fitting
<1>4. CASE canProcess(fits(0))
  <2>1. ASSUME fits(0)
        PROVE  RoomSeen /\ InputSeen
    <3>1. Ceil(mem) + num_poly_points + taps_length < fetched
      BY <1>1, <2>1 DEF Rate
    <3>2. Ceil(mem) + num_poly_points + taps_length \in Int
      BY <1>1, Amounts DEF Ceil, num_poly_points
    <3>3. /\ Ceil(mem) + num_poly_points + taps_length < avail
          /\ 3 * (Ceil(mem) + num_poly_points + taps_length) < 2 * room
      <4> HIDE DEF fetched
      <4> QED BY <1>1, <1>2, <3>1, <3>2, Amounts
    <3> QED BY <3>3 DEF RoomSeen, InputSeen
  <2> HIDE DEF fits
  <2> QED BY <1>4, <2>1, CanProcessKeeps
<1>5. ASSUME NEW i \in index, Process(reads(i), i + xifirst, made, m(i))
      PROVE  BlocksInv'
  <2>1. block # FmDemod /\ block = FractionalDecimator /\ TrustsReader(block)
    BY DEF BlocksInv, BlocksTypes, BlockKind, Gain, FmDemod, DBPskDecoder, Agc,
           WfmDeemphasis, ShiftMath, FftExchangeSides, DcBlock, ShiftAddfast, Fft,
           FirFilter, FftFilter, FirDecimate, FractionalDecimator, Downmix,
           LogAveragePower, Squelch, TimingRecovery, AdpcmEncoder, AdpcmDecoder,
           FftAdpcmEncoder, AudioResampler, Named, TrustsReader
  <2>2. Len(made) = n
    <3> HIDE DEF n
    <3> QED BY <1>3
  <2>3. CASE n = 0
    <3>1. i \in Int
      BY <2>3, Amounts
    <3>2. exchanged
      <4>1. ~(Ceil(mem) + num_poly_points + taps_length < fetched)
        <5>1. 0 \in 0 .. Total /\ mem + 0 * Rate = mem
          BY <1>1, Amounts DEF Rate
        <5> HIDE DEF fetched, n
        <5> QED BY <1>3, <2>3, <5>1
      <4>2. stage = "process"
        BY <1>5 DEF Process
      <4>3. ASSUME InputSeen
            PROVE  FALSE
        <5>1. /\ Ceil(mem) + num_poly_points + taps_length < avail
              /\ 3 * (Ceil(mem) + num_poly_points + taps_length) < 2 * room
          BY <4>3 DEF InputSeen
        <5> QED BY <1>1, <1>2, <4>1, <5>1, Amounts DEF Ceil, num_poly_points
      <4> QED BY <4>2, <4>3 DEF BlocksInv
    <3>3. reads(i) = 0 /\ i + xifirst \in Int
      BY <2>3, <3>1 DEF xifirst, num_poly_points
    <3>4. PICK taken \in Int : taken = i + xifirst
      BY <3>3
    <3>5. Process(reads(i), taken, made, m(i))
      BY <1>5, <3>4
    <3> HIDE DEF n, made, m, reads, index
    <3> QED BY <1>1, <1>3, <2>1, <2>2, <3>2, <3>3, <3>5, ProcessKeeps
  <2>4. CASE n # 0
    <3>1. PICK c \in Int : c = Ceil(mem + (n - 1) * Rate)
                           /\ 2 * c >= mem + 3 * n - 3 /\ 2 * c <= mem + 3 * n - 2
      <4> HIDE DEF n
      <4> QED BY <1>1, <1>3, <2>4 DEF Ceil, Rate
    <3>2. i = c - 1 /\ c >= 1 /\ c + num_poly_points + taps_length < fetched
      <4>1. i = c - 1
        BY <2>4, <3>1
      <4> HIDE DEF n, fetched
      <4> QED BY <1>1, <1>3, <2>4, <3>1, <4>1
    <3>3. reads(i) = i + num_poly_points + taps_length - 1
      BY <2>4
    <3>4. reads(i) \in Int /\ reads(i) <= avail /\ i + xifirst \in Int
          /\ i + xifirst >= -1 /\ i + xifirst <= avail
      <4> HIDE DEF fetched, n, reads
      <4> QED BY <1>1, <1>2, <3>2, <3>3, Amounts DEF num_poly_points, xifirst
    <3>5. m(i) \in Nat /\ m(i) >= 2
      <4>1. m(i) = mem + n * 3 - 2 * (c - 2)
        BY <3>2 DEF Rate, xifirst, num_poly_points
      <4> HIDE DEF n, m
      <4> QED BY <1>1, <1>3, <3>1, <4>1
    <3>6. made # << >>
      BY <1>3, <2>2, <2>4
    <3>7. PICK taken \in Int : taken = i + xifirst
      BY <3>4
    <3>8. Process(reads(i), taken, made, m(i)) /\ Carried(m(i))
      BY <1>5, <3>5, <3>7 DEF Carried
    <3> HIDE DEF n, made, m, reads, index
    <3> QED BY <1>1, <1>3, <2>1, <2>2, <3>4, <3>6, <3>7, <3>8, ProcessKeeps
  <2> QED BY <2>3, <2>4
<1> QED BY <1>4, <1>5 DEF Fractional

LEMMA EncodeKeeps ==
  ASSUME BlocksInv, block.family = "adpcm", AdpcmEncoding
  PROVE  BlocksInv'
<1> DEFINE n == Min({avail \div 2, SyncEvery}
                   \union (IF room >= SyncLen THEN {room - SyncLen} ELSE {}))
           syncs == {i \in mem + 1 .. n : (i - mem - 1) % (SyncEvery + 1) = 0}
           Byte(i) == i + SyncLen * Cardinality({s \in syncs : s <= i})
           bytes(p) == {i \in 1 .. n : Byte(i) = p}
           frames(p) == {s \in syncs : p \in s .. s + SyncLen - 1}
           At(p) == IF \E s \in frames(p) : \A i \in bytes(p) : s > i
                    THEN <<"SYNC", Item(2 * Max(frames(p)) - 1), p - Max(frames(p)) + 1>>
                    ELSE LET i == Max(bytes(p) \union {0})
                         IN  <<Item(2 * i - 1), Item(2 * i)>>
           long == n + SyncLen * Cardinality(syncs)
           made == [p \in 1 .. long |-> At(p)]
           m == IF syncs = {} THEN mem - n ELSE SyncEvery - (n - Max(syncs))
<1>1. avail \in Nat /\ room \in Nat \ {0} /\ mem \in Nat
  BY Lively DEF AdpcmEncoding, canProcess, Process, BlocksInv, BlocksTypes, Carried
<1>2. block # FractionalDecimator /\ block # FmDemod /\ TrustsWriter(block)
  BY DEF FractionalDecimator, FmDemod, Named, TrustsWriter
<1>3. CASE canProcess(avail >= 2 /\ room > SyncLen)
  <2>1. avail >= 2 /\ room > SyncLen => RoomSeen /\ InputSeen
    BY <1>1, Amounts DEF RoomSeen, InputSeen
  <2> QED BY <1>3, <2>1, CanProcessKeeps
<1>4. CASE Process(2 * n, 2 * n, made, m)
  <2>1. exchanged \/ (room > SyncLen /\ avail >= 2)
    BY <1>4 DEF Process, BlocksInv, RoomSeen, InputSeen
  <2>2. n \in Nat /\ 2 * n <= avail /\ n <= SyncEvery
        /\ (exchanged \/ (n # 0 /\ n + SyncLen <= room))
    <3>1. PICK a \in Nat : a = avail \div 2 /\ 2 * a <= avail /\ (avail >= 2 => a >= 1)
      BY <1>1
    <3>2. CASE room >= SyncLen
      <4>1. PICK b \in Nat : b = room - SyncLen
        BY <1>1, <3>2, Amounts
      <4>2. n = Min({a, SyncEvery, b})
        <5>1. {avail \div 2, SyncEvery}
                \union (IF room >= SyncLen THEN {room - SyncLen} ELSE {}) = {a, SyncEvery, b}
          BY <3>1, <3>2, <4>1
        <5> QED BY <5>1
      <4> HIDE DEF n
      <4>3. n = IF a <= SyncEvery /\ a <= b THEN a ELSE IF SyncEvery <= b THEN SyncEvery ELSE b
        BY <4>1, <4>2, MinOfThree, Amounts
      <4> QED BY <1>1, <2>1, <3>1, <4>1, <4>3, Amounts
    <3>3. CASE ~(room >= SyncLen)
      <4>1. n = Min({a, SyncEvery})
        <5>1. {avail \div 2, SyncEvery}
                \union (IF room >= SyncLen THEN {room - SyncLen} ELSE {}) = {a, SyncEvery}
          BY <3>1, <3>3
        <5> QED BY <5>1
      <4> HIDE DEF n
      <4>2. n = IF a <= SyncEvery THEN a ELSE SyncEvery
        BY <4>1, MinOfTwo, Amounts
      <4>3. exchanged
        BY <1>1, <2>1, <3>3, Amounts
      <4> QED BY <1>1, <3>1, <4>2, <4>3, Amounts
    <3> QED BY <3>2, <3>3
  <2>3. syncs = IF mem < n THEN {mem + 1} ELSE {}
    <3> HIDE DEF n
    <3>1. \A x \in 0 .. SyncEvery : x % (SyncEvery + 1) = 0 <=> x = 0
      <4>1. PICK d \in Nat \ {0} : d = SyncEvery + 1
        BY Amounts
      <4>2. \A x \in 0 .. d - 1 : x % d = x
        OBVIOUS
      <4> QED BY <4>1, <4>2, Amounts
    <3>2. \A i \in mem + 1 .. n : i - mem - 1 \in 0 .. SyncEvery
      BY <1>1, <2>2, Amounts
    <3>3. \A i \in mem + 1 .. n : (i - mem - 1) % (SyncEvery + 1) = 0 <=> i = mem + 1
      BY <1>1, <2>2, <3>1, <3>2
    <3>4. syncs = {i \in mem + 1 .. n : i = mem + 1}
      BY <3>3
    <3> HIDE DEF syncs
    <3> QED BY <1>1, <2>2, <3>4
  <2>4. long \in Nat /\ (exchanged \/ long <= room)
    <3>1. Cardinality({}) = 0 /\ Cardinality({mem + 1}) = 1
      BY FS_EmptySet, FS_Singleton
    <3>2. PICK c \in {0, 1} : c = Cardinality(syncs)
      <4> HIDE DEF n, syncs
      <4> QED BY <2>3, <3>1
    <3>3. long = n + SyncLen * c
      BY <3>2
    <3> HIDE DEF n, syncs, long
    <3>4. long = n \/ long = n + SyncLen
      BY <2>2, <3>2, <3>3, Amounts
    <3> QED BY <1>1, <2>2, <3>4, Amounts
  <2>5. m \in Nat
    <3>1. \A a \in Int : Max({a}) = a
      BY DEF Max
    <3> HIDE DEF n, syncs
    <3>2. CASE mem < n
      <4>1. syncs = {mem + 1} /\ syncs # {} /\ mem + 1 \in Int
        BY <1>1, <2>3, <3>2
      <4>2. Max(syncs) = mem + 1
        BY <3>1, <4>1
      <4>3. m = SyncEvery - (n - (mem + 1))
        BY <4>1, <4>2
      <4> QED BY <1>1, <2>2, <3>2, <4>3, Amounts
    <3>3. CASE ~(mem < n)
      <4>1. syncs = {} /\ mem - n \in Nat
        BY <1>1, <2>2, <2>3, <3>3
      <4> QED BY <4>1
    <3> QED BY <3>2, <3>3
  <2>6. Len(made) = long
    <3> HIDE DEF long, At
    <3> QED BY <2>4
  <2>7. PICK takes \in Nat : takes = 2 * n /\ takes <= avail /\ (exchanged \/ takes # 0)
    <3> HIDE DEF n
    <3> QED BY <1>1, <2>2
  <2>8. Process(takes, takes, made, m)
    BY <1>4, <2>7
  <2>9. Carried(m)
    BY <2>5 DEF Carried
  <2> HIDE DEF long, made, m
  <2> QED BY <1>1, <1>2, <2>4, <2>6, <2>7, <2>8, <2>9, ProcessKeeps
<1> QED BY <1>3, <1>4 DEF AdpcmEncoding
-----------------------------------------------------------------------------
LEMMA BlocksInvHolds == BlocksSpec => []BlocksInv
<1>1. BlocksInit => BlocksInv
  <2> SUFFICES ASSUME BlocksInit
               PROVE  BlocksInv
    OBVIOUS
  <2>1. block \in BlockKind /\ stage = "check" /\ pos = 0 /\ avail = 0 /\ exchanged = FALSE
        /\ room = Room /\ mem = Fresh(block)
        /\ last = [had |-> 0, space |-> Room, reads |-> 0, takes |-> 0, gives |-> 0,
                   changed |-> TRUE]
    BY DEF BlocksInit
  <2>2. Carried(mem)
    BY <2>1 DEF Carried, Fresh, xifirst, num_poly_points
  <2>3. WithinBounds
    BY <2>1, Amounts DEF WithinBounds
  <2>4. BlocksTypes
    <3>1. pos \in Int /\ avail \in Nat /\ room \in Nat \ {0}
      BY <2>1, Amounts
    <3>2. exchanged \in BOOLEAN /\ ~exchanged
      BY <2>1, Zenon
    <3> QED BY <2>1, <2>2, <3>1, <3>2 DEF BlocksTypes
  <2> QED BY <2>1, <2>3, <2>4 DEF BlocksInv
<1>2. BlocksInv /\ [BlocksNext]_bvars => BlocksInv'
  <2> SUFFICES ASSUME BlocksInv, [BlocksNext]_bvars
               PROVE  BlocksInv'
    OBVIOUS
  <2>1. CASE UNCHANGED bvars
    BY <2>1 DEF bvars, BlocksInv, BlocksTypes, Carried, WithinBounds, TrustsReader,
                TrustsWriter, RoomSeen, InputSeen
  <2>2. CASE BlocksNext
    BY <2>2, ArriveKeeps, ExchangeKeeps, SetWriterKeeps, AnyLengthKeeps, FixedLengthKeeps, FftKeeps,
       FilterKeeps, FftFilterKeeps, DecimateKeeps, FractionalKeeps, MixKeeps, AverageKeeps,
       SquelchKeeps, TimingKeeps, EncodeKeeps, DecodeKeeps, FftAdpcmKeeps, ResampleKeeps
       DEF BlocksNext
  <2> QED BY <2>1, <2>2
<1> QED BY <1>1, <1>2, PTL DEF BlocksSpec

(* A block of csdr that keeps its reader, filter and writer from            *)
(* canProcess() to process() reads and takes no more than there is, writes  *)
(* no more than fits, and is never called without getting anything done,    *)
(* whatever arrives and whenever it is called.  After an exchange only the  *)
(* blocks that do not look again go beyond the new reader or writer.        *)
THEOREM BlocksStayWithinBounds == BlocksSpec => []WithinBounds
<1>1. BlocksInv => WithinBounds
  BY DEF BlocksInv
<1> QED BY <1>1, BlocksInvHolds, PTL
=============================================================================

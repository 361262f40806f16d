------------------------- MODULE CommandLine_proofs -------------------------
(* Two command lines that read, work on and write streams.                  *)
(*                                                                          *)
(* csdr++ (Command), for any size of the elements, any reads and any        *)
(* command: the module gets the elements of stdin whole, in order and none  *)
(* left out, and has had all it can process when stdin has ended.           *)
(*                                                                          *)
(* csdr (Csdr), for any sizes of the buffers, blocks and filters, any       *)
(* commands and any order of their steps: only the tail of a stream is      *)
(* padded.                                                                  *)
EXTENDS Command, Csdr, SequenceTheorems, TLAPS

\* Successive bytes or samples, of which the first comes after w others.
After(w, s) == s \in Seq(Nat) /\ \A k \in 1 .. Len(s) : s[k] = w + k

\* The quotient and the rest of a division.
LEMMA Division ==
  ASSUME NEW a \in Nat, NEW d \in Nat \ {0}
  PROVE  /\ a \div d \in Nat /\ a % d \in 0 .. d - 1
         /\ (a \div d) * d <= a /\ a % d = a - (a \div d) * d
<1>1. a \div d \in Int
  OBVIOUS
<1>2. a \div d >= 0
  OBVIOUS
<1>3. a % d \in 0 .. d - 1
  OBVIOUS
<1>4. PICK q \in Int : q = a \div d
  BY <1>1
<1>5. d * q <= a
  BY <1>4
<1>6. a % d = a - d * q
  BY <1>4
<1>7. d * q = q * d
  BY <1>4
<1> QED BY <1>1, <1>2, <1>3, <1>4, <1>5, <1>6, <1>7

LEMMA DivisionUnique ==
  ASSUME NEW q \in Nat, NEW r \in Nat, NEW d \in Nat \ {0}, r < d
  PROVE  (q * d + r) \div d = q
OBVIOUS

-----------------------------------------------------------------------------
(* Successive elements.                                                     *)

LEMMA Joined ==
  ASSUME NEW w \in Nat, NEW s, NEW t, After(w, s), After(w + Len(s), t)
  PROVE  After(w, s \o t) /\ Len(s \o t) = Len(s) + Len(t)
<1>1. s \in Seq(Nat) /\ t \in Seq(Nat) /\ Len(s) \in Nat /\ Len(t) \in Nat
  BY DEF After
<1>2. PICK u : u = s \o t
  OBVIOUS
<1>3. /\ u \in Seq(Nat) /\ Len(u) = Len(s) + Len(t)
      /\ \A k \in 1 .. Len(s) + Len(t) : u[k] = IF k <= Len(s) THEN s[k] ELSE t[k - Len(s)]
  BY <1>1, <1>2, ConcatProperties
<1>4. ASSUME NEW k \in 1 .. Len(u)
      PROVE  u[k] = w + k
  <2>1. CASE k <= Len(s)
    <3>1. k \in 1 .. Len(s) /\ u[k] = s[k]
      BY <1>1, <1>3, <1>4, <2>1
    <3> QED BY <3>1 DEF After
  <2>2. CASE k > Len(s)
    <3>1. k - Len(s) \in 1 .. Len(t)
      BY <1>1, <1>3, <1>4, <2>2
    <3>2. t[k - Len(s)] = w + Len(s) + (k - Len(s))
      BY <3>1 DEF After
    <3> QED BY <1>1, <1>3, <1>4, <2>2, <3>2
  <2> QED BY <1>1, <1>3, <1>4, <2>1, <2>2
<1> QED BY <1>2, <1>3, <1>4 DEF After

LEMMA Slice ==
  ASSUME NEW w \in Nat, NEW s, After(w, s),
         NEW m \in Nat, NEW n \in Nat, m <= n, n <= Len(s)
  PROVE  After(w + m, SubSeq(s, m + 1, n)) /\ Len(SubSeq(s, m + 1, n)) = n - m
<1>1. s \in Seq(Nat) /\ Len(s) \in Nat
  BY DEF After
<1>2. \A i \in m + 1 .. n : s[i] \in Nat /\ s[i] = w + i
  BY <1>1 DEF After
<1>3. PICK u : u = SubSeq(s, m + 1, n)
  OBVIOUS
<1>4. /\ u \in Seq(Nat) /\ Len(u) = n - m
      /\ \A i \in 1 .. n - m : u[i] = s[m + i]
  <2>1. /\ u \in Seq(Nat)
        /\ Len(u) = IF m + 1 <= n THEN n - (m + 1) + 1 ELSE 0
        /\ \A i \in 1 .. n - (m + 1) + 1 : u[i] = s[m + 1 + i - 1]
    BY <1>2, <1>3, SubSeqProperties
  <2>2. n - (m + 1) + 1 = n - m /\ \A i \in 1 .. n - m : m + 1 + i - 1 = m + i
    OBVIOUS
  <2>3. ~(m + 1 <= n) => n - m = 0
    OBVIOUS
  <2> QED BY <2>1, <2>2, <2>3
<1>5. \A i \in 1 .. n - m : m + i \in m + 1 .. n
  OBVIOUS
<1>6. \A i \in 1 .. n - m : u[i] = w + m + i
  BY <1>2, <1>4, <1>5
<1> QED BY <1>3, <1>4, <1>6 DEF After

\* Two runs of successive bytes of the same length are equal.
-----------------------------------------------------------------------------
(* csdr++.                                                                  *)

\* The bytes of the element after k others.
element(k) == [i \in 1 .. itemBytes |-> k * itemBytes + i]

\* Elements that were read, and the bytes of them.
elements == made + Len(items)
whole    == elements * itemBytes

CommandTypes ==
  /\ command \in Commands /\ async \in BOOLEAN
  /\ overrun \in BOOLEAN /\ failed \in BOOLEAN
  /\ at \in {"select", "advance", "process", "delete", "ended", "crashed"}

\* Without a runner, the loop waits and ends only with nothing to process.
Idle == ~async /\ at \in {"select", "delete", "ended"} => ~canProcess

\* What is at the write pointer is the beginning of the next element, and
\* whole ones before advance().
MemoryFits ==
  /\ got \in Nat /\ made \in Nat /\ items \in Seq(Seq(Nat))
  /\ After(whole, memory) /\ got = whole + Len(memory)
  /\ at # "advance" => Len(memory) < itemBytes

ItemsFit == ~torn /\ \A k \in 1 .. Len(items) : items[k] = element(made + k - 1)

RoomLeft == Len(items) + Len(memory) \div itemBytes < ringSize

\* The order of the elements needs that the ring holds them; without a runner
\* it does.
Sound == ~overrun /\ ~failed
CommandInv ==
  /\ CommandTypes /\ Idle
  /\ ~async => failed \/ ~overrun
  /\ Sound => MemoryFits /\ ItemsFit /\ RoomLeft
-----------------------------------------------------------------------------
\* A module takes no more than it has asked for.
LEMMA TakesWhatItNeeds ==
  ASSUME NEW c \in Commands
  PROVE  c.needs \in Nat /\ c.takes \in Nat /\ c.takes <= c.needs
<1>1. c \in {Single, InPairs, Blocks, Taps, Steps, WithFifo(Blocks), WithFifo(Taps)}
  BY DEF Commands, Audio, Spectrum, Rates, Fractions, Codecs, Demodulated
<1> QED BY <1>1 DEF Single, InPairs, Blocks, Taps, Steps, WithFifo, Runs

\* Where the elements of a read begin and end.
LEMMA Inside ==
  ASSUME NEW q \in Nat, NEW k \in 1 .. q, NEW d \in Nat \ {0}
  PROVE  /\ (k - 1) * d \in Nat /\ k * d = (k - 1) * d + d
         /\ k * d \in Nat /\ q * d \in Nat /\ k * d <= q * d
<1>1. (k - 1) * d \in Nat /\ k * d \in Nat /\ q * d \in Nat
  OBVIOUS
<1>2. k * d = (k - 1) * d + d
  OBVIOUS
<1>3. PICK m \in Nat : q = k + m
  <2>1. q - k \in Nat /\ q = k + (q - k)
    OBVIOUS
  <2> QED BY <2>1
<1>4. q * d = k * d + m * d /\ m * d \in Nat
  BY <1>3
<1> QED BY <1>1, <1>2, <1>4
-----------------------------------------------------------------------------
(* The bytes of an element.                                                 *)

\* Less than c + 1 times d holds at most c of them.
LEMMA AtMost ==
  ASSUME NEW a \in Nat, NEW c \in Nat, NEW d \in Nat \ {0}, a <= c * d
  PROVE  a \div d <= c
<1>1. PICK q \in Nat : q = a \div d
  BY Division
<1>2. q * d <= a
  BY <1>1, Division
<1>3. ASSUME c + 1 <= q
      PROVE  FALSE
  <2>1. PICK k \in 1 .. q : k = c + 1
    BY <1>3
  <2>2. k * d <= q * d /\ k * d = (k - 1) * d + d
    BY Inside
  <2>3. (k - 1) * d = c * d
    BY <2>1
  <2> QED BY <1>2, <2>2, <2>3
<1> QED BY <1>1, <1>3

\* What does not fill m elements does not reach the end of m.
LEMMA StopsBefore ==
  ASSUME NEW a \in Nat, NEW m \in Nat, NEW d \in Nat \ {0}, a \div d < m
  PROVE  ~(a > m * d)
<1>1. PICK q \in Nat : q = a \div d
  BY Division
<1>2. PICK x \in Nat : x = a % d
  BY Division
<1>3. x < d /\ x = a - q * d
  BY <1>1, <1>2, Division
<1>4. PICK k \in 1 .. m : k = q + 1
  BY <1>1
<1>5. k * d <= m * d /\ k * d = (k - 1) * d + d
  BY Inside
<1>6. (k - 1) * d = q * d /\ q * d \in Nat /\ m * d \in Nat
  BY <1>4
<1> QED BY <1>3, <1>5, <1>6

LEMMA SameBytes ==
  ASSUME NEW w \in Nat, NEW s, NEW t, After(w, s), After(w, t), Len(s) = Len(t)
  PROVE  s = t
BY SeqEqual DEF After

LEMMA ElementBytes ==
  ASSUME NEW k \in Nat
  PROVE  After(k * itemBytes, element(k)) /\ Len(element(k)) = itemBytes
<1>1. k * itemBytes \in Nat /\ itemBytes \in Nat
  BY Sizes
<1>2. PICK w \in Nat : w = k * itemBytes
  BY <1>1
<1>3. PICK e : e = [i \in 1 .. itemBytes |-> w + i]
  OBVIOUS
<1>4. e \in Seq(Nat) /\ Len(e) = itemBytes /\ \A i \in 1 .. itemBytes : e[i] = w + i
  BY <1>1, <1>3
<1> QED BY <1>2, <1>3, <1>4 DEF element, After

\* What advance() makes available, and what it leaves.
LEMMA Advance ==
  ASSUME NEW m \in Nat, NEW bytes, After(m * itemBytes, bytes)
  PROVE  \E q \in Nat :
           /\ Elements(bytes) = [k \in 1 .. q |-> element(m + k - 1)]
           /\ After((m + q) * itemBytes, Rest(bytes))
           /\ Len(Rest(bytes)) < itemBytes
           /\ m * itemBytes + Len(bytes) = (m + q) * itemBytes + Len(Rest(bytes))
<1>1. Len(bytes) \in Nat /\ itemBytes \in Nat \ {0} /\ m * itemBytes \in Nat
  BY Sizes DEF After
<1>2. PICK q \in Nat : q = Len(bytes) \div itemBytes
  BY <1>1, Division
<1>3. PICK r \in Nat : r = Len(bytes) % itemBytes
  BY <1>1, Division
<1>4. PICK d \in Nat : d = q * itemBytes
  BY <1>1
<1>5. PICK w \in Nat : w = m * itemBytes
  BY <1>1
<1>6. r < itemBytes /\ d <= Len(bytes) /\ r = Len(bytes) - d
  <2>1. Len(bytes) % itemBytes \in 0 .. itemBytes - 1
    BY <1>1, Division
  <2>2. /\ (Len(bytes) \div itemBytes) * itemBytes <= Len(bytes)
        /\ Len(bytes) % itemBytes = Len(bytes) - (Len(bytes) \div itemBytes) * itemBytes
    BY <1>1, Division
  <2>3. d = (Len(bytes) \div itemBytes) * itemBytes
    BY <1>2, <1>4, Zenon
  <2> QED BY <1>1, <1>3, <2>1, <2>2, <2>3
<1>7. (m + q) * itemBytes = w + d
  BY <1>1, <1>4, <1>5
<1>8. After(w, bytes)
  BY <1>5
<1>9. After(w + d, Rest(bytes)) /\ Len(Rest(bytes)) = r
  <2>1. Rest(bytes) = SubSeq(bytes, d + 1, Len(bytes))
    <3>1. Len(bytes) - r + 1 = d + 1
      BY <1>1, <1>6
    <3> QED BY <1>3, <3>1 DEF Rest
  <2>2. /\ After(w + d, SubSeq(bytes, d + 1, Len(bytes)))
        /\ Len(SubSeq(bytes, d + 1, Len(bytes))) = Len(bytes) - d
    BY <1>1, <1>6, <1>8, Slice
  <2> QED BY <1>6, <2>1, <2>2
<1>10. ASSUME NEW k \in 1 .. q
       PROVE  SubSeq(bytes, (k - 1) * itemBytes + 1, k * itemBytes) = element(m + k - 1)
  <2>1. PICK a \in Nat : a = (k - 1) * itemBytes
    BY <1>1, <1>10, Inside
  <2>2. PICK b \in Nat : b = k * itemBytes
    BY <1>1, <1>10, Inside
  <2>3. b = a + itemBytes /\ b <= d
    <3>1. k * itemBytes = (k - 1) * itemBytes + itemBytes /\ k * itemBytes <= q * itemBytes
      BY <1>1, <1>10, Inside
    <3> QED BY <1>4, <2>1, <2>2, <3>1
  <2>4. a <= b /\ b <= Len(bytes) /\ b - a = itemBytes /\ w + a \in Nat
    BY <1>1, <1>6, <2>3
  <2>5. After(w + a, SubSeq(bytes, a + 1, b)) /\ Len(SubSeq(bytes, a + 1, b)) = itemBytes
    BY <1>8, <2>4, Slice
  <2>6. PICK j \in Nat : j = m + k - 1
    BY <1>10
  <2>7. j * itemBytes = w + a
    <3>1. (m + (k - 1)) * itemBytes = m * itemBytes + (k - 1) * itemBytes
      BY <1>1, <1>10
    <3>2. j = m + (k - 1)
      BY <1>10, <2>6
    <3> QED BY <1>5, <2>1, <3>1, <3>2, Zenon
  <2>8. After(w + a, element(j)) /\ Len(element(j)) = itemBytes
    BY <2>7, ElementBytes
  <2>9. SubSeq(bytes, a + 1, b) = element(j)
    BY <2>4, <2>5, <2>8, SameBytes
  <2> QED BY <2>1, <2>2, <2>6, <2>9, Zenon
<1>11. Elements(bytes) = [k \in 1 .. q |-> element(m + k - 1)]
  BY <1>2, <1>10, Zenon DEF Elements
<1>12. m * itemBytes + Len(bytes) = (m + q) * itemBytes + Len(Rest(bytes))
  BY <1>1, <1>5, <1>6, <1>7, <1>9
<1>13. After((m + q) * itemBytes, Rest(bytes)) /\ Len(Rest(bytes)) < itemBytes
  BY <1>6, <1>7, <1>9
<1> QED BY <1>11, <1>12, <1>13, Zenon
-----------------------------------------------------------------------------
(* The steps.                                                               *)

\* Without a runner there are fewer elements than the module needs.
LEMMA ReadFits ==
  ASSUME CommandInv, ~async, ~failed, NEW n \in 1 .. clamp * itemBytes, Read(n)
  PROVE  ~overrun'
<1>1. Sound /\ Idle /\ command \in Commands
  BY DEF CommandInv, Sound, CommandTypes
<1>2. memory \in Seq(Nat) /\ Len(memory) \in Nat /\ Len(items) \in Nat
  BY <1>1 DEF CommandInv, MemoryFits, After
<1>3. Len(items) < command.needs /\ command.needs + clamp <= ringSize
  BY <1>1, <1>2, RingHolds, TakesWhatItNeeds DEF Idle, canProcess, Read
<1>4. n \in Nat /\ Stdin(n) \in Seq(Int) /\ Len(Stdin(n)) = n
  BY <1>1, Sizes DEF Stdin, CommandInv, MemoryFits
<1>5. PICK a \in Nat : a = Len(memory) + n
  BY <1>2, <1>4
<1>6. Len(memory') = a
  <2>1. Len(memory \o Stdin(n)) = Len(memory) + Len(Stdin(n))
    <3>1. memory \in Seq(Int)
      BY <1>2
    <3> QED BY <1>4, <3>1, ConcatProperties
  <2>2. memory' = memory \o Stdin(n)
    BY DEF Read
  <2> QED BY <1>4, <1>5, <2>1, <2>2, Zenon
<1>7. a <= clamp * itemBytes
  BY <1>2, <1>4, <1>5, Sizes DEF Read
<1>8. PICK b \in Nat : b = a \div itemBytes
  BY Sizes, Division
<1>9. b <= clamp
  BY <1>7, <1>8, Sizes, AtMost
<1>10. overrun' = (overrun \/ Len(items) + b >= ringSize)
  BY <1>6, <1>8 DEF Read
<1>11. command.needs \in Nat
  BY <1>1, TakesWhatItNeeds
<1>12. PICK l \in Nat : l = Len(items)
  BY <1>2
<1>13. ~(l + b >= ringSize)
  BY <1>3, <1>9, <1>11, <1>12, RingHolds, Sizes
<1> QED BY <1>1, <1>10, <1>12, <1>13 DEF Sound

LEMMA ReadKeeps ==
  ASSUME CommandInv, NEW n \in 1 .. clamp * itemBytes, Read(n)
  PROVE  CommandInv'
<1>1. /\ memory' = memory \o Stdin(n) /\ got' = got + n /\ at' = "advance"
      /\ overrun' = (overrun \/ Len(items) + Len(memory') \div itemBytes >= ringSize)
      /\ UNCHANGED <<command, async, items, made, torn, failed>>
  BY DEF Read, workVars
<1>2. CommandTypes' /\ Idle'
  BY <1>1 DEF CommandInv, CommandTypes, Idle
<1>3. ~async' => failed' \/ ~overrun'
  BY <1>1, ReadFits
<1>4. ASSUME Sound'
      PROVE  (MemoryFits /\ ItemsFit /\ RoomLeft)'
  <2>1. Sound /\ ~(Len(items) + Len(memory') \div itemBytes >= ringSize)
    BY <1>1, <1>4 DEF Sound
  <2>2. /\ n \in Nat /\ got \in Nat /\ made \in Nat /\ items \in Seq(Seq(Nat))
        /\ Len(memory) \in Nat /\ Len(items) \in Nat /\ whole \in Nat
        /\ After(whole, memory) /\ got = whole + Len(memory)
    BY <2>1, Sizes DEF CommandInv, MemoryFits, elements, whole, After
  <2>3. After(whole + Len(memory), Stdin(n)) /\ Len(Stdin(n)) = n
    BY <2>2 DEF Stdin, After
  <2>4. /\ After(whole, memory \o Stdin(n))
        /\ Len(memory \o Stdin(n)) = Len(memory) + Len(Stdin(n))
    BY <2>2, <2>3, Joined, Zenon
  <2>5. whole' = whole
    BY <1>1 DEF whole, elements
  <2>6. After(whole', memory') /\ Len(memory') = Len(memory) + n
    BY <1>1, <2>3, <2>4, <2>5, Zenon
  <2>7. got' = whole' + Len(memory')
    BY <1>1, <2>2, <2>5, <2>6
  <2>8. MemoryFits'
    BY <1>1, <2>2, <2>6, <2>7 DEF MemoryFits
  <2>9. ItemsFit'
    BY <1>1, <2>1 DEF CommandInv, ItemsFit
  <2>10. RoomLeft'
    <3>1. PICK a \in Nat : a = Len(memory')
      BY <2>2, <2>6
    <3>2. PICK b \in Nat : b = a \div itemBytes
      BY Sizes, Division
    <3>3. ~(Len(items) + b >= ringSize)
      BY <2>1, <3>1, <3>2
    <3>4. Len(items') + b < ringSize
      BY <1>1, <2>2, <3>3, RingHolds
    <3> QED BY <3>1, <3>2, <3>4 DEF RoomLeft
  <2> QED BY <2>8, <2>9, <2>10
<1> QED BY <1>2, <1>3, <1>4 DEF CommandInv

\* As long as they fit, a reader sees all of the elements.
LEMMA SeesAll ==
  ASSUME NEW all \in Seq(Seq(Nat)), Len(all) < ringSize
  PROVE  Seen(all) = all
<1>1. Len(all) \in Nat /\ ringSize \in Nat
  BY RingHolds
<1>2. PICK m \in Nat : m = Len(all)
  BY <1>1
<1>3. m % ringSize = m
  <2>1. m < ringSize
    BY <1>2
  <2> QED BY <1>1, <2>1
<1>4. m - m + 1 = 1
  OBVIOUS
<1>5. Seen(all) = SubSeq(all, 1, Len(all))
  BY <1>2, <1>3, <1>4, Zenon DEF Seen
<1>6. SubSeq(all, 1, Len(all)) = all
  BY <1>1
<1> QED BY <1>5, <1>6

LEMMA AdvanceKeeps ==
  ASSUME CommandInv, advanceWrite
  PROVE  CommandInv'
<1>1. /\ at = "advance" /\ at' = IF async THEN "select" ELSE "process"
      /\ items' = Seen(items \o Elements(memory)) /\ memory' = Rest(memory)
      /\ UNCHANGED <<command, async, got, made, torn, overrun, failed>>
  BY DEF advanceWrite, AfterRead, failVars
<1>2. CommandTypes' /\ Idle' /\ (~async' => failed' \/ ~overrun')
  BY <1>1 DEF CommandInv, CommandTypes, Idle
<1>3. ASSUME Sound'
      PROVE  (MemoryFits /\ ItemsFit /\ RoomLeft)'
  <2>1. MemoryFits /\ ItemsFit /\ RoomLeft
    BY <1>1, <1>3 DEF CommandInv, Sound
  <2>2. /\ got \in Nat /\ made \in Nat /\ items \in Seq(Seq(Nat))
        /\ Len(memory) \in Nat /\ Len(items) \in Nat /\ elements \in Nat
        /\ After(whole, memory) /\ got = whole + Len(memory)
    BY <2>1 DEF MemoryFits, elements, After
  <2>3. PICK q \in Nat :
          /\ Elements(memory) = [k \in 1 .. q |-> element(elements + k - 1)]
          /\ After((elements + q) * itemBytes, Rest(memory))
          /\ Len(Rest(memory)) < itemBytes
          /\ elements * itemBytes + Len(memory) = (elements + q) * itemBytes + Len(Rest(memory))
    BY <2>2, Advance DEF whole
  <2>4. \A k \in 1 .. q : element(elements + k - 1) \in Seq(Nat)
    BY <2>2, ElementBytes DEF After
  <2>5. Elements(memory) \in Seq(Seq(Nat)) /\ Len(Elements(memory)) = q
    <3>1. PICK e : e = [k \in 1 .. q |-> element(elements + k - 1)]
      OBVIOUS
    <3>2. e \in Seq(Seq(Nat)) /\ Len(e) = q
      BY <2>4, <3>1
    <3> QED BY <2>3, <3>1, <3>2
  <2>6. Len(Elements(memory)) = Len(memory) \div itemBytes
    <3>1. PICK b \in Nat : b = Len(memory) \div itemBytes
      BY <2>2, Sizes, Division
    <3>2. PICK e : e = [k \in 1 .. b |-> SubSeq(memory, (k - 1) * itemBytes + 1, k * itemBytes)]
      OBVIOUS
    <3>3. Len(e) = b
      BY <3>2
    <3> QED BY <3>1, <3>2, <3>3, Zenon DEF Elements
  <2>7. PICK all : all = items \o Elements(memory)
    OBVIOUS
  <2>8. all \in Seq(Seq(Nat)) /\ Len(all) = Len(items) + q
    BY <2>2, <2>5, <2>7, ConcatProperties
  <2>9. Len(items) + q < ringSize
    BY <2>1, <2>5, <2>6 DEF RoomLeft
  <2>10. items' = all
    BY <1>1, <2>7, <2>8, <2>9, SeesAll
  <2>11. Len(items') = Len(items) + q /\ items' \in Seq(Seq(Nat))
    BY <2>8, <2>10
  <2>12. elements' = elements + q
    BY <1>1, <2>2, <2>11 DEF elements
  <2>13. MemoryFits'
    <3>1. got' = (elements + q) * itemBytes + Len(Rest(memory))
      BY <1>1, <2>2, <2>3 DEF whole
    <3>2. whole' = (elements + q) * itemBytes
      BY <2>12 DEF whole
    <3> QED BY <1>1, <2>2, <2>3, <2>11, <3>1, <3>2 DEF MemoryFits
  <2>14. ASSUME NEW k \in 1 .. Len(items')
         PROVE  items'[k] = element(made + k - 1)
    <3>1. CASE k <= Len(items)
      <4>1. items'[k] = items[k] /\ k \in 1 .. Len(items)
        BY <2>2, <2>5, <2>7, <2>10, <2>11, <2>14, <3>1, ConcatProperties
      <4> QED BY <2>1, <4>1 DEF ItemsFit
    <3>2. CASE k > Len(items)
      <4>1. items'[k] = Elements(memory)[k - Len(items)] /\ k - Len(items) \in 1 .. q
        BY <2>2, <2>5, <2>7, <2>10, <2>11, <2>14, <3>2, ConcatProperties
      <4>2. elements + (k - Len(items)) - 1 = made + k - 1
        BY <2>2, <2>11, <2>14 DEF elements
      <4> QED BY <2>3, <4>1, <4>2
    <3> QED BY <2>2, <2>11, <2>14, <3>1, <3>2
  <2>15. ItemsFit'
    BY <1>1, <2>1, <2>14 DEF ItemsFit
  <2>16. RoomLeft'
    <3>1. PICK x \in Nat : x = Len(Rest(memory))
      BY <2>3 DEF After
    <3>2. x < itemBytes /\ 0 * itemBytes + x = x
      BY <2>3, <3>1, Sizes
    <3>3. x \div itemBytes = 0
      BY <3>2, Sizes, DivisionUnique
    <3>4. Len(items') + 0 < ringSize
      BY <2>2, <2>9, <2>11, RingHolds
    <3> QED BY <1>1, <3>1, <3>3, <3>4 DEF RoomLeft
  <2> QED BY <2>13, <2>15, <2>16
<1> QED BY <1>2, <1>3 DEF CommandInv

LEMMA FailureKeeps ==
  ASSUME CommandInv, ReadFails
  PROVE  CommandInv'
BY DEF CommandInv, CommandTypes, Idle, Sound, ReadFails, AfterRead

\* The module takes elements it has asked for, so they are there.
LEMMA ProcessKeeps ==
  ASSUME CommandInv, process, Works
  PROVE  CommandInv'
<1>1. PICK t \in Nat : t = command.takes
  BY TakesWhatItNeeds DEF CommandInv, CommandTypes
<1>2. /\ items' = SubSeq(items, t + 1, Len(items)) /\ made' = made + t
      /\ UNCHANGED <<command, async, at, got, memory, overrun, failed>>
      /\ torn' = (torn \/ Overwritten \/ \E k \in 1 .. t : items[k] # Next(k))
  BY <1>1 DEF process, readVars, failVars
<1>3. CommandTypes' /\ Idle' /\ (~async' => failed' \/ ~overrun')
  BY <1>2 DEF CommandInv, CommandTypes, Idle, Works
<1>4. ASSUME Sound'
      PROVE  (MemoryFits /\ ItemsFit /\ RoomLeft)'
  <2>1. MemoryFits /\ ItemsFit /\ RoomLeft
    BY <1>2, <1>4 DEF CommandInv, Sound
  <2>2. /\ t <= Len(items) /\ Len(items) \in Nat /\ items \in Seq(Seq(Nat)) /\ made \in Nat
        /\ Len(memory) \in Nat
    BY <1>1, <2>1, TakesWhatItNeeds
       DEF CommandInv, CommandTypes, MemoryFits, After, process, canProcess
  <2>3. /\ items' \in Seq(Seq(Nat)) /\ Len(items') = Len(items) - t
        /\ \A k \in 1 .. Len(items) - t : items'[k] = items[t + k]
    <3>1. \A k \in t + 1 .. Len(items) : items[k] \in Seq(Nat)
      BY <2>2
    <3>2. /\ items' \in Seq(Seq(Nat))
          /\ Len(items') = IF t + 1 <= Len(items) THEN Len(items) - (t + 1) + 1 ELSE 0
          /\ \A k \in 1 .. Len(items) - (t + 1) + 1 : items'[k] = items[t + 1 + k - 1]
      BY <1>2, <2>2, <3>1, SubSeqProperties
    <3>3. \A k \in 1 .. Len(items) - t : t + 1 + k - 1 = t + k
      BY <2>2
    <3> QED BY <2>2, <3>2, <3>3
  <2>4. ASSUME NEW k \in 1 .. Len(items')
        PROVE  items'[k] = element(made' + k - 1)
    <3>1. items'[k] = items[t + k] /\ t + k \in 1 .. Len(items)
      BY <2>2, <2>3
    <3>2. items[t + k] = element(made + (t + k) - 1)
      BY <2>1, <3>1 DEF ItemsFit
    <3>3. made + (t + k) - 1 = made' + k - 1
      BY <1>2, <2>2
    <3> QED BY <3>1, <3>2, <3>3
  <2>5. ~Overwritten
    <3>1. PICK m \in Nat : m = ringSize - Len(items)
      <4>1. PICK b \in Nat : b = Len(memory) \div itemBytes
        BY <2>2, Sizes, Division
      <4>2. Len(items) + b < ringSize
        BY <2>1, <4>1 DEF RoomLeft
      <4>3. ringSize - Len(items) \in Nat
        BY <2>2, <4>2, RingHolds
      <4> QED BY <4>3
    <3>2. Len(memory) \div itemBytes < m
      <4>1. PICK b \in Nat : b = Len(memory) \div itemBytes
        BY <2>2, Sizes, Division
      <4>2. Len(items) + b < ringSize
        BY <2>1, <4>1 DEF RoomLeft
      <4> QED BY <2>2, <3>1, <4>1, <4>2, RingHolds
    <3>3. ~(Len(memory) > m * itemBytes)
      BY <2>2, <3>2, Sizes, StopsBefore
    <3> QED BY <3>1, <3>3, Zenon DEF Overwritten
  <2>6. ASSUME NEW k \in 1 .. t
        PROVE  items[k] = Next(k)
    <3>1. k \in 1 .. Len(items)
      BY <2>2
    <3>2. items[k] = element(made + k - 1)
      BY <2>1, <3>1 DEF ItemsFit
    <3> QED BY <3>2, Zenon DEF element, Next
  <2>7. ItemsFit'
    BY <1>2, <2>1, <2>4, <2>5, <2>6 DEF ItemsFit
  <2>8. elements' = elements
    <3>1. made' = made + t /\ Len(items') = Len(items) - t
      BY <1>2, <2>3
    <3> QED BY <2>2, <3>1 DEF elements
  <2>9. MemoryFits'
    <3>1. made' \in Nat
      BY <1>2, <2>2
    <3> QED BY <1>2, <2>1, <2>3, <2>8, <3>1 DEF MemoryFits, whole
  <2>10. RoomLeft'
    <3>1. PICK b \in Nat : b = Len(memory) \div itemBytes
      BY <2>2, Sizes, Division
    <3>2. Len(items) + b < ringSize
      BY <2>1, <3>1 DEF RoomLeft
    <3>3. Len(items') + b < ringSize
      BY <2>2, <2>3, <3>2, RingHolds
    <3> QED BY <1>2, <3>1, <3>3 DEF RoomLeft
  <2> QED BY <2>7, <2>9, <2>10
<1> QED BY <1>3, <1>4 DEF CommandInv

\* What leaves the bytes and the elements alone.
LEMMA BytesUntouched ==
  ASSUME CommandInv, UNCHANGED <<command, async, readVars, workVars, failVars>>,
         at' \in {"select", "process", "delete", "ended", "crashed", at},
         at' = at \/ at # "advance",
         at' = at \/ async \/ at \in {"select", "delete"} \/ ~canProcess
  PROVE  CommandInv'
<1>1. UNCHANGED <<command, async, got, memory, items, made, torn, overrun, failed>>
  BY DEF readVars, workVars, failVars
<1>2. CommandTypes' /\ Idle' /\ (~async' => failed' \/ ~overrun')
  BY <1>1 DEF CommandInv, CommandTypes, Idle, canProcess
<1>3. (Sound => ItemsFit /\ RoomLeft)'
  BY <1>1 DEF CommandInv, Sound, ItemsFit, RoomLeft
<1>4. (Sound => MemoryFits)'
  BY <1>1 DEF CommandInv, Sound, MemoryFits, whole, elements
<1> QED BY <1>2, <1>3, <1>4 DEF CommandInv

\* Whatever the sizes and wherever the reads end: without --async, a command
\* that comes to the end of stdin has processed all its module could, every
\* element whole and in its place; with it, as long as the ring has held what
\* was read.
THEOREM NothingIsLeftOver == PlusSpec => []NothingLeftOver
<1>1. PlusInit => CommandInv
  <2> SUFFICES ASSUME PlusInit PROVE CommandInv
    OBVIOUS
  <2>1. elements = 0 /\ whole = 0
    BY Sizes DEF PlusInit, elements, whole
  <2>2. After(0, << >>) /\ Len(memory) = 0 /\ Len(items) = 0
    BY DEF PlusInit, After
  <2>3. command.needs > 0 /\ command.needs \in Nat /\ command \in Commands
    <3>1. command \in {Single, InPairs, Blocks, Taps, Steps, WithFifo(Blocks), WithFifo(Taps)}
      BY DEF PlusInit, Commands, Audio, Spectrum, Rates, Fractions, Codecs, Demodulated
    <3>2. command \in Commands
      BY DEF PlusInit
    <3> QED BY <3>1, <3>2 DEF Single, InPairs, Blocks, Taps, Steps, WithFifo, Runs
  <2>4. CommandTypes /\ ~overrun
    BY DEF PlusInit, CommandTypes
  <2>5. MemoryFits
    BY <2>1, <2>2, Sizes DEF PlusInit, MemoryFits
  <2>6. ItemsFit
    BY <2>2 DEF PlusInit, ItemsFit
  <2>7. Idle
    BY <2>2, <2>3 DEF PlusInit, Idle, canProcess
  <2>8. RoomLeft
    <3>1. 0 \div itemBytes = 0
      <4>1. 0 * itemBytes + 0 = 0 /\ 0 < itemBytes
        BY Sizes
      <4> QED BY <4>1, Sizes, DivisionUnique
    <3>2. 0 + 0 < ringSize
      BY <2>3, RingHolds, Sizes
    <3> QED BY <2>2, <3>1, <3>2, Zenon DEF RoomLeft
  <2> QED BY <2>4, <2>5, <2>6, <2>7, <2>8 DEF CommandInv
<1>2. ASSUME CommandInv, [PlusNext]_plusVars
      PROVE  CommandInv'
  <2>1. CASE End \/ Processed \/ delete \/ processFifoData \/ FifoEof \/ WriteLine \/ CloseFifo
             \/ UNCHANGED plusVars
    BY <1>2, <2>1, BytesUntouched
       DEF End, Processed, delete, processFifoData, FifoEof, WriteLine, CloseFifo, plusVars,
           CommandInv, CommandTypes
  <2> QED BY <1>2, <2>1, ReadKeeps, AdvanceKeeps, FailureKeeps, ProcessKeeps DEF PlusNext, Step
<1>3. ASSUME CommandInv
      PROVE  NothingLeftOver
  <2>1. CASE Sound
    <3>1. /\ elements \in Nat /\ Len(memory) \in Nat /\ made \in Nat /\ Len(items) \in Nat
          /\ got = elements * itemBytes + Len(memory)
      BY <1>3, <2>1 DEF CommandInv, MemoryFits, elements, whole, After
    <3>2. PICK b \in Nat : b = Len(memory) \div itemBytes
      BY <3>1, Sizes, Division
    <3>3. PICK x \in Nat : x = Len(memory) % itemBytes
      BY <3>1, Sizes, Division
    <3>4. x < itemBytes /\ x = Len(memory) - b * itemBytes
      <4>1. Len(memory) % itemBytes \in 0 .. itemBytes - 1
        BY <3>1, Sizes, Division
      <4>2. Len(memory) % itemBytes = Len(memory) - (Len(memory) \div itemBytes) * itemBytes
        BY <3>1, Sizes, Division
      <4>3. x = Len(memory) - b * itemBytes
        BY <3>2, <3>3, <4>2, Zenon
      <4>4. x \in 0 .. itemBytes - 1
        BY <3>3, <4>1, Zenon
      <4> QED BY <4>3, <4>4, Sizes
    <3>5. (elements + b) * itemBytes + x = got
      <4>1. (elements + b) * itemBytes = elements * itemBytes + b * itemBytes
        BY <3>1, <3>2, Sizes
      <4>2. elements * itemBytes \in Nat /\ b * itemBytes \in Nat
        BY <3>1, <3>2, Sizes
      <4> QED BY <3>1, <3>4, <4>1, <4>2
    <3>6. got \div itemBytes = elements + b
      <4>1. elements + b \in Nat
        BY <3>1
      <4>2. ((elements + b) * itemBytes + x) \div itemBytes = elements + b
        BY <3>4, <4>1, Sizes, DivisionUnique
      <4> QED BY <3>5, <4>2, Zenon
    <3>7. made + Len(items) + Len(memory) \div itemBytes = got \div itemBytes
      BY <3>2, <3>6, Zenon DEF elements
    <3> QED BY <1>3, <2>1, <3>7 DEF CommandInv, ItemsFit, Idle, NothingLeftOver
  <2>2. CASE ~Sound
    BY <1>3, <2>2 DEF CommandInv, Sound, Idle, NothingLeftOver
  <2> QED BY <2>1, <2>2
<1> QED BY <1>1, <1>2, <1>3, PTL DEF PlusSpec
-----------------------------------------------------------------------------
(* csdr.                                                                    *)

\* Successive samples behind a preamble.
AfterPreamble(w, s) ==
  /\ s \in Seq(Int) /\ s # << >> /\ s[1] < 0
  /\ \A k \in 2 .. Len(s) : s[k] = w + k - 1

\* What works on a whole block, and what keeps the end of it for the next.
Simple == {"sample", "half", "double", "one", "some", "skips"}
Partly == {"decimate", "resample", "fractional", "filter", "symbols", "serial", "overlap"}

Fields == {"does", "at", "size", "buf", "held", "got", "gave", "eof", "junk", "anew"}

\* What the order of the samples needs of a command that is not excepted.
DoesWell(d) ==
  /\ d.takes \in {"size", "own", "step", "apart", "farther", "chars", "nothing"}
  /\ d.loads = "first" => d.works \in Simple \cup Partly
  /\ d.loads = "first" /\ d.works \notin Simple
       => d.reads = "buffers" /\ d.takes = IF d.works = "overlap" THEN "step" ELSE "size"
  /\ d.reads \in {"never", "anew"} => d.works \in Simple
  /\ d.sends \in {"same", "half", "double", "own", "one", "nothing"}
  /\ d.sends = "nothing" => d.reads = "never"
  /\ d.sends = "half" => d.reads = "buffers"
CommandDoes(d) == DoesWell(d) /\ d.reads # "none"
-----------------------------------------------------------------------------
(* The commands.                                                            *)

LEMMA BasicDoes ==
  ASSUME NEW sends \in {"same", "half", "double", "own", "one"},
         NEW works \in (Simple \cup Partly) \ {"overlap"}
  PROVE  CommandDoes(Basic(sends, works)) /\ CommandDoes(Ahead(sends, works))
         /\ (works \in Simple => CommandDoes(Does("buffers", sends, "own", works, "first", "again")))
         /\ CommandDoes(Does("buffers", sends, "size", works, "first", "break"))
BY DEF Basic, Ahead, Does, CommandDoes, DoesWell, Simple

LEMMA LateDoes ==
  ASSUME NEW sends \in {"same", "half", "double", "own", "one"}, NEW works, NEW ends,
         NEW loads \in {"late", "astray"}
  PROVE  CommandDoes(Late(sends, works, ends))
         /\ CommandDoes(Does("buffers", sends, "size", works, loads, ends))
BY DEF Late, Does, CommandDoes, DoesWell

LEMMA OtherDoes ==
  ASSUME NEW works \in Simple, NEW reads \in {"buffers", "dummy", "anew"}
  PROVE  /\ CommandDoes(OwnBlocks(reads, works)) /\ CommandDoes(Breaks(works))
         /\ CommandDoes(Generates) /\ CommandDoes(Unasked)
BY DEF OwnBlocks, Breaks, Generates, Unasked, Does, CommandDoes, DoesWell, Simple

LEMMA FurtherDoes ==
  ASSUME NEW works \in Simple, NEW sends \in {"same", "own"}, NEW takes \in {"apart", "farther"}
  PROVE  /\ CommandDoes(Overlapping) /\ CommandDoes(Skipping(sends, takes))
         /\ CommandDoes(Characters(works)) /\ CommandDoes(Copies)
BY DEF Overlapping, Skipping, Characters, Copies, Does, CommandDoes, DoesWell, Simple, Partly

LEMMA EachDoes ==
  ASSUME NEW names, NEW d, CommandDoes(d), NEW c \in Each(names, d)
  PROVE  CommandDoes(c.does)
BY DEF Each

\* The names of libcsdr, by what they make of a block.
LEMMA BlockFunctions ==
  /\ {convert_s16_f, gain_ff, get_power_c, shift_math_cc, shift_addfast_cc, shift_addition_cc,
      dcblock_ff, fastagc_ff, agc_ff, agc_s16, amdemod_cf, fmdemod_quadri_cf,
      deemphasis_wfm_ff, apply_window_c, logpower_cf, apply_fir_fft_cc,
      fft_compress_ima_adpcm, fmmod_fc, generic_slicer_f_u8, psk_modulator_u8_c,
      differential_codec, pll_cc, bpsk_costas_loop_cc, simple_agc_cc, dbpsk_decoder_c_u8,
      get_random_samples_f, add_const_cc, varicode_decoder_push, baudot_decoder_push,
      decimating_shift_addition_cc, encode_ima_adpcm_i16_u8, fastddc_inv_cc,
      decode_ima_adpcm_u8_i16, psk31_interpolate_sine_cc, plain_interpolate_cc,
      pack_bits_8to1_u8_u8, normalized_timing_variance_u32_f} \subseteq Simple
  /\ {fractional_decimator_cc, bfsk_demod_cf} \subseteq Partly \ {"overlap"}
BY DEF convert_s16_f, gain_ff, get_power_c, shift_math_cc, shift_addfast_cc, shift_addition_cc,
      dcblock_ff, fastagc_ff, agc_ff, agc_s16, amdemod_cf, fmdemod_quadri_cf,
      deemphasis_wfm_ff, apply_window_c, logpower_cf, apply_fir_fft_cc,
      fft_compress_ima_adpcm, fmmod_fc, generic_slicer_f_u8, psk_modulator_u8_c,
      differential_codec, pll_cc, bpsk_costas_loop_cc, simple_agc_cc, dbpsk_decoder_c_u8,
      get_random_samples_f, add_const_cc, varicode_decoder_push, baudot_decoder_push,
      decimating_shift_addition_cc, encode_ima_adpcm_i16_u8, fastddc_inv_cc,
      decode_ima_adpcm_u8_i16, psk31_interpolate_sine_cc, plain_interpolate_cc,
      pack_bits_8to1_u8_u8, normalized_timing_variance_u32_f, fractional_decimator_cc,
      bfsk_demod_cf, Simple, Partly

LEMMA EachCommand ==
  ASSUME NEW c \in Command
  PROVE  CommandDoes(c.does)
<1> DEFINE Well(commands) == \A b \in commands : CommandDoes(b.does)
<1>1. \A names, d : CommandDoes(d) => Well(Each(names, d))
  BY EachDoes
<1>2. /\ "sample" \in Simple /\ "half" \in Simple /\ "double" \in Simple /\ "one" \in Simple
      /\ "overlap" \notin Simple
  BY DEF Simple
<1>3. {"decimate", "resample", "fractional", "filter", "symbols", "serial"}
        \subseteq Partly \ {"overlap"}
  BY DEF Partly
<1>4. /\ Well(Fifo) /\ Well(Converts) /\ Well(Levels) /\ Well(Shifts)
      /\ Well(AdditionShifts) /\ Well(RealShifts) /\ Well(DcBlocks)
  BY <1>1, <1>2, <1>3, BlockFunctions, BasicDoes, LateDoes, OtherDoes
  DEF Fifo, Converts, Levels, Shifts, AdditionShifts, RealShifts, DcBlocks, Breaks
<1>5. /\ Well(Demodulators) /\ Well(FirRates) /\ Well(Agcs) /\ Well(FastAgcs)
      /\ Well(Resamplers) /\ Well(Ffts) /\ Well(RealFfts)
  BY <1>1, <1>2, <1>3, BlockFunctions, BasicDoes, LateDoes, OtherDoes, FurtherDoes
  DEF Demodulators, FirRates, Agcs, FastAgcs, Resamplers, Ffts, RealFfts, Breaks
<1>6. /\ Well(Spectra) /\ Well(Patterns) /\ Well(BandpassFirFft) /\ Well(Adpcm)
      /\ Well(Channels) /\ Well(Stereo) /\ Well(Squelches)
  BY <1>1, <1>2, <1>3, BlockFunctions, BasicDoes, LateDoes, OtherDoes
  DEF Spectra, Patterns, BandpassFirFft, Adpcm, Channels, Stereo, Squelches, Breaks
<1>7. /\ Well(FastDdc) /\ Well(Plots) /\ Well(Teletypes) /\ Well(Recovery)
      /\ Well(ComplexPlots) /\ Well(Symbols)
  BY <1>1, <1>2, <1>3, BlockFunctions, BasicDoes, LateDoes, OtherDoes, FurtherDoes
  DEF FastDdc, Plots, Teletypes, Recovery, ComplexPlots, Symbols, Breaks
<1>8. /\ Well(Loops) /\ Well(Peaks) /\ Well(Noise) /\ Well(Slicers)
      /\ Well(Modems)
  BY <1>1, <1>2, <1>3, BlockFunctions, BasicDoes, LateDoes, OtherDoes
  DEF Loops, Peaks, Noise, Slicers, Modems, Breaks
<1> QED BY <1>4, <1>5, <1>6, <1>7, <1>8 DEF Command
-----------------------------------------------------------------------------
(* What is made of a block.                                                 *)

LEMMA CsdrAmounts ==
  /\ bufsize \in Nat \ {0} /\ Default \in Nat \ {0} /\ own \in Nat \ {0}
  /\ step \in Nat \ {0} /\ step < own /\ skip \in Nat \ {0}
  /\ taps_length \in Nat \ {0} /\ factor \in Nat \ {0} /\ num_poly_points \in Nat
  /\ 2 <= factor /\ factor <= taps_length /\ taps_length <= bufsize /\ taps_length <= Default
  /\ factor <= 3 * (num_poly_points \div 2) + 1 /\ Totals \subseteq Nat
BY CsdrAssumption

\* The last output begins before the end of the block.
LEMMA OutputsFit ==
  ASSUME NEW n \in Nat, NEW over \in Nat
  PROVE  \E out \in Nat : /\ Outputs(n, over) = out
                          /\ n <= over => out = 0
                          /\ n > over => factor * out <= n - over - 1 + factor
<1>1. CASE n <= over
  BY <1>1 DEF Outputs
<1>2. CASE n > over
  <2>1. PICK a \in Nat : a = n - over - 1
    BY <1>2
  <2>2. PICK q \in Nat : q = a \div factor /\ q * factor <= a
    BY <2>1, CsdrAmounts, Division
  <2>3. factor * (q + 1) = q * factor + factor
    BY <2>2, CsdrAmounts
  <2>4. Outputs(n, over) = q + 1
    BY <1>2, <2>1, <2>2 DEF Outputs
  <2>5. q + 1 \in Nat /\ factor * (q + 1) <= n - over - 1 + factor
    BY <2>1, <2>2, <2>3, CsdrAmounts
  <2> QED BY <1>2, <2>4, <2>5
<1> QED BY <1>1, <1>2

LEMMA MinOfTwo ==
  ASSUME NEW a \in Int, NEW b \in Int
  PROVE  Min({a, b}) = IF a <= b THEN a ELSE b
<1>1. \E x \in {a, b} : \A y \in {a, b} : x <= y
  OBVIOUS
<1>2. Min({a, b}) \in {a, b} /\ \A y \in {a, b} : Min({a, b}) <= y
  BY <1>1 DEF Min
<1> QED BY <1>2

\* Of a block nothing is used that is not there.
Fits(n, r) == r.out \in Nat /\ r.used \in Nat /\ r.used <= n

LEMMA DecimateFits ==
  ASSUME NEW n \in Nat, NEW r \in fir_decimate_cc(n)
  PROVE  Fits(n, r)
<1>1. taps_length - 1 \in Nat
  BY CsdrAmounts
<1>2. PICK out \in Nat : /\ Outputs(n, taps_length - 1) = out
                         /\ n <= taps_length - 1 => out = 0
                         /\ n > taps_length - 1 => factor * out <= n - (taps_length - 1) - 1 + factor
  BY <1>1, OutputsFit
<1>3. r.out = out /\ r.used = factor * out
  BY <1>2 DEF fir_decimate_cc, Result
<1>4. factor * out \in Nat /\ (out = 0 => factor * out = 0)
  BY CsdrAmounts
<1>5. PICK u \in Nat : u = factor * out
  BY <1>4
<1> QED BY <1>2, <1>3, <1>4, <1>5, CsdrAmounts DEF Fits

LEMMA ResampleFits ==
  ASSUME NEW n \in Nat, factor <= n, NEW r \in rational_resampler_ff(n)
  PROVE  Fits(n, r)
<1>1. PICK q \in Nat : q = n \div factor /\ q * factor <= n
  BY CsdrAmounts, Division
<1>2. q >= 1
  BY <1>1, CsdrAmounts
<1>3. PICK o \in Nat : Outputs(n, taps_length) = o
  BY CsdrAmounts, OutputsFit
<1>4. PICK out \in Nat : out = Min({q, o}) /\ out <= q
  BY <1>1, <1>3, MinOfTwo
<1>5. PICK last \in Nat : last = (IF out = q THEN q - 1 ELSE out) /\ last <= q
  BY <1>2, <1>4
<1>6. r.out = out /\ r.used = IF out = 0 THEN n ELSE last * factor
  BY <1>1, <1>3, <1>4, <1>5 DEF rational_resampler_ff, Result
<1>7. last * factor \in Nat /\ last * factor <= q * factor
  BY <1>5, CsdrAmounts
<1> QED BY <1>1, <1>6, <1>7, CsdrAmounts DEF Fits

LEMMA FractionalFits ==
  ASSUME NEW n \in Nat, NEW r \in fractional_decimator_ff(n)
  PROVE  Fits(n, r)
<1>1. PICK over \in Nat : over = 3 * (num_poly_points \div 2)
  BY CsdrAmounts
<1>2. PICK out \in Nat : /\ Outputs(n, over) = out
                         /\ n <= over => out = 0
                         /\ n > over => factor * out <= n - over - 1 + factor
  BY <1>1, OutputsFit
<1>3. r.out = out /\ r.used = IF out = 0 THEN n ELSE factor * out
  BY <1>1, <1>2 DEF fractional_decimator_ff, Result
<1>4. factor * out \in Nat /\ (out = 0 => factor * out = 0)
  BY CsdrAmounts
<1>5. factor <= over + 1
  BY <1>1, CsdrAmounts
<1>6. PICK u \in Nat : u = factor * out
  BY <1>4
<1> QED BY <1>2, <1>3, <1>4, <1>5, <1>6, CsdrAmounts DEF Fits

LEMMA FilterFits ==
  ASSUME NEW n \in Nat, taps_length <= n, NEW r \in apply_fir_cc(n)
  PROVE  Fits(n, r)
<1>1. r.out = n - taps_length + 1 /\ r.used = n - taps_length + 1
  BY DEF apply_fir_cc, Result
<1> QED BY <1>1, CsdrAmounts DEF Fits

LEMMA SymbolsFit ==
  ASSUME NEW n \in Nat \ {0}, NEW r \in timing_recovery_cc(n)
  PROVE  Fits(n, r)
<1>1. PICK half \in Nat : half = factor \div 2 /\ factor <= 2 * half + 1 /\ half >= 1
  BY CsdrAmounts
<1>2. PICK over \in Nat : over = 3 * (factor \div 2) /\ over = 3 * half
  BY <1>1
<1>3. PICK out \in Nat : /\ Outputs(n, over) = out
                         /\ n <= over => out = 0
                         /\ n > over => factor * out <= n - over - 1 + factor
  BY <1>2, OutputsFit
<1>4. factor * out \in Nat /\ (out = 0 => factor * out = 0)
  BY CsdrAmounts
<1>5. PICK u \in Nat : u = factor * out
  BY <1>4
<1>6. PICK correction \in {0, 1} : r.out = out /\ r.used = u + correction
  BY <1>2, <1>3, <1>5 DEF timing_recovery_cc, Result
<1>7. u + correction <= n
  BY <1>1, <1>2, <1>3, <1>4, <1>5, CsdrAmounts
<1> QED BY <1>6, <1>7 DEF Fits

LEMMA SerialFits ==
  ASSUME NEW n \in Nat \ {0}, NEW r \in serial_line_decoder_f_u8(n)
  PROVE  Fits(n, r)
BY DEF serial_line_decoder_f_u8, Result, Fits

LEMMA OverlapFits ==
  ASSUME NEW n \in Nat, NEW r \in overlap(n)
  PROVE  Fits(n, r)
<1>1. PICK kept \in Nat : kept = Min({n, own - step}) /\ kept <= n
  BY MinOfTwo, CsdrAmounts
<1>2. r.out = own /\ r.used = n - kept
  BY <1>1 DEF overlap, Result
<1> QED BY <1>1, <1>2, CsdrAmounts DEF Fits

LEMMA WorkFits ==
  ASSUME NEW works \in Simple \cup Partly, NEW n \in Nat \ {0},
         works \notin Simple \cup {"overlap"} => taps_length <= n, NEW r \in Work(works, n)
  PROVE  Fits(n, r) /\ (works \in Simple => r.used = n)
<1>1. CASE works = "sample"
  BY <1>1 DEF Work, sample, Result, Fits
<1>2. CASE works = "half"
  BY <1>2 DEF Work, Result, Fits
<1>3. CASE works = "double"
  BY <1>3 DEF Work, Result, Fits
<1>4. CASE works = "one"
  BY <1>4 DEF Work, Result, Fits
<1>5. CASE works = "decimate"
  BY <1>5, DecimateFits DEF Work, Simple
<1>6. CASE works = "resample"
  <2>1. factor <= n
    BY <1>6, CsdrAmounts DEF Simple
  <2> QED BY <1>6, <2>1, ResampleFits DEF Work, Simple
<1>7. CASE works = "fractional"
  BY <1>7, FractionalFits DEF Work, Simple
<1>8. CASE works = "filter"
  <2>1. taps_length <= n
    BY <1>8 DEF Simple
  <2> QED BY <1>8, <2>1, FilterFits DEF Work, Simple
<1>9. CASE works = "symbols"
  BY <1>9, SymbolsFit DEF Work, Simple
<1>10. CASE works = "serial"
  BY <1>10, SerialFits DEF Work, Simple
<1>11. CASE works = "some"
  BY <1>11 DEF Work, varicode, Result, Fits
<1>12. CASE works = "skips"
  BY <1>12, CsdrAmounts DEF Work, Result, Fits
<1>13. CASE works = "overlap"
  BY <1>13, OverlapFits DEF Work, Simple
<1> QED BY <1>1, <1>2, <1>3, <1>4, <1>5, <1>6, <1>7, <1>8, <1>9, <1>10, <1>11, <1>12, <1>13
    DEF Simple, Partly
-----------------------------------------------------------------------------
(* Pipes.                                                                   *)

LEMMA NoneAfter ==
  ASSUME NEW w
  PROVE  After(w, << >>) /\ Len(<< >>) = 0
BY EmptySeq DEF After

LEMMA Numbered ==
  ASSUME NEW w \in Nat, NEW n \in Nat
  PROVE  After(w, [k \in 1 .. n |-> w + k]) /\ Len([k \in 1 .. n |-> w + k]) = n
<1>1. PICK s : s = [k \in 1 .. n |-> w + k]
  OBVIOUS
<1>2. s \in Seq(Nat) /\ Len(s) = n /\ \A k \in 1 .. n : s[k] = w + k
  BY <1>1
<1> QED BY <1>1, <1>2 DEF After

LEMMA NothingMore ==
  ASSUME NEW s \in Seq(Int)
  PROVE  s \o << >> = s
BY ConcatEmptySeq

LEMMA OnePreamble ==
  ASSUME NEW w \in Nat, NEW n \in Nat \ {0}
  PROVE  LET s == << >> \o <<-n>>
         IN AfterPreamble(w, s) /\ Len(s) = 1 /\ s[1] = -n
<1>1. <<-n>> \in Seq(Int) /\ Len(<<-n>>) = 1 /\ <<-n>>[1] = -n
  OBVIOUS
<1>2. << >> \o <<-n>> = <<-n>>
  BY <1>1, ConcatEmptySeq
<1> QED BY <1>1, <1>2 DEF AfterPreamble

LEMMA PreambleTaken ==
  ASSUME NEW w \in Nat, NEW s, AfterPreamble(w, s)
  PROVE  /\ Len(s) \in Nat \ {0} /\ After(w, Tail(s)) /\ Len(Tail(s)) = Len(s) - 1
         /\ Head(s) = s[1] /\ s[1] \in Int /\ s[1] < 0
<1>1. s \in Seq(Int) /\ s # << >> /\ s[1] < 0
  BY DEF AfterPreamble
<1>2. Len(s) \in Nat \ {0}
  BY <1>1, EmptySeq
<1>3. /\ Tail(s) \in Seq(Int) /\ Len(Tail(s)) = Len(s) - 1
      /\ \A i \in 1 .. Len(Tail(s)) : Tail(s)[i] = s[i + 1]
  BY <1>1, HeadTailProperties
<1>4. ASSUME NEW k \in 1 .. Len(s) - 1
      PROVE  Tail(s)[k] = w + k
  <2>1. k + 1 \in 2 .. Len(s)
    BY <1>2, <1>4
  <2>2. s[k + 1] = w + (k + 1) - 1
    BY <2>1 DEF AfterPreamble
  <2> QED BY <1>3, <1>4, <2>2
<1>5. Tail(s) \in Seq(Nat)
  <2>1. \A k \in 2 .. Len(s) : s[k] \in Nat
    BY <1>2 DEF AfterPreamble
  <2>2. SubSeq(s, 2, Len(s)) \in Seq(Nat)
    BY <1>2, <2>1, SubSeqProperties
  <2> QED BY <1>1, <2>2, TailIsSubSeq
<1>6. Head(s) = s[1] /\ s[1] \in Int
  BY <1>1, <1>2
<1> QED BY <1>1, <1>2, <1>3, <1>4, <1>5, <1>6 DEF After

LEMMA PreambleJoined ==
  ASSUME NEW w \in Nat, NEW s, NEW t, AfterPreamble(w, s), After(w + Len(s) - 1, t)
  PROVE  AfterPreamble(w, s \o t) /\ Len(s \o t) = Len(s) + Len(t) /\ (s \o t)[1] = s[1]
<1>1. s \in Seq(Int) /\ t \in Seq(Nat) /\ t \in Seq(Int) /\ Len(s) \in Nat \ {0} /\ Len(t) \in Nat
  BY PreambleTaken, SeqMonotonic DEF After, AfterPreamble
<1>2. PICK u : u = s \o t
  OBVIOUS
<1>3. /\ u \in Seq(Int) /\ Len(u) = Len(s) + Len(t)
      /\ \A k \in 1 .. Len(s) + Len(t) : u[k] = IF k <= Len(s) THEN s[k] ELSE t[k - Len(s)]
  BY <1>1, <1>2, ConcatProperties
<1>4. u[1] = s[1] /\ u # << >> /\ s[1] < 0
  BY <1>1, <1>3 DEF AfterPreamble
<1>5. ASSUME NEW k \in 2 .. Len(u)
      PROVE  u[k] = w + k - 1
  <2>1. CASE k <= Len(s)
    <3>1. PICK a \in Nat, b \in Nat : a = Len(s) /\ b = Len(t) /\ k \in 2 .. a + b /\ k <= a
      BY <1>1, <1>3, <1>5, <2>1
    <3>2. k \in 2 .. a /\ k \in 1 .. a + b
      BY <3>1
    <3>3. u[k] = s[k] /\ k \in 2 .. Len(s)
      BY <1>3, <3>1, <3>2
    <3> QED BY <3>3 DEF AfterPreamble
  <2>2. CASE k > Len(s)
    <3>1. k - Len(s) \in 1 .. Len(t)
      BY <1>1, <1>3, <1>5, <2>2
    <3>2. t[k - Len(s)] = w + Len(s) - 1 + (k - Len(s))
      BY <3>1 DEF After
    <3> QED BY <1>1, <1>3, <1>5, <2>2, <3>2
  <2> QED BY <1>1, <1>3, <1>5, <2>1, <2>2
<1> QED BY <1>2, <1>3, <1>4, <1>5 DEF AfterPreamble
-----------------------------------------------------------------------------
(* A block, and what it leaves.                                             *)

LEMMA WholeBlock ==
  ASSUME NEW i, NEW want \in Nat, Wanted(proc[i]) = want, ~Short(i),
         proc[i].does.takes # "nothing", proc[i].does.loads = "first",
         proc[i].got \in Nat, After(proc[i].got, proc[i].buf),
         After(proc[i].got + Len(proc[i].buf), pipe[i])
  PROVE  /\ want <= Len(pipe[i]) /\ Len(Fresh(i)) = want
         /\ After(proc[i].got, Block(i)) /\ Len(Block(i)) = Len(proc[i].buf) + want
<1>1. PICK p : p = proc[i]
  OBVIOUS
<1>2. PICK s : s = pipe[i]
  OBVIOUS
<1>3. PICK w \in Nat : w = p.got + Len(p.buf)
  BY <1>1 DEF After
<1>4. After(w, s) /\ Len(s) \in Nat
  BY <1>1, <1>2, <1>3 DEF After
<1>5. want <= Len(s) /\ Fresh(i) = SubSeq(s, 1, want)
  <2>1. PICK n \in Nat : n = IF want < Len(s) THEN want ELSE Len(s)
    BY <1>4
  <2>2. Fresh(i) = SubSeq(s, 1, n) /\ n <= Len(s)
    BY <1>2, <1>4, <2>1 DEF Fresh
  <2>3. Len(SubSeq(s, 1, n)) = n
    BY <1>3, <1>4, <2>2, Slice, 0 \in Nat
  <2>4. ~(n < want)
    BY <2>2, <2>3 DEF Short
  <2> QED BY <1>4, <2>1, <2>2, <2>4
<1>6. After(w, Fresh(i)) /\ Len(Fresh(i)) = want
  <2>1. PICK m \in Nat : m = 0
    OBVIOUS
  <2>2. m <= want /\ want <= Len(s)
    BY <1>5, <2>1
  <2>3. After(w + m, SubSeq(s, m + 1, want)) /\ Len(SubSeq(s, m + 1, want)) = want - m
    BY <1>4, <2>2, Slice
  <2>4. w + m = w /\ m + 1 = 1 /\ want - m = want
    BY <2>1
  <2> QED BY <1>5, <2>3, <2>4
<1>7. PICK none : none = Junks(0)
  OBVIOUS
<1>8. After(w + want, none) /\ Len(none) = 0
  BY <1>7 DEF Junks, After
<1>9. PICK fresh : fresh = Fresh(i)
  OBVIOUS
<1>10. Block(i) = p.buf \o fresh \o none
  <2>1. Block(i) = p.buf \o Fresh(i) \o Junks(Wanted(p) - Len(Fresh(i)))
    BY <1>1 DEF Block
  <2>2. Wanted(p) - Len(Fresh(i)) = 0
    BY <1>1, <1>6
  <2> QED BY <1>7, <1>9, <2>1, <2>2, Zenon
<1>11. PICK g \in Nat : g = p.got
  BY <1>1
<1>12. PICK m \in Nat : m = Len(p.buf)
  BY <1>1 DEF After
<1>13. PICK kept : kept = p.buf
  OBVIOUS
<1>14. After(g, kept) /\ Len(kept) = m /\ w = g + m
  BY <1>1, <1>3, <1>11, <1>12, <1>13
<1>15. PICK b : b = kept \o fresh
  OBVIOUS
<1>16. After(g, b) /\ Len(b) = m + want
  <2>1. After(g + Len(kept), fresh)
    <3>1. g + Len(kept) = w
      BY <1>14
    <3> QED BY <1>6, <1>9, <3>1, Zenon
  <2>2. After(g, kept)
    BY <1>14
  <2>3. After(g, kept \o fresh) /\ Len(kept \o fresh) = Len(kept) + Len(fresh)
    BY <2>1, <2>2, Joined
  <2> QED BY <1>6, <1>9, <1>14, <1>15, <2>3
<1>17. After(g, b \o none) /\ Len(b \o none) = m + want
  <2>1. After(g + Len(b), none)
    <3>1. g + Len(b) = w + want
      BY <1>14, <1>16
    <3> QED BY <1>8, <3>1, Zenon
  <2>2. After(g, b \o none) /\ Len(b \o none) = Len(b) + Len(none)
    BY <1>16, <2>1, Joined
  <2> QED BY <1>8, <1>16, <2>2
<1> QED BY <1>1, <1>2, <1>5, <1>6, <1>10, <1>11, <1>12, <1>13, <1>15, <1>17

UsesUp(w, block, u) ==
  /\ Max({w} \cup {block[k] : k \in 1 .. u}) = w + u
  /\ After(w + u, SubSeq(block, u + 1, Len(block)))
  /\ Len(SubSeq(block, u + 1, Len(block))) = Len(block) - u
  /\ \A k \in 1 .. Len(block) : block[k] = w + k

LEMMA UsedUp ==
  ASSUME NEW w \in Nat, NEW block, After(w, block), NEW u \in Nat, u <= Len(block)
  PROVE  UsesUp(w, block, u)
<1>1. PICK n \in Nat : n = Len(block)
  BY DEF After
<1>2. \A k \in 1 .. n : block[k] = w + k
  BY <1>1 DEF After
<1>3. PICK S : S = {w} \cup {block[k] : k \in 1 .. u}
  OBVIOUS
<1>4. S = w .. w + u
  <2>1. \A x \in S : x \in w .. w + u
    BY <1>1, <1>2, <1>3
  <2>2. ASSUME NEW x \in w .. w + u
        PROVE  x \in S
    <3>1. CASE x = w
      BY <1>3, <3>1
    <3>2. CASE x # w
      <4>1. x - w \in 1 .. u /\ x = w + (x - w)
        BY <2>2, <3>2
      <4>2. block[x - w] = x
        BY <1>1, <1>2, <4>1
      <4> QED BY <1>3, <4>1, <4>2
    <3> QED BY <3>1, <3>2
  <2> QED BY <2>1, <2>2
<1>5. w + u \in S /\ \A y \in S : w + u >= y
  BY <1>4
<1>6. Max(S) \in S /\ \A y \in S : Max(S) >= y
  BY <1>5 DEF Max
<1>7. Max(S) = w + u
  BY <1>4, <1>5, <1>6
<1>8. After(w + u, SubSeq(block, u + 1, n)) /\ Len(SubSeq(block, u + 1, n)) = n - u
  BY <1>1, Slice
<1> QED BY <1>1, <1>2, <1>3, <1>7, <1>8, Zenon DEF UsesUp
-----------------------------------------------------------------------------
(* The invariant.                                                           *)

Last == IF dynamic THEN 3 ELSE 2

Shape ==
  /\ dynamic \in BOOLEAN
  /\ DOMAIN proc = 1 .. Last /\ Len(proc) = Last /\ DOMAIN pipe = 1 .. Last
  /\ \A i \in 1 .. Last :
       /\ DOMAIN proc[i] = Fields
       /\ DoesWell(proc[i].does)
       /\ dynamic /\ i = 1 => proc[i].does = clone_
       /\ dynamic /\ i = 3 => proc[i].does.works \in Simple

\* Something to the left of a stdout of i, or i itself, may pad or is excepted.
MayPad(i) == \E j \in 1 .. i : proc[j].eof \/ Excepted(i, j)

\* What process p has used up, keeps and is about to write is in order, and the
\* size it has agreed on is one that it can work with.
ProcessInOrder(d, i, p) ==
  /\ p.got \in Nat /\ p.gave \in Nat
  /\ After(p.got, p.buf)
  /\ Len(p.held) <= p.gave /\ After(p.gave - Len(p.held), p.held)
  /\ ~p.junk
  /\ p.at \in {"size", "announce", "load"} => p.held = << >>
  /\ p.at \in {"size", "announce"} \/ p.does.works \in Simple => p.buf = << >>
  /\ p.at # "size" => /\ p.size \in Nat \ {0}
                      /\ p.does.works # "overlap" => Len(p.buf) <= p.size
                      /\ p.does.works \notin Simple => p.size >= taps_length
                      /\ p.does.sends = "half" => p.size >= 2
  /\ d /\ i = 1 => p.size = bufsize /\ p.at # "size"

\* Its stdin s holds what follows, up to what its writer u has written; before
\* p has asked for its size, behind a preamble, or u has yet to announce one.
StdinInOrder(d, i, p, s, u) ==
  LET next  == p.got + Len(p.buf)
      given == u.gave - Len(u.held)
  IN IF d /\ p.at = "size"
     THEN \/ s = << >> /\ next = given /\ u.at \in {"size", "announce", "ended"}
          \/ /\ AfterPreamble(next, s) /\ next + Len(s) - 1 = given
             /\ u.at \in {"load", "write", "ended"}
             /\ i = 2 => taps_length <= -s[1]
     ELSE /\ After(next, s) /\ next + Len(s) = given
          /\ d => u.at \in {"load", "write", "ended"}

InOrderAt(i) ==
  /\ ProcessInOrder(dynamic, i, proc[i])
  /\ IF i = 1 THEN After(proc[1].got + Len(proc[1].buf), pipe[1])
     ELSE StdinInOrder(dynamic, i, proc[i], pipe[i], proc[i - 1])

CsdrInv == Shape /\ \A i \in 1 .. Last : ~MayPad(i) => InOrderAt(i)
-----------------------------------------------------------------------------
\* One element of a function changes.
LEMMA Updated ==
  ASSUME NEW f, NEW n \in Nat, DOMAIN f = 1 .. n, NEW j \in 1 .. n, NEW q,
         NEW g, g = [f EXCEPT ![j] = q]
  PROVE  /\ DOMAIN g = 1 .. n /\ Len(g) = n
         /\ g[j] = q /\ \A i \in 1 .. n : i # j => g[i] = f[i]
<1>1. DOMAIN g = 1 .. n /\ g[j] = q /\ \A i \in 1 .. n : i # j => g[i] = f[i]
  OBVIOUS
<1>2. g = [i \in 1 .. n |-> g[i]]
  OBVIOUS
<1>3. PICK T : T = {g[i] : i \in 1 .. n}
  OBVIOUS
<1>4. \A i \in 1 .. n : g[i] \in T
  BY <1>3
<1>5. g \in Seq(T)
  <2>1. PICK h : h = [i \in 1 .. n |-> g[i]]
    OBVIOUS
  <2>2. h \in Seq(T)
    BY <1>4, <2>1
  <2> QED BY <1>2, <2>1, <2>2, Zenon
<1>6. PICK m \in Nat : m = Len(g) /\ DOMAIN g = 1 .. m
  BY <1>5, LenProperties
<1>7. m = n
  <2>1. \A k \in Nat : k \in 1 .. m <=> k \in 1 .. n
    BY <1>1, <1>6
  <2>2. (n >= 1 => n \in 1 .. m) /\ (m >= 1 => m \in 1 .. n)
    BY <1>6, <2>1
  <2> QED BY <1>6, <2>2
<1> QED BY <1>1, <1>6, <1>7

LEMMA CloneDoes == DoesWell(clone_) /\ clone_.sends = "same" /\ clone_.works \in Simple
BY DEF clone_, Does, DoesWell, Simple
-----------------------------------------------------------------------------
(* A step of one process changes it, its stdin and that of the next.        *)

\* What a step of process j leaves as it is.
Touches(j) ==
  /\ dynamic' = dynamic
  /\ proc'[j].does = proc[j].does /\ (proc[j].eof => proc'[j].eof)
  /\ \A i \in 1 .. Last : i # j => proc'[i] = proc[i]
  /\ \A i \in 1 .. Last : i \notin {j, j + 1} => pipe'[i] = pipe[i]

LEMMA ProcessChanged ==
  ASSUME Shape, NEW j \in 1 .. Last, NEW q, DOMAIN q = Fields,
         q.does = proc[j].does, proc[j].eof => q.eof,
         proc' = [proc EXCEPT ![j] = q], dynamic' = dynamic, DOMAIN pipe' = DOMAIN pipe,
         \A i \in 1 .. Last : i \notin {j, j + 1} => pipe'[i] = pipe[i]
  PROVE  Shape' /\ Touches(j) /\ proc'[j] = q
<1>1. Last \in Nat /\ Last' = Last
  BY DEF Last
<1>2. DOMAIN proc = 1 .. Last
  BY DEF Shape
<1>3. /\ DOMAIN proc' = 1 .. Last /\ Len(proc') = Last
      /\ proc'[j] = q /\ \A i \in 1 .. Last : i # j => proc'[i] = proc[i]
  BY <1>1, <1>2, Updated
<1>4. \A i \in 1 .. Last : DOMAIN proc'[i] = Fields /\ proc'[i].does = proc[i].does
  BY <1>3 DEF Shape
<1>5. Shape'
  BY <1>1, <1>3, <1>4 DEF Shape
<1> QED BY <1>3, <1>5 DEF Touches

LEMMA PaddingStays ==
  ASSUME Shape, NEW j \in 1 .. Last, Touches(j), NEW i \in 1 .. Last, MayPad(i)
  PROVE  MayPad(i)'
<1>1. PICK k \in 1 .. i : proc[k].eof \/ Excepted(i, k)
  BY DEF MayPad
<1>2. k \in 1 .. Last
  BY DEF Last
<1>3. proc'[k].does = proc[k].does /\ (proc[k].eof => proc'[k].eof) /\ dynamic' = dynamic
  BY <1>2 DEF Touches
<1>4. Excepted(i, k) => Excepted(i, k)'
  BY <1>3 DEF Excepted
<1> QED BY <1>1, <1>3, <1>4 DEF MayPad

LEMMA PaddingGoesOn ==
  ASSUME Shape, NEW j \in 1 .. Last, MayPad(j), j + 1 \in 1 .. Last
  PROVE  MayPad(j + 1)
<1>1. PICK k \in 1 .. j : proc[k].eof \/ Excepted(j, k)
  BY DEF MayPad
<1>2. k \in 1 .. j + 1 /\ k \in Int /\ (k < j => k < j + 1)
  BY DEF Last
<1>3. Excepted(j, k) => Excepted(j + 1, k)
  BY <1>2 DEF Excepted
<1> QED BY <1>1, <1>2, <1>3 DEF MayPad

LEMMA StepKeeps ==
  ASSUME CsdrInv, NEW j \in 1 .. Last, Touches(j), Shape',
         InOrderAt(j) /\ ~MayPad(j)' => InOrderAt(j)',
         j + 1 \in 1 .. Last /\ InOrderAt(j) /\ InOrderAt(j + 1) /\ ~MayPad(j + 1)'
           => InOrderAt(j + 1)'
  PROVE  CsdrInv'
<1>1. Last' = Last /\ Last \in Nat /\ dynamic' = dynamic /\ Shape
  BY DEF Last, Touches, CsdrInv
<1>2. ASSUME NEW i \in 1 .. Last, ~MayPad(i)'
      PROVE  InOrderAt(i)'
  <2>1. ~MayPad(i) /\ InOrderAt(i)
    BY <1>1, <1>2, PaddingStays DEF CsdrInv
  <2>2. CASE i = j
    BY <1>2, <2>1, <2>2
  <2>3. CASE i = j + 1
    <3>1. ~MayPad(j)
      BY <1>1, <2>1, <2>3, PaddingGoesOn
    <3>2. InOrderAt(j)
      BY <3>1 DEF CsdrInv
    <3> QED BY <1>2, <2>1, <2>3, <3>2
  <2>4. CASE i \notin {j, j + 1}
    <3>1. proc'[i] = proc[i] /\ pipe'[i] = pipe[i]
      BY <2>4 DEF Touches
    <3>2. i # 1 => proc'[i - 1] = proc[i - 1]
      <4>1. i # 1 => i - 1 \in 1 .. Last /\ i - 1 # j
        BY <1>1, <2>4
      <4> QED BY <4>1 DEF Touches
    <3>3. CASE i = 1
      BY <1>1, <2>1, <3>1, <3>3 DEF InOrderAt
    <3>4. CASE i # 1
      BY <1>1, <2>1, <3>1, <3>2, <3>4 DEF InOrderAt
    <3> QED BY <3>3, <3>4
  <2> QED BY <2>2, <2>3, <2>4
<1> QED BY <1>1, <1>2 DEF CsdrInv

\* A write ends the process or puts tokens on the stdin of the next one.
EndsOrPuts(j, q, tokens) ==
  \/ proc'[j] = [proc[j] EXCEPT !.at = "ended"] /\ pipe' = pipe
  \/ proc'[j] = q /\ (j + 1 \in 1 .. Last => pipe'[j + 1] = pipe[j + 1] \o tokens)

LEMMA PutsOut ==
  ASSUME Shape, NEW j \in 1 .. Last, NEW q, DOMAIN q = Fields,
         q.does = proc[j].does, proc[j].eof => q.eof, dynamic' = dynamic,
         NEW tokens, PutOut(j, q, tokens)
  PROVE  Shape' /\ Touches(j) /\ pipe'[j] = pipe[j] /\ EndsOrPuts(j, q, tokens)
<1>1. /\ Len(proc) = Last /\ Last \in Nat /\ DOMAIN pipe = 1 .. Last /\ DOMAIN proc = 1 .. Last
      /\ DOMAIN proc[j] = Fields
  BY DEF Shape, Last
<1>2. CASE tokens # << >> /\ NoReader(j)
  <2>1. PICK e : e = [proc[j] EXCEPT !.at = "ended"]
    OBVIOUS
  <2>2. proc' = [proc EXCEPT ![j] = e] /\ pipe' = pipe
    BY <1>2, <2>1 DEF PutOut
  <2>3. DOMAIN e = Fields /\ e.does = proc[j].does /\ e.eof = proc[j].eof
    BY <1>1, <2>1 DEF Fields
  <2>4. Shape' /\ Touches(j) /\ proc'[j] = e
    BY <2>2, <2>3, ProcessChanged
  <2> QED BY <2>1, <2>2, <2>4 DEF EndsOrPuts
<1>3. CASE ~(tokens # << >> /\ NoReader(j))
  <2>1. /\ proc' = [proc EXCEPT ![j] = q]
        /\ pipe' = IF j = Last THEN pipe ELSE [pipe EXCEPT ![j + 1] = @ \o tokens]
    BY <1>1, <1>3 DEF PutOut
  <2>2. DOMAIN pipe' = DOMAIN pipe /\ \A i \in 1 .. Last : i # j + 1 => pipe'[i] = pipe[i]
    BY <1>1, <2>1
  <2>3. j # j + 1 /\ (j + 1 \in 1 .. Last => j # Last)
    BY <1>1
  <2>4. j + 1 \in 1 .. Last => pipe'[j + 1] = pipe[j + 1] \o tokens
    BY <1>1, <2>1, <2>3
  <2>5. Shape' /\ Touches(j) /\ proc'[j] = q
    BY <2>1, <2>2, ProcessChanged
  <2> QED BY <2>2, <2>3, <2>4, <2>5 DEF EndsOrPuts
<1> QED BY <1>2, <1>3

\* A process that is ended by a signal.
LEMMA EndedInOrder ==
  ASSUME NEW d, NEW i, NEW p, DOMAIN p = Fields, p.at # "size", ProcessInOrder(d, i, p)
  PROVE  LET e == [p EXCEPT !.at = "ended"]
         IN /\ ProcessInOrder(d, i, e) /\ e.got = p.got /\ e.buf = p.buf
            /\ \A s, u : StdinInOrder(d, i, p, s, u) => StdinInOrder(d, i, e, s, u)
<1>1. PICK e : e = [p EXCEPT !.at = "ended"]
  OBVIOUS
<1>2. /\ e.at = "ended" /\ e.does = p.does /\ e.size = p.size /\ e.buf = p.buf
      /\ e.held = p.held /\ e.got = p.got /\ e.gave = p.gave /\ e.junk = p.junk
  BY <1>1 DEF Fields
<1>3. ProcessInOrder(d, i, e)
  BY <1>2 DEF ProcessInOrder
<1>4. \A s, u : StdinInOrder(d, i, p, s, u) => StdinInOrder(d, i, e, s, u)
  BY <1>2 DEF StdinInOrder
<1> QED BY <1>1, <1>2, <1>3, <1>4

LEMMA WriterEnded ==
  ASSUME NEW d, NEW i, NEW p, NEW s, NEW u, DOMAIN u = Fields, StdinInOrder(d, i, p, s, u)
  PROVE  StdinInOrder(d, i, p, s, [u EXCEPT !.at = "ended"])
<1>1. PICK e : e = [u EXCEPT !.at = "ended"]
  OBVIOUS
<1>2. e.at = "ended" /\ e.held = u.held /\ e.gave = u.gave
  BY <1>1 DEF Fields
<1>3. StdinInOrder(d, i, p, s, e)
  BY <1>2 DEF StdinInOrder
<1> QED BY <1>1, <1>3
-----------------------------------------------------------------------------
(* A process gets its size, and announces one.                              *)

LEMMA SizeFits ==
  ASSUME NEW does, NEW n \in Nat \ {0}
  PROVE  /\ Size(does, n) \in Nat \ {0} /\ n <= Size(does, n)
         /\ does.reads = "buffers" => Size(does, n) >= 4
<1>1. PICK q \in Nat : q = (n - 1) \div 4 /\ n - 1 <= q * 4 + 3
  BY Division
<1>2. unitround(n) = q * 4 + 4
  BY <1>1 DEF unitround
<1> QED BY <1>1, <1>2 DEF Size

\* The new size of p, if it is that of the preamble or the default.
LEMMA SizeAgreed ==
  ASSUME NEW d, NEW i, NEW p, DOMAIN p = Fields, DoesWell(p.does),
         p.at = "size", ProcessInOrder(d, i, p),
         NEW n \in Nat \ {0}, p.does.works \notin Simple => taps_length <= n,
         NEW q, q = [p EXCEPT !.size = Size(p.does, n), !.at = "announce"]
  PROVE  ProcessInOrder(d, i, q)
<1>2. /\ q.at = "announce" /\ q.does = p.does /\ q.size = Size(p.does, n) /\ q.buf = p.buf
      /\ q.held = p.held /\ q.got = p.got /\ q.gave = p.gave /\ q.junk = p.junk
  BY DEF Fields
<1>3. PICK z \in Nat \ {0} : /\ z = Size(p.does, n) /\ n <= z
                             /\ p.does.reads = "buffers" => z >= 4
  BY SizeFits
<1>4. p.does.works \notin Simple => z >= taps_length
  BY <1>3, CsdrAmounts
<1>5. p.does.sends = "half" => z >= 2
  BY <1>3 DEF DoesWell
<1>6. q.buf = << >> /\ q.held = << >> /\ Len(q.buf) <= z
  BY <1>2, <1>3, EmptySeq DEF ProcessInOrder
<1>7. ~(d /\ i = 1)
  BY DEF ProcessInOrder
<1>8. ProcessInOrder(d, i, q)
  BY <1>2, <1>3, <1>4, <1>5, <1>6, <1>7 DEF ProcessInOrder
<1> QED BY <1>8

LEMMA SizeAsked ==
  ASSUME CsdrInv, NEW j \in 1 .. Last, getbufsize(j)
  PROVE  CsdrInv'
<1>1. PICK p : p = proc[j]
  OBVIOUS
<1>2. PICK asked : asked = (dynamic /\ pipe[j] # << >>)
  OBVIOUS
<1>3. PICK n : n = (IF ~dynamic THEN bufsize
                    ELSE IF asked /\ Head(pipe[j]) < 0 THEN -Head(pipe[j]) ELSE Default)
  OBVIOUS
<1>4. PICK q : q = [p EXCEPT !.size = Size(p.does, n), !.at = "announce"]
  OBVIOUS
<1>5. /\ DOMAIN p = Fields /\ DoesWell(p.does) /\ dynamic \in BOOLEAN /\ Shape
      /\ DOMAIN pipe = 1 .. Last /\ DOMAIN proc = 1 .. Last /\ Last \in Nat
      /\ (dynamic /\ j = 3 => p.does.works \in Simple)
  BY <1>1 DEF CsdrInv, Shape, Last
<1>6. /\ p.at = "size" /\ dynamic' = dynamic
      /\ proc' = [proc EXCEPT ![j] = q]
      /\ pipe' = IF asked THEN [pipe EXCEPT ![j] = Tail(@)] ELSE pipe
      /\ dynamic /\ pipe[j] = << >> => NoMore(j)
  BY <1>1, <1>2, <1>3, <1>4 DEF getbufsize
<1>7. q.does = p.does /\ q.eof = p.eof /\ DOMAIN q = Fields /\ q.at = "announce"
      /\ q.gave = p.gave /\ q.held = p.held /\ q.got = p.got /\ q.buf = p.buf
  BY <1>4, <1>5 DEF Fields
<1>8. Shape' /\ Touches(j) /\ proc'[j] = q
  <2>1. DOMAIN pipe' = DOMAIN pipe /\ \A i \in 1 .. Last : i \notin {j, j + 1} => pipe'[i] = pipe[i]
    BY <1>5, <1>6
  <2> QED BY <1>1, <1>5, <1>6, <1>7, <2>1, ProcessChanged
<1>9. ASSUME InOrderAt(j), ~MayPad(j)'
      PROVE  InOrderAt(j)'
  <2>1. ProcessInOrder(dynamic, j, p)
    BY <1>1, <1>9 DEF InOrderAt
  <2>4. DOMAIN p = Fields /\ DoesWell(p.does) /\ p.at = "size"
    BY <1>5, <1>6
  <2>2. CASE ~dynamic
    <3>1. n = bufsize /\ n \in Nat \ {0} /\ taps_length <= n /\ pipe' = pipe
      BY <1>2, <1>3, <1>6, <2>2, CsdrAmounts
    <3>2. ProcessInOrder(dynamic, j, q)
      BY <1>4, <2>1, <2>4, <3>1, SizeAgreed
    <3>3. CASE j = 1
      BY <1>1, <1>6, <1>7, <1>8, <1>9, <3>1, <3>2, <3>3 DEF InOrderAt
    <3>4. CASE j # 1
      <4>1. proc'[j - 1] = proc[j - 1]
        <5>1. j - 1 \in 1 .. Last /\ j - 1 # j
          BY <1>5, <3>4
        <5> QED BY <1>8, <5>1 DEF Touches
      <4>2. StdinInOrder(dynamic, j, p, pipe[j], proc[j - 1])
        BY <1>1, <1>9, <3>4 DEF InOrderAt
      <4>3. StdinInOrder(dynamic, j, q, pipe[j], proc[j - 1])
        BY <1>7, <2>2, <4>2 DEF StdinInOrder
      <4> QED BY <1>6, <1>8, <3>1, <3>2, <3>4, <4>1, <4>3 DEF InOrderAt
    <3> QED BY <3>3, <3>4
  <2>3. CASE dynamic
    <3>1. j # 1 /\ j - 1 \in 1 .. Last /\ j - 1 # j
      BY <1>5, <1>6, <2>1, <2>3 DEF ProcessInOrder
    <3>2. PICK u : u = proc[j - 1]
      OBVIOUS
    <3>3. StdinInOrder(TRUE, j, p, pipe[j], u)
      BY <1>1, <1>9, <2>3, <3>1, <3>2 DEF InOrderAt
    <3>4. PICK next \in Nat : next = p.got + Len(p.buf)
      BY <2>1 DEF ProcessInOrder, After
    <3>5. CASE pipe[j] = << >>
      <4>1. u.at = "ended" /\ ~asked
        <5>1. j > 1
          BY <1>5, <3>1
        <5> QED BY <1>2, <1>6, <2>3, <3>2, <3>5, <5>1 DEF NoMore
      <4>2. n = Default /\ pipe'[j] = pipe[j]
        BY <1>3, <1>6, <2>3, <4>1
      <4>3. ProcessInOrder(dynamic, j, q)
        <5>1. n \in Nat \ {0} /\ taps_length <= n
          BY <4>2, CsdrAmounts
        <5> QED BY <1>4, <2>1, <2>4, <5>1, SizeAgreed
      <4>4. next = u.gave - Len(u.held)
        BY <1>6, <3>3, <3>4, <3>5 DEF StdinInOrder, AfterPreamble
      <4>5. After(next, << >>) /\ next + Len(<< >>) = next
        BY <3>4, NoneAfter
      <4>6. StdinInOrder(TRUE, j, q, << >>, u)
        BY <1>7, <3>4, <4>1, <4>3, <4>4, <4>5 DEF StdinInOrder
      <4> QED BY <1>6, <1>8, <2>3, <3>1, <3>2, <3>5, <4>2, <4>3, <4>6 DEF InOrderAt, Touches
    <3>6. CASE pipe[j] # << >>
      <4>1. PICK s : s = pipe[j]
        OBVIOUS
      <4>2. /\ AfterPreamble(next, s) /\ next + Len(s) - 1 = u.gave - Len(u.held)
            /\ u.at \in {"load", "write", "ended"} /\ (j = 2 => taps_length <= -s[1])
        BY <1>6, <3>3, <3>4, <3>6, <4>1 DEF StdinInOrder
      <4>3. /\ Len(s) \in Nat \ {0} /\ After(next, Tail(s)) /\ Len(Tail(s)) = Len(s) - 1
            /\ Head(s) = s[1] /\ s[1] \in Int /\ s[1] < 0
        BY <4>2, PreambleTaken
      <4>4. n = -s[1] /\ n \in Nat \ {0} /\ asked /\ pipe'[j] = Tail(s)
        <5>1. asked
          BY <1>2, <2>3, <3>6
        <5>2. n = -Head(pipe[j])
          BY <1>3, <2>3, <4>1, <4>3, <5>1
        <5>3. pipe'[j] = Tail(pipe[j])
          BY <1>5, <1>6, <5>1
        <5> QED BY <4>1, <4>3, <5>1, <5>2, <5>3
      <4>5. p.does.works \notin Simple => taps_length <= n
        <5>1. j = 2 \/ j = 3
          BY <1>5, <3>1 DEF Last
        <5> QED BY <1>5, <2>3, <4>2, <4>4, <5>1
      <4>6. ProcessInOrder(dynamic, j, q)
        BY <1>4, <2>1, <2>4, <4>4, <4>5, SizeAgreed
      <4>7. next + Len(Tail(s)) = u.gave - Len(u.held)
        BY <4>2, <4>3
      <4>8. StdinInOrder(TRUE, j, q, Tail(s), u)
        BY <1>7, <3>4, <4>2, <4>3, <4>6, <4>7 DEF StdinInOrder
      <4> QED BY <1>6, <1>8, <2>3, <3>1, <3>2, <4>4, <4>6, <4>8 DEF InOrderAt, Touches
    <3> QED BY <3>5, <3>6
  <2> QED BY <1>5, <2>2, <2>3
<1>10. ASSUME j + 1 \in 1 .. Last, InOrderAt(j), InOrderAt(j + 1), ~MayPad(j + 1)'
       PROVE  InOrderAt(j + 1)'
  <2>1. /\ proc'[j + 1] = proc[j + 1] /\ j + 1 # 1 /\ (j + 1) - 1 = j
        /\ pipe'[j + 1] = pipe[j + 1]
    <3>1. j + 1 # j /\ j + 1 # 1 /\ (j + 1) - 1 = j
      BY <1>5
    <3> QED BY <1>5, <1>6, <1>8, <1>10, <3>1 DEF Touches
  <2>2. /\ ProcessInOrder(dynamic, j + 1, proc[j + 1])
        /\ StdinInOrder(dynamic, j + 1, proc[j + 1], pipe[j + 1], p)
    BY <1>1, <1>10, <2>1 DEF InOrderAt
  <2>3. StdinInOrder(dynamic, j + 1, proc[j + 1], pipe[j + 1], q)
    BY <1>6, <1>7, <2>2 DEF StdinInOrder
  <2> QED BY <1>6, <1>8, <2>1, <2>2, <2>3 DEF InOrderAt
<1> QED BY <1>8, <1>9, <1>10, StepKeeps

\* A process that goes on with the same stdin.
LEMMA SameStdin ==
  ASSUME Shape, NEW j \in 1 .. Last, Touches(j), InOrderAt(j), pipe'[j] = pipe[j],
         ProcessInOrder(dynamic, j, proc'[j]),
         proc'[j].got = proc[j].got, proc'[j].buf = proc[j].buf,
         \A s, u : StdinInOrder(dynamic, j, proc[j], s, u)
                     => StdinInOrder(dynamic, j, proc'[j], s, u)
  PROVE  InOrderAt(j)'
<1>1. dynamic' = dynamic
  BY DEF Touches
<1>2. CASE j = 1
  BY <1>1, <1>2 DEF InOrderAt
<1>3. CASE j # 1
  <2>1. j - 1 \in 1 .. Last /\ j - 1 # j
    BY <1>3 DEF Last
  <2>2. proc'[j - 1] = proc[j - 1]
    BY <2>1 DEF Touches
  <2> QED BY <1>1, <1>3, <2>2 DEF InOrderAt
<1> QED BY <1>2, <1>3

LEMMA AnnouncedFits ==
  ASSUME NEW p, DoesWell(p.does), p.does.sends # "nothing", p.size \in Nat \ {0},
         p.does.sends = "half" => p.size >= 2
  PROVE  Announced(p) \in Nat \ {0} /\ (p.does.sends = "same" => Announced(p) = p.size)
<1>1. CASE p.does.sends = "half"
  <2>1. PICK q \in Nat : q = p.size \div 2 /\ q >= 1
    <3>1. PICK n \in Nat : n = p.size /\ n >= 2
      BY <1>1
    <3> QED BY <3>1
  <2> QED BY <1>1, <2>1 DEF Announced
<1>2. CASE p.does.sends # "half"
  BY <1>2, CsdrAmounts DEF Announced, DoesWell
<1> QED BY <1>1, <1>2

\* What is known of a process when something at or behind it may not pad.
LEMMA NotExcepted ==
  ASSUME Shape, NEW j \in 1 .. Last, Touches(j),
         NEW i \in {j, j + 1}, ~MayPad(i)'
  PROVE  /\ proc[j].does.loads = "first" /\ proc[j].does.takes # "nothing" /\ ~proc'[j].eof
         /\ dynamic => /\ proc[j].does.reads \notin {"never", "anew"}
                       /\ proc[j].does.sends # "nothing"
<1>1. j \in 1 .. i /\ j \in Int
  BY DEF Last
<1>2. ~proc'[j].eof /\ ~Excepted(i, j)'
  BY <1>1 DEF MayPad
<1>3. proc'[j].does = proc[j].does /\ dynamic' = dynamic
  BY DEF Touches
<1>4. DoesWell(proc[j].does)
  BY DEF Shape
<1> QED BY <1>2, <1>3, <1>4 DEF Excepted, DoesWell

LEMMA SizeAnnounced ==
  ASSUME CsdrInv, NEW j \in 1 .. Last, sendbufsize(j)
  PROVE  CsdrInv'
<1>1. PICK p : p = proc[j]
  OBVIOUS
<1>2. PICK q : q = [p EXCEPT !.at = "load",
                             !.buf = IF p.does.loads = "late" THEN Junks(p.size) ELSE << >>]
  OBVIOUS
<1>3. PICK tokens : tokens = IF dynamic THEN <<-Announced(p)>> ELSE << >>
  OBVIOUS
<1>4. /\ DOMAIN p = Fields /\ DoesWell(p.does) /\ dynamic \in BOOLEAN /\ Shape
      /\ Last \in Nat /\ (dynamic /\ j = 1 => p.does = clone_)
  BY <1>1 DEF CsdrInv, Shape, Last
<1>5. p.at = "announce" /\ PutOut(j, q, tokens) /\ dynamic' = dynamic
  BY <1>1, <1>2, <1>3 DEF sendbufsize
<1>6. /\ q.does = p.does /\ q.eof = p.eof /\ DOMAIN q = Fields /\ q.at = "load"
      /\ q.size = p.size /\ q.held = p.held /\ q.got = p.got /\ q.gave = p.gave
      /\ q.junk = p.junk /\ (p.does.loads = "first" => q.buf = << >>)
  BY <1>2, <1>4 DEF Fields
<1>7. /\ Shape' /\ Touches(j) /\ pipe'[j] = pipe[j]
      /\ \/ proc'[j] = [p EXCEPT !.at = "ended"] /\ pipe' = pipe
         \/ proc'[j] = q /\ (j + 1 \in 1 .. Last => pipe'[j + 1] = pipe[j + 1] \o tokens)
  <2>1. q.does = proc[j].does /\ (proc[j].eof => q.eof) /\ DOMAIN q = Fields
    BY <1>1, <1>6
  <2>2. Shape /\ PutOut(j, q, tokens) /\ dynamic' = dynamic
    BY <1>4, <1>5
  <2>3. Shape' /\ Touches(j) /\ pipe'[j] = pipe[j] /\ EndsOrPuts(j, q, tokens)
    BY <2>1, <2>2, PutsOut, Zenon
  <2> QED BY <1>1, <2>3 DEF EndsOrPuts
<1>8. \A i \in {j, j + 1} : ~MayPad(i)' =>
        /\ p.does.loads = "first"
        /\ dynamic => p.does.sends # "nothing"
  BY <1>1, <1>4, <1>7, NotExcepted
<1>9. ASSUME InOrderAt(j), ~MayPad(j)'
      PROVE  InOrderAt(j)'
  <2>1. ProcessInOrder(dynamic, j, p)
    BY <1>1, <1>9 DEF InOrderAt
  <2>2. p.buf = << >> /\ p.held = << >> /\ q.buf = << >>
    BY <1>5, <1>6, <1>8, <1>9, <2>1 DEF ProcessInOrder
  <2>3. ProcessInOrder(dynamic, j, q)
    BY <1>4, <1>5, <1>6, <2>1, <2>2 DEF ProcessInOrder
  <2>4. \A s, u : StdinInOrder(dynamic, j, p, s, u) => StdinInOrder(dynamic, j, q, s, u)
    BY <1>5, <1>6, <2>2 DEF StdinInOrder
  <2>5. /\ ProcessInOrder(dynamic, j, proc'[j])
        /\ proc'[j].got = p.got /\ proc'[j].buf = p.buf
        /\ \A s, u : StdinInOrder(dynamic, j, p, s, u) => StdinInOrder(dynamic, j, proc'[j], s, u)
    <3>1. CASE proc'[j] = q
      BY <1>6, <2>2, <2>3, <2>4, <3>1
    <3>2. CASE proc'[j] = [p EXCEPT !.at = "ended"]
      <4>1. p.at # "size"
        BY <1>5
      <4> QED BY <1>4, <2>1, <3>2, <4>1, EndedInOrder
    <3> QED BY <1>7, <3>1, <3>2
  <2>6. /\ ProcessInOrder(dynamic, j, proc'[j])
        /\ proc'[j].got = proc[j].got /\ proc'[j].buf = proc[j].buf
        /\ \A s, u : StdinInOrder(dynamic, j, proc[j], s, u)
                       => StdinInOrder(dynamic, j, proc'[j], s, u)
    BY <1>1, <2>5
  <2> QED BY <1>4, <1>7, <1>9, <2>6, SameStdin
<1>10. ASSUME j + 1 \in 1 .. Last, InOrderAt(j), InOrderAt(j + 1), ~MayPad(j + 1)'
       PROVE  InOrderAt(j + 1)'
  <2>1. PICK r : r = proc[j + 1]
    OBVIOUS
  <2>2. /\ proc'[j + 1] = r /\ j + 1 # 1 /\ (j + 1) - 1 = j
    <3>1. j + 1 # j /\ j + 1 # 1 /\ (j + 1) - 1 = j
      BY <1>4
    <3> QED BY <1>7, <1>10, <2>1, <3>1 DEF Touches
  <2>3. ProcessInOrder(dynamic, j, p)
    BY <1>1, <1>10 DEF InOrderAt
  <2>4. /\ ProcessInOrder(dynamic, j + 1, r)
        /\ StdinInOrder(dynamic, j + 1, r, pipe[j + 1], p)
    BY <1>1, <1>10, <2>1, <2>2 DEF InOrderAt
  <2>5. StdinInOrder(dynamic, j + 1, r, pipe'[j + 1], proc'[j])
    <3>1. CASE proc'[j] = [p EXCEPT !.at = "ended"] /\ pipe' = pipe
      BY <1>4, <2>4, <3>1, WriterEnded
    <3>2. CASE proc'[j] = q /\ pipe'[j + 1] = pipe[j + 1] \o tokens
      <4>1. CASE ~dynamic
        <5>1. After(r.got + Len(r.buf), pipe[j + 1])
          BY <2>4, <4>1 DEF StdinInOrder
        <5>2. pipe[j + 1] \o tokens = pipe[j + 1]
          BY <1>3, <4>1, <5>1, NothingMore, SeqMonotonic DEF After
        <5> QED BY <1>6, <2>4, <3>2, <4>1, <5>2 DEF StdinInOrder
      <4>2. CASE dynamic
        <5>1. PICK next \in Nat : next = r.got + Len(r.buf)
          BY <2>4 DEF ProcessInOrder, After
        <5>2. r.at = "size" /\ pipe[j + 1] = << >> /\ next = p.gave - Len(p.held)
          BY <1>5, <2>4, <4>2, <5>1 DEF StdinInOrder
        <5>3. PICK n \in Nat \ {0} : n = Announced(p) /\ (p.does.sends = "same" => n = p.size)
          <6>1. p.size \in Nat \ {0} /\ (p.does.sends = "half" => p.size >= 2)
            BY <1>5, <2>3 DEF ProcessInOrder
          <6>2. p.does.sends # "nothing"
            BY <1>8, <1>10, <4>2
          <6> QED BY <1>4, <6>1, <6>2, AnnouncedFits
        <5>4. PICK s : s = << >> \o <<-n>>
          OBVIOUS
        <5>5. AfterPreamble(next, s) /\ Len(s) = 1 /\ s[1] = -n
          BY <5>4, OnePreamble
        <5>6. pipe'[j + 1] = s
          BY <1>3, <3>2, <4>2, <5>2, <5>3, <5>4
        <5>7. j + 1 = 2 => taps_length <= -s[1]
          <6>1. j + 1 = 2 => j = 1
            BY <1>4
          <6>2. j = 1 => n = bufsize
            BY <1>4, <2>3, <4>2, <5>3, CloneDoes DEF ProcessInOrder
          <6> QED BY <5>5, <6>1, <6>2, CsdrAmounts
        <5>8. next + Len(s) - 1 = q.gave - Len(q.held)
          BY <1>6, <5>2, <5>5
        <5>9. StdinInOrder(TRUE, j + 1, r, s, q)
          BY <1>6, <5>1, <5>2, <5>5, <5>7, <5>8 DEF StdinInOrder
        <5> QED BY <3>2, <4>2, <5>6, <5>9
      <4> QED BY <1>4, <4>1, <4>2
    <3> QED BY <1>7, <1>10, <3>1, <3>2
  <2> QED BY <1>5, <2>2, <2>4, <2>5 DEF InOrderAt
<1> QED BY <1>7, <1>9, <1>10, StepKeeps
-----------------------------------------------------------------------------
(* A block is loaded, and its result written.                               *)

\* Process i behind a read, with r of its block.
Loaded(i, r) ==
  LET p == proc[i]
      block == Block(i)
      inOrder == \A k \in 1 .. Len(block) : block[k] = p.got + k
  IN [p EXCEPT !.eof  = @ \/ Short(i),
               !.buf  = IF p.does.takes = "nothing" THEN << >>
                        ELSE SubSeq(block, r.used + 1, Len(block)),
               !.got  = Max({@} \cup {block[k] : k \in 1 .. r.used}),
               !.held = IF inOrder THEN [k \in 1 .. r.out |-> p.gave + k]
                        ELSE Junks(r.out),
               !.gave = IF inOrder THEN @ + r.out ELSE @,
               !.at   = IF r.used = 0 /\ p.does.works = "serial" THEN "ended"
                        ELSE "write"]

LoadsTo(i, r, q) ==
  /\ DOMAIN q = Fields /\ q.does = proc[i].does /\ q.size = proc[i].size
  /\ q.junk = proc[i].junk /\ q.at \in {"write", "ended"}
  /\ q.eof = (proc[i].eof \/ Short(i))
  /\ proc[i].does.takes # "nothing" => q.buf = SubSeq(Block(i), r.used + 1, Len(Block(i)))
  /\ q.got = Max({proc[i].got} \cup {Block(i)[k] : k \in 1 .. r.used})
  /\ (\A k \in 1 .. Len(Block(i)) : Block(i)[k] = proc[i].got + k) =>
       /\ q.held = [k \in 1 .. r.out |-> proc[i].gave + k]
       /\ q.gave = proc[i].gave + r.out

LEMMA LoadedFields ==
  ASSUME NEW i, NEW r, DOMAIN proc[i] = Fields, NEW q, q = Loaded(i, r)
  PROVE  LoadsTo(i, r, q)
<1> DEFINE inOrder == \A k \in 1 .. Len(Block(i)) : Block(i)[k] = proc[i].got + k
<1>1. PICK eof : eof = (proc[i].eof \/ Short(i))
  OBVIOUS
<1>2. PICK buf : buf = IF proc[i].does.takes = "nothing" THEN << >>
                       ELSE SubSeq(Block(i), r.used + 1, Len(Block(i)))
  OBVIOUS
<1>3. PICK taken : taken = Max({proc[i].got} \cup {Block(i)[k] : k \in 1 .. r.used})
  OBVIOUS
<1>4. PICK held : held = IF inOrder THEN [k \in 1 .. r.out |-> proc[i].gave + k]
                         ELSE Junks(r.out)
  OBVIOUS
<1>5. PICK gave : gave = IF inOrder THEN proc[i].gave + r.out ELSE proc[i].gave
  OBVIOUS
<1>6. PICK place : place = IF r.used = 0 /\ proc[i].does.works = "serial" THEN "ended" ELSE "write"
  OBVIOUS
<1>7. q = [proc[i] EXCEPT !.eof = eof, !.buf = buf, !.got = taken, !.held = held,
                          !.gave = gave, !.at = place]
  BY <1>1, <1>2, <1>3, <1>4, <1>5, <1>6, Zenon DEF Loaded
<1>8. place \in {"write", "ended"}
  BY <1>6
<1> HIDE DEF inOrder
<1>9. /\ DOMAIN q = Fields /\ q.does = proc[i].does /\ q.size = proc[i].size
      /\ q.junk = proc[i].junk
      /\ q.at = place /\ q.eof = eof /\ q.buf = buf /\ q.got = taken /\ q.held = held /\ q.gave = gave
  BY <1>7 DEF Fields
<1>10. /\ proc[i].does.takes # "nothing"
            => q.buf = SubSeq(Block(i), r.used + 1, Len(Block(i)))
       /\ inOrder => /\ q.held = [k \in 1 .. r.out |-> proc[i].gave + k]
                     /\ q.gave = proc[i].gave + r.out
  BY <1>2, <1>4, <1>5, <1>9, Zenon
<1> QED BY <1>1, <1>3, <1>8, <1>9, <1>10, Zenon DEF inOrder, LoadsTo

LEMMA Loads ==
  ASSUME Shape, NEW j \in 1 .. Last, load(j)
  PROVE  /\ Shape' /\ Touches(j)
         /\ \E r \in Work(proc[j].does.works, Len(Block(j))) : LoadsTo(j, r, proc'[j])
         /\ pipe'[j] = SubSeq(pipe[j], Len(Fresh(j)) + 1, Len(pipe[j]))
         /\ j + 1 \in 1 .. Last => pipe'[j + 1] = pipe[j + 1]
<1>1. PICK r \in Work(proc[j].does.works, Len(Block(j))) :
        proc' = [proc EXCEPT ![j] = Loaded(j, r)]
  BY Zenon DEF load, Loaded
<1>2. dynamic' = dynamic /\ pipe' = [pipe EXCEPT ![j] = SubSeq(@, Len(Fresh(j)) + 1, Len(@))]
  BY DEF load
<1>3. PICK q : q = Loaded(j, r)
  OBVIOUS
<1>4. DOMAIN proc[j] = Fields /\ Last \in Nat /\ DOMAIN pipe = 1 .. Last
  BY DEF Shape, Last
<1>5. LoadsTo(j, r, q)
  BY <1>3, <1>4, LoadedFields
<1>6. /\ DOMAIN pipe' = DOMAIN pipe /\ \A i \in 1 .. Last : i # j => pipe'[i] = pipe[i]
      /\ pipe'[j] = SubSeq(pipe[j], Len(Fresh(j)) + 1, Len(pipe[j]))
  BY <1>2, <1>4
<1>7. \A i \in 1 .. Last : i \notin {j, j + 1} => pipe'[i] = pipe[i]
  BY <1>6
<1>8. proc' = [proc EXCEPT ![j] = q]
  BY <1>1, <1>3
<1>9. DOMAIN q = Fields /\ q.does = proc[j].does /\ (proc[j].eof => q.eof)
  BY <1>5, Zenon DEF LoadsTo
<1>10. Shape' /\ Touches(j) /\ proc'[j] = q
  BY <1>2, <1>6, <1>7, <1>8, <1>9, ProcessChanged
<1>11. j + 1 # j
  BY <1>4
<1> QED BY <1>5, <1>6, <1>10, <1>11

\* What a whole block leaves in order.
BlockInOrder(j, p, q) ==
  /\ ProcessInOrder(dynamic, j, q) /\ q.at \in {"write", "ended"}
  /\ q.gave - Len(q.held) = p.gave
  /\ After(q.got + Len(q.buf), pipe'[j])
  /\ q.got + Len(q.buf) + Len(pipe'[j]) = p.got + Len(p.buf) + Len(pipe[j])

LEMMA WholeBlockLoaded ==
  ASSUME CsdrInv, NEW j \in 1 .. Last, load(j), InOrderAt(j), ~Short(j),
         proc[j].does.loads = "first", proc[j].does.takes # "nothing",
         NEW r \in Work(proc[j].does.works, Len(Block(j))),
         NEW q, LoadsTo(j, r, q),
         pipe'[j] = SubSeq(pipe[j], Len(Fresh(j)) + 1, Len(pipe[j]))
  PROVE  BlockInOrder(j, proc[j], q)
<1>1. PICK p : p = proc[j]
  OBVIOUS
<1>2. /\ ProcessInOrder(dynamic, j, p) /\ p.at = "load" /\ DoesWell(p.does)
      /\ p.does.loads = "first" /\ p.does.takes # "nothing"
  BY <1>1 DEF InOrderAt, load, CsdrInv, Shape
<1>3. PICK g \in Nat, v \in Nat, m \in Nat, z \in Nat \ {0} :
        /\ g = p.got /\ v = p.gave /\ m = Len(p.buf) /\ z = p.size
        /\ After(g, p.buf) /\ p.held = << >> /\ (p.does.works # "overlap" => m <= z)
        /\ (p.does.works \in Simple => p.buf = << >>)
        /\ (p.does.works \notin Simple => z >= taps_length)
        /\ (p.does.sends = "half" => z >= 2) /\ ~p.junk
        /\ (dynamic /\ j = 1 => z = bufsize)
  <2>1. /\ p.got \in Nat /\ p.gave \in Nat /\ After(p.got, p.buf) /\ p.held = << >>
        /\ p.size \in Nat \ {0} /\ (p.does.works # "overlap" => Len(p.buf) <= p.size)
        /\ ~p.junk
        /\ (p.does.works \in Simple => p.buf = << >>)
        /\ (p.does.works \notin Simple => p.size >= taps_length)
        /\ (p.does.sends = "half" => p.size >= 2)
        /\ (dynamic /\ j = 1 => p.size = bufsize)
    BY <1>2 DEF ProcessInOrder
  <2>2. Len(p.buf) \in Nat
    BY <2>1 DEF After
  <2> QED BY <2>1, <2>2, Zenon
<1>4. After(g + m, pipe[j])
  <2>1. CASE j = 1
    BY <1>1, <1>3, <2>1 DEF InOrderAt
  <2>2. CASE j # 1
    <3>1. StdinInOrder(dynamic, j, p, pipe[j], proc[j - 1])
      BY <1>1, <2>2 DEF InOrderAt
    <3> QED BY <1>2, <1>3, <3>1 DEF StdinInOrder
  <2> QED BY <2>1, <2>2
<1>5. PICK n \in Nat \ {0}, want \in Nat :
        /\ want = Wanted(p) /\ n = m + want
        /\ p.does.works \notin Simple \cup {"overlap"} => n = z
  <2>1. CASE p.does.takes = "size"
    <3>1. Wanted(p) = p.size - Len(p.buf)
      BY <2>1 DEF Wanted
    <3>2. Wanted(p) = z - m
      BY <1>3, <3>1, Zenon
    <3>3. p.does.works # "overlap"
      BY <1>2, <2>1 DEF DoesWell, Simple
    <3>4. m <= z
      BY <1>3, <3>3, Zenon
    <3> QED BY <3>2, <3>4
  <2>2. CASE p.does.takes = "own"
    <3>1. p.does.works \in Simple
      BY <1>2, <2>2 DEF DoesWell, Simple
    <3>2. m = 0
      BY <1>3, <3>1, EmptySeq
    <3>3. Wanted(p) = own - Len(p.buf)
      BY <2>2 DEF Wanted
    <3>4. Wanted(p) = own
      <4>1. Wanted(p) = own - m
        BY <1>3, <3>3, Zenon
      <4> QED BY <3>2, <4>1, CsdrAmounts
    <3> QED BY <3>1, <3>2, <3>4, CsdrAmounts
  <2>3. CASE p.does.takes \in {"step", "apart", "farther", "chars"}
    <3>1. p.does.works \in Simple \cup {"overlap"}
      BY <1>2, <2>3 DEF DoesWell
    <3>2. /\ p.does.takes = "step" => Wanted(p) = step
          /\ p.does.takes = "apart" => Wanted(p) = own + skip
          /\ p.does.takes = "farther" => Wanted(p) = own + 2 * skip
          /\ p.does.takes = "chars" => Wanted(p) = IF p.got = 0 THEN 1 ELSE own
      BY DEF Wanted
    <3>3. PICK some \in Nat \ {0} : Wanted(p) = some
      BY <2>3, <3>2, CsdrAmounts
    <3> QED BY <3>1, <3>3
  <2> QED BY <1>2, <2>1, <2>2, <2>3 DEF DoesWell
<1>6. PICK block : block = Block(j)
  OBVIOUS
<1>7. PICK s : s = pipe[j]
  OBVIOUS
<1>8. want <= Len(s) /\ Len(Fresh(j)) = want /\ After(g, block) /\ Len(block) = n
  <2>1. /\ Wanted(proc[j]) = want /\ proc[j].got \in Nat /\ After(proc[j].got, proc[j].buf)
        /\ After(proc[j].got + Len(proc[j].buf), pipe[j])
    BY <1>1, <1>3, <1>4, <1>5
  <2>2. /\ want <= Len(pipe[j]) /\ Len(Fresh(j)) = want
        /\ After(proc[j].got, Block(j)) /\ Len(Block(j)) = Len(proc[j].buf) + want
    BY <2>1, WholeBlock
  <2> QED BY <1>1, <1>3, <1>5, <1>6, <1>7, <2>2
<1>9. Fits(n, r) /\ (p.does.works \in Simple => r.used = n)
  <2>1. p.does.works \in Simple \cup Partly /\ r \in Work(p.does.works, n)
    BY <1>1, <1>2, <1>6, <1>8 DEF DoesWell
  <2>2. p.does.works \notin Simple \cup {"overlap"} => taps_length <= n
    BY <1>3, <1>5
  <2> QED BY <2>1, <2>2, WorkFits
<1>10. PICK u \in Nat, out \in Nat : u = r.used /\ out = r.out /\ u <= n
  BY <1>9 DEF Fits
<1>11. /\ Max({g} \cup {block[k] : k \in 1 .. u}) = g + u
       /\ After(g + u, SubSeq(block, u + 1, Len(block)))
       /\ Len(SubSeq(block, u + 1, Len(block))) = n - u
       /\ \A k \in 1 .. Len(block) : block[k] = g + k
  <2>1. After(g, block) /\ u <= Len(block) /\ Len(block) = n
    <3>1. After(g, block) /\ Len(block) = n
      BY <1>8
    <3> QED BY <1>10, <3>1, Zenon
  <2>2. /\ Max({g} \cup {block[k] : k \in 1 .. u}) = g + u
        /\ After(g + u, SubSeq(block, u + 1, Len(block)))
        /\ Len(SubSeq(block, u + 1, Len(block))) = Len(block) - u
        /\ \A k \in 1 .. Len(block) : block[k] = g + k
    <3>1. After(g, block)
      BY <2>1
    <3>2. u <= Len(block)
      BY <2>1
    <3>3. UsesUp(g, block, u)
      BY <3>1, <3>2, UsedUp
    <3> QED BY <3>3, Zenon DEF UsesUp
  <2> QED BY <2>1, <2>2, Zenon
<1>12. /\ q.does = p.does /\ q.size = z /\ ~q.junk /\ q.at \in {"write", "ended"}
       /\ q.buf = SubSeq(block, u + 1, Len(block))
       /\ q.got = g + u
  <2>1. /\ q.does = p.does /\ q.size = p.size /\ q.junk = p.junk /\ q.at \in {"write", "ended"}
        /\ q.buf = SubSeq(Block(j), r.used + 1, Len(Block(j)))
        /\ q.got = Max({proc[j].got} \cup {Block(j)[k] : k \in 1 .. r.used})
    BY <1>1, <1>2 DEF LoadsTo
  <2>2. q.buf = SubSeq(block, u + 1, Len(block))
    BY <1>6, <1>10, <2>1
  <2>3. q.got = Max({g} \cup {block[k] : k \in 1 .. u})
    BY <1>1, <1>3, <1>6, <1>10, <2>1
  <2> QED BY <1>3, <1>11, <2>1, <2>2, <2>3
<1>13. After(v, q.held) /\ Len(q.held) = out /\ q.gave = v + out
  <2>1. \A k \in 1 .. Len(Block(j)) : Block(j)[k] = proc[j].got + k
    BY <1>1, <1>3, <1>6, <1>11
  <2>2. q.held = [k \in 1 .. r.out |-> proc[j].gave + k] /\ q.gave = proc[j].gave + r.out
    BY <2>1, Zenon DEF LoadsTo
  <2>3. q.held = [k \in 1 .. out |-> v + k] /\ q.gave = v + out
    BY <1>1, <1>3, <1>10, <2>2
  <2> QED BY <2>3, Numbered
<1>14. PICK k \in Nat : k = Len(q.buf) /\ k = n - u
  <2>1. Len(SubSeq(block, u + 1, Len(block))) = n - u
    BY <1>11
  <2>2. q.buf = SubSeq(block, u + 1, Len(block))
    BY <1>12
  <2>3. Len(q.buf) = n - u
    BY <2>1, <2>2, Zenon
  <2>4. n - u \in Nat
    BY <1>10
  <2> QED BY <2>3, <2>4, Zenon
<1>15. After(q.got, q.buf) /\ q.got \in Nat
  BY <1>11, <1>12
<1>16. q.does.works \in Simple => q.buf = << >>
  <2>1. q.does = p.does /\ u = r.used /\ k = n - u
    BY <1>10, <1>12, <1>14
  <2>2. q.does.works \in Simple => k = 0
    BY <1>9, <2>1
  <2> QED BY <1>14, <1>15, <2>2, EmptySeq DEF After
<1>17. p.does.works # "overlap" => k <= z
  <2>1. p.does.works \notin Simple \cup {"overlap"} => n = z
    BY <1>5
  <2>2. p.does.works \in Simple => u = n
    BY <1>9, <1>10, Zenon
  <2>3. p.does.works # "overlap" => n = z \/ u = n
    BY <2>1, <2>2
  <2>4. n = z \/ u = n => k <= z
    BY <1>10, <1>14
  <2> QED BY <2>3, <2>4
<1>18. ProcessInOrder(dynamic, j, q)
  <2>1. q.gave - Len(q.held) = v /\ Len(q.held) <= q.gave /\ q.gave \in Nat
    BY <1>13
  <2>2. After(q.gave - Len(q.held), q.held)
    BY <1>13, <2>1
  <2>3. q.at \notin {"size", "announce", "load"}
    BY <1>12
  <2>4. q.size \in Nat \ {0} /\ (q.does.works # "overlap" => Len(q.buf) <= q.size)
    BY <1>12, <1>14, <1>17
  <2> QED BY <1>3, <1>12, <1>15, <1>16, <2>1, <2>2, <2>3, <2>4 DEF ProcessInOrder
<1>19. /\ After(q.got + Len(q.buf), pipe'[j])
       /\ q.got + Len(q.buf) + Len(pipe'[j]) = p.got + Len(p.buf) + Len(pipe[j])
  <2>1. PICK w \in Nat, l \in Nat : w = g + m /\ l = Len(s)
    <3>1. s \in Seq(Nat)
      BY <1>4, <1>7 DEF After
    <3>2. Len(s) \in Nat
      BY <3>1, LenProperties
    <3>3. g + m \in Nat
      OBVIOUS
    <3> QED BY <3>2, <3>3, Zenon
  <2>2. After(w, s) /\ want <= l /\ l <= Len(s)
    BY <1>4, <1>7, <1>8, <2>1
  <2>3. After(w + want, SubSeq(s, want + 1, l)) /\ Len(SubSeq(s, want + 1, l)) = l - want
    BY <2>2, Slice
  <2>4. pipe'[j] = SubSeq(s, want + 1, l)
    BY <1>7, <1>8, <2>1
  <2>5. q.got + Len(q.buf) = w + want
    <3>1. q.got = g + u /\ Len(q.buf) = n - u
      BY <1>12, <1>14
    <3> QED BY <1>5, <1>10, <2>1, <3>1
  <2>6. After(q.got + Len(q.buf), pipe'[j]) /\ Len(pipe'[j]) = l - want
    BY <2>3, <2>4, <2>5, Zenon
  <2>7. p.got + Len(p.buf) + Len(pipe[j]) = w + l
    BY <1>3, <1>7, <2>1
  <2>8. w + want + (l - want) = w + l
    OBVIOUS
  <2> QED BY <2>5, <2>6, <2>7, <2>8, Zenon
<1>20. q.gave - Len(q.held) = p.gave
  BY <1>3, <1>13
<1> QED BY <1>1, <1>12, <1>18, <1>19, <1>20 DEF BlockInOrder

LEMMA BlockLoaded ==
  ASSUME CsdrInv, NEW j \in 1 .. Last, load(j)
  PROVE  CsdrInv'
<1>1. /\ Shape /\ Last \in Nat /\ dynamic \in BOOLEAN
  BY DEF CsdrInv, Shape, Last
<1>2. PICK r \in Work(proc[j].does.works, Len(Block(j))) : LoadsTo(j, r, proc'[j])
  BY <1>1, Loads
<1>3. /\ Shape' /\ Touches(j)
      /\ pipe'[j] = SubSeq(pipe[j], Len(Fresh(j)) + 1, Len(pipe[j]))
      /\ j + 1 \in 1 .. Last => pipe'[j + 1] = pipe[j + 1]
  BY <1>1, Loads
<1>4. proc[j].at = "load" /\ dynamic' = dynamic
  BY DEF load
<1>5. ASSUME NEW i \in {j, j + 1}, ~MayPad(i)', InOrderAt(j)
      PROVE  BlockInOrder(j, proc[j], proc'[j])
  <2>1. proc[j].does.loads = "first" /\ proc[j].does.takes # "nothing" /\ ~proc'[j].eof
    BY <1>1, <1>3, <1>5, NotExcepted
  <2>2. ~Short(j)
    <3>1. proc'[j].eof = (proc[j].eof \/ Short(j))
      BY <1>2 DEF LoadsTo
    <3> QED BY <2>1, <3>1, Zenon
  <2> QED BY <1>2, <1>3, <1>5, <2>1, <2>2, WholeBlockLoaded
<1>6. ASSUME InOrderAt(j), ~MayPad(j)'
      PROVE  InOrderAt(j)'
  <2>1. PICK q : q = proc'[j]
    OBVIOUS
  <2>2. BlockInOrder(j, proc[j], q)
    BY <1>5, <1>6, <2>1
  <2>3. /\ ProcessInOrder(dynamic, j, q) /\ q.at \in {"write", "ended"}
        /\ After(q.got + Len(q.buf), pipe'[j])
        /\ q.got + Len(q.buf) + Len(pipe'[j])
             = proc[j].got + Len(proc[j].buf) + Len(pipe[j])
    BY <2>2 DEF BlockInOrder
  <2>4. CASE j = 1
    BY <1>4, <2>1, <2>3, <2>4 DEF InOrderAt
  <2>5. CASE j # 1
    <3>1. j - 1 \in 1 .. Last /\ j - 1 # j
      BY <1>1, <2>5
    <3>2. proc'[j - 1] = proc[j - 1]
      BY <1>3, <3>1 DEF Touches
    <3>3. PICK u : u = proc[j - 1]
      OBVIOUS
    <3>4. StdinInOrder(dynamic, j, proc[j], pipe[j], u)
      BY <1>6, <2>5, <3>3 DEF InOrderAt
    <3>5. /\ proc[j].got + Len(proc[j].buf) + Len(pipe[j]) = u.gave - Len(u.held)
          /\ dynamic => u.at \in {"load", "write", "ended"}
      BY <1>4, <3>4 DEF StdinInOrder
    <3>6. q.got + Len(q.buf) + Len(pipe'[j]) = u.gave - Len(u.held)
      BY <2>3, <3>5
    <3>7. StdinInOrder(dynamic, j, q, pipe'[j], u)
      BY <2>3, <3>5, <3>6 DEF StdinInOrder
    <3> QED BY <1>4, <2>1, <2>3, <2>5, <3>2, <3>3, <3>7 DEF InOrderAt
  <2> QED BY <2>4, <2>5
<1>7. ASSUME j + 1 \in 1 .. Last, InOrderAt(j), InOrderAt(j + 1), ~MayPad(j + 1)'
      PROVE  InOrderAt(j + 1)'
  <2>1. PICK q : q = proc'[j]
    OBVIOUS
  <2>2. BlockInOrder(j, proc[j], q)
    BY <1>5, <1>7, <2>1
  <2>3. q.at \in {"write", "ended"} /\ q.gave - Len(q.held) = proc[j].gave
    BY <2>2 DEF BlockInOrder
  <2>4. proc[j].gave - Len(proc[j].held) = proc[j].gave
    <3>1. ProcessInOrder(dynamic, j, proc[j])
      BY <1>7 DEF InOrderAt
    <3>2. proc[j].held = << >> /\ proc[j].gave \in Nat
      BY <1>4, <3>1 DEF ProcessInOrder
    <3>3. Len(proc[j].held) = 0
      BY <3>2, EmptySeq
    <3> QED BY <3>2, <3>3
  <2>5. /\ proc'[j + 1] = proc[j + 1] /\ j + 1 # 1 /\ (j + 1) - 1 = j
        /\ pipe'[j + 1] = pipe[j + 1]
    <3>1. j + 1 # j /\ j + 1 # 1 /\ (j + 1) - 1 = j
      BY <1>1
    <3> QED BY <1>3, <1>7, <3>1 DEF Touches
  <2>6. PICK e : e = proc[j + 1]
    OBVIOUS
  <2>7. /\ ProcessInOrder(dynamic, j + 1, e)
        /\ StdinInOrder(dynamic, j + 1, e, pipe[j + 1], proc[j])
    BY <1>7, <2>5, <2>6 DEF InOrderAt
  <2>8. StdinInOrder(dynamic, j + 1, e, pipe[j + 1], q)
    BY <1>4, <2>3, <2>4, <2>7 DEF StdinInOrder
  <2> QED BY <1>4, <2>1, <2>5, <2>6, <2>7, <2>8 DEF InOrderAt
<1> QED BY <1>3, <1>6, <1>7, StepKeeps

LEMMA BlockWritten ==
  ASSUME CsdrInv, NEW j \in 1 .. Last, write(j)
  PROVE  CsdrInv'
<1>1. PICK p : p = proc[j]
  OBVIOUS
<1>2. PICK junk : junk = (p.junk \/ \E k \in DOMAIN p.held : p.held[k] = Junk)
  OBVIOUS
<1>3. PICK q : q = [p EXCEPT !.at = "load", !.held = << >>, !.junk = junk]
  OBVIOUS
<1>4. /\ DOMAIN p = Fields /\ Shape /\ Last \in Nat /\ dynamic \in BOOLEAN
  BY <1>1 DEF CsdrInv, Shape, Last
<1>5. p.at = "write" /\ PutOut(j, q, p.held) /\ dynamic' = dynamic
  BY <1>1, <1>2, <1>3, Zenon DEF write
<1>6. /\ q.does = p.does /\ q.eof = p.eof /\ DOMAIN q = Fields /\ q.at = "load"
      /\ q.size = p.size /\ q.held = << >> /\ q.got = p.got /\ q.gave = p.gave
      /\ q.junk = junk /\ q.buf = p.buf
  BY <1>3, <1>4 DEF Fields
<1>7. Shape' /\ Touches(j) /\ pipe'[j] = pipe[j] /\ EndsOrPuts(j, q, p.held)
  <2>1. q.does = proc[j].does /\ (proc[j].eof => q.eof) /\ DOMAIN q = Fields
    BY <1>1, <1>6
  <2>2. Shape /\ PutOut(j, q, p.held) /\ dynamic' = dynamic
    BY <1>4, <1>5
  <2> QED BY <2>1, <2>2, PutsOut, Zenon
<1>8. ASSUME InOrderAt(j)
      PROVE  /\ ProcessInOrder(dynamic, j, p) /\ ~junk /\ ProcessInOrder(dynamic, j, q)
             /\ p.gave \in Nat /\ Len(p.held) \in Nat /\ Len(p.held) <= p.gave
             /\ After(p.gave - Len(p.held), p.held)
  <2>1. ProcessInOrder(dynamic, j, p)
    BY <1>1, <1>8 DEF InOrderAt
  <2>2. /\ p.gave \in Nat /\ Len(p.held) \in Nat /\ Len(p.held) <= p.gave
        /\ After(p.gave - Len(p.held), p.held)
    <3>1. /\ p.gave \in Nat /\ Len(p.held) <= p.gave
          /\ After(p.gave - Len(p.held), p.held)
      BY <2>1, Zenon DEF ProcessInOrder
    <3>2. p.held \in Seq(Nat)
      BY <3>1, Zenon DEF After
    <3>3. Len(p.held) \in Nat
      BY <3>2, LenProperties
    <3> QED BY <3>1, <3>3, Zenon
  <2>3. ~junk
    <3>1. PICK n \in Nat, v \in Nat : n = Len(p.held) /\ v = p.gave - n
      <4>1. PICK n \in Nat : n = Len(p.held)
        BY <2>2, Zenon
      <4>2. p.gave - n \in Nat
        BY <2>2, <4>1
      <4> QED BY <4>1, <4>2, Zenon
    <3>2. DOMAIN p.held = 1 .. n /\ \A k \in 1 .. n : p.held[k] = v + k
      <4>1. PICK t : t = p.held
        OBVIOUS
      <4>2. After(v, t) /\ n = Len(t)
        BY <2>2, <3>1, <4>1, Zenon
      <4> QED BY <4>1, <4>2 DEF After
    <3>3. \A k \in DOMAIN p.held : p.held[k] # Junk
      BY <3>2 DEF Junk
    <3>4. ~p.junk
      BY <2>1 DEF ProcessInOrder
    <3> QED BY <1>2, <3>3, <3>4, Zenon
  <2>4. Len(q.held) = 0 /\ After(q.gave, q.held)
    BY <1>6, NoneAfter
  <2>5. Len(q.held) <= q.gave /\ After(q.gave - Len(q.held), q.held)
    <3>1. q.gave - 0 = q.gave /\ 0 <= q.gave
      BY <1>6, <2>2
    <3> QED BY <2>4, <3>1, Zenon
  <2>6. ProcessInOrder(dynamic, j, q)
    BY <1>5, <1>6, <2>1, <2>3, <2>5 DEF ProcessInOrder
  <2> QED BY <2>1, <2>2, <2>3, <2>6
<1>9. ASSUME InOrderAt(j), ~MayPad(j)'
      PROVE  InOrderAt(j)'
  <2>1. \A s, u : StdinInOrder(dynamic, j, p, s, u) => StdinInOrder(dynamic, j, q, s, u)
    BY <1>5, <1>6 DEF StdinInOrder
  <2>2. /\ ProcessInOrder(dynamic, j, proc'[j])
        /\ proc'[j].got = p.got /\ proc'[j].buf = p.buf
        /\ \A s, u : StdinInOrder(dynamic, j, p, s, u) => StdinInOrder(dynamic, j, proc'[j], s, u)
    <3>1. CASE proc'[j] = q
      BY <1>6, <1>8, <1>9, <2>1, <3>1
    <3>2. CASE proc'[j] = [p EXCEPT !.at = "ended"]
      <4>1. p.at # "size" /\ ProcessInOrder(dynamic, j, p)
        BY <1>5, <1>8, <1>9
      <4> QED BY <1>4, <3>2, <4>1, EndedInOrder
    <3> QED BY <1>1, <1>7, <3>1, <3>2 DEF EndsOrPuts
  <2>3. /\ ProcessInOrder(dynamic, j, proc'[j])
        /\ proc'[j].got = proc[j].got /\ proc'[j].buf = proc[j].buf
        /\ \A s, u : StdinInOrder(dynamic, j, proc[j], s, u)
                       => StdinInOrder(dynamic, j, proc'[j], s, u)
    BY <1>1, <2>2
  <2> QED BY <1>4, <1>7, <1>9, <2>3, SameStdin
<1>10. ASSUME j + 1 \in 1 .. Last, InOrderAt(j), InOrderAt(j + 1), ~MayPad(j + 1)'
       PROVE  InOrderAt(j + 1)'
  <2>1. PICK e : e = proc[j + 1]
    OBVIOUS
  <2>2. /\ proc'[j + 1] = e /\ j + 1 # 1 /\ (j + 1) - 1 = j
    <3>1. j + 1 # j /\ j + 1 # 1 /\ (j + 1) - 1 = j
      BY <1>4
    <3> QED BY <1>7, <1>10, <2>1, <3>1 DEF Touches
  <2>3. /\ ProcessInOrder(dynamic, j + 1, e)
        /\ StdinInOrder(dynamic, j + 1, e, pipe[j + 1], p)
    BY <1>1, <1>10, <2>1, <2>2 DEF InOrderAt
  <2>4. StdinInOrder(dynamic, j + 1, e, pipe'[j + 1], proc'[j])
    <3>1. CASE proc'[j] = [p EXCEPT !.at = "ended"] /\ pipe' = pipe
      BY <1>4, <2>3, <3>1, WriterEnded
    <3>2. CASE proc'[j] = q /\ pipe'[j + 1] = pipe[j + 1] \o p.held
      <4>0. PICK t : t = p.held
        OBVIOUS
      <4>1. PICK n \in Nat, v \in Nat :
              /\ n = Len(p.held) /\ v = p.gave - n /\ t = p.held
              /\ After(v, t) /\ Len(t) = n /\ p.gave = v + n
        <5>1. PICK n \in Nat, g \in Nat : n = Len(p.held) /\ g = p.gave /\ n <= g
                                          /\ After(g - n, p.held)
          BY <1>8, <1>10, Zenon
        <5>2. g - n \in Nat /\ g = (g - n) + n
          BY <5>1
        <5> QED BY <4>0, <5>1, <5>2, Zenon
      <4>2. PICK next \in Nat : next = e.got + Len(e.buf)
        BY <2>3 DEF ProcessInOrder, After
      <4>3. PICK s : s = pipe[j + 1]
        OBVIOUS
      <4>4. q.gave - Len(q.held) = v + n
        <5>1. Len(q.held) = 0
          BY <1>6, EmptySeq
        <5>2. q.gave = v + n
          BY <1>6, <4>1
        <5> QED BY <5>1, <5>2
      <4>5. CASE dynamic /\ e.at = "size"
        <5>1. /\ AfterPreamble(next, s) /\ next + Len(s) - 1 = v
              /\ j + 1 = 2 => taps_length <= -s[1]
          BY <1>5, <2>3, <4>1, <4>2, <4>3, <4>5 DEF StdinInOrder
        <5>2. After(next + Len(s) - 1, t)
          BY <4>1, <5>1, Zenon
        <5>3. PICK z : z = s \o t
          OBVIOUS
        <5>4. AfterPreamble(next, z) /\ Len(z) = Len(s) + Len(t) /\ z[1] = s[1]
          BY <5>1, <5>2, <5>3, PreambleJoined
        <5>5. next + Len(z) - 1 = v + n
          <6>1. Len(s) \in Nat
            BY <5>1, PreambleTaken
          <6> QED BY <4>1, <5>1, <5>4, <6>1
        <5>6. StdinInOrder(dynamic, j + 1, e, z, q)
          BY <1>6, <4>2, <4>4, <4>5, <5>1, <5>4, <5>5 DEF StdinInOrder
        <5> QED BY <3>2, <4>1, <4>3, <5>3, <5>6
      <4>6. CASE ~(dynamic /\ e.at = "size")
        <5>1. After(next, s) /\ next + Len(s) = v
          BY <2>3, <4>1, <4>2, <4>3, <4>6 DEF StdinInOrder
        <5>2. After(next + Len(s), t)
          BY <4>1, <5>1, Zenon
        <5>3. PICK z : z = s \o t
          OBVIOUS
        <5>4. After(next, z) /\ Len(z) = Len(s) + Len(t)
          BY <5>1, <5>2, <5>3, Joined
        <5>5. next + Len(z) = v + n
          <6>1. Len(s) \in Nat
            BY <5>1 DEF After
          <6> QED BY <4>1, <5>1, <5>4, <6>1
        <5>6. StdinInOrder(dynamic, j + 1, e, z, q)
          BY <1>6, <4>2, <4>4, <4>6, <5>4, <5>5 DEF StdinInOrder
        <5> QED BY <3>2, <4>1, <4>3, <5>3, <5>6
      <4> QED BY <4>5, <4>6
    <3> QED BY <1>1, <1>7, <1>10, <3>1, <3>2 DEF EndsOrPuts
  <2> QED BY <1>5, <2>2, <2>3, <2>4 DEF InOrderAt
<1> QED BY <1>7, <1>9, <1>10, StepKeeps
-----------------------------------------------------------------------------
(* The other steps, and the beginning.                                      *)

LEMMA EndFound ==
  ASSUME CsdrInv, NEW j \in 1 .. Last, feof(j)
  PROVE  CsdrInv'
<1>1. PICK q : q = [proc[j] EXCEPT !.at = "ended", !.eof = TRUE]
  OBVIOUS
<1>2. /\ Shape /\ DOMAIN proc[j] = Fields /\ Last \in Nat /\ DOMAIN proc = 1 .. Last
  BY DEF CsdrInv, Shape, Last
<1>3. proc' = [proc EXCEPT ![j] = q] /\ dynamic' = dynamic /\ pipe' = pipe
  BY <1>1, <1>2 DEF feof
<1>4. DOMAIN q = Fields /\ q.does = proc[j].does /\ q.eof
  BY <1>1, <1>2 DEF Fields
<1>5. Shape' /\ Touches(j) /\ proc'[j] = q
  <2>1. DOMAIN pipe' = DOMAIN pipe /\ \A i \in 1 .. Last : i \notin {j, j + 1} => pipe'[i] = pipe[i]
    BY <1>3
  <2> QED BY <1>2, <1>3, <1>4, <2>1, ProcessChanged
<1>6. \A i \in {j, j + 1} : MayPad(i)'
  BY <1>2, <1>4, <1>5, NotExcepted
<1> QED BY <1>5, <1>6, StepKeeps

LEMMA BegunAnew ==
  ASSUME CsdrInv, NEW j \in 1 .. Last, read_fifo_ctl(j)
  PROVE  CsdrInv'
<1>1. PICK p : p = proc[j]
  OBVIOUS
<1>2. PICK q : q = [p EXCEPT !.at = "size", !.anew = TRUE]
  OBVIOUS
<1>3. /\ Shape /\ DOMAIN p = Fields /\ Last \in Nat /\ DOMAIN proc = 1 .. Last
      /\ DoesWell(p.does) /\ dynamic \in BOOLEAN
  BY <1>1 DEF CsdrInv, Shape, Last
<1>4. /\ proc' = [proc EXCEPT ![j] = q] /\ dynamic' = dynamic /\ pipe' = pipe
      /\ p.at = "load" /\ p.does.reads = "anew"
  BY <1>1, <1>2, <1>3 DEF read_fifo_ctl
<1>5. /\ DOMAIN q = Fields /\ q.does = p.does /\ q.eof = p.eof /\ q.at = "size"
      /\ q.size = p.size /\ q.buf = p.buf /\ q.held = p.held /\ q.got = p.got
      /\ q.gave = p.gave /\ q.junk = p.junk
  BY <1>2, <1>3 DEF Fields
<1>6. Shape' /\ Touches(j) /\ proc'[j] = q
  <2>1. DOMAIN pipe' = DOMAIN pipe /\ \A i \in 1 .. Last : i \notin {j, j + 1} => pipe'[i] = pipe[i]
    BY <1>4
  <2> QED BY <1>1, <1>3, <1>4, <1>5, <2>1, ProcessChanged
<1>7. \A i \in {j, j + 1} : ~MayPad(i)' => ~dynamic
  BY <1>1, <1>3, <1>4, <1>6, NotExcepted
<1>8. ASSUME InOrderAt(j), ~MayPad(j)'
      PROVE  InOrderAt(j)'
  <2>1. ~dynamic
    BY <1>7, <1>8
  <2>2. ProcessInOrder(dynamic, j, p)
    BY <1>1, <1>8 DEF InOrderAt
  <2>3. p.buf = << >> /\ p.held = << >>
    BY <1>3, <1>4, <2>2 DEF ProcessInOrder, DoesWell
  <2>4. ProcessInOrder(dynamic, j, q)
    BY <1>4, <1>5, <2>1, <2>2, <2>3 DEF ProcessInOrder
  <2>5. \A s, u : StdinInOrder(dynamic, j, p, s, u) => StdinInOrder(dynamic, j, q, s, u)
    BY <1>4, <1>5, <2>1 DEF StdinInOrder
  <2>6. /\ ProcessInOrder(dynamic, j, proc'[j]) /\ pipe'[j] = pipe[j]
        /\ proc'[j].got = proc[j].got /\ proc'[j].buf = proc[j].buf
        /\ \A s, u : StdinInOrder(dynamic, j, proc[j], s, u)
                       => StdinInOrder(dynamic, j, proc'[j], s, u)
    BY <1>1, <1>4, <1>5, <1>6, <2>4, <2>5
  <2> QED BY <1>3, <1>6, <1>8, <2>6, SameStdin
<1>9. ASSUME j + 1 \in 1 .. Last, InOrderAt(j), InOrderAt(j + 1), ~MayPad(j + 1)'
      PROVE  InOrderAt(j + 1)'
  <2>1. ~dynamic
    BY <1>7, <1>9
  <2>2. PICK e : e = proc[j + 1]
    OBVIOUS
  <2>3. /\ proc'[j + 1] = e /\ j + 1 # 1 /\ (j + 1) - 1 = j
    <3>1. j + 1 # j /\ j + 1 # 1 /\ (j + 1) - 1 = j
      BY <1>3
    <3> QED BY <1>6, <1>9, <2>2, <3>1 DEF Touches
  <2>4. /\ ProcessInOrder(dynamic, j + 1, e)
        /\ StdinInOrder(dynamic, j + 1, e, pipe[j + 1], p)
    BY <1>1, <1>9, <2>2, <2>3 DEF InOrderAt
  <2>5. StdinInOrder(dynamic, j + 1, e, pipe[j + 1], q)
    BY <1>5, <2>1, <2>4 DEF StdinInOrder
  <2> QED BY <1>4, <1>6, <2>3, <2>4, <2>5 DEF InOrderAt
<1> QED BY <1>6, <1>8, <1>9, StepKeeps

LEMMA NothingMoves ==
  ASSUME CsdrInv, dynamic' = dynamic, proc' = proc, pipe' = pipe
  PROVE  CsdrInv'
<1>1. Last' = Last /\ (Shape => Shape')
  BY DEF Last, Shape
<1>2. \A i \in 1 .. Last : (MayPad(i) => MayPad(i)') /\ (InOrderAt(i) => InOrderAt(i)')
  BY DEF MayPad, Excepted, InOrderAt
<1> QED BY <1>1, <1>2 DEF CsdrInv

LEMMA ProcessFields ==
  ASSUME NEW does, NEW p, p = Process(does)
  PROVE  /\ DOMAIN p = Fields /\ p.does = does /\ p.size = bufsize /\ p.buf = << >>
         /\ p.held = << >> /\ p.got = 0 /\ p.gave = 0 /\ ~p.eof /\ ~p.junk
         /\ p.at = IF does.reads = "none" THEN "announce"
                   ELSE IF does.reads = "never" THEN "load" ELSE "size"
<1>1. PICK place : place = CASE does.reads = "none" -> "announce" [] does.reads = "never" -> "load"
                       [] OTHER -> "size"
  OBVIOUS
<1>2. place = IF does.reads = "none" THEN "announce"
           ELSE IF does.reads = "never" THEN "load" ELSE "size"
  BY <1>1
<1>3. p = [does |-> does, at |-> place, size |-> bufsize, buf |-> << >>, held |-> << >>, got |-> 0,
           gave |-> 0, eof |-> FALSE, junk |-> FALSE, anew |-> FALSE]
  BY <1>1 DEF Process
<1> QED BY <1>2, <1>3 DEF Fields

LEMMA CsdrInitInv == CsdrInit => CsdrInv
<1> SUFFICES ASSUME CsdrInit
             PROVE  CsdrInv
  OBVIOUS
<1>1. PICK one \in {c.does : c \in Command}, two \in {c.does : c \in Command} :
        /\ two = Usual \/ (one = Usual /\ ~dynamic)
        /\ proc = [i \in 1 .. (IF dynamic THEN 3 ELSE 2) |->
                     Process((IF dynamic THEN <<clone_, one, two>> ELSE <<one, two>>)[i])]
  BY DEF CsdrInit
<1>2. PICK total \in Totals :
        pipe = [i \in 1 .. Len(proc) |-> IF i = 1 THEN [k \in 1 .. total |-> k] ELSE << >>]
  BY DEF CsdrInit
<1>3. dynamic \in BOOLEAN /\ Last \in Nat /\ Last = IF dynamic THEN 3 ELSE 2
  BY DEF CsdrInit, Last
<1>4. CommandDoes(one) /\ CommandDoes(two)
  BY EachCommand
<1>5. PICK does : does = [i \in 1 .. Last |->
                            (IF dynamic THEN <<clone_, one, two>> ELSE <<one, two>>)[i]]
  OBVIOUS
<1>6. /\ dynamic => does[1] = clone_ /\ does[2] = one /\ does[3] = two
      /\ ~dynamic => does[1] = one /\ does[2] = two
  BY <1>3, <1>5
<1>7. proc = [i \in 1 .. Last |-> Process(does[i])]
  BY <1>1, <1>3, <1>5, Zenon
<1>8. DOMAIN proc = 1 .. Last /\ Len(proc) = Last
  <2>1. PICK e : e = Process(does[1])
    OBVIOUS
  <2>2. proc = [proc EXCEPT ![1] = e] /\ 1 \in 1 .. Last /\ DOMAIN proc = 1 .. Last
    BY <1>3, <1>7, <2>1
  <2> QED BY <1>3, <2>2, Updated
<1>9. \A i \in 1 .. Last : proc[i] = Process(does[i])
  BY <1>7
<1>10. \A i \in 1 .. Last :
         /\ DoesWell(does[i]) /\ (does[i].reads = "none" => dynamic /\ i = 1)
         /\ dynamic /\ i = 1 => does[i] = clone_
         /\ dynamic /\ i = 3 => does[i].works \in Simple
  <2>1. dynamic => two.works \in Simple
    BY <1>1 DEF Usual, Basic, Does, Simple
  <2>2. \A i \in 1 .. Last : i \in {1, 2, 3} /\ (i = 3 => dynamic)
    BY <1>3
  <2> QED BY <1>3, <1>4, <1>6, <2>1, <2>2, CloneDoes DEF CommandDoes
<1>11. DOMAIN pipe = 1 .. Last /\ \A i \in 2 .. Last : pipe[i] = << >>
  BY <1>2, <1>3, <1>8
<1>12. After(0, pipe[1])
  <2>1. total \in Nat
    BY CsdrAmounts
  <2>2. pipe[1] = [k \in 1 .. total |-> k]
    BY <1>2, <1>3, <1>8
  <2>3. [k \in 1 .. total |-> k] = [k \in 1 .. total |-> 0 + k]
    OBVIOUS
  <2> QED BY <2>1, <2>2, <2>3, Numbered
<1>13. Shape
  BY <1>3, <1>8, <1>9, <1>10, <1>11, ProcessFields DEF Shape
<1>14. ASSUME NEW i \in 1 .. Last
       PROVE  ProcessInOrder(dynamic, i, proc[i])
  <2>1. PICK p : p = proc[i]
    OBVIOUS
  <2>2. /\ p.does = does[i] /\ p.size = bufsize /\ p.buf = << >>
        /\ p.held = << >> /\ p.got = 0 /\ p.gave = 0 /\ ~p.junk
        /\ p.at = IF does[i].reads = "none" THEN "announce"
                  ELSE IF does[i].reads = "never" THEN "load" ELSE "size"
    BY <1>9, <2>1, ProcessFields
  <2>3. After(0, << >>) /\ Len(<< >>) = 0
    BY NoneAfter
  <2>4. bufsize \in Nat \ {0} /\ bufsize >= taps_length /\ bufsize >= 2
    BY CsdrAmounts
  <2>5. dynamic /\ i = 1 => p.at # "size"
    BY <1>10, <2>2 DEF clone_, Does
  <2>6. /\ p.got \in Nat /\ p.gave \in Nat /\ After(p.got, p.buf)
        /\ Len(p.held) <= p.gave /\ After(p.gave - Len(p.held), p.held)
        /\ Len(p.buf) <= p.size
    <3>1. 0 \in Nat /\ 0 <= 0 /\ 0 - 0 = 0 /\ 0 <= bufsize
      BY <2>4
    <3> QED BY <2>2, <2>3, <3>1, Zenon
  <2>7. ProcessInOrder(dynamic, i, p)
    BY <2>2, <2>4, <2>5, <2>6 DEF ProcessInOrder
  <2> QED BY <2>1, <2>7
<1>15. ASSUME NEW i \in 1 .. Last, ~MayPad(i)
       PROVE  InOrderAt(i)
  <2>1. CASE i = 1
    <3>1. proc[1].got + Len(proc[1].buf) = 0
      <4>1. proc[1].got = 0 /\ proc[1].buf = << >>
        BY <1>9, <1>15, <2>1, ProcessFields
      <4> QED BY <4>1, EmptySeq
    <3> QED BY <1>12, <1>14, <2>1, <3>1 DEF InOrderAt
  <2>2. CASE i # 1
    <3>1. i - 1 \in 1 .. Last /\ i - 1 \in 1 .. i /\ i \in 1 .. i /\ i \in 2 .. Last
      BY <1>3, <2>2
    <3>2. PICK p, u : p = proc[i] /\ u = proc[i - 1]
      OBVIOUS
    <3>3. ~Excepted(i, i) /\ ~Excepted(i, i - 1)
      BY <1>15, <3>1 DEF MayPad
    <3>4. p.does = does[i] /\ u.does = does[i - 1]
      BY <1>9, <3>1, <3>2, ProcessFields
    <3>5. dynamic => does[i].reads # "never" /\ does[i - 1].reads # "never"
      BY <3>2, <3>3, <3>4 DEF Excepted
    <3>6. dynamic => p.at = "size" /\ u.at \in {"size", "announce"}
      BY <1>9, <1>10, <2>2, <3>1, <3>2, <3>5, ProcessFields
    <3>7. p.got + Len(p.buf) = 0 /\ u.gave - Len(u.held) = 0
      <4>1. p.got = 0 /\ p.buf = << >> /\ u.gave = 0 /\ u.held = << >>
        BY <1>9, <3>1, <3>2, ProcessFields
      <4>2. Len(p.buf) = 0 /\ Len(u.held) = 0
        BY <4>1, NoneAfter, Zenon
      <4>3. 0 + 0 = 0 /\ 0 - 0 = 0
        OBVIOUS
      <4> QED BY <4>1, <4>2, <4>3, Zenon
    <3>8. After(0, << >>) /\ 0 + Len(<< >>) = 0
      BY NoneAfter
    <3>9. StdinInOrder(dynamic, i, p, << >>, u)
      BY <1>3, <3>6, <3>7, <3>8 DEF StdinInOrder
    <3> QED BY <1>11, <1>14, <2>2, <3>1, <3>2, <3>9 DEF InOrderAt
  <2> QED BY <2>1, <2>2
<1> QED BY <1>13, <1>15 DEF CsdrInv

LEMMA CsdrNextInv == CsdrInv /\ [CsdrNext]_csdrVars => CsdrInv'
<1> SUFFICES ASSUME CsdrInv, [CsdrNext]_csdrVars
             PROVE  CsdrInv'
  OBVIOUS
<1>1. CASE closeStdout \/ UNCHANGED csdrVars
  BY <1>1, NothingMoves DEF closeStdout, csdrVars
<1>2. ASSUME NEW j \in DOMAIN proc, Run(j) \/ read_fifo_ctl(j)
      PROVE  CsdrInv'
  <2>1. j \in 1 .. Last
    BY <1>2 DEF CsdrInv, Shape
  <2>2. CASE Run(j)
    BY <2>1, <2>2, SizeAsked, SizeAnnounced, EndFound, BlockLoaded, BlockWritten DEF Run
  <2>3. CASE read_fifo_ctl(j)
    BY <2>1, <2>3, BegunAnew
  <2> QED BY <1>2, <2>2, <2>3
<1> QED BY <1>1, <1>2 DEF CsdrNext

LEMMA CsdrInvTailOnly == CsdrInv => TailOnly
<1> SUFFICES ASSUME CsdrInv, NEW i \in DOMAIN proc, proc[i].junk
             PROVE  \E j \in 1 .. i : proc[j].eof \/ Excepted(i, j)
  BY DEF TailOnly
<1>1. i \in 1 .. Last
  BY DEF CsdrInv, Shape
<1>2. ~InOrderAt(i)
  BY DEF InOrderAt, ProcessInOrder
<1> QED BY <1>1, <1>2 DEF CsdrInv, MayPad

\* Whatever the buffer sizes, the filters and the blocks are, and in whichever
\* order the processes of a pipeline run: what a command writes is made from
\* the samples of its stdin in their order, without a loss, a repetition or a
\* preamble among them, until a stdin to the left of it has ended.
THEOREM OnlyTailsArePadded == CsdrSpec => []TailOnly
BY CsdrInitInv, CsdrNextInv, CsdrInvTailOnly, PTL DEF CsdrSpec
=============================================================================

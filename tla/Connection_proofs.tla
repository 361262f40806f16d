-------------------------- MODULE Connection_proofs --------------------------
(* However many threads close a connection, empty its queue under each      *)
(* other's hands or still put data there: its pass-through thread ends.     *)
(*                                                                          *)
(* The argument: as long as that thread may wait for the queue, there is a  *)
(* PoisonPill in it, or a close found no room for one, or some thread is on *)
(* its way from the first get of a close to the put of the pill (whatever   *)
(* it takes out of the queue meanwhile, it puts a pill after), or the       *)
(* reader still has its own close before it.                                *)
(*                                                                          *)
(* While it is open and its reader waits, a connection is kept alive.       *)
(*                                                                          *)
(* The argument: a ping thread and the reader replace the timer without a   *)
(* lock, and each can die of what the other does. But the reader is back in *)
(* its loop only when it has armed a Timer, or the connection was closed;   *)
(* and from there on a ping thread has what it needs to arm the next one.   *)
EXTENDS Connection, FiniteSetTheorems, SequenceTheorems,
        WellFoundedInduction, TLAPS

FrameSet == [at : Label, error : BOOLEAN]
Place(f) == f.at    \* where a frame is in its code

\* What a thread calls, as opposed to what it is.
Inner == Label \ {"loop", "closepipe", "unsetpipe", "get", "unset", "idle"}

ReaderStack(s) ==
  /\ \A i \in 1 .. Len(s) : Place(s[i]) \notin {"get", "unset", "idle"}
  /\ s # << >> /\ Place(s[Len(s)]) \in {"closepipe", "unsetpipe"} => Len(s) = 1

PassStack(s) ==
  s # << >> => /\ Place(s[Len(s)]) \in {"get", "unset"}
               /\ \A i \in 1 .. Len(s) - 1 : Place(s[i]) \in Inner

\* The pass-through thread goes on with the queue when it has returned to its
\* outermost frame; the reader has the end of handle() before it; a close
\* will put the pill.
Listens(s) == s # << >> /\ Place(s[Len(s)]) = "get"
Serves(s)  == s # << >> /\ Place(s[Len(s)]) \in {"loop", "closepipe", "unsetpipe"}
Puts(s)    == s # << >> /\ Place(Head(s)) \in {"drain", "empty", "pill"}

HasPill(q) == \E i \in 1 .. Len(q) : q[i] = "pill"

\* A Timer that will fire has not fired yet.
TimersWait == \A i \in Timer : timer[i] # "free" => stack[i] = << >>

PillInv ==
  Listens(stack[passthru]) =>
    \/ full \/ HasPill(queue) \/ Serves(stack[reader])
    \/ \E t \in Thread : Puts(stack[t])

ConnInv ==
  /\ TypeOK /\ TimersWait
  /\ ReaderStack(stack[reader]) /\ PassStack(stack[passthru])
  /\ stack[passthru] = << >> \/ hasQueue
  /\ PillInv

\* The calls of one thread leave its outermost frame alone, or end it.
Follows(s, r) ==
  /\ r \in Seq(FrameSet)
  /\ ReaderStack(s) => ReaderStack(r)
  /\ PassStack(s) => PassStack(r)
  /\ PassStack(s) /\ Listens(r) => Listens(s)
  /\ ReaderStack(s) /\ Serves(s) => Serves(r) \/ Puts(r)
-----------------------------------------------------------------------------
(* Frames and stacks.                                                       *)

LEMMA FramesType ==
  ASSUME NEW labels \in Seq(Label)
  PROVE  /\ Frames(labels) \in Seq(FrameSet)
         /\ Len(Frames(labels)) = Len(labels)
         /\ \A i \in 1 .. Len(labels) : Place(Frames(labels)[i]) = labels[i]
<1>1. Len(labels) \in Nat /\ DOMAIN labels = 1 .. Len(labels)
      /\ \A i \in 1 .. Len(labels) : labels[i] \in Label
  BY LenProperties, ElementOfSeq
<1>2. Frames(labels) \in [1 .. Len(labels) -> FrameSet]
  BY <1>1 DEF Frames, Frame, FrameSet
<1>3. Frames(labels) \in Seq(FrameSet)
  BY <1>1, <1>2
<1>4. Len(Frames(labels)) = Len(labels)
  BY <1>1, <1>2, <1>3, LenProperties
<1> QED BY <1>1, <1>3, <1>4 DEF Frames, Frame, Place

LEMMA Single ==
  ASSUME NEW S, NEW x \in S
  PROVE  <<x>> \in Seq(S) /\ Len(<<x>>) = 1 /\ <<x>>[1] = x
OBVIOUS

LEMMA Triple ==
  ASSUME NEW S, NEW x \in S, NEW y \in S, NEW z \in S
  PROVE  /\ <<x, y, z>> \in Seq(S) /\ Len(<<x, y, z>>) = 3
         /\ <<x, y, z>>[1] = x /\ <<x, y, z>>[2] = y /\ <<x, y, z>>[3] = z
OBVIOUS

\* The stack after the frame on top was replaced.
LEMMA Replaced ==
  ASSUME NEW s \in Seq(FrameSet), s # << >>, NEW f \in Seq(FrameSet)
  PROVE  /\ f \o Tail(s) \in Seq(FrameSet)
         /\ Len(f) \in Nat /\ Len(s) \in Nat \ {0}
         /\ Len(f \o Tail(s)) = Len(f) + Len(s) - 1
         /\ \A i \in 1 .. Len(f) : (f \o Tail(s))[i] = f[i]
         /\ \A i \in Len(f) + 1 .. Len(f) + Len(s) - 1 :
              (f \o Tail(s))[i] = s[i - Len(f) + 1]
         /\ f \o Tail(s) = << >> <=> Len(f) + Len(s) - 1 = 0
         /\ Head(s) = s[1]
<1>1. /\ Tail(s) \in Seq(FrameSet) /\ Len(Tail(s)) = Len(s) - 1
      /\ \A i \in 1 .. Len(Tail(s)) : Tail(s)[i] = s[i + 1]
      /\ Head(s) = s[1] /\ Len(s) \in Nat \ {0} /\ Len(f) \in Nat
  BY HeadTailProperties, EmptySeq, LenProperties
<1>2. PICK r : r = Tail(s)
  OBVIOUS
<1>3. /\ f \o r \in Seq(FrameSet) /\ Len(f \o r) = Len(f) + Len(r)
      /\ \A i \in 1 .. Len(f) + Len(r) :
           (f \o r)[i] = IF i <= Len(f) THEN f[i] ELSE r[i - Len(f)]
  BY <1>1, <1>2, ConcatProperties
<1>4. f \o r = << >> <=> Len(f \o r) = 0
  BY <1>3, EmptySeq
<1> HIDE <1>2
<1> QED BY <1>1, <1>2, <1>3, <1>4

LEMMA Cut ==
  ASSUME NEW s \in Seq(FrameSet), NEW n \in Nat, n = Len(s), NEW i \in 1 .. n,
         NEW f \in Seq(FrameSet), NEW m \in Nat, m = Len(f)
  PROVE  /\ f \o SubSeq(s, i + 1, n) \in Seq(FrameSet)
         /\ Len(f \o SubSeq(s, i + 1, n)) = m + n - i
         /\ \A j \in 1 .. m : (f \o SubSeq(s, i + 1, n))[j] = f[j]
         /\ \A j \in m + 1 .. m + n - i :
              (f \o SubSeq(s, i + 1, n))[j] = s[j - m + i]
         /\ f \o SubSeq(s, i + 1, n) = << >> <=> m + n - i = 0
<1>1. \A j \in 1 .. n : s[j] \in FrameSet
  BY ElementOfSeq
<1>2. PICK r : r = SubSeq(s, i + 1, n)
  OBVIOUS
<1>3. /\ r \in Seq(FrameSet)
      /\ Len(r) = IF i + 1 <= n THEN n - (i + 1) + 1 ELSE 0
      /\ \A j \in 1 .. n - (i + 1) + 1 : r[j] = s[i + 1 + j - 1]
  <2>1. i + 1 \in Int /\ n \in Int /\ \A j \in i + 1 .. n : s[j] \in FrameSet
    BY <1>1
  <2> QED BY <2>1, <1>2, SubSeqProperties
<1>4. Len(r) = n - i /\ \A j \in 1 .. n - i : r[j] = s[i + j]
  BY <1>3
<1>5. PICK k \in Nat : k = n - i /\ k = Len(r)
  BY <1>4
<1>6. /\ f \o r \in Seq(FrameSet) /\ Len(f \o r) = m + k
      /\ \A j \in 1 .. m + k :
           (f \o r)[j] = IF j <= m THEN f[j] ELSE r[j - m]
  <2>1. /\ f \o r \in Seq(FrameSet) /\ Len(f \o r) = Len(f) + Len(r)
        /\ \A j \in 1 .. Len(f) + Len(r) :
             (f \o r)[j] = IF j <= Len(f) THEN f[j] ELSE r[j - Len(f)]
    BY <1>3, ConcatProperties
  <2> QED BY <2>1, <1>5, Zenon
<1>7. f \o r = << >> <=> Len(f \o r) = 0
  BY <1>6, EmptySeq
<1>8. \A j \in 1 .. m : (f \o r)[j] = f[j]
  BY <1>5, <1>6
<1>9. \A j \in m + 1 .. m + n - i : (f \o r)[j] = s[j - m + i]
  <2> SUFFICES ASSUME NEW j \in m + 1 .. m + n - i PROVE (f \o r)[j] = s[j - m + i]
    OBVIOUS
  <2>1. (f \o r)[j] = r[j - m]
    BY <1>5, <1>6
  <2>2. j - m \in 1 .. n - i
    OBVIOUS
  <2>3. r[j - m] = s[i + (j - m)]
    BY <1>4, <2>2
  <2>4. i + (j - m) = j - m + i
    OBVIOUS
  <2> QED BY <2>1, <2>3, <2>4
<1>10. m + k = m + n - i
  BY <1>5
<1> HIDE <1>2
<1> QED BY <1>2, <1>6, <1>7, <1>8, <1>9, <1>10

\* A call that returns, goes on or makes further calls.
LEMMA BecomeFollows ==
  ASSUME NEW s \in Seq(FrameSet), s # << >>, Place(Head(s)) \in Inner,
         NEW f \in Seq(FrameSet), \A i \in 1 .. Len(f) : Place(f[i]) \in Inner
  PROVE  /\ Follows(s, f \o Tail(s))
         /\ Len(f) # 0 => f \o Tail(s) # << >> /\ Head(f \o Tail(s)) = f[1]
<1>1. PICK r : r = f \o Tail(s)
  OBVIOUS
<1>2. PICK n \in Nat, m \in Nat, k \in Nat : n = Len(s) /\ m = Len(f) /\ k = Len(r)
  BY <1>1, Replaced, LenProperties
<1>3. /\ r \in Seq(FrameSet) /\ n # 0 /\ k = m + n - 1
      /\ \A i \in 1 .. m : r[i] = f[i]
      /\ \A i \in m + 1 .. m + n - 1 : r[i] = s[i - m + 1]
      /\ r = << >> <=> m + n - 1 = 0
      /\ Head(s) = s[1]
  BY <1>1, <1>2, Replaced
<1> HIDE <1>1
<1>4. n > 1 => r[k] = s[n] /\ r # << >>
  BY <1>3
<1>5. \A i \in 1 .. m : Place(r[i]) \in Inner
  BY <1>2, <1>3
<1>6. \A i \in m + 1 .. k : \E j \in 2 .. n : r[i] = s[j] /\ (i < k => j < n)
  <2> SUFFICES ASSUME NEW i \in m + 1 .. k
               PROVE  \E j \in 2 .. n : r[i] = s[j] /\ (i < k => j < n)
    OBVIOUS
  <2>1. i - m + 1 \in 2 .. n /\ (i < k => i - m + 1 < n)
    BY <1>3
  <2>2. r[i] = s[i - m + 1]
    BY <1>3
  <2> QED BY <2>1, <2>2
<1>7. \A l \in Inner : l \notin {"loop", "closepipe", "unsetpipe", "get", "unset", "idle"}
  BY DEF Inner
<1>8. ReaderStack(s) => ReaderStack(r)
  <2> SUFFICES ASSUME ReaderStack(s) PROVE ReaderStack(r)
    OBVIOUS
  <2>1. \A i \in 1 .. k : Place(r[i]) \notin {"get", "unset", "idle"}
    <3>1. \A i \in 1 .. m : Place(r[i]) \notin {"get", "unset", "idle"}
      BY <1>5, <1>7
    <3>2. \A i \in m + 1 .. k : Place(r[i]) \notin {"get", "unset", "idle"}
      BY <1>2, <1>6 DEF ReaderStack
    <3> QED BY <3>1, <3>2
  <2>2. CASE n = 1
    <3>1. k = m
      BY <2>2, <1>3
    <3>2. r # << >> => Place(r[k]) \in Inner
      BY <3>1, <1>3, <1>5
    <3> QED BY <2>1, <3>2, <1>2, <1>7 DEF ReaderStack
  <2>3. CASE n > 1
    <3>1. s # << >> /\ r[k] = s[n]
      BY <2>3, <1>4
    <3>2. Place(s[n]) \notin {"closepipe", "unsetpipe"}
      BY <3>1, <2>3, <1>2 DEF ReaderStack
    <3> QED BY <2>1, <3>1, <3>2, <1>2 DEF ReaderStack
  <2> QED BY <2>2, <2>3, <1>3
<1>9. PassStack(s) => PassStack(r) /\ (Listens(r) => Listens(s))
  <2> SUFFICES ASSUME PassStack(s) PROVE PassStack(r) /\ (Listens(r) => Listens(s))
    OBVIOUS
  <2>1. Place(s[n]) \in {"get", "unset"} /\ \A j \in 1 .. n - 1 : Place(s[j]) \in Inner
    BY <1>2 DEF PassStack
  <2>2. n > 1
    <3>1. Place(s[1]) \notin {"get", "unset"}
      BY <1>3, <1>7
    <3> QED BY <2>1, <3>1, <1>3
  <2>3. \A i \in 1 .. k - 1 : Place(r[i]) \in Inner
    <3>1. \A i \in m + 1 .. k - 1 : Place(r[i]) \in Inner
      BY <2>1, <1>6
    <3> QED BY <3>1, <1>5
  <2>4. PassStack(r)
    BY <2>1, <2>2, <2>3, <1>2, <1>4 DEF PassStack
  <2>5. Listens(r) => Listens(s)
    BY <2>2, <1>2, <1>4 DEF Listens
  <2> QED BY <2>4, <2>5
<1>10. ReaderStack(s) /\ Serves(s) => Serves(r)
  <2>1. CASE n = 1
    BY <2>1, <1>2, <1>3, <1>7 DEF Serves
  <2>2. CASE n > 1
    BY <2>2, <1>2, <1>4 DEF Serves
  <2> QED BY <2>1, <2>2, <1>3
<1>11. m # 0 => r # << >> /\ Head(r) = f[1]
  <2>1. m # 0 => m >= 1 /\ r[1] = f[1] /\ m + n - 1 # 0
    BY <1>3
  <2> QED BY <2>1, <1>3, HeadTailProperties
<1> QED BY <1>1, <1>2, <1>3, <1>8, <1>9, <1>10, <1>11 DEF Follows

\* A call that raises: Catches and Handler as Raise has them.
LEMMA SmallestOf ==
  ASSUME NEW C \in SUBSET Nat, C # {}
  PROVE  (CHOOSE j \in C : \A k \in C : j <= k) \in C
<1> DEFINE Less == {p \in Nat \X Nat : p[1] < p[2]}
<1>1. IsWellFoundedOn(Less, Nat)
  BY NatLessThanWellFounded DEF OpToRel
<1>2. \E x \in C : \A y \in C : ~ (<<y, x>> \in Less)
  BY <1>1, WFMin
<1>3. \A x, y \in Nat : <<y, x>> \in Less <=> y < x
  OBVIOUS
<1> HIDE DEF Less
<1>4. PICK x \in C : \A y \in C : ~ (<<y, x>> \in Less)
  BY <1>2
<1>5. \A y \in C : ~ (y < x)
  BY <1>3, <1>4
<1>6. \A y \in C : x <= y
  BY <1>5
<1> QED BY <1>6

LEMMA HandlerType ==
  ASSUME NEW at \in Label, NEW kind, NEW h, h = Handler(at, kind)
  PROVE  /\ h \in Seq(FrameSet)
         /\ at # "get" => \A i \in 1 .. Len(h) : Place(h[i]) \in Inner
         /\ at = "loop" => Len(h) = 3 /\ Place(h[1]) = "drain"
         /\ at = "get" => Len(h) = 1 /\ Place(h[1]) \in {"get", "unset"}
<1>1. CASE at = "sent"
  <2>1. h = <<Frame("drain", TRUE)>>
    BY <1>1 DEF Handler
  <2>2. Frame("drain", TRUE) \in FrameSet /\ Place(Frame("drain", TRUE)) \in Inner
    BY DEF Frame, FrameSet, Label, Inner, Place
  <2>3. h \in Seq(FrameSet) /\ Len(h) = 1 /\ h[1] = Frame("drain", TRUE)
    BY <2>1, <2>2, Single
  <2>4. \A i \in 1 .. 1 : i = 1
    OBVIOUS
  <2>5. \A i \in 1 .. Len(h) : Place(h[i]) \in Inner
    BY <2>2, <2>3, <2>4, Zenon
  <2> QED BY <1>1, <2>3, <2>5, Zenon
<1>2. CASE at = "loop"
  <2>0. {"drain", "cancel", "frame"} \subseteq Label
    BY DEF Label
  <2>1. PICK l \in Seq(Label) : l = <<"drain", "cancel", "frame">>
    BY <2>0, Triple
  <2>2. h = Frames(l)
    BY <1>2, <2>1, Zenon DEF Handler, Finally
  <2>3. Len(l) = 3 /\ \A i \in 1 .. 3 : l[i] \in {"drain", "cancel", "frame"}
    BY <2>1
  <2>4. l[1] = "drain"
    BY <2>1
  <2>5. {"drain", "cancel", "frame"} \subseteq Inner
    BY DEF Label, Inner
  <2> HIDE <2>1
  <2>6. h \in Seq(FrameSet) /\ Len(h) = 3 /\ \A i \in 1 .. 3 : Place(h[i]) = l[i]
    BY <2>2, <2>3, FramesType
  <2> QED BY <1>2, <2>3, <2>4, <2>5, <2>6
<1>3. CASE at = "get"
  <2>1. PICK m \in {"get", "unset"} : h = Frames(<<m>>)
    BY <1>3, Zenon DEF Handler
  <2>2. PICK l \in Seq(Label) : l = <<m>>
    BY Single DEF Label
  <2>3. Len(l) = 1 /\ l[1] = m
    BY <2>2
  <2>4. h = Frames(l)
    BY <2>1, <2>2
  <2> HIDE <2>2
  <2>5. h \in Seq(FrameSet) /\ Len(h) = 1 /\ Place(h[1]) = m
    BY <2>3, <2>4, FramesType
  <2> QED BY <1>3, <2>5
<1>4. CASE at \notin {"sent", "loop", "get"}
  <2>1. h = << >>
    BY <1>4 DEF Handler
  <2>2. h \in Seq(FrameSet) /\ Len(h) = 0
    BY <2>1, EmptySeq
  <2> QED BY <1>4, <2>2
<1> QED BY <1>1, <1>2, <1>3, <1>4

LEMMA RaiseFollows ==
  ASSUME NEW s \in Seq(FrameSet), s # << >>, Place(Head(s)) \in Inner, NEW kind,
         NEW C, C = {i \in 1 .. Len(s) : Catches(Place(s[i]), kind)},
         NEW i, C # {} => i \in C
  PROVE  Follows(s, IF C = {} THEN << >>
                    ELSE Handler(Place(s[i]), kind) \o SubSeq(s, i + 1, Len(s)))
<1>1. PICK n \in Nat : n = Len(s)
  BY LenProperties
<1>2. n # 0 /\ s # << >> /\ Head(s) = s[1] /\ \A j \in 1 .. n : s[j] \in FrameSet
  BY <1>1, EmptySeq, ElementOfSeq, HeadTailProperties
<1>3. \A l \in Inner : l \notin {"loop", "closepipe", "unsetpipe", "get", "unset", "idle"}
  BY DEF Inner
<1>4. \A f \in FrameSet : Place(f) \in Label
  BY DEF Place, FrameSet
<1>5. n \notin C => Place(s[n]) \notin {"loop", "get"}
  BY <1>1, <1>2 DEF Catches
<1>6. n \in C => Place(s[n]) # "unset"
  BY <1>1 DEF Catches
<1>7. ReaderStack(s) => Place(s[n]) \notin {"closepipe", "unsetpipe"}
  <2> SUFFICES ASSUME ReaderStack(s), Place(s[n]) \in {"closepipe", "unsetpipe"} PROVE FALSE
    OBVIOUS
  <2>1. n = 1
    BY <1>1, <1>2 DEF ReaderStack
  <2> QED BY <2>1, <1>2, <1>3
<1>8. CASE C = {}
  <2>1. << >> \in Seq(FrameSet) /\ Len(<< >>) = 0
    BY EmptySeq
  <2>2. ReaderStack(<< >>) /\ PassStack(<< >>) /\ ~Listens(<< >>)
    BY <2>1 DEF ReaderStack, PassStack, Listens
  <2>3. ~(ReaderStack(s) /\ Serves(s))
    BY <1>1, <1>5, <1>7, <1>8 DEF Serves
  <2>4. Follows(s, << >>)
    BY <2>1, <2>2, <2>3 DEF Follows
  <2> QED BY <2>4, <1>8
<1>9. CASE C # {}
  <2>1. PICK h : h = Handler(Place(s[i]), kind)
    OBVIOUS
  <2>2. i \in C /\ i \in 1 .. n /\ Place(s[i]) \in Label
    BY <1>1, <1>2, <1>4, <1>9
  <2>3. /\ h \in Seq(FrameSet)
        /\ Place(s[i]) # "get" => \A j \in 1 .. Len(h) : Place(h[j]) \in Inner
        /\ Place(s[i]) = "loop" => Len(h) = 3 /\ Place(h[1]) = "drain"
        /\ Place(s[i]) = "get" => Len(h) = 1 /\ Place(h[1]) \in {"get", "unset"}
    BY <2>1, <2>2, HandlerType
  <2>4. PICK m \in Nat : m = Len(h)
    BY <2>3, LenProperties
  <2>5. PICK r : r = h \o SubSeq(s, i + 1, n)
    OBVIOUS
  <2>6. /\ r \in Seq(FrameSet) /\ Len(r) = m + n - i
        /\ \A j \in 1 .. m : r[j] = h[j]
        /\ \A j \in m + 1 .. m + n - i : r[j] = s[j - m + i]
        /\ r = << >> <=> m + n - i = 0
    <3>1. i \in 1 .. n /\ h \in Seq(FrameSet)
      BY <2>2, <2>3
    <3>2. /\ h \o SubSeq(s, i + 1, n) \in Seq(FrameSet)
          /\ Len(h \o SubSeq(s, i + 1, n)) = m + n - i
          /\ \A j \in 1 .. m : (h \o SubSeq(s, i + 1, n))[j] = h[j]
          /\ \A j \in m + 1 .. m + n - i :
               (h \o SubSeq(s, i + 1, n))[j] = s[j - m + i]
          /\ h \o SubSeq(s, i + 1, n) = << >> <=> m + n - i = 0
      <4> HIDE <2>5
      <4> QED BY <3>1, <1>1, <2>4, Cut
    <3> QED BY <3>2, <2>5, Zenon
  <2>7. PICK k \in Nat : k = m + n - i
    BY <2>2
  <2> HIDE <2>1, <2>5
  <2>8. CASE i < n
    <3>1. r # << >> /\ r[k] = s[n]
      BY <2>2, <2>6, <2>7, <2>8
    <3>2. Place(s[i]) # "get" => \A j \in 1 .. m : Place(r[j]) \in Inner
      BY <2>3, <2>4, <2>6
    <3>3. ReaderStack(s) => ReaderStack(r)
      <4> SUFFICES ASSUME ReaderStack(s) PROVE ReaderStack(r)
        OBVIOUS
      <4>1. \A j \in 1 .. n : Place(s[j]) \notin {"get", "unset", "idle"}
        BY <1>1 DEF ReaderStack
      <4>2. \A j \in 1 .. m : Place(r[j]) \notin {"get", "unset", "idle"}
        BY <4>1, <3>2, <2>2, <1>3
      <4>3. \A j \in m + 1 .. k : Place(r[j]) \notin {"get", "unset", "idle"}
        <5> SUFFICES ASSUME NEW j \in m + 1 .. k
                     PROVE  Place(r[j]) \notin {"get", "unset", "idle"}
          OBVIOUS
        <5>1. j - m + i \in 1 .. n /\ r[j] = s[j - m + i]
          BY <2>2, <2>6, <2>7
        <5> QED BY <5>1, <4>1
      <4>4. \A j \in 1 .. k : Place(r[j]) \notin {"get", "unset", "idle"}
        BY <4>2, <4>3
      <4>5. Len(r) = k
        BY <2>6, <2>7
      <4> QED BY <4>4, <4>5, <3>1, <1>7 DEF ReaderStack
    <3>4. PassStack(s) => PassStack(r)
      <4> SUFFICES ASSUME PassStack(s) PROVE PassStack(r)
        OBVIOUS
      <4>1. \A j \in 1 .. n - 1 : Place(s[j]) \in Inner
        BY <1>1, <1>2 DEF PassStack
      <4>2. \A j \in 1 .. m : Place(r[j]) \in Inner
        BY <4>1, <3>2, <2>2, <2>8, <1>3
      <4>3. \A j \in m + 1 .. k - 1 : Place(r[j]) \in Inner
        <5> SUFFICES ASSUME NEW j \in m + 1 .. k - 1 PROVE Place(r[j]) \in Inner
          OBVIOUS
        <5>1. j - m + i \in 1 .. n - 1 /\ r[j] = s[j - m + i]
          BY <2>2, <2>6, <2>7
        <5> QED BY <5>1, <4>1
      <4>4. \A j \in 1 .. k - 1 : Place(r[j]) \in Inner
        BY <4>2, <4>3
      <4>5. Len(r) = k
        BY <2>6, <2>7
      <4>6. Place(s[n]) \in {"get", "unset"}
        BY <1>1, <1>2 DEF PassStack
      <4> QED BY <4>4, <4>5, <4>6, <3>1 DEF PassStack
    <3>5. Len(r) = k
      BY <2>6, <2>7
    <3>6. Listens(r) => Listens(s)
      BY <3>1, <3>5, <1>1, <1>2 DEF Listens
    <3>7. Serves(s) => Serves(r)
      BY <3>1, <3>5, <1>1, <1>2 DEF Serves
    <3>8. Follows(s, r)
      BY <3>3, <3>4, <3>6, <3>7, <2>6 DEF Follows
    <3> QED BY <3>8, <2>1, <2>5, <1>1, <1>9
  <2>9. CASE i = n
    <3>1. /\ Len(r) = m /\ k = m
          /\ \A j \in 1 .. m : r[j] = h[j]
          /\ r = << >> <=> m = 0
      BY <2>2, <2>6, <2>7, <2>9
    <3>2. Place(s[n]) # "get" => \A j \in 1 .. m : Place(r[j]) \in Inner
      BY <2>3, <2>4, <2>9, <3>1
    <3>3. ReaderStack(s) => ReaderStack(r)
      <4> SUFFICES ASSUME ReaderStack(s) PROVE ReaderStack(r)
        OBVIOUS
      <4>1. Place(s[n]) # "get"
        BY <1>1, <1>2 DEF ReaderStack
      <4>2. \A j \in 1 .. m : Place(r[j]) \in Inner
        BY <4>1, <3>2
      <4>3. r # << >> => Place(r[m]) \in Inner
        BY <4>2, <3>1
      <4> QED BY <4>2, <4>3, <3>1, <1>3 DEF ReaderStack
    <3>4. PassStack(s) => Place(s[n]) = "get"
      BY <1>1, <1>2, <1>6, <2>2, <2>9 DEF PassStack
    <3>5. Place(s[n]) = "get" => m = 1 /\ Place(r[1]) \in {"get", "unset"}
      BY <2>3, <2>4, <2>9, <3>1
    <3>6. PassStack(s) => PassStack(r)
      BY <3>1, <3>4, <3>5 DEF PassStack
    <3>7. PassStack(s) => Listens(s)
      BY <3>4, <1>1, <1>2 DEF Listens
    <3>8. ReaderStack(s) /\ Serves(s) => Puts(r)
      <4> SUFFICES ASSUME ReaderStack(s), Serves(s) PROVE Puts(r)
        OBVIOUS
      <4>1. Place(s[n]) = "loop"
        BY <1>1, <1>7 DEF Serves
      <4>2. m = 3 /\ Place(h[1]) = "drain"
        BY <4>1, <2>3, <2>4, <2>9
      <4>3. r # << >> /\ r[1] = h[1]
        BY <4>2, <3>1
      <4>4. Head(r) = r[1]
        BY <4>3, <2>6, HeadTailProperties
      <4> QED BY <4>2, <4>3, <4>4 DEF Puts
    <3>9. Follows(s, r)
      BY <3>3, <3>6, <3>7, <3>8, <2>6 DEF Follows
    <3> QED BY <3>9, <2>1, <2>5, <1>1, <1>9
  <2> QED BY <2>2, <2>8, <2>9
<1> QED BY <1>8, <1>9
-----------------------------------------------------------------------------
(* The steps of a thread in its calls.                                      *)

Moves(t) ==
  /\ stack[t] # << >>
  /\ stack' = [stack EXCEPT ![t] = stack'[t]]
  /\ Follows(stack[t], stack'[t])

\* What the queue is for: a thread that closes the connection puts a pill, and
\* one that takes a pill out of the queue is such a thread.
Provides(t) ==
  /\ hasQueue' = hasQueue
  /\ full => full'
  /\ Puts(stack[t]) /\ hasQueue => full' \/ HasPill(queue') \/ Puts(stack'[t])
  /\ HasPill(queue) => HasPill(queue') \/ Puts(stack'[t])

LEMMA StackType ==
  ASSUME TypeOK
  PROVE  /\ stack \in [Thread -> Seq(FrameSet)]
         /\ \A t \in Thread : stack[t] # << >> => Head(stack[t]) \in FrameSet
<1>1. stack \in [Thread -> Seq(FrameSet)]
  BY DEF TypeOK, FrameSet
<1> QED BY <1>1, HeadTailProperties

LEMMA AtPlace ==
  ASSUME NEW t, NEW l, At(t, l)
  PROVE  stack[t] # << >> /\ Place(Head(stack[t])) = l
BY Zenon DEF At, Place

LEMMA BecomeStep ==
  ASSUME TypeOK, NEW t \in Thread, NEW l \in Inner, At(t, l),
         NEW f \in Seq(FrameSet), \A i \in 1 .. Len(f) : Place(f[i]) \in Inner,
         Become(t, f)
  PROVE  /\ Moves(t)
         /\ Len(f) # 0 => stack'[t] # << >> /\ Head(stack'[t]) = f[1]
<1>1. PICK s : s = stack[t]
  OBVIOUS
<1>2. s \in Seq(FrameSet) /\ s # << >> /\ Place(Head(s)) \in Inner
  BY <1>1, StackType, AtPlace
<1>3. /\ Follows(s, f \o Tail(s))
      /\ Len(f) # 0 => f \o Tail(s) # << >> /\ Head(f \o Tail(s)) = f[1]
  BY <1>2, BecomeFollows
<1>4. PICK r : r = f \o Tail(s)
  OBVIOUS
<1>5. stack' = [stack EXCEPT ![t] = f \o Tail(stack[t])]
  BY Zenon DEF Become
<1>6. stack' = [stack EXCEPT ![t] = r]
  BY <1>1, <1>4, <1>5, Zenon
<1>7. stack'[t] = r
  BY <1>6, StackType
<1> HIDE <1>4
<1> QED BY <1>1, <1>2, <1>3, <1>4, <1>6, <1>7, Zenon DEF Moves

LEMMA ReturnStep ==
  ASSUME TypeOK, NEW t \in Thread, NEW l \in Inner, At(t, l), Return(t)
  PROVE  Moves(t)
<1>1. << >> \in Seq(FrameSet) /\ \A i \in 1 .. Len(<< >>) : Place(<< >>[i]) \in Inner
  BY EmptySeq
<1>2. Become(t, << >>)
  BY DEF Return
<1> QED BY <1>1, <1>2, BecomeStep

LEMMA GotoStep ==
  ASSUME TypeOK, NEW t \in Thread, NEW l \in Inner, At(t, l), NEW to \in Inner, Goto(t, to)
  PROVE  Moves(t) /\ stack'[t] # << >> /\ Place(Head(stack'[t])) = to
<1>1. PICK g : g = Frame(to, Error(t))
  OBVIOUS
<1>2. Error(t) \in BOOLEAN
  BY StackType, AtPlace DEF Error, FrameSet
<1>3. g \in FrameSet /\ Place(g) = to
  BY <1>1, <1>2 DEF Frame, FrameSet, Place, Inner
<1>4. PICK f \in Seq(FrameSet) : f = <<g>> /\ Len(f) = 1 /\ f[1] = g
  BY <1>3, Single
<1>5. Become(t, f)
  BY <1>1, <1>4, Zenon DEF Goto
<1>6. \A i \in 1 .. Len(f) : Place(f[i]) \in Inner
  BY <1>3, <1>4
<1>7. Moves(t) /\ (Len(f) # 0 => stack'[t] # << >> /\ Head(stack'[t]) = f[1])
  <2> HIDE <1>4
  <2> QED BY <1>5, <1>6, BecomeStep
<1> QED BY <1>3, <1>4, <1>7

LEMMA RaiseStep ==
  ASSUME TypeOK, NEW t \in Thread, NEW l \in Inner, At(t, l), NEW kind, Raise(t, kind)
  PROVE  Moves(t)
<1>1. PICK s : s = stack[t]
  OBVIOUS
<1>2. s \in Seq(FrameSet) /\ s # << >> /\ Place(Head(s)) \in Inner /\ DOMAIN s = 1 .. Len(s)
  BY <1>1, StackType, AtPlace, LenProperties
<1> DEFINE C == {j \in DOMAIN stack[t] : Catches(stack[t][j].at, kind)}
           i == CHOOSE j \in C : \A k \in C : j <= k
<1>3. stack' = [stack EXCEPT ![t] =
                  IF C = {} THEN << >>
                  ELSE Handler(stack[t][i].at, kind) \o SubSeq(stack[t], i + 1, Len(stack[t]))]
  BY Zenon DEF Raise
<1>4. C = {j \in 1 .. Len(s) : Catches(Place(s[j]), kind)}
  BY <1>1, <1>2, Zenon DEF Place
<1>5. C # {} => i \in C
  <2>1. C \in SUBSET Nat
    BY <1>4
  <2> HIDE DEF C
  <2> QED BY <2>1, SmallestOf
<1> HIDE DEF C, i
<1>6. PICK r : r = IF C = {} THEN << >> ELSE Handler(Place(s[i]), kind) \o SubSeq(s, i + 1, Len(s))
  OBVIOUS
<1>7. Follows(s, r)
  BY <1>2, <1>4, <1>5, <1>6, RaiseFollows
<1>8. stack[t][i].at = Place(s[i])
  BY <1>1, Zenon DEF Place
<1>9. stack' = [stack EXCEPT ![t] = r]
  BY <1>1, <1>3, <1>6, <1>8, Zenon
<1>10. stack'[t] = r
  BY <1>9, StackType
<1> QED BY <1>1, <1>2, <1>7, <1>9, <1>10, Zenon DEF Moves

Kinds == {"OSError", "AttributeError", "RuntimeError"}

\* Returns, goes on, or raises.
Simple(t) ==
  Return(t) \/ (\E to \in Inner : Goto(t, to)) \/ (\E kind \in Kinds : Raise(t, kind))

LEMMA SimpleStep ==
  ASSUME TypeOK, NEW t \in Thread, NEW l \in Inner, At(t, l), Simple(t)
  PROVE  Moves(t)
<1>1. CASE Return(t)
  BY <1>1, ReturnStep
<1>2. ASSUME NEW to \in Inner, Goto(t, to) PROVE Moves(t)
  BY <1>2, GotoStep
<1>3. ASSUME NEW kind, Raise(t, kind) PROVE Moves(t)
  BY <1>3, RaiseStep
<1> QED BY <1>1, <1>2, <1>3, Zenon DEF Simple

LEMMA NotPuts ==
  ASSUME NEW t, NEW l, At(t, l), l \notin {"drain", "empty", "pill"}
  PROVE  ~Puts(stack[t])
BY AtPlace, Zenon DEF Puts

LEMMA Unqueued ==
  ASSUME NEW t, NEW l, At(t, l), l \notin {"drain", "empty", "pill"}, UNCHANGED queueVars
  PROVE  Provides(t)
<1>1. ~Puts(stack[t])
  BY NotPuts
<1>2. hasQueue' = hasQueue /\ full' = full /\ queue' = queue
  BY DEF queueVars
<1> QED BY <1>1, <1>2, Zenon DEF Provides

LEMMA InInner ==
  ASSUME NEW l \in {"drain", "empty", "pill", "close", "shut", "interrupt", "signal", "lock",
                    "write", "unlock", "sent", "handled", "ponged", "cancel", "take",
                    "forget", "stop", "reset", "create", "start", "put", "inner", "frame"}
  PROVE  l \in Inner
BY DEF Inner, Label

LEMMA PlainStep ==
  ASSUME TypeOK, NEW t \in Thread,
         \/ close(t) \/ Shut(t) \/ interrupt(t) \/ Signal(t) \/ Lock(t) \/ Unlock(t)
         \/ LeaveTry(t) \/ PingStep(t)
  PROVE  Moves(t) /\ Provides(t)
<1> DEFINE Q == UNCHANGED queueVars
           P == {"close", "shut", "interrupt", "signal", "lock", "unlock", "sent", "handled",
                 "ponged", "cancel", "take", "forget", "stop", "reset", "create", "start"}
<1>1. \A kind : Raise(t, kind) => Q
  BY Zenon DEF Raise
<1>2. /\ "shut" \in Inner /\ "interrupt" \in Inner /\ "signal" \in Inner /\ "write" \in Inner
      /\ "take" \in Inner /\ "forget" \in Inner /\ "stop" \in Inner /\ "create" \in Inner
      /\ "start" \in Inner
  BY InInner
<1>3. close(t) \/ Shut(t) \/ interrupt(t) => \E l \in P : At(t, l) /\ Simple(t) /\ Q
  BY <1>2, Zenon DEF close, Shut, interrupt, Simple
<1>4. Signal(t) => \E l \in P : At(t, l) /\ Simple(t) /\ Q
  BY <1>1, Zenon DEF Signal, Simple, Kinds
<1>5. Lock(t) \/ Unlock(t) \/ LeaveTry(t) => \E l \in P : At(t, l) /\ Simple(t) /\ Q
  BY <1>2, Zenon DEF Lock, Unlock, LeaveTry, Simple
<1>6. cancelPing(t) \/ TakeOld(t) \/ Forget(t) => \E l \in P : At(t, l) /\ Simple(t) /\ Q
  BY <1>2, Zenon DEF cancelPing, TakeOld, Forget, Simple
<1>7. StopOld(t) \/ resetPing(t) => \E l \in P : At(t, l) /\ Simple(t) /\ Q
  BY <1>1, <1>2, Zenon DEF StopOld, resetPing, Simple, Kinds
<1>8. CreateTimer(t) \/ StartTimer(t) => \E l \in P : At(t, l) /\ Simple(t) /\ Q
  BY <1>1, <1>2, Zenon DEF CreateTimer, StartTimer, Simple, Kinds
<1>9. PICK l \in P : At(t, l) /\ Simple(t) /\ Q
  BY <1>3, <1>4, <1>5, <1>6, <1>7, <1>8, Zenon DEF PingStep
<1>10. l \in Inner /\ l \notin {"drain", "empty", "pill"}
  BY InInner
<1> QED BY <1>9, <1>10, SimpleStep, Unqueued

LEMMA QueueType ==
  ASSUME TypeOK
  PROVE  /\ queue \in Seq({"data", "pill"}) /\ Len(queue) \in Nat
         /\ queue # << >> => /\ Tail(queue) \in Seq({"data", "pill"})
                             /\ Len(Tail(queue)) = Len(queue) - 1
BY HeadTailProperties, LenProperties DEF TypeOK

LEMMA Appended ==
  ASSUME TypeOK, NEW x \in {"data", "pill"}
  PROVE  /\ Append(queue, x) \in Seq({"data", "pill"})
         /\ Len(Append(queue, x)) = Len(queue) + 1
         /\ HasPill(queue) => HasPill(Append(queue, x))
         /\ HasPill(Append(queue, "pill"))
<1>1. PICK n \in Nat : n = Len(queue)
  BY QueueType
<1>2. \A y \in {"data", "pill"} :
        /\ Append(queue, y) \in Seq({"data", "pill"})
        /\ Len(Append(queue, y)) = n + 1
        /\ \A i \in 1 .. n : Append(queue, y)[i] = queue[i]
        /\ Append(queue, y)[n + 1] = y
  BY <1>1, QueueType, AppendProperties
<1>3. HasPill(queue) => HasPill(Append(queue, x))
  <2>1. \A i \in 1 .. n : i \in 1 .. n + 1
    OBVIOUS
  <2> QED BY <1>1, <1>2, <2>1, Zenon DEF HasPill
<1>4. HasPill(Append(queue, "pill"))
  <2>1. n + 1 \in 1 .. n + 1
    OBVIOUS
  <2> QED BY <1>2, <2>1, Zenon DEF HasPill
<1> QED BY <1>1, <1>2, <1>3, <1>4

LEMMA PutsAt ==
  ASSUME NEW t, NEW l \in {"drain", "empty", "pill"}, stack'[t] # << >>,
         Place(Head(stack'[t])) = l
  PROVE  Puts(stack'[t])
BY Zenon DEF Puts

LEMMA DrainStep ==
  ASSUME TypeOK, NEW t \in Thread, drain(t)
  PROVE  Moves(t) /\ Provides(t)
<1>1. At(t, "drain") /\ "drain" \in Inner /\ "empty" \in Inner /\ "close" \in Inner
  BY InInner, Zenon DEF drain
<1>2. PICK l \in {"empty", "close"} : Goto(t, l) /\ (hasQueue => l = "empty")
  BY Zenon DEF drain
<1>3. Moves(t) /\ stack'[t] # << >> /\ Place(Head(stack'[t])) = l
  BY <1>1, <1>2, GotoStep
<1>4. hasQueue => Puts(stack'[t])
  BY <1>2, <1>3, PutsAt
<1>5. queue' = queue /\ hasQueue' = hasQueue /\ full' = full
  BY DEF drain, queueVars
<1> QED BY <1>3, <1>4, <1>5, Zenon DEF Provides

\* Without a queue, the get raises; an empty queue has no pill.
LEMMA EmptyStep ==
  ASSUME TypeOK, NEW t \in Thread, empty(t)
  PROVE  Moves(t) /\ Provides(t)
<1>1. At(t, "empty") /\ "empty" \in Inner /\ "pill" \in Inner
  BY InInner, Zenon DEF empty
<1>2. Puts(stack[t])
  BY <1>1, AtPlace, Zenon DEF Puts
<1>3. CASE ~hasQueue /\ Raise(t, "AttributeError")
  <2>1. Moves(t)
    BY <1>1, <1>3, RaiseStep
  <2>2. queue' = queue /\ hasQueue' = hasQueue /\ full' = full
    BY <1>3 DEF Raise, queueVars
  <2> QED BY <2>1, <2>2, <1>3, Zenon DEF Provides
<1>4. CASE hasQueue /\ queue = << >> /\ Goto(t, "pill") /\ UNCHANGED <<queue, hasQueue, full>>
  <2>1. Moves(t) /\ stack'[t] # << >> /\ Place(Head(stack'[t])) = "pill"
    BY <1>1, <1>4, GotoStep
  <2>2. Puts(stack'[t])
    BY <2>1, PutsAt
  <2> QED BY <2>1, <2>2, <1>4, Zenon DEF Provides
<1>5. CASE hasQueue /\ UNCHANGED <<stack, hasQueue, full>>
  <2>1. stack' = stack /\ stack[t] \in Seq(FrameSet)
    BY <1>5, StackType
  <2>2. Follows(stack[t], stack[t])
    BY <2>1, Zenon DEF Follows
  <2>3. Moves(t)
    BY <1>1, <2>1, <2>2, AtPlace, StackType DEF Moves
  <2> QED BY <2>1, <2>3, <1>2, <1>5, Zenon DEF Provides
<1> QED BY <1>3, <1>4, <1>5, Zenon DEF empty

LEMMA PillStep ==
  ASSUME TypeOK, NEW t \in Thread, putPill(t)
  PROVE  Moves(t) /\ Provides(t)
<1>1. At(t, "pill") /\ "pill" \in Inner /\ "close" \in Inner
  BY InInner, Zenon DEF putPill
<1>2. CASE ~hasQueue /\ Raise(t, "AttributeError")
  <2>1. Moves(t)
    BY <1>1, <1>2, RaiseStep
  <2>2. queue' = queue /\ hasQueue' = hasQueue /\ full' = full
    BY <1>2 DEF Raise, queueVars
  <2> QED BY <2>1, <2>2, <1>2, Zenon DEF Provides
<1>3. CASE hasQueue /\ Goto(t, "close") /\ hasQueue' = hasQueue
           /\ queue' = Append(queue, "pill") /\ full' = full
  <2>1. Moves(t)
    BY <1>1, <1>3, GotoStep
  <2>2. HasPill(queue')
    BY <1>3, Appended
  <2> QED BY <2>1, <2>2, <1>3, Zenon DEF Provides
<1>4. CASE hasQueue /\ Goto(t, "close") /\ hasQueue' = hasQueue
           /\ queue' = queue /\ full' = TRUE
  <2>1. Moves(t)
    BY <1>1, <1>4, GotoStep
  <2> QED BY <2>1, <1>4, Zenon DEF Provides
<1> QED BY <1>2, <1>3, <1>4, Zenon DEF putPill

LEMMA Pair ==
  ASSUME NEW S, NEW x \in S, NEW y \in S
  PROVE  /\ <<x, y>> \in Seq(S) /\ Len(<<x, y>>) = 2
         /\ <<x, y>>[1] = x /\ <<x, y>>[2] = y
OBVIOUS

LEMMA WriteStep ==
  ASSUME TypeOK, NEW t \in Thread, Write(t)
  PROVE  Moves(t) /\ Provides(t)
<1>1. At(t, "write") /\ "write" \in Inner
  BY InInner, Zenon DEF Write
<1>2. Provides(t)
  BY <1>1, Unqueued DEF Write
<1>3. CASE Return(t)
  BY <1>1, <1>2, <1>3, ReturnStep
<1>4. CASE Become(t, <<Frame("close", TRUE), Frame("unlock", FALSE)>>)
  <2>1. PICK g, h : /\ g = Frame("close", TRUE) /\ h = Frame("unlock", FALSE)
                     /\ g \in FrameSet /\ Place(g) \in Inner
                     /\ h \in FrameSet /\ Place(h) \in Inner
    <3>1. Frame("close", TRUE) \in FrameSet /\ Place(Frame("close", TRUE)) = "close"
      BY DEF Frame, FrameSet, Label, Place
    <3>2. Frame("unlock", FALSE) \in FrameSet /\ Place(Frame("unlock", FALSE)) = "unlock"
      BY DEF Frame, FrameSet, Label, Place
    <3>3. "close" \in Inner /\ "unlock" \in Inner
      BY InInner
    <3> QED BY <3>1, <3>2, <3>3, Zenon
  <2>2. PICK f \in Seq(FrameSet) : f = <<g, h>> /\ Len(f) = 2 /\ f[1] = g /\ f[2] = h
    <3>1. g \in FrameSet /\ h \in FrameSet
      BY <2>1
    <3>2. /\ <<g, h>> \in Seq(FrameSet) /\ Len(<<g, h>>) = 2
          /\ <<g, h>>[1] = g /\ <<g, h>>[2] = h
      BY <3>1, Pair
    <3> QED BY <3>2, Zenon
  <2>3. Become(t, f)
    BY <1>4, <2>1, <2>2, Zenon
  <2> HIDE <2>1, <2>2
  <2>4. \A i \in 1 .. 2 : i = 1 \/ i = 2
    OBVIOUS
  <2>5. \A i \in 1 .. Len(f) : Place(f[i]) \in Inner
    BY <2>1, <2>2, <2>4, Zenon
  <2> QED BY <1>1, <1>2, <2>3, <2>5, BecomeStep
<1> QED BY <1>3, <1>4, Zenon DEF Write

LEMMA CallStep ==
  ASSUME TypeOK, NEW t \in Thread, CallNext(t) \/ Lock(t)
  PROVE  Moves(t) /\ Provides(t)
<1>1. \/ drain(t) \/ empty(t) \/ putPill(t) \/ Write(t)
      \/ close(t) \/ Shut(t) \/ interrupt(t) \/ Signal(t) \/ Lock(t) \/ Unlock(t)
      \/ LeaveTry(t) \/ PingStep(t)
  BY Zenon DEF CallNext, CloseStep, SendStep
<1> QED BY <1>1, DrainStep, EmptyStep, PillStep, WriteStep, PlainStep
-----------------------------------------------------------------------------
(* Types and timers.                                                        *)

RestOK ==
  /\ open \in BOOLEAN /\ socketError \in BOOLEAN
  /\ interruptPipeSend \in {"open", "closed", "none"}
  /\ sendLock \subseteq Thread
  /\ queue \in Seq({"data", "pill"}) /\ Len(queue) <= QueueSize
  /\ hasQueue \in BOOLEAN /\ full \in BOOLEAN
  /\ pingTimer \in Timer \union {NoTimer}
  /\ timer \in [Timer -> {"free", "new", "armed"}]
  /\ old \in [Thread -> Timer \union {NoTimer}]

LEMMA TypeParts ==
  TypeOK <=> RestOK /\ stack \in [Thread -> Seq(FrameSet)]
BY Zenon DEF TypeOK, RestOK, FrameSet

\* A Timer that is set up has no thread yet.
Arms == \A i \in Timer : timer'[i] # "free" => timer[i] # "free" \/ stack[i] = << >>

LEMMA SameArms ==
  ASSUME timer' = timer
  PROVE  Arms
BY DEF Arms

LEMMA RaiseRest ==
  ASSUME RestOK, NEW t \in Thread, NEW kind, Raise(t, kind)
  PROVE  RestOK' /\ Arms
<1>1. /\ sendLock' = sendLock \ {t} /\ old' = [old EXCEPT ![t] = NoTimer]
      /\ interruptPipeSend' = interruptPipeSend /\ timer' = timer /\ pingTimer' = pingTimer
      /\ queue' = queue /\ hasQueue' = hasQueue /\ full' = full
  BY Zenon DEF Raise, queueVars
<1>2. open' \in BOOLEAN /\ socketError' \in BOOLEAN
  <2>1. \E b : open' = (open /\ b)
    BY Zenon DEF Raise
  <2>2. \E b : socketError' = (socketError \/ b)
    BY Zenon DEF Raise
  <2> QED BY <2>1, <2>2
<1>3. old' \in [Thread -> Timer \union {NoTimer}] /\ sendLock' \subseteq Thread
  BY <1>1 DEF RestOK
<1>4. RestOK'
  BY <1>1, <1>2, <1>3, Zenon DEF RestOK
<1> QED BY <1>1, <1>4, SameArms

LEMMA CloseRest ==
  ASSUME TypeOK, NEW t \in Thread, CloseStep(t)
  PROVE  RestOK' /\ Arms
<1>0. RestOK
  BY TypeParts
<1>1. CASE drain(t) \/ interrupt(t)
  <2>1. UNCHANGED <<socketVars, sendLock, queueVars, pingVars>>
    BY <1>1 DEF drain, interrupt
  <2> QED BY <2>1, <1>0, SameArms DEF RestOK, socketVars, queueVars, pingVars
<1>2. CASE empty(t)
  <2>1. CASE Raise(t, "AttributeError")
    BY <2>1, <1>0, RaiseRest
  <2>2. CASE (queue' = queue \/ (queue # << >> /\ queue' = Tail(queue)))
             /\ UNCHANGED <<socketVars, sendLock, hasQueue, full, pingVars>>
    <3>1. queue' \in Seq({"data", "pill"}) /\ Len(queue') <= QueueSize
      BY <2>2, <1>0, QueueType, ConnectionAssumption DEF RestOK
    <3>2. UNCHANGED <<socketVars, sendLock, hasQueue, full, pingVars>>
      BY <2>2
    <3> QED BY <3>1, <3>2, <1>0, SameArms DEF RestOK, socketVars, pingVars
  <2> QED BY <1>2, <2>1, <2>2, Zenon DEF empty
<1>3. CASE putPill(t)
  <2>1. CASE Raise(t, "AttributeError")
    BY <2>1, <1>0, RaiseRest
  <2>2. CASE /\ \/ Len(queue) < QueueSize /\ queue' = Append(queue, "pill") /\ full' = full
                \/ queue' = queue /\ full' = TRUE
             /\ UNCHANGED <<socketVars, sendLock, hasQueue, pingVars>>
    <3>1. queue' \in Seq({"data", "pill"}) /\ Len(queue') <= QueueSize /\ full' \in BOOLEAN
      <4>1. PICK n \in Nat : n = Len(queue)
        BY QueueType
      <4>2. Append(queue, "pill") \in Seq({"data", "pill"}) /\ Len(Append(queue, "pill")) = n + 1
        BY <4>1, Appended
      <4>3. n < QueueSize => n + 1 <= QueueSize
        BY <4>1, ConnectionAssumption
      <4>4. CASE n < QueueSize /\ queue' = Append(queue, "pill") /\ full' = full
        BY <4>2, <4>3, <4>4, <1>0 DEF RestOK
      <4>5. CASE queue' = queue /\ full' = TRUE
        BY <4>5, <1>0 DEF RestOK
      <4> QED BY <4>1, <4>4, <4>5, <2>2, Zenon
    <3>2. UNCHANGED <<socketVars, sendLock, hasQueue, pingVars>>
      BY <2>2
    <3> QED BY <3>1, <3>2, <1>0, SameArms DEF RestOK, socketVars, pingVars
  <2> QED BY <1>3, <2>1, <2>2, Zenon DEF putPill
<1>4. CASE close(t) \/ Shut(t)
  <2>1. /\ open' \in BOOLEAN /\ socketError' \in BOOLEAN
        /\ UNCHANGED <<interruptPipeSend, sendLock, queueVars, pingVars>>
    BY <1>4, <1>0 DEF close, Shut, RestOK
  <2> QED BY <2>1, <1>0, SameArms DEF RestOK, queueVars, pingVars
<1>5. CASE Signal(t)
  <2>1. CASE \E kind \in Kinds : Raise(t, kind)
    BY <2>1, <1>0, RaiseRest
  <2>2. CASE UNCHANGED <<socketVars, sendLock, queueVars, pingVars>>
    BY <2>2, <1>0, SameArms DEF RestOK, socketVars, queueVars, pingVars
  <2> QED BY <1>5, <2>1, <2>2, Zenon DEF Signal, Kinds
<1> QED BY <1>1, <1>2, <1>3, <1>4, <1>5, Zenon DEF CloseStep

LEMMA SendRest ==
  ASSUME TypeOK, NEW t \in Thread, SendStep(t) \/ Lock(t)
  PROVE  RestOK' /\ Arms
<1>1. sendLock' \subseteq Thread /\ UNCHANGED <<socketVars, queueVars, pingVars>>
  BY DEF SendStep, Lock, Write, Unlock, LeaveTry, TypeOK
<1> QED BY <1>1, TypeParts, SameArms DEF RestOK, socketVars, queueVars, pingVars

LEMMA PingRest ==
  ASSUME TypeOK, NEW t \in Thread, PingStep(t)
  PROVE  RestOK' /\ Arms
<1>0. RestOK
  BY TypeParts
<1>1. CASE cancelPing(t) \/ resetPing(t)
  <2>1. UNCHANGED <<socketVars, sendLock, queueVars, pingVars>>
    BY <1>1 DEF cancelPing, resetPing
  <2> QED BY <2>1, <1>0, SameArms DEF RestOK, socketVars, queueVars, pingVars
<1>2. CASE TakeOld(t) \/ Forget(t)
  <2>1. /\ old' \in [Thread -> Timer \union {NoTimer}] /\ pingTimer' \in Timer \union {NoTimer}
        /\ UNCHANGED <<socketVars, sendLock, queueVars, timer>>
    BY <1>2, <1>0 DEF TakeOld, Forget, RestOK
  <2> QED BY <2>1, <1>0, SameArms DEF RestOK, socketVars, queueVars
<1>3. CASE \E kind \in Kinds : Raise(t, kind)
  BY <1>3, <1>0, RaiseRest
<1>4. CASE StopOld(t) /\ ~Raise(t, "AttributeError")
  <2>1. /\ timer' = [timer EXCEPT ![old[t]] = "free"] /\ old' = [old EXCEPT ![t] = NoTimer]
        /\ UNCHANGED <<socketVars, sendLock, queueVars, pingTimer>>
    BY <1>4, Zenon DEF StopOld
  <2>2. timer' \in [Timer -> {"free", "new", "armed"}] /\ Arms
    BY <2>1, <1>0 DEF RestOK, Arms
  <2>3. old' \in [Thread -> Timer \union {NoTimer}]
    BY <2>1, <1>0 DEF RestOK
  <2> QED BY <2>1, <2>2, <2>3, <1>0 DEF RestOK, socketVars, queueVars
<1>5. CASE CreateTimer(t)
  <2>1. PICK i \in Timer : Unused(i) /\ pingTimer' = i /\ timer' = [timer EXCEPT ![i] = "new"]
    BY <1>5, Zenon DEF CreateTimer
  <2>2. stack[i] = << >>
    BY <2>1 DEF Unused, Over
  <2>3. timer' \in [Timer -> {"free", "new", "armed"}] /\ Arms
    BY <2>1, <2>2, <1>0 DEF RestOK, Arms
  <2>4. UNCHANGED <<socketVars, sendLock, queueVars, old>>
    BY <1>5, Zenon DEF CreateTimer
  <2> QED BY <2>1, <2>3, <2>4, <1>0 DEF RestOK, socketVars, queueVars
<1>6. CASE StartTimer(t) /\ ~Raise(t, "AttributeError") /\ ~Raise(t, "RuntimeError")
  <2>1. /\ pingTimer # NoTimer /\ timer[pingTimer] = "new"
        /\ timer' = [timer EXCEPT ![pingTimer] = "armed"]
        /\ UNCHANGED <<socketVars, sendLock, queueVars, pingTimer, old>>
    BY <1>6, Zenon DEF StartTimer
  <2>2. timer' \in [Timer -> {"free", "new", "armed"}] /\ Arms
    BY <2>1, <1>0 DEF RestOK, Arms
  <2> QED BY <2>1, <2>2, <1>0 DEF RestOK, socketVars, queueVars
<1> QED BY <1>1, <1>2, <1>3, <1>4, <1>5, <1>6, Zenon DEF PingStep, Kinds

\* What the reader, the pass-through thread, the pumps and those who close
\* from outside do by themselves.
OwnStep ==
  \/ Select \/ Drained \/ Message \/ Disconnect \/ ReaderStep \/ PassthruStep
  \/ (\E t \in Pumps : mp_send(t) \/ send(t) \/ Put(t))
  \/ (\E t \in Closers : CloseFromOutside(t))

LEMMA ThreadKinds ==
  /\ reader \in Thread /\ passthru \in Thread /\ reader # passthru
  /\ Pumps \subseteq Thread /\ Closers \subseteq Thread /\ Timer \subseteq Thread
  /\ reader \notin Timer \union Pumps \union Closers
  /\ passthru \notin Timer \union Pumps \union Closers
BY DEF Thread, Timer, reader, passthru, Pumps, Closers

LEMMA OwnRest ==
  ASSUME TypeOK, OwnStep
  PROVE  RestOK' /\ Arms
<1>0. RestOK
  BY TypeParts
<1>1. CASE UNCHANGED <<socketVars, sendLock, queueVars, pingVars>>
  BY <1>0, <1>1, SameArms DEF RestOK, socketVars, queueVars, pingVars
<1>2. CASE Disconnect \/ ReaderStep
  <2>1. /\ open' \in BOOLEAN /\ socketError' \in BOOLEAN
        /\ interruptPipeSend' \in {"open", "closed", "none"}
        /\ UNCHANGED <<sendLock, queueVars, pingVars>>
    BY <1>0, <1>2 DEF Disconnect, ReaderStep, ClosePipe, UnsetPipe, CloseFrame, RestOK,
                      socketVars
  <2> QED BY <2>1, <1>0, SameArms DEF RestOK, queueVars, pingVars
<1>3. CASE PassthruStep
  <2>1. /\ queue' = queue \/ (queue # << >> /\ queue' = Tail(queue))
        /\ hasQueue' \in BOOLEAN /\ full' = full /\ UNCHANGED <<socketVars, sendLock, pingVars>>
    BY <1>0, <1>3 DEF PassthruStep, Get, UnsetQueue, RestOK
  <2>2. queue' \in Seq({"data", "pill"}) /\ Len(queue') <= QueueSize
    BY <2>1, <1>0, QueueType, ConnectionAssumption DEF RestOK
  <2> QED BY <2>1, <2>2, <1>0, SameArms DEF RestOK, socketVars, pingVars
<1>4. ASSUME NEW t \in Pumps, Put(t) PROVE RestOK' /\ Arms
  <2>1. CASE Raise(t, "AttributeError")
    BY <2>1, <1>0, RaiseRest, ThreadKinds
  <2>2. CASE /\ queue' = queue \/ (Len(queue) < QueueSize /\ queue' = Append(queue, "data"))
             /\ UNCHANGED <<socketVars, sendLock, hasQueue, full, pingVars>>
    <3>1. PICK n \in Nat : n = Len(queue)
      BY QueueType
    <3>2. Append(queue, "data") \in Seq({"data", "pill"}) /\ Len(Append(queue, "data")) = n + 1
      BY <3>1, Appended
    <3>3. n < QueueSize => n + 1 <= QueueSize
      BY <3>1, ConnectionAssumption
    <3>4. queue' \in Seq({"data", "pill"}) /\ Len(queue') <= QueueSize
      BY <2>2, <3>1, <3>2, <3>3, <1>0 DEF RestOK
    <3>5. UNCHANGED <<socketVars, sendLock, hasQueue, full, pingVars>>
      BY <2>2
    <3> QED BY <3>4, <3>5, <1>0, SameArms DEF RestOK, socketVars, pingVars
  <2> QED BY <1>4, <2>1, <2>2, Zenon DEF Put
<1>5. Select \/ Drained \/ Message => UNCHANGED <<socketVars, sendLock, queueVars, pingVars>>
  BY Zenon DEF Select, Drained, Message
<1>6. \A t : mp_send(t) \/ send(t) \/ CloseFromOutside(t) =>
               UNCHANGED <<socketVars, sendLock, queueVars, pingVars>>
  BY Zenon DEF mp_send, send, CloseFromOutside
<1> QED BY <1>1, <1>2, <1>3, <1>4, <1>5, <1>6, Zenon DEF OwnStep

LEMMA PingTimerRest ==
  ASSUME TypeOK, NEW t \in Timer, sendPing(t)
  PROVE  RestOK' /\ Arms
<1>0. RestOK
  BY TypeParts
<1>1. /\ timer' = [timer EXCEPT ![t] = "free"]
      /\ UNCHANGED <<socketVars, sendLock, queueVars, pingTimer, old>>
  BY Zenon DEF sendPing
<1>2. timer' \in [Timer -> {"free", "new", "armed"}] /\ Arms
  BY <1>0, <1>1 DEF RestOK, Arms
<1> QED BY <1>0, <1>1, <1>2 DEF RestOK, socketVars, queueVars

LEMMA RestStep ==
  ASSUME TypeOK, ConnNext
  PROVE  RestOK' /\ Arms
<1>1. ASSUME NEW t \in Thread, CallNext(t) \/ Lock(t) PROVE RestOK' /\ Arms
  BY <1>1, CloseRest, SendRest, PingRest, Zenon DEF CallNext
<1> QED BY <1>1, OwnRest, PingTimerRest, Zenon DEF ConnNext, OwnStep
-----------------------------------------------------------------------------
(* The invariant without the types of the rest.                             *)

StackInv ==
  /\ stack \in [Thread -> Seq(FrameSet)]
  /\ ReaderStack(stack[reader]) /\ PassStack(stack[passthru])
  /\ stack[passthru] = << >> \/ hasQueue
  /\ PillInv

LEMMA InvParts ==
  ConnInv <=> RestOK /\ TimersWait /\ StackInv
BY TypeParts, Zenon DEF ConnInv, StackInv

\* A thread whose stack changes was running, but for a Timer that fires.
LEMMA WaitStep ==
  ASSUME TypeOK, TimersWait, Arms, NEW t \in Thread, stack[t] # << >>,
         stack' = [stack EXCEPT ![t] = stack'[t]]
  PROVE  TimersWait'
<1> SUFFICES ASSUME NEW i \in Timer, timer'[i] # "free" PROVE stack'[i] = << >>
  BY DEF TimersWait
<1>1. stack[i] = << >>
  BY Zenon DEF Arms, TimersWait
<1>2. i # t
  BY <1>1, Zenon
<1>3. PICK r : stack' = [stack EXCEPT ![t] = r]
  BY Zenon
<1>4. i \in Thread
  BY ThreadKinds
<1> QED BY <1>1, <1>2, <1>3, <1>4, StackType

\* Steps of any thread in its calls.
LEMMA MovesKeeps ==
  ASSUME TypeOK, StackInv, NEW t \in Thread, Moves(t), Provides(t)
  PROVE  StackInv'
<1>1. stack \in [Thread -> Seq(FrameSet)] /\ stack'[t] \in Seq(FrameSet)
  BY StackType, Zenon DEF Moves, Follows
<1>2. stack' \in [Thread -> Seq(FrameSet)] /\ \A u \in Thread : u # t => stack'[u] = stack[u]
  BY <1>1 DEF Moves
<1>3. ReaderStack(stack'[reader])
  BY <1>2, ThreadKinds, Zenon DEF StackInv, Moves, Follows
<1>4. PassStack(stack'[passthru])
  BY <1>2, ThreadKinds, Zenon DEF StackInv, Moves, Follows
<1>5. stack'[passthru] = << >> \/ hasQueue'
  BY <1>2, ThreadKinds, Zenon DEF StackInv, Moves, Provides
<1>6. ASSUME Listens(stack'[passthru])
      PROVE  \/ full' \/ HasPill(queue') \/ Serves(stack'[reader])
             \/ \E u \in Thread : Puts(stack'[u])
  <2>1. Listens(stack[passthru])
    BY <1>2, <1>6, ThreadKinds, Zenon DEF StackInv, Moves, Follows
  <2>2. hasQueue
    BY <2>1, Zenon DEF StackInv, Listens
  <2>3. CASE full \/ HasPill(queue)
    BY <2>3, Zenon DEF Provides
  <2>4. CASE Serves(stack[reader])
    BY <2>4, <1>2, ThreadKinds, Zenon DEF StackInv, Moves, Follows
  <2>5. ASSUME NEW u \in Thread, Puts(stack[u])
        PROVE  full' \/ HasPill(queue') \/ Puts(stack'[u])
    BY <2>5, <2>2, <1>2, Zenon DEF Provides
  <2> QED BY <2>1, <2>3, <2>4, <2>5, Zenon DEF StackInv, PillInv
<1> QED BY <1>2, <1>3, <1>4, <1>5, <1>6, Zenon DEF StackInv, PillInv

\* A timer, a pump or one who closes begins its next call.
LEMMA OtherKeeps ==
  ASSUME TypeOK, StackInv, NEW t \in Thread, t \notin {reader, passthru}, ~Puts(stack[t]),
         NEW r \in Seq(FrameSet), stack' = [stack EXCEPT ![t] = r], UNCHANGED queueVars
  PROVE  StackInv'
<1>1. stack \in [Thread -> Seq(FrameSet)]
  BY StackType
<1>2. stack' \in [Thread -> Seq(FrameSet)] /\ \A u \in Thread : u # t => stack'[u] = stack[u]
  BY <1>1
<1>3. stack'[reader] = stack[reader] /\ stack'[passthru] = stack[passthru]
  BY <1>2, ThreadKinds
<1>4. queue' = queue /\ hasQueue' = hasQueue /\ full' = full
  BY DEF queueVars
<1>5. \A u \in Thread : Puts(stack[u]) => Puts(stack'[u])
  BY <1>2, Zenon
<1>6. PillInv'
  BY <1>3, <1>4, <1>5, Zenon DEF StackInv, PillInv
<1> QED BY <1>2, <1>3, <1>4, <1>6, Zenon DEF StackInv

\* The reader by itself.
LEMMA ReaderKeeps ==
  ASSUME TypeOK, StackInv, NEW r \in Seq(FrameSet), stack' = [stack EXCEPT ![reader] = r],
         ReaderStack(r), ~Puts(stack[reader]),
         Serves(stack[reader]) => Serves(r) \/ Puts(r), UNCHANGED queueVars
  PROVE  StackInv'
<1>1. stack \in [Thread -> Seq(FrameSet)]
  BY StackType
<1>2. /\ stack' \in [Thread -> Seq(FrameSet)] /\ stack'[reader] = r
      /\ \A u \in Thread : u # reader => stack'[u] = stack[u]
  BY <1>1, ThreadKinds
<1>3. stack'[passthru] = stack[passthru]
  BY <1>2, ThreadKinds
<1>4. queue' = queue /\ hasQueue' = hasQueue /\ full' = full
  BY DEF queueVars
<1>5. \A u \in Thread : Puts(stack[u]) => Puts(stack'[u])
  BY <1>2, Zenon
<1>6. PillInv'
  BY <1>2, <1>3, <1>4, <1>5, ThreadKinds, Zenon DEF StackInv, PillInv
<1> QED BY <1>2, <1>3, <1>4, <1>6, Zenon DEF StackInv
-----------------------------------------------------------------------------
(* The steps of the reader, of the pass-through thread and of the others.   *)

LEMMA NewFrames ==
  ASSUME NEW labels \in Seq(Label), NEW n \in Nat, n = Len(labels), NEW f, f = Frames(labels)
  PROVE  /\ f \in Seq(FrameSet) /\ Len(f) = n
         /\ \A i \in 1 .. n : Place(f[i]) = labels[i]
         /\ n # 0 => f # << >> /\ Head(f) = f[1] /\ Place(Head(f)) = labels[1]
                     /\ Place(f[Len(f)]) = labels[n]
<1>1. /\ f \in Seq(FrameSet) /\ Len(f) = n
      /\ \A i \in 1 .. n : Place(f[i]) = labels[i]
  BY FramesType
<1>2. n # 0 => f # << >> /\ Head(f) = f[1]
  BY <1>1, EmptySeq, HeadTailProperties
<1>3. n # 0 => 1 \in 1 .. n /\ n \in 1 .. n
  OBVIOUS
<1> QED BY <1>1, <1>2, <1>3

\* A new stack of the reader that ends in its loop.
LEMMA SelectStep ==
  ASSUME TypeOK, StackInv, Select
  PROVE  StackInv'
<1>1. At(reader, "loop") /\ UNCHANGED queueVars
  BY Zenon DEF Select
<1>2. ~Puts(stack[reader])
  BY <1>1, NotPuts
<1>3. CASE stack' = [stack EXCEPT ![reader] = Frames(<<"cancel", "reset", "inner", "loop">>)]
  <2>1. PICK l : l = <<"cancel", "reset", "inner", "loop">>
    OBVIOUS
  <2>2. l \in Seq(Label) /\ Len(l) = 4 /\ l[4] = "loop"
        /\ \A i \in 1 .. 4 : l[i] \in {"cancel", "reset", "inner", "loop"}
    BY <2>1 DEF Label
  <2>3. PICK f : f = Frames(l)
    OBVIOUS
  <2> HIDE <2>1
  <2>4. /\ f \in Seq(FrameSet) /\ Len(f) = 4 /\ \A i \in 1 .. 4 : Place(f[i]) = l[i]
        /\ f # << >> /\ Place(f[Len(f)]) = "loop"
    BY <2>2, <2>3, NewFrames
  <2>5. ReaderStack(f)
    BY <2>2, <2>4 DEF ReaderStack
  <2>6. Serves(f)
    BY <2>4 DEF Serves
  <2>7. stack' = [stack EXCEPT ![reader] = f]
    BY <1>3, <2>1, <2>3, Zenon
  <2> QED BY <1>1, <1>2, <2>4, <2>5, <2>6, <2>7, ReaderKeeps
<1>4. CASE stack' = [stack EXCEPT ![reader] = Frames(<<"closepipe">>)]
  <2>1. PICK l : l = <<"closepipe">>
    OBVIOUS
  <2>2. l \in Seq(Label) /\ Len(l) = 1 /\ l[1] = "closepipe"
    BY <2>1 DEF Label
  <2>3. PICK f : f = Frames(l)
    OBVIOUS
  <2> HIDE <2>1
  <2>4. /\ f \in Seq(FrameSet) /\ Len(f) = 1 /\ Place(f[1]) = "closepipe"
        /\ f # << >> /\ Place(f[Len(f)]) = "closepipe"
    <3>1. PICK n \in Nat : n = Len(l) /\ n = 1
      BY <2>2
    <3>2. /\ f \in Seq(FrameSet) /\ Len(f) = n
          /\ \A i \in 1 .. n : Place(f[i]) = l[i]
          /\ n # 0 => f # << >> /\ Place(f[Len(f)]) = l[n]
      <4> HIDE <3>1
      <4>1. l \in Seq(Label) /\ n = Len(l)
        BY <2>2, <3>1
      <4> QED BY <2>3, <4>1, NewFrames
    <3>3. f # << >> /\ Len(f) = 1
      BY <3>1, <3>2
    <3>4. Place(f[1]) = "closepipe"
      BY <2>2, <3>1, <3>2
    <3> QED BY <3>2, <3>3, <3>4
  <2>5. ReaderStack(f)
    BY <2>4 DEF ReaderStack
  <2>6. Serves(f)
    BY <2>4 DEF Serves
  <2>7. stack' = [stack EXCEPT ![reader] = f]
    BY <1>4, <2>1, <2>3, Zenon
  <2> QED BY <1>1, <1>2, <2>4, <2>5, <2>6, <2>7, ReaderKeeps
<1>5. \E f : /\ stack' = [stack EXCEPT ![reader] = f]
             /\ \/ f = Frames(<<"cancel", "reset", "inner", "loop">>)
                \/ f = Frames(<<"closepipe">>)
  BY Zenon DEF Select
<1> QED BY <1>3, <1>4, <1>5, Zenon

\* The frames of a message on top of the reader's.
LEMMA PushReader ==
  ASSUME NEW s \in Seq(FrameSet), s # << >>, Place(Head(s)) \in Inner, ReaderStack(s),
         NEW f \in Seq(FrameSet), \A i \in 1 .. Len(f) : Place(f[i]) \in Inner
  PROVE  f \o s \in Seq(FrameSet) /\ ReaderStack(f \o s) /\ (Serves(s) => Serves(f \o s))
<1>1. PICK n \in Nat, m \in Nat : n = Len(s) /\ m = Len(f)
  BY LenProperties
<1>2. PICK r : r = f \o s
  OBVIOUS
<1>3. /\ r \in Seq(FrameSet) /\ Len(r) = Len(f) + Len(s)
      /\ \A i \in 1 .. Len(f) + Len(s) : r[i] = IF i <= Len(f) THEN f[i] ELSE s[i - Len(f)]
  BY <1>2, ConcatProperties
<1>4. Len(r) = m + n /\ \A i \in 1 .. m + n : r[i] = IF i <= m THEN f[i] ELSE s[i - m]
  BY <1>1, <1>3, Zenon
<1>5. n # 0 /\ Head(s) = s[1]
  BY <1>1, EmptySeq, HeadTailProperties
<1>6. r # << >> /\ r[m + n] = s[n]
  <2>1. m + n \in 1 .. m + n /\ ~(m + n <= m) /\ m + n - m = n /\ m + n # 0
    BY <1>5
  <2>2. r[m + n] = s[n]
    BY <2>1, <1>4
  <2>3. r # << >>
    BY <2>1, <1>3, <1>4, EmptySeq
  <2> QED BY <2>2, <2>3
<1>7. \A l \in Inner : l \notin {"loop", "closepipe", "unsetpipe", "get", "unset", "idle"}
  BY DEF Inner
<1>8. Place(s[n]) \notin {"closepipe", "unsetpipe"}
  <2> SUFFICES ASSUME Place(s[n]) \in {"closepipe", "unsetpipe"} PROVE FALSE
    OBVIOUS
  <2>1. n = 1
    BY <1>1, <1>5 DEF ReaderStack
  <2> QED BY <2>1, <1>5, <1>7
<1>9. \A i \in 1 .. m + n : Place(r[i]) \notin {"get", "unset", "idle"}
  <2> SUFFICES ASSUME NEW i \in 1 .. m + n PROVE Place(r[i]) \notin {"get", "unset", "idle"}
    OBVIOUS
  <2>1. CASE i <= m
    BY <2>1, <1>1, <1>4, <1>7
  <2>2. CASE ~(i <= m)
    <3>1. i - m \in 1 .. n /\ r[i] = s[i - m]
      BY <2>2, <1>4
    <3>2. \A j \in 1 .. n : Place(s[j]) \notin {"get", "unset", "idle"}
      BY <1>1 DEF ReaderStack
    <3> QED BY <3>1, <3>2
  <2> QED BY <2>1, <2>2
<1>10. ReaderStack(r)
  BY <1>4, <1>6, <1>8, <1>9 DEF ReaderStack
<1>11. Serves(s) => Serves(r)
  BY <1>1, <1>4, <1>6 DEF Serves
<1> QED BY <1>2, <1>3, <1>10, <1>11

LEMMA MessageStep ==
  ASSUME TypeOK, StackInv, Message
  PROVE  StackInv'
<1>1. At(reader, "inner") /\ "inner" \in Inner /\ UNCHANGED queueVars
  BY InInner, Zenon DEF Message
<1>2. ~Puts(stack[reader])
  BY <1>1, NotPuts
<1>3. PICK l \in {<<"lock", "sent", "handled">>, <<"lock", "ponged">>} :
        stack' = [stack EXCEPT ![reader] = Frames(l) \o stack[reader]]
  BY Zenon DEF Message
<1>4. l \in Seq(Label) /\ \A i \in 1 .. Len(l) : l[i] \in {"lock", "sent", "handled", "ponged"}
  <2>1. CASE l = <<"lock", "sent", "handled">>
    BY <2>1 DEF Label
  <2>2. CASE l = <<"lock", "ponged">>
    BY <2>2 DEF Label
  <2> QED BY <2>1, <2>2
<1>5. PICK f : f = Frames(l)
  OBVIOUS
<1>6. f \in Seq(FrameSet) /\ Len(f) = Len(l) /\ \A i \in 1 .. Len(l) : Place(f[i]) = l[i]
  BY <1>4, <1>5, FramesType
<1>7. \A i \in 1 .. Len(f) : Place(f[i]) \in Inner
  BY <1>4, <1>6, InInner
<1>8. PICK s : s = stack[reader]
  OBVIOUS
<1>9. s \in Seq(FrameSet) /\ s # << >> /\ Place(Head(s)) \in Inner /\ ReaderStack(s)
  BY <1>1, <1>8, StackType, AtPlace, ThreadKinds DEF StackInv
<1>10. f \o s \in Seq(FrameSet) /\ ReaderStack(f \o s) /\ (Serves(s) => Serves(f \o s))
  BY <1>6, <1>7, <1>9, PushReader
<1>11. stack' = [stack EXCEPT ![reader] = f \o s]
  BY <1>3, <1>5, <1>8, Zenon
<1> QED BY <1>1, <1>2, <1>8, <1>10, <1>11, ReaderKeeps

\* The pipe is closed at the outermost frame of the reader, or below other
\* frames: the close of the client follows.
LEMMA PipeStep ==
  ASSUME TypeOK, StackInv, ClosePipe \/ UnsetPipe
  PROVE  StackInv'
<1>1. PICK l \in {"closepipe", "unsetpipe"} : At(reader, l)
  BY Zenon DEF ClosePipe, UnsetPipe
<1>2. UNCHANGED queueVars
  BY DEF ClosePipe, UnsetPipe
<1>3. PICK s : s = stack[reader]
  OBVIOUS
<1>4. s \in Seq(FrameSet) /\ s # << >> /\ ReaderStack(s) /\ ~Puts(s)
  BY <1>1, <1>3, StackType, AtPlace, ThreadKinds, Zenon DEF StackInv, Puts
<1>5. PICK f \in Seq(FrameSet) :
        /\ Become(reader, f) /\ Len(f) \in {1, 3}
        /\ \A i \in 1 .. Len(f) : Place(f[i]) \notin {"get", "unset", "idle"}
        /\ Len(f) = 1 => Place(f[1]) = "unsetpipe"
        /\ Len(f) = 3 => Place(f[1]) = "drain" /\ Place(f[3]) = "frame"
  <2>1. CASE ClosePipe
    <3>1. PICK g : g = Frame("unsetpipe", Error(reader))
      OBVIOUS
    <3>2. Error(reader) \in BOOLEAN
      BY <1>1, StackType, AtPlace, ThreadKinds DEF Error, FrameSet
    <3>3. g \in FrameSet /\ Place(g) = "unsetpipe"
      BY <3>1, <3>2 DEF Frame, FrameSet, Place, Label
    <3>4. PICK f \in Seq(FrameSet) : f = <<g>> /\ Len(f) = 1 /\ f[1] = g
      BY <3>3, Single
    <3>5. Become(reader, f)
      BY <2>1, <3>1, <3>4, Zenon DEF ClosePipe, Goto
    <3> HIDE <3>4
    <3>6. \A i \in 1 .. Len(f) : Place(f[i]) \notin {"get", "unset", "idle"}
      BY <3>3, <3>4
    <3>7. Len(f) \in {1, 3} /\ Len(f) # 3 /\ Place(f[1]) = "unsetpipe"
      BY <3>3, <3>4
    <3> QED BY <3>4, <3>5, <3>6, <3>7, Zenon
  <2>2. CASE UnsetPipe
    <3>1. PICK k : k = <<"drain", "cancel", "frame">>
      OBVIOUS
    <3>2. k \in Seq(Label) /\ Len(k) = 3 /\ k[1] = "drain" /\ k[3] = "frame"
          /\ \A i \in 1 .. 3 : k[i] \in {"drain", "cancel", "frame"}
      BY <3>1 DEF Label
    <3>3. PICK f : f = Frames(k)
      OBVIOUS
    <3>4. Become(reader, f)
      BY <2>2, <3>1, <3>3, Zenon DEF UnsetPipe, Finally
    <3> HIDE <3>1
    <3>5. f \in Seq(FrameSet) /\ Len(f) = 3 /\ \A i \in 1 .. 3 : Place(f[i]) = k[i]
      BY <3>2, <3>3, FramesType
    <3>6. /\ \A i \in 1 .. 3 : Place(f[i]) \notin {"get", "unset", "idle"}
          /\ Place(f[1]) = "drain" /\ Place(f[3]) = "frame"
      BY <3>2, <3>5
    <3> QED BY <3>4, <3>5, <3>6
  <2> QED BY <2>1, <2>2
<1>6. PICK r : r = f \o Tail(s)
  OBVIOUS
<1>7. PICK n \in Nat, m \in Nat : n = Len(s) /\ m = Len(f)
  BY <1>4, LenProperties
<1>8. /\ r \in Seq(FrameSet) /\ n # 0 /\ Len(r) = m + n - 1
      /\ \A i \in 1 .. m : r[i] = f[i]
      /\ \A i \in m + 1 .. m + n - 1 : r[i] = s[i - m + 1]
      /\ r = << >> <=> m + n - 1 = 0
  BY <1>4, <1>6, <1>7, Replaced
<1>9. stack' = [stack EXCEPT ![reader] = r]
  BY <1>3, <1>5, <1>6, Zenon DEF Become
<1> HIDE <1>6
<1>10. \A i \in 1 .. m + n - 1 : Place(r[i]) \notin {"get", "unset", "idle"}
  <2> SUFFICES ASSUME NEW i \in 1 .. m + n - 1 PROVE Place(r[i]) \notin {"get", "unset", "idle"}
    OBVIOUS
  <2>1. CASE i <= m
    BY <2>1, <1>5, <1>7, <1>8
  <2>2. CASE ~(i <= m)
    <3>1. i - m + 1 \in 1 .. n /\ r[i] = s[i - m + 1]
      BY <2>2, <1>8
    <3>2. \A j \in 1 .. n : Place(s[j]) \notin {"get", "unset", "idle"}
      BY <1>4, <1>7 DEF ReaderStack
    <3> QED BY <3>1, <3>2
  <2> QED BY <2>1, <2>2
<1>11. m \in {1, 3} /\ r # << >>
  BY <1>5, <1>7, <1>8
<1>12. PICK k \in Nat : k = m + n - 1 /\ k # 0
  BY <1>8, <1>11
<1>13. CASE n = 1
  <2>1. k = m /\ r[m] = f[m] /\ r[1] = f[1]
    BY <1>8, <1>11, <1>12, <1>13
  <2>2. CASE m = 1
    <3>1. Place(r[k]) = "unsetpipe"
      BY <2>1, <2>2, <1>5, <1>7
    <3>2. ReaderStack(r)
      BY <2>1, <2>2, <3>1, <1>8, <1>10, <1>12 DEF ReaderStack
    <3>3. Serves(r)
      BY <3>1, <1>8, <1>11, <1>12 DEF Serves
    <3> QED BY <3>2, <3>3, <1>2, <1>3, <1>4, <1>8, <1>9, ReaderKeeps
  <2>3. CASE m = 3
    <3>1. Place(r[k]) = "frame" /\ Place(r[1]) = "drain"
      BY <2>1, <2>3, <1>5, <1>7
    <3>2. ReaderStack(r)
      BY <3>1, <1>8, <1>10, <1>12 DEF ReaderStack
    <3>3. Head(r) = r[1]
      BY <1>8, <1>11, HeadTailProperties
    <3>4. Puts(r)
      BY <3>1, <3>3, <1>11, Zenon DEF Puts
    <3> QED BY <3>2, <3>4, <1>2, <1>3, <1>4, <1>8, <1>9, ReaderKeeps
  <2> QED BY <2>2, <2>3, <1>11
<1>14. CASE n > 1
  <2>1. r[k] = s[n]
    BY <1>8, <1>11, <1>12, <1>14
  <2>2. Place(s[n]) \notin {"closepipe", "unsetpipe"}
    BY <1>4, <1>7, <1>14 DEF ReaderStack
  <2>3. ReaderStack(r)
    BY <2>1, <2>2, <1>8, <1>10, <1>12 DEF ReaderStack
  <2>4. Serves(s) => Serves(r)
    BY <2>1, <1>7, <1>8, <1>11, <1>12 DEF Serves
  <2> QED BY <2>3, <2>4, <1>2, <1>3, <1>4, <1>8, <1>9, ReaderKeeps
<1> QED BY <1>8, <1>13, <1>14

\* The reader has nothing more to read, or has sent its close frame.
LEMMA ReaderReturns ==
  ASSUME TypeOK, StackInv, Drained \/ CloseFrame
  PROVE  StackInv'
<1>1. PICK l \in {"inner", "frame"} : At(reader, l)
  BY Zenon DEF Drained, CloseFrame
<1>2. l \in Inner /\ l \notin {"drain", "empty", "pill"} /\ "lock" \in Inner
  BY InInner
<1>3. Simple(reader)
  BY <1>2, Zenon DEF Drained, CloseFrame, Simple
<1>4. UNCHANGED queueVars
  BY Zenon DEF Drained, CloseFrame
<1>5. Moves(reader) /\ Provides(reader)
  BY <1>1, <1>2, <1>3, <1>4, SimpleStep, Unqueued, ThreadKinds
<1> QED BY <1>5, MovesKeeps, ThreadKinds

LEMMA DisconnectKeeps ==
  ASSUME TypeOK, StackInv, UNCHANGED <<queueVars, stack>>
  PROVE  StackInv'
<1>1. queue' = queue /\ hasQueue' = hasQueue /\ full' = full /\ stack' = stack
  BY DEF queueVars
<1>2. PillInv'
  BY <1>1, Zenon DEF PillInv, StackInv
<1> QED BY <1>1, <1>2, Zenon DEF StackInv

\* The pass-through thread by itself.
LEMMA PassKeeps ==
  ASSUME TypeOK, StackInv, NEW r \in Seq(FrameSet), stack' = [stack EXCEPT ![passthru] = r],
         PassStack(r), ~Puts(stack[passthru]), r = << >> \/ hasQueue',
         Listens(r) => Listens(stack[passthru]),
         Listens(r) /\ HasPill(queue) => HasPill(queue'), full' = full
  PROVE  StackInv'
<1>1. stack \in [Thread -> Seq(FrameSet)]
  BY StackType
<1>2. /\ stack' \in [Thread -> Seq(FrameSet)] /\ stack'[passthru] = r
      /\ \A u \in Thread : u # passthru => stack'[u] = stack[u]
  BY <1>1, ThreadKinds
<1>3. stack'[reader] = stack[reader]
  BY <1>2, ThreadKinds
<1>4. \A u \in Thread : Puts(stack[u]) => Puts(stack'[u])
  BY <1>2, Zenon
<1>5. PillInv'
  BY <1>2, <1>3, <1>4, Zenon DEF StackInv, PillInv
<1> QED BY <1>2, <1>3, <1>5, Zenon DEF StackInv

\* At the queue, the pass-through thread is in no call.
LEMMA Outermost ==
  ASSUME TypeOK, StackInv, NEW l \in {"get", "unset"}, At(passthru, l)
  PROVE  /\ stack[passthru] # << >> /\ Len(stack[passthru]) = 1
         /\ Place(stack[passthru][1]) = l
<1>1. PICK s : s = stack[passthru]
  OBVIOUS
<1>2. s \in Seq(FrameSet) /\ s # << >> /\ Place(Head(s)) = l
  BY <1>1, AtPlace, StackType, ThreadKinds
<1>3. PICK n \in Nat : n = Len(s)
  BY <1>2, LenProperties
<1>4. n # 0 /\ Head(s) = s[1]
  BY <1>2, <1>3, EmptySeq, HeadTailProperties
<1>5. \A i \in 1 .. n - 1 : Place(s[i]) \in Inner
  BY <1>1, <1>2, <1>3, Zenon DEF StackInv, PassStack
<1>6. l \notin Inner
  BY DEF Inner
<1>7. n = 1
  BY <1>2, <1>4, <1>5, <1>6
<1> QED BY <1>1, <1>2, <1>3, <1>4, <1>7

LEMMA GetStep ==
  ASSUME TypeOK, StackInv, Get
  PROVE  StackInv'
<1>1. At(passthru, "get") /\ queue # << >> /\ queue' = Tail(queue)
      /\ hasQueue' = hasQueue /\ full' = full
  BY Zenon DEF Get
<1>2. ~Puts(stack[passthru])
  BY <1>1, NotPuts
<1>3. stack[passthru] # << >> /\ Len(stack[passthru]) = 1 /\ Place(stack[passthru][1]) = "get"
  BY <1>1, Outermost
<1>4. Listens(stack[passthru]) /\ hasQueue
  BY <1>3 DEF Listens, StackInv
<1>5. CASE stack' = [stack EXCEPT ![passthru] = Frames(<<"unset">>)]
  <2>1. PICK l : l = <<"unset">>
    OBVIOUS
  <2>2. l \in Seq(Label) /\ Len(l) = 1 /\ l[1] = "unset"
    BY <2>1 DEF Label
  <2>3. PICK f : f = Frames(l)
    OBVIOUS
  <2> HIDE <2>1
  <2>4. f \in Seq(FrameSet) /\ Len(f) = 1 /\ \A i \in 1 .. 1 : Place(f[i]) = l[i]
    BY <2>2, <2>3, FramesType
  <2>5. PassStack(f) /\ ~Listens(f)
    BY <2>2, <2>4 DEF PassStack, Listens
  <2>6. stack' = [stack EXCEPT ![passthru] = f]
    BY <1>5, <2>1, <2>3, Zenon
  <2> QED BY <1>1, <1>2, <1>4, <2>4, <2>5, <2>6, PassKeeps
<1>6. CASE /\ Head(queue) # "pill"
           /\ stack' = [stack EXCEPT ![passthru] = Frames(<<"lock", "sent", "get">>)]
  <2>1. PICK l : l = <<"lock", "sent", "get">>
    OBVIOUS
  <2>2. l \in Seq(Label) /\ Len(l) = 3 /\ l[3] = "get" /\ \A i \in 1 .. 2 : l[i] \in {"lock", "sent"}
    BY <2>1 DEF Label
  <2>3. PICK f : f = Frames(l)
    OBVIOUS
  <2> HIDE <2>1
  <2>4. f \in Seq(FrameSet) /\ Len(f) = 3 /\ \A i \in 1 .. 3 : Place(f[i]) = l[i]
    BY <2>2, <2>3, FramesType
  <2>5. \A i \in 1 .. 2 : Place(f[i]) \in {"lock", "sent"}
    BY <2>2, <2>4
  <2>6. {"lock", "sent"} \subseteq Inner /\ Place(f[3]) = "get"
    BY <2>2, <2>4, InInner
  <2>7. PassStack(f)
    BY <2>4, <2>5, <2>6 DEF PassStack
  <2>8. stack' = [stack EXCEPT ![passthru] = f]
    BY <1>6, <2>1, <2>3, Zenon
  <2>9. HasPill(queue) => HasPill(queue')
    <3> SUFFICES ASSUME HasPill(queue) PROVE HasPill(queue')
      OBVIOUS
    <3>1. PICK n \in Nat : n = Len(queue)
      BY QueueType
    <3>2. PICK q : q = Tail(queue)
      OBVIOUS
    <3>3. /\ n # 0 /\ Len(q) = n - 1 /\ Head(queue) = queue[1]
          /\ \A i \in 1 .. n - 1 : q[i] = queue[i + 1]
      <4>1. queue \in Seq({"data", "pill"})
        BY QueueType
      <4>2. /\ n # 0 /\ Len(Tail(queue)) = n - 1 /\ Head(queue) = queue[1]
            /\ \A i \in 1 .. Len(Tail(queue)) : Tail(queue)[i] = queue[i + 1]
        BY <4>1, <1>1, <3>1, EmptySeq, HeadTailProperties
      <4> QED BY <4>2, <3>2
    <3>4. PICK i \in 1 .. n : queue[i] = "pill"
      BY <3>1 DEF HasPill
    <3>5. i # 1
      BY <3>3, <3>4, <1>6
    <3>6. i - 1 \in 1 .. n - 1 /\ i - 1 + 1 = i
      BY <3>5
    <3>7. q[i - 1] = "pill"
      BY <3>3, <3>4, <3>6
    <3>8. HasPill(q)
      BY <3>3, <3>6, <3>7 DEF HasPill
    <3> QED BY <1>1, <3>2, <3>8
  <2> QED BY <1>1, <1>2, <1>4, <2>4, <2>7, <2>8, <2>9, PassKeeps
<1>7. \/ stack' = [stack EXCEPT ![passthru] = Frames(<<"unset">>)]
      \/ /\ Head(queue) # "pill"
         /\ stack' = [stack EXCEPT ![passthru] = Frames(<<"lock", "sent", "get">>)]
  BY Zenon DEF Get
<1> QED BY <1>5, <1>6, <1>7, Zenon

LEMMA UnsetStep ==
  ASSUME TypeOK, StackInv, UnsetQueue
  PROVE  StackInv'
<1>1. At(passthru, "unset") /\ full' = full /\ queue' = queue /\ Return(passthru)
  BY Zenon DEF UnsetQueue
<1>2. ~Puts(stack[passthru])
  BY <1>1, NotPuts
<1>3. PICK s : s = stack[passthru]
  OBVIOUS
<1>4. s \in Seq(FrameSet) /\ s # << >> /\ Len(s) = 1
  BY <1>1, <1>3, Outermost, StackType, ThreadKinds
<1>5. << >> \in Seq(FrameSet) /\ Len(<< >>) = 0
  BY EmptySeq
<1>6. << >> \o Tail(s) = << >>
  BY <1>4, <1>5, Replaced
<1>7. stack' = [stack EXCEPT ![passthru] = << >>]
  BY <1>1, <1>3, <1>6, Zenon DEF Return, Become
<1>8. PassStack(<< >>) /\ ~Listens(<< >>)
  BY DEF PassStack, Listens
<1> QED BY <1>1, <1>2, <1>5, <1>7, <1>8, PassKeeps

\* A pump or one who closes begins a call, a timer fires.
LEMMA BeginKeeps ==
  ASSUME TypeOK, StackInv, NEW t \in Thread, t \notin {reader, passthru}, ~Puts(stack[t]),
         NEW l \in {<<"put", "idle">>, <<"lock", "sent", "idle">>, <<"drain">>, <<"close">>,
                    <<"lock", "cancel", "reset">>},
         stack' = [stack EXCEPT ![t] = Frames(l)], UNCHANGED queueVars
  PROVE  StackInv'
<1>1. l \in Seq(Label)
  <2>1. CASE l = <<"put", "idle">>
    BY <2>1 DEF Label
  <2>2. CASE l = <<"lock", "sent", "idle">>
    BY <2>2 DEF Label
  <2>3. CASE l = <<"lock", "cancel", "reset">>
    BY <2>3 DEF Label
  <2>4. CASE l = <<"drain">>
    BY <2>4 DEF Label
  <2>5. CASE l = <<"close">>
    BY <2>5 DEF Label
  <2> QED BY <2>1, <2>2, <2>3, <2>4, <2>5
<1>2. Frames(l) \in Seq(FrameSet)
  BY <1>1, FramesType
<1> QED BY <1>2, OtherKeeps

LEMMA PutStep ==
  ASSUME TypeOK, NEW t \in Thread, Put(t)
  PROVE  Moves(t) /\ Provides(t)
<1>1. At(t, "put") /\ "put" \in Inner
  BY InInner, Zenon DEF Put
<1>2. ~Puts(stack[t])
  BY <1>1, NotPuts
<1>3. CASE Raise(t, "AttributeError")
  <2>1. Moves(t)
    BY <1>1, <1>3, RaiseStep
  <2>2. queue' = queue /\ hasQueue' = hasQueue /\ full' = full
    BY <1>3 DEF Raise, queueVars
  <2> QED BY <2>1, <2>2, <1>2, Zenon DEF Provides
<1>4. CASE queue' = Append(queue, "data") /\ Return(t) /\ hasQueue' = hasQueue /\ full' = full
  <2>1. Moves(t)
    BY <1>1, <1>4, ReturnStep
  <2>2. HasPill(queue) => HasPill(queue')
    BY <1>4, Appended
  <2> QED BY <2>1, <2>2, <1>2, <1>4, Zenon DEF Provides
<1>5. CASE Become(t, <<Frame("drain", TRUE)>>) /\ queue' = queue /\ hasQueue' = hasQueue
           /\ full' = full
  <2>1. Frame("drain", TRUE) \in FrameSet /\ Place(Frame("drain", TRUE)) \in Inner
    BY DEF Frame, FrameSet, Label, Inner, Place
  <2>2. PICK f \in Seq(FrameSet) : f = <<Frame("drain", TRUE)>> /\ Len(f) = 1
                                   /\ f[1] = Frame("drain", TRUE)
    BY <2>1, Single
  <2>3. Become(t, f)
    BY <1>5, <2>2, Zenon
  <2>4. \A i \in 1 .. Len(f) : Place(f[i]) \in Inner
    <3>1. \A i \in 1 .. 1 : i = 1
      OBVIOUS
    <3> QED BY <3>1, <2>1, <2>2, Zenon
  <2>5. Moves(t)
    <3> HIDE <2>2
    <3> QED BY <1>1, <2>3, <2>4, BecomeStep
  <2> QED BY <2>5, <1>2, <1>5, Zenon DEF Provides
<1> QED BY <1>3, <1>4, <1>5, Zenon DEF Put

\* One thread at a time takes a step; a Timer that fires is not set up any more.
LEMMA WaitKeeps ==
  ASSUME TypeOK, TimersWait, Arms, NEW t \in Thread, NEW r,
         stack' = [stack EXCEPT ![t] = r],
         stack[t] # << >> \/ (t \in Timer /\ timer'[t] = "free")
  PROVE  TimersWait'
<1> SUFFICES ASSUME NEW i \in Timer, timer'[i] # "free" PROVE stack'[i] = << >>
  BY DEF TimersWait
<1>1. stack[i] = << >>
  BY Zenon DEF Arms, TimersWait
<1>2. i # t
  BY <1>1, Zenon
<1>3. i \in Thread
  BY ThreadKinds
<1> QED BY <1>1, <1>2, <1>3, StackType

LEMMA CallKeeps ==
  ASSUME ConnInv, NEW t \in Thread, CallNext(t) \/ Lock(t)
  PROVE  ConnInv'
<1>1. TypeOK /\ TimersWait /\ StackInv
  BY InvParts, Zenon DEF ConnInv
<1>2. RestOK' /\ Arms
  BY <1>1, RestStep, Zenon DEF ConnNext
<1>3. Moves(t) /\ Provides(t)
  BY <1>1, CallStep
<1>4. StackInv'
  BY <1>1, <1>3, MovesKeeps
<1>5. TimersWait'
  BY <1>1, <1>2, <1>3, WaitStep, Zenon DEF Moves
<1>6. ConnInv' <=> RestOK' /\ TimersWait' /\ StackInv'
  BY InvParts, PTL
<1> QED BY <1>2, <1>4, <1>5, <1>6

LEMMA SendPingKeeps ==
  ASSUME ConnInv, NEW t \in Timer, sendPing(t)
  PROVE  ConnInv'
<1>1. TypeOK /\ TimersWait /\ StackInv
  BY InvParts, Zenon DEF ConnInv
<1>2. RestOK' /\ Arms
  BY <1>1, PingTimerRest
<1>3. /\ timer[t] = "armed" /\ timer' = [timer EXCEPT ![t] = "free"] /\ UNCHANGED queueVars
      /\ stack' = [stack EXCEPT ![t] = Frames(<<"lock", "cancel", "reset">>)]
  BY Zenon DEF sendPing
<1>4. stack[t] = << >> /\ ~Puts(stack[t]) /\ t \in Thread /\ t \notin {reader, passthru}
  BY <1>1, <1>3, ThreadKinds DEF TimersWait, Puts
<1>5. timer'[t] = "free"
  BY <1>1, <1>3 DEF TypeOK
<1>6. TimersWait'
  BY <1>1, <1>2, <1>3, <1>4, <1>5, WaitKeeps
<1>7. StackInv'
  BY <1>1, <1>3, <1>4, BeginKeeps
<1>8. ConnInv' <=> RestOK' /\ TimersWait' /\ StackInv'
  BY InvParts, PTL
<1> QED BY <1>2, <1>6, <1>7, <1>8

LEMMA OwnKeeps ==
  ASSUME ConnInv, OwnStep
  PROVE  ConnInv'
<1>1. TypeOK /\ TimersWait /\ StackInv
  BY InvParts, Zenon DEF ConnInv
<1>2. RestOK' /\ Arms
  BY <1>1, OwnRest
<1>3. ConnInv' <=> RestOK' /\ TimersWait' /\ StackInv'
  BY InvParts, PTL
<1>4. \A t, l : At(t, l) => stack[t] # << >>
  BY Zenon DEF At
<1>5. CASE Disconnect
  <2>1. UNCHANGED <<queueVars, stack>> /\ timer' = timer /\ stack' = stack
    BY <1>5 DEF Disconnect, pingVars
  <2>2. TimersWait'
    BY <1>1, <2>1, Zenon DEF TimersWait
  <2> QED BY <1>1, <1>2, <1>3, <2>1, <2>2, DisconnectKeeps
<1>6. CASE Select \/ Drained \/ Message \/ ReaderStep
  <2>1. stack[reader] # << >> /\ \E r : stack' = [stack EXCEPT ![reader] = r]
    BY <1>4, <1>6, Zenon DEF Select, Drained, Message, ReaderStep, ClosePipe, UnsetPipe,
                             CloseFrame, Return, Goto, Become
  <2>2. TimersWait'
    BY <1>1, <1>2, <2>1, WaitKeeps, ThreadKinds
  <2>3. StackInv'
    BY <1>1, <1>6, SelectStep, MessageStep, PipeStep, ReaderReturns, Zenon DEF ReaderStep
  <2> QED BY <1>2, <1>3, <2>2, <2>3
<1>7. CASE PassthruStep
  <2>1. stack[passthru] # << >> /\ \E r : stack' = [stack EXCEPT ![passthru] = r]
    BY <1>4, <1>7, Zenon DEF PassthruStep, Get, UnsetQueue, Return, Become
  <2>2. TimersWait'
    BY <1>1, <1>2, <2>1, WaitKeeps, ThreadKinds
  <2>3. StackInv'
    BY <1>1, <1>7, GetStep, UnsetStep, Zenon DEF PassthruStep
  <2> QED BY <1>2, <1>3, <2>2, <2>3
<1>8. ASSUME NEW t \in Pumps, Put(t) PROVE ConnInv'
  <2>1. t \in Thread
    BY ThreadKinds
  <2>2. Moves(t) /\ Provides(t)
    BY <1>1, <1>8, <2>1, PutStep
  <2>3. StackInv'
    BY <1>1, <2>1, <2>2, MovesKeeps
  <2>4. TimersWait'
    BY <1>1, <1>2, <2>1, <2>2, WaitStep, Zenon DEF Moves
  <2> QED BY <1>2, <1>3, <2>3, <2>4
<1>9. ASSUME NEW t \in Pumps \union Closers, mp_send(t) \/ send(t) \/ CloseFromOutside(t)
      PROVE  ConnInv'
  <2>1. t \in Thread /\ t \notin {reader, passthru}
    BY ThreadKinds
  <2>2. At(t, "idle") /\ UNCHANGED queueVars
    BY <1>9, Zenon DEF mp_send, send, CloseFromOutside
  <2>3. stack[t] # << >> /\ ~Puts(stack[t])
    BY <1>4, <2>2, NotPuts
  <2>4. PICK l \in {<<"put", "idle">>, <<"lock", "sent", "idle">>, <<"drain">>, <<"close">>,
                    <<"lock", "cancel", "reset">>} :
          stack' = [stack EXCEPT ![t] = Frames(l)]
    BY <1>9, Zenon DEF mp_send, send, CloseFromOutside
  <2>5. StackInv'
    BY <1>1, <2>1, <2>2, <2>3, <2>4, BeginKeeps
  <2>6. TimersWait'
    BY <1>1, <1>2, <2>1, <2>3, <2>4, WaitKeeps
  <2> QED BY <1>2, <1>3, <2>5, <2>6
<1> QED BY <1>5, <1>6, <1>7, <1>8, <1>9, Zenon DEF OwnStep
-----------------------------------------------------------------------------
(* The invariant holds.                                                     *)

LEMMA NextKeeps ==
  ASSUME ConnInv, ConnNext
  PROVE  ConnInv'
BY CallKeeps, SendPingKeeps, OwnKeeps, Zenon DEF ConnNext, OwnStep

LEMMA StutterKeeps ==
  ASSUME ConnInv, UNCHANGED connVars
  PROVE  ConnInv'
<1>1. TypeOK /\ TimersWait /\ StackInv /\ RestOK
  BY InvParts, Zenon DEF ConnInv
<1>2. UNCHANGED <<socketVars, sendLock, queueVars, pingVars>> /\ stack' = stack
  BY DEF connVars
<1>3. RestOK'
  BY <1>1, <1>2 DEF RestOK, socketVars, queueVars, pingVars
<1>4. StackInv'
  BY <1>1, <1>2, DisconnectKeeps
<1>5. TimersWait'
  BY <1>1, <1>2 DEF TimersWait, pingVars
<1>6. ConnInv' <=> RestOK' /\ TimersWait' /\ StackInv'
  BY InvParts, PTL
<1> QED BY <1>3, <1>4, <1>5, <1>6

LEMMA InitHolds ==
  ASSUME ConnInit
  PROVE  ConnInv
<1>1. MaxTimers \in Nat \ {0} /\ QueueSize \in Nat
  BY ConnectionAssumption
<1>2. /\ reader \in Thread /\ passthru \in Thread /\ reader # passthru
      /\ \A i \in Timer : i \in Thread /\ i # reader /\ i # passthru
  BY ThreadKinds
<1>3. RestOK
  <2>1. pingTimer \in Timer
    BY <1>1 DEF ConnInit, Timer
  <2>2. queue = << >> /\ << >> \in Seq({"data", "pill"}) /\ Len(<< >>) = 0
    BY EmptySeq DEF ConnInit
  <2>3. Len(queue) <= QueueSize
    BY <2>2, <1>1
  <2>4. timer \in [Timer -> {"free", "new", "armed"}]
    BY DEF ConnInit
  <2>5. old \in [Thread -> Timer \union {NoTimer}]
    BY DEF ConnInit
  <2> QED BY <2>1, <2>2, <2>3, <2>4, <2>5 DEF RestOK, ConnInit
<1>4. PICK k, l, m : k = <<"inner", "loop">> /\ l = <<"get">> /\ m = <<"idle">>
  OBVIOUS
<1>5. /\ k \in Seq(Label) /\ Len(k) = 2 /\ k[1] = "inner" /\ k[2] = "loop"
      /\ l \in Seq(Label) /\ Len(l) = 1 /\ l[1] = "get"
      /\ m \in Seq(Label)
  BY <1>4 DEF Label
<1>6. PICK f, g, h : f = Frames(k) /\ g = Frames(l) /\ h = Frames(m)
  OBVIOUS
<1> DEFINE Stacks(x, y, z) ==
      [t \in Thread |-> CASE t = reader -> x [] t = passthru -> y [] t \in Timer -> << >>
                          [] OTHER -> z]
<1>7. stack = Stacks(f, g, h)
  <2>1. stack = Stacks(Frames(<<"inner", "loop">>), Frames(<<"get">>), Frames(<<"idle">>))
    BY DEF ConnInit
  <2> HIDE DEF Stacks
  <2> QED BY <2>1, <1>4, <1>6, Zenon
<1> HIDE <1>4
<1>8. /\ f \in Seq(FrameSet) /\ Len(f) = 2 /\ \A i \in 1 .. 2 : Place(f[i]) = k[i]
      /\ g \in Seq(FrameSet) /\ Len(g) = 1 /\ \A i \in 1 .. 1 : Place(g[i]) = l[i]
      /\ h \in Seq(FrameSet)
  BY <1>5, <1>6, FramesType
<1>9. stack[reader] = f /\ stack[passthru] = g /\ \A i \in Timer : stack[i] = << >>
  BY <1>2, <1>7
<1>10. stack \in [Thread -> Seq(FrameSet)]
  <2>1. << >> \in Seq(FrameSet)
    BY EmptySeq
  <2> QED BY <2>1, <1>7, <1>8
<1>11. TimersWait
  BY <1>9 DEF TimersWait
<1>12. ReaderStack(f) /\ Serves(f)
  BY <1>5, <1>8 DEF ReaderStack, Serves
<1>13. PassStack(g)
  BY <1>5, <1>8 DEF PassStack
<1>14. StackInv
  <2>1. hasQueue
    BY DEF ConnInit
  <2> QED BY <2>1, <1>9, <1>10, <1>12, <1>13, Zenon DEF StackInv, PillInv
<1> QED BY <1>3, <1>11, <1>14, InvParts

\* When all have come to rest, no one is left to put a pill, and none is needed.
LEMMA RestMeansOver ==
  ASSUME ConnInv, AtRest
  PROVE  Over(passthru) \/ full
<1> SUFFICES ASSUME stack[passthru] # << >>, ~full PROVE FALSE
  BY DEF Over
<1>1. TypeOK /\ StackInv
  BY InvParts, Zenon DEF ConnInv
<1>2. \A t \in Thread : stack[t] # << >> =>
        Place(Head(stack[t])) = "idle" \/ (Place(Head(stack[t])) = "get" /\ queue = << >>)
  BY AtPlace, Zenon DEF AtRest, Over
<1>3. ASSUME NEW t \in Thread PROVE ~Puts(stack[t])
  BY <1>2, <1>3 DEF Puts
<1>4. stack[reader] = << >>
  <2> SUFFICES ASSUME stack[reader] # << >> PROVE FALSE
    OBVIOUS
  <2>1. PICK s : s = stack[reader]
    OBVIOUS
  <2>2. s \in Seq(FrameSet) /\ s # << >> /\ Place(Head(s)) \in {"idle", "get"}
    BY <1>1, <1>2, <2>1, StackType, ThreadKinds
  <2>3. PICK n \in Nat : n = Len(s)
    BY <2>2, LenProperties
  <2>4. n # 0 /\ Head(s) = s[1]
    BY <2>2, <2>3, EmptySeq, HeadTailProperties
  <2>5. \A i \in 1 .. n : Place(s[i]) \notin {"get", "unset", "idle"}
    BY <1>1, <2>1, <2>3 DEF StackInv, ReaderStack
  <2> QED BY <2>2, <2>4, <2>5
<1>5. PICK s : s = stack[passthru]
  OBVIOUS
<1>6. s \in Seq(FrameSet) /\ s # << >>
  BY <1>1, <1>5, StackType, ThreadKinds
<1>7. PICK n \in Nat : n = Len(s)
  BY <1>6, LenProperties
<1>8. n # 0 /\ Head(s) = s[1]
  BY <1>6, <1>7, EmptySeq, HeadTailProperties
<1>9. Place(s[n]) \in {"get", "unset"} /\ \A i \in 1 .. n - 1 : Place(s[i]) \in Inner
  BY <1>1, <1>5, <1>6, <1>7 DEF StackInv, PassStack
<1>10. "idle" \notin Inner /\ "get" \notin Inner
  BY DEF Inner
<1>11. Place(s[1]) = "idle" \/ (Place(s[1]) = "get" /\ queue = << >>)
  BY <1>2, <1>5, <1>6, <1>8, ThreadKinds
<1>12. n = 1 /\ Place(s[1]) = "get" /\ queue = << >>
  BY <1>8, <1>9, <1>10, <1>11
<1>13. Listens(stack[passthru])
  BY <1>5, <1>6, <1>7, <1>12 DEF Listens
<1>14. ~HasPill(queue)
  <2>1. Len(<< >>) = 0
    BY EmptySeq
  <2> QED BY <2>1, <1>12 DEF HasPill
<1>15. ~Serves(stack[reader])
  BY <1>4 DEF Serves
<1> QED BY <1>1, <1>3, <1>13, <1>14, <1>15, Zenon DEF StackInv, PillInv

\* The invariant the other theorems rest on holds in every reachable state,
\* for any number of pumps, closing threads and timers and any queue size.
THEOREM ConnInvariant == ConnSpec => []ConnInv
<1>1. ConnInit => ConnInv
  BY InitHolds
<1>2. ConnInv /\ [ConnNext]_connVars => ConnInv'
  BY NextKeeps, StutterKeeps
<1> QED BY <1>1, <1>2, PTL DEF ConnSpec

\* Every variable keeps its type: in particular the queue never holds more
\* than QueueSize items, whoever puts data or pills.
THEOREM ConnTypeCorrect == ConnSpec => []TypeOK
<1>1. ConnInv => TypeOK
  BY DEF ConnInv
<1> QED BY <1>1, ConnInvariant, PTL

\* connection.py:61-78 with websocket.py's handle: when everything has come
\* to rest after the connection was closed, the pass-through thread is over,
\* or a close found the queue full when it put the PoisonPill.
THEOREM NoThreadIsLeft == ConnSpec => []NoThreadLeft
<1>1. ConnInv => NoThreadLeft
  BY RestMeansOver DEF NoThreadLeft
<1> QED BY <1>1, ConnInvariant, PTL
-----------------------------------------------------------------------------
(* A connection that is open is kept alive. A ping thread and the reader     *)
(* replace the timer without a lock, and die of each other's steps. But who  *)
(* dies has seen a step of the other: while the reader waits in its loop, a  *)
(* Timer is armed, or the ping thread still has what it needs to arm one.    *)

PingPlace  == {"cancel", "take", "forget", "stop", "reset", "create", "start"}
PlainPlace == Label \ (PingPlace \union {"loop", "closepipe", "unsetpipe"})

\* A thread is replacing the timer, with n frames below that.
Replaces(s, n) ==
  \/ /\ Len(s) = n + 2
     /\ Place(s[1]) \in {"cancel", "take", "forget", "stop"} /\ Place(s[2]) = "reset"
  \/ Len(s) = n + 1 /\ Place(s[1]) \in {"reset", "create", "start"}

\* Where a ping thread can be.
PingStack(s) ==
  s # << >> =>
    \/ Replaces(s, 0)
    \/ /\ Len(s) = 3 /\ Place(s[1]) \in {"lock", "write", "unlock"}
       /\ Place(s[2]) = "cancel" /\ Place(s[3]) = "reset"
    \/ /\ Len(s) = 4 /\ Place(s[1]) \in {"close", "shut", "interrupt", "signal"}
       /\ Place(s[2]) = "unlock" /\ Place(s[3]) = "cancel" /\ Place(s[4]) = "reset"

\* The reader that will come back to its loop replaces the timer, or does not.
InLoop(s) == s # << >> /\ Place(s[Len(s)]) = "loop"
Idles(s)  == InLoop(s) /\ Place(Head(s)) \notin PingPlace
LoopStack(s) ==
  InLoop(s) =>
    \/ \A k \in 1 .. Len(s) - 1 : Place(s[k]) \in PlainPlace
    \/ Replaces(s, 2) /\ Place(s[Len(s) - 1]) = "inner"

\* Nobody else does.
PlainStack(s) == \A k \in 1 .. Len(s) : Place(s[k]) \in PlainPlace

Armed == \E i \in Timer : timer[i] = "armed"
WillArm(i) ==
  /\ ~Over(i)
  /\ At(i, "take") => pingTimer # NoTimer
  /\ \A l \in {"forget", "stop"} : At(i, l) => old[i] # NoTimer
  /\ At(i, "start") => pingTimer # NoTimer /\ timer[pingTimer] = "new"

\* The calls every thread can be in, one ping at a time (MaxPings = 1), the
\* connection closed when a ping thread has closed it, and kept alive otherwise.
KeepInv ==
  /\ \A i \in Timer : PingStack(stack[i])
  /\ LoopStack(stack[reader])
  /\ \A t \in Thread \ Timer : t # reader => PlainStack(stack[t])
  /\ \A i \in Timer : \A l \in {"interrupt", "signal"} : At(i, l) => ~open
  /\ \A i, j \in Timer : ~Over(i) /\ ~Over(j) => i = j
  /\ open /\ Idles(stack[reader]) => Armed \/ \E i \in Timer : WillArm(i)

-----------------------------------------------------------------------------
(* What calls do to these stacks.                                           *)

\* The frame on top goes on at another place.
LEMMA TopGoes ==
  ASSUME NEW s \in Seq(FrameSet), s # << >>, NEW g \in FrameSet, NEW r, r = <<g>> \o Tail(s)
  PROVE  /\ r \in Seq(FrameSet) /\ r # << >> /\ Len(r) = Len(s) /\ Len(s) \in Nat \ {0}
         /\ r[1] = g /\ Head(r) = g /\ Head(s) = s[1]
         /\ \A k \in 2 .. Len(s) : r[k] = s[k]
<1>1. PICK f \in Seq(FrameSet) : f = <<g>> /\ Len(f) = 1 /\ f[1] = g
  BY Single
<1>2. r = f \o Tail(s)
  BY <1>1, Zenon
<1> HIDE <1>1
<1>3. PICK m \in Nat, n \in Nat : m = Len(f) /\ n = Len(s)
  BY LenProperties
<1>4. /\ r \in Seq(FrameSet) /\ n # 0
      /\ Len(r) = m + n - 1
      /\ \A i \in 1 .. m : r[i] = f[i]
      /\ \A i \in m + 1 .. m + n - 1 : r[i] = s[i - m + 1]
      /\ r = << >> <=> m + n - 1 = 0
      /\ Head(s) = s[1]
  BY <1>2, <1>3, Replaced
<1>5. m = 1 /\ f[1] = g
  BY <1>1, <1>3
<1>6. \A k \in 2 .. n : r[k] = s[k]
  <2> SUFFICES ASSUME NEW k \in 2 .. n PROVE r[k] = s[k]
    OBVIOUS
  <2>1. k \in m + 1 .. m + n - 1 /\ k - m + 1 = k
    BY <1>5
  <2> QED BY <2>1, <1>4
<1>7. r # << >> /\ r[1] = g /\ Len(r) = n
  BY <1>4, <1>5
<1>8. Head(r) = r[1]
  BY <1>4, <1>7, HeadTailProperties
<1> QED BY <1>3, <1>4, <1>6, <1>7, <1>8

\* A call returns.
LEMMA TopReturns ==
  ASSUME NEW s \in Seq(FrameSet), s # << >>, NEW r, r = << >> \o Tail(s)
  PROVE  /\ r \in Seq(FrameSet) /\ Len(r) = Len(s) - 1 /\ Len(s) \in Nat \ {0}
         /\ Head(s) = s[1] /\ (r = << >> <=> Len(s) = 1)
         /\ \A k \in 1 .. Len(s) - 1 : r[k] = s[k + 1]
         /\ r # << >> => Head(r) = s[2]
<1>1. PICK f \in Seq(FrameSet) : f = << >> /\ Len(f) = 0
  BY EmptySeq
<1>2. r = f \o Tail(s)
  BY <1>1, Zenon
<1>3. PICK m \in Nat, n \in Nat : m = Len(f) /\ n = Len(s)
  BY LenProperties
<1> HIDE <1>1
<1>4. /\ r \in Seq(FrameSet) /\ n # 0
      /\ Len(r) = m + n - 1
      /\ \A i \in m + 1 .. m + n - 1 : r[i] = s[i - m + 1]
      /\ r = << >> <=> m + n - 1 = 0
      /\ Head(s) = s[1]
  BY <1>2, <1>3, Replaced
<1>5. m = 0
  BY <1>1, <1>3
<1>6. \A k \in 1 .. n - 1 : r[k] = s[k + 1]
  <2> SUFFICES ASSUME NEW k \in 1 .. n - 1 PROVE r[k] = s[k + 1]
    OBVIOUS
  <2>1. k \in m + 1 .. m + n - 1 /\ k - m + 1 = k + 1
    BY <1>5
  <2> QED BY <2>1, <1>4
<1>7. Len(r) = n - 1 /\ (r = << >> <=> n = 1)
  BY <1>4, <1>5
<1>8. r # << >> => Head(r) = r[1] /\ r[1] = s[2]
  BY <1>4, <1>6, <1>7, HeadTailProperties
<1> QED BY <1>3, <1>4, <1>6, <1>7, <1>8

\* The calls of a thread that do not replace the timer.
SameCalls(s, r) ==
  /\ PlainStack(s) => PlainStack(r)
  /\ LoopStack(s) => LoopStack(r) /\ (Idles(r) => Idles(s))

LEMMA PlainCalls ==
  ASSUME NEW s \in Seq(FrameSet), s # << >>, Place(Head(s)) \in PlainPlace,
         NEW f \in Seq(FrameSet), \A i \in 1 .. Len(f) : Place(f[i]) \in PlainPlace
  PROVE  SameCalls(s, f \o Tail(s))
<1>0. PICK r : r = f \o Tail(s)
  OBVIOUS
<1>1. PICK n \in Nat, m \in Nat, k \in Nat : n = Len(s) /\ m = Len(f) /\ k = Len(r)
  BY <1>0, Replaced, LenProperties
<1>2. /\ r \in Seq(FrameSet) /\ n # 0 /\ k = m + n - 1
      /\ \A i \in 1 .. m : r[i] = f[i]
      /\ \A i \in m + 1 .. m + n - 1 : r[i] = s[i - m + 1]
      /\ r = << >> <=> m + n - 1 = 0
      /\ Head(s) = s[1]
  BY <1>0, <1>1, Replaced
<1> HIDE <1>0
<1>3. \A i \in 1 .. m : Place(r[i]) \in PlainPlace
  BY <1>1, <1>2
<1>4. \A i \in m + 1 .. k : \E j \in 2 .. n : r[i] = s[j] /\ (i < k => j < n)
  <2> SUFFICES ASSUME NEW i \in m + 1 .. k
               PROVE  \E j \in 2 .. n : r[i] = s[j] /\ (i < k => j < n)
    OBVIOUS
  <2>1. i - m + 1 \in 2 .. n /\ (i < k => i - m + 1 < n)
    BY <1>2
  <2>2. r[i] = s[i - m + 1]
    BY <1>2
  <2> QED BY <2>1, <2>2
<1>5. PlainStack(s) => PlainStack(r)
  <2> SUFFICES ASSUME PlainStack(s) PROVE PlainStack(r)
    OBVIOUS
  <2>1. \A j \in 1 .. n : Place(s[j]) \in PlainPlace
    BY <1>1 DEF PlainStack
  <2>2. \A i \in m + 1 .. k : Place(r[i]) \in PlainPlace
    BY <1>4, <2>1
  <2> QED BY <1>1, <1>3, <2>2 DEF PlainStack
<1>6. ASSUME InLoop(r) PROVE InLoop(s)
  <2>1. r # << >> /\ Place(r[k]) = "loop"
    BY <1>1, <1>6 DEF InLoop
  <2>2. k \notin 1 .. m
    BY <1>3, <2>1 DEF PlainPlace
  <2>3. k = m + n - 1 /\ k > m
    BY <1>2, <2>1, <2>2
  <2>4. r[k] = s[n]
    BY <1>2, <2>3
  <2> QED BY <1>1, <2>1, <2>4 DEF InLoop
<1>7. ASSUME LoopStack(s), InLoop(r) PROVE LoopStack(r) /\ Idles(s)
  <2>1. InLoop(s)
    BY <1>6, <1>7
  <2>2. Place(s[1]) \notin PingPlace
    BY <1>2 DEF PlainPlace
  <2>3. ~Replaces(s, 2)
    BY <2>2 DEF Replaces, PingPlace
  <2>4. \A j \in 1 .. n - 1 : Place(s[j]) \in PlainPlace
    BY <1>1, <1>7, <2>1, <2>3 DEF LoopStack
  <2>5. \A i \in m + 1 .. k - 1 : Place(r[i]) \in PlainPlace
    BY <1>4, <2>4
  <2>6. \A i \in 1 .. k - 1 : Place(r[i]) \in PlainPlace
    BY <1>3, <2>5
  <2> QED BY <1>1, <1>2, <2>1, <2>2, <2>6 DEF LoopStack, Idles
<1> QED BY <1>0, <1>5, <1>7, Zenon DEF SameCalls, LoopStack, Idles

LEMMA HandlerPlaces ==
  ASSUME NEW at \in Label, NEW kind, NEW h, h = Handler(at, kind)
  PROVE  /\ h \in Seq(FrameSet)
         /\ at # "loop" => \A i \in 1 .. Len(h) : Place(h[i]) \in PlainPlace
         /\ at = "loop" => Len(h) = 3 /\ Place(h[3]) = "frame"
<1>0. h \in Seq(FrameSet) /\ (at = "get" => Len(h) = 1 /\ Place(h[1]) \in {"get", "unset"})
  BY HandlerType
<1>1. CASE at = "sent"
  <2>1. h = <<Frame("drain", TRUE)>>
    BY <1>1 DEF Handler
  <2>2. Frame("drain", TRUE) \in FrameSet /\ Place(Frame("drain", TRUE)) \in PlainPlace
    BY DEF Frame, FrameSet, Label, PlainPlace, PingPlace, Place
  <2>3. Len(h) = 1 /\ h[1] = Frame("drain", TRUE)
    BY <2>1, <2>2, Single
  <2>4. \A i \in 1 .. 1 : i = 1
    OBVIOUS
  <2>5. \A i \in 1 .. Len(h) : Place(h[i]) \in PlainPlace
    BY <2>2, <2>3, <2>4, Zenon
  <2> QED BY <1>0, <1>1, <2>5, Zenon
<1>2. CASE at = "loop"
  <2>0. {"drain", "cancel", "frame"} \subseteq Label
    BY DEF Label
  <2>1. PICK l \in Seq(Label) : l = <<"drain", "cancel", "frame">>
    BY <2>0, Triple
  <2>2. h = Frames(l)
    BY <1>2, <2>1, Zenon DEF Handler, Finally
  <2>3. Len(l) = 3 /\ l[3] = "frame"
    BY <2>1
  <2> HIDE <2>1
  <2>4. Len(h) = 3 /\ \A i \in 1 .. 3 : Place(h[i]) = l[i]
    BY <2>2, <2>3, FramesType
  <2> QED BY <1>0, <1>2, <2>3, <2>4
<1>3. CASE at = "get"
  <2>1. \A i \in 1 .. 1 : i = 1
    OBVIOUS
  <2>2. "get" \in PlainPlace /\ "unset" \in PlainPlace
    BY DEF Label, PlainPlace, PingPlace
  <2>3. \A i \in 1 .. Len(h) : Place(h[i]) \in PlainPlace
    BY <1>0, <1>3, <2>1, <2>2, Zenon
  <2> QED BY <1>0, <1>3, <2>3, Zenon
<1>4. CASE at \notin {"sent", "loop", "get"}
  <2>1. h = << >>
    BY <1>4 DEF Handler
  <2>2. Len(h) = 0
    BY <2>1, EmptySeq
  <2> QED BY <1>0, <1>4, <2>2
<1> QED BY <1>1, <1>2, <1>3, <1>4

\* What is left of a stack below the frame that catches an exception.
CutAt(r, s, n, i, h, m) ==
  /\ r \in Seq(FrameSet) /\ Len(r) = m + n - i
  /\ \A j \in 1 .. m : r[j] = h[j]
  /\ \A j \in m + 1 .. m + n - i : r[j] = s[j - m + i]
  /\ r = << >> <=> m + n - i = 0

LEMMA CutStack ==
  ASSUME NEW s \in Seq(FrameSet), NEW n \in Nat, n = Len(s), NEW i \in 1 .. n,
         NEW h \in Seq(FrameSet), NEW m \in Nat, m = Len(h)
  PROVE  CutAt(h \o SubSeq(s, i + 1, n), s, n, i, h, m)
<1>1. h \o SubSeq(s, i + 1, n) \in Seq(FrameSet)
  BY Cut
<1>2. Len(h \o SubSeq(s, i + 1, n)) = m + n - i
  BY Cut
<1>3. \A j \in 1 .. m : (h \o SubSeq(s, i + 1, n))[j] = h[j]
  BY Cut
<1>4. \A j \in m + 1 .. m + n - i : (h \o SubSeq(s, i + 1, n))[j] = s[j - m + i]
  BY Cut
<1>5. h \o SubSeq(s, i + 1, n) = << >> <=> m + n - i = 0
  BY <1>1, <1>2, EmptySeq
<1> QED BY <1>1, <1>2, <1>3, <1>4, <1>5, Zenon DEF CutAt

\* A call raises: nobody catches what a ping thread raises, and the reader
\* leaves its loop when replacing the timer failed.
LEMMA RaisedCalls ==
  ASSUME NEW s \in Seq(FrameSet), s # << >>, NEW kind,
         NEW C, C = {i \in 1 .. Len(s) : Catches(Place(s[i]), kind)},
         NEW i, C # {} => i \in C
  PROVE  /\ PingStack(s) => C = {}
         /\ SameCalls(s, IF C = {} THEN << >>
                         ELSE Handler(Place(s[i]), kind) \o SubSeq(s, i + 1, Len(s)))
<1>1. PICK n \in Nat : n = Len(s)
  BY LenProperties
<1>2. n # 0 /\ Head(s) = s[1] /\ \A j \in 1 .. n : Place(s[j]) \in Label
  <2>1. n # 0 /\ Head(s) = s[1] /\ \A j \in 1 .. n : s[j] \in FrameSet
    BY <1>1, EmptySeq, ElementOfSeq, HeadTailProperties
  <2>2. \A f \in FrameSet : Place(f) \in Label
    BY DEF Place, FrameSet
  <2> QED BY <2>1, <2>2
<1>3. \A l : Catches(l, kind) => l \in {"handled", "loop", "get", "sent", "ponged"}
  BY DEF Catches
<1>4. PingStack(s) => C = {}
  <2> SUFFICES ASSUME PingStack(s), NEW j \in 1 .. n, Catches(Place(s[j]), kind) PROVE FALSE
    BY <1>1
  <2>1. Place(s[j]) \in PingPlace \union {"lock", "write", "unlock", "close", "shut",
                                           "interrupt", "signal"}
    BY <1>1 DEF PingStack, Replaces, PingPlace
  <2> QED BY <1>3, <2>1 DEF PingPlace
<1>5. CASE C = {}
  <2>1. Len(<< >>) = 0
    BY EmptySeq
  <2>2. SameCalls(s, << >>)
    BY <2>1 DEF SameCalls, PlainStack, LoopStack, Idles, InLoop
  <2> QED BY <1>4, <1>5, <2>2
<1>6. CASE C # {}
  <2>1. PICK h : h = Handler(Place(s[i]), kind)
    OBVIOUS
  <2>2. i \in 1 .. n /\ Place(s[i]) \in {"handled", "loop", "get", "sent", "ponged"}
    BY <1>1, <1>3, <1>6
  <2>3. /\ h \in Seq(FrameSet)
        /\ Place(s[i]) # "loop" => \A j \in 1 .. Len(h) : Place(h[j]) \in PlainPlace
        /\ Place(s[i]) = "loop" => Len(h) = 3 /\ Place(h[3]) = "frame"
    BY <1>2, <2>1, <2>2, HandlerPlaces
  <2>4. PICK m \in Nat : m = Len(h)
    BY <2>3, LenProperties
  <2>5. PICK r : r = h \o SubSeq(s, i + 1, n)
    OBVIOUS
  <2>6. /\ r \in Seq(FrameSet) /\ Len(r) = m + n - i
        /\ \A j \in 1 .. m : r[j] = h[j]
        /\ \A j \in m + 1 .. m + n - i : r[j] = s[j - m + i]
        /\ r = << >> <=> m + n - i = 0
    <3>1. i \in 1 .. n /\ h \in Seq(FrameSet) /\ n = Len(s) /\ m = Len(h)
      BY <1>1, <2>2, <2>3, <2>4
    <3>2. CutAt(h \o SubSeq(s, i + 1, n), s, n, i, h, m)
      <4> HIDE <2>5
      <4> QED BY <3>1, CutStack, Zenon
    <3>3. CutAt(r, s, n, i, h, m)
      BY <2>5, <3>2, Zenon
    <3> QED BY <3>3 DEF CutAt
  <2>7. PICK k \in Nat : k = m + n - i /\ k = Len(r)
    BY <2>2, <2>6
  <2>8. PICK p \in Label : p = Place(s[i]) /\ p \in {"handled", "loop", "get", "sent", "ponged"}
    BY <1>2, <2>2
  <2> HIDE <2>1, <2>5
  <2>9. p # "loop" => \A j \in 1 .. m : Place(r[j]) \in PlainPlace
    BY <2>3, <2>4, <2>6, <2>8
  <2>10. \A j \in m + 1 .. k : j - m + i \in i + 1 .. n /\ r[j] = s[j - m + i]
    BY <2>2, <2>6, <2>7
  <2>11. PlainStack(s) => PlainStack(r)
    <3> SUFFICES ASSUME PlainStack(s) PROVE PlainStack(r)
      OBVIOUS
    <3>1. \A j \in 1 .. n : Place(s[j]) \in PlainPlace
      BY <1>1 DEF PlainStack
    <3>2. p # "loop"
      BY <2>2, <2>8, <3>1 DEF PlainPlace
    <3>3. \A j \in m + 1 .. k : Place(r[j]) \in PlainPlace
      <4> SUFFICES ASSUME NEW j \in m + 1 .. k PROVE Place(r[j]) \in PlainPlace
        OBVIOUS
      <4>1. j - m + i \in 1 .. n /\ r[j] = s[j - m + i]
        BY <2>2, <2>10
      <4> QED BY <3>1, <4>1
    <3> QED BY <2>7, <2>9, <3>2, <3>3 DEF PlainStack
  <2>12. ASSUME LoopStack(s), InLoop(r) PROVE LoopStack(r) /\ Idles(s)
    <3>1. r # << >> /\ Place(r[k]) = "loop"
      BY <2>7, <2>12 DEF InLoop
    <3>2. i # n
      <4> SUFFICES ASSUME i = n PROVE FALSE
        OBVIOUS
      <4>1. k = m /\ m # 0
        BY <2>6, <2>7, <3>1
      <4>2. CASE p = "loop"
        <5>1. k = 3 /\ r[3] = h[3] /\ Place(h[3]) = "frame"
          BY <2>3, <2>4, <2>6, <2>8, <4>1, <4>2
        <5> QED BY <3>1, <5>1
      <4>3. CASE p # "loop"
        <5>1. Place(r[k]) \in PlainPlace
          BY <2>9, <4>1, <4>3
        <5> QED BY <3>1, <5>1 DEF PlainPlace
      <4> QED BY <4>2, <4>3
    <3>3. r[k] = s[n]
      <4>1. k \in m + 1 .. k /\ k - m + i = n
        BY <2>2, <2>7, <3>2
      <4> QED BY <2>10, <4>1
    <3>4. InLoop(s)
      BY <1>1, <3>1, <3>3 DEF InLoop
    <3>5. ~Replaces(s, 2) \/ Place(s[n - 1]) # "inner"
      <4> SUFFICES ASSUME Replaces(s, 2), Place(s[n - 1]) = "inner" PROVE FALSE
        OBVIOUS
      <4>1. \A j \in 1 .. n - 1 : Place(s[j]) \in PingPlace \union {"inner"}
        BY <1>1 DEF Replaces, PingPlace
      <4>2. i \in 1 .. n - 1
        BY <2>2, <3>2
      <4> QED BY <2>2, <4>1, <4>2 DEF PingPlace
    <3>6. \A j \in 1 .. n - 1 : Place(s[j]) \in PlainPlace
      BY <1>1, <2>12, <3>4, <3>5 DEF LoopStack
    <3>7. p # "loop" /\ n > 1
      <4>1. i \in 1 .. n - 1
        BY <2>2, <3>2
      <4>2. p \in PlainPlace
        BY <2>8, <3>6, <4>1
      <4> QED BY <4>1, <4>2 DEF PlainPlace
    <3>8. \A j \in m + 1 .. k - 1 : Place(r[j]) \in PlainPlace
      <4> SUFFICES ASSUME NEW j \in m + 1 .. k - 1 PROVE Place(r[j]) \in PlainPlace
        OBVIOUS
      <4>1. j - m + i \in 1 .. n - 1 /\ r[j] = s[j - m + i]
        BY <2>2, <2>7, <2>10
      <4> QED BY <3>6, <4>1
    <3>9. \A j \in 1 .. k - 1 : Place(r[j]) \in PlainPlace
      BY <2>9, <3>7, <3>8
    <3>10. LoopStack(r)
      BY <2>7, <3>9 DEF LoopStack
    <3>11. Place(Head(s)) \notin PingPlace
      BY <1>2, <3>6, <3>7 DEF PlainPlace
    <3> QED BY <3>4, <3>10, <3>11 DEF Idles
  <2>13. SameCalls(s, r)
    BY <2>11, <2>12, Zenon DEF SameCalls, LoopStack, Idles
  <2> QED BY <1>1, <1>4, <1>6, <2>1, <2>5, <2>13, Zenon
<1> QED BY <1>5, <1>6
-----------------------------------------------------------------------------
(* Steps of the threads that are no ping.                                   *)

PingSame(t) ==
  pingTimer' = pingTimer /\ timer' = timer /\ \A u \in Thread : u # t => old'[u] = old[u]

LEMMA OutsideKeeps ==
  ASSUME TypeOK, KeepInv, NEW t \in Thread, t \notin Timer,
         stack' = [stack EXCEPT ![t] = stack'[t]],
         t = reader => LoopStack(stack'[reader]), t # reader => PlainStack(stack'[t]),
         open' => open,
         Idles(stack'[reader]) =>
           Armed' \/ ~open' \/ (Idles(stack[reader]) /\ PingSame(t))
  PROVE  KeepInv'
<1>1. \A u \in Thread : u # t => stack'[u] = stack[u]
  <2>1. PICK r : r = stack'[t]
    OBVIOUS
  <2>2. stack' = [stack EXCEPT ![t] = r]
    BY <2>1, Zenon
  <2> HIDE <2>1
  <2> QED BY <2>2, StackType
<1>2. \A i \in Timer : i \in Thread /\ i # t /\ i # reader /\ stack'[i] = stack[i]
  BY <1>1, ThreadKinds
<1>3. \A i \in Timer : PingStack(stack'[i])
  BY <1>2, Zenon DEF KeepInv
<1>4. LoopStack(stack'[reader])
  BY <1>1, ThreadKinds, Zenon DEF KeepInv
<1>5. \A u \in Thread \ Timer : u # reader => PlainStack(stack'[u])
  BY <1>1, Zenon DEF KeepInv
<1>6. \A i \in Timer : \A l : At(i, l)' <=> At(i, l)
  BY <1>2, Zenon DEF At
<1>7. \A i \in Timer : Over(i)' <=> Over(i)
  BY <1>2, Zenon DEF Over
<1>8. \A i \in Timer : \A l \in {"interrupt", "signal"} : At(i, l)' => ~open'
  BY <1>6, Zenon DEF KeepInv
<1>9. \A i, j \in Timer : ~Over(i)' /\ ~Over(j)' => i = j
  BY <1>7, Zenon DEF KeepInv
<1>10. ASSUME open', Idles(stack'[reader]) PROVE Armed' \/ \E i \in Timer : WillArm(i)'
  <2>1. CASE Armed'
    BY <2>1
  <2>2. CASE Idles(stack[reader]) /\ PingSame(t)
    <3>1. Armed \/ \E i \in Timer : WillArm(i)
      BY <1>10, <2>2, Zenon DEF KeepInv
    <3>2. Armed => Armed'
      BY <2>2, Zenon DEF Armed, PingSame
    <3>3. \A i \in Timer : old'[i] = old[i]
      BY <1>2, <2>2, Zenon DEF PingSame
    <3>4. \A i \in Timer : WillArm(i) => WillArm(i)'
      BY <1>6, <1>7, <2>2, <3>3, Zenon DEF WillArm, PingSame
    <3> QED BY <3>1, <3>2, <3>4, Zenon
  <2> QED BY <1>10, <2>1, <2>2
<1> QED BY <1>3, <1>4, <1>5, <1>8, <1>9, <1>10, Zenon DEF KeepInv

\* A step in which no timer is replaced.
Quiet(t) ==
  stack' = [stack EXCEPT ![t] = stack'[t]] /\ SameCalls(stack[t], stack'[t])

LEMMA QuietKeeps ==
  ASSUME TypeOK, KeepInv, NEW t \in Thread, t \notin Timer,
         Quiet(t), PingSame(t), open' => open
  PROVE  KeepInv'
<1>1. LoopStack(stack[reader])
  BY Zenon DEF KeepInv
<1>2. t # reader => PlainStack(stack'[t])
  BY Zenon DEF KeepInv, Quiet, SameCalls
<1>3. t = reader => LoopStack(stack'[reader])
  BY <1>1, Zenon DEF Quiet, SameCalls
<1>4. t # reader => stack'[reader] = stack[reader]
  <2>1. PICK r : r = stack'[t] /\ stack' = [stack EXCEPT ![t] = r]
    BY Zenon DEF Quiet
  <2>2. stack' = [stack EXCEPT ![t] = r]
    BY <2>1
  <2> HIDE <2>1
  <2> QED BY <2>2, StackType, ThreadKinds
<1>5. Idles(stack'[reader]) => Idles(stack[reader])
  BY <1>1, <1>4, Zenon DEF Quiet, SameCalls
<1> QED BY <1>2, <1>3, <1>5, OutsideKeeps, Zenon DEF Quiet

LEMMA QuietBecome ==
  ASSUME TypeOK, NEW t \in Thread, NEW l \in PlainPlace, At(t, l),
         NEW f \in Seq(FrameSet), \A i \in 1 .. Len(f) : Place(f[i]) \in PlainPlace,
         Become(t, f)
  PROVE  Quiet(t)
<1>1. PICK s : s = stack[t]
  OBVIOUS
<1>2. s \in Seq(FrameSet) /\ s # << >> /\ Place(Head(s)) \in PlainPlace
  BY <1>1, StackType, AtPlace
<1>3. SameCalls(s, f \o Tail(s))
  BY <1>2, PlainCalls
<1>4. PICK r : r = f \o Tail(s)
  OBVIOUS
<1>5. stack' = [stack EXCEPT ![t] = f \o Tail(stack[t])]
  BY Zenon DEF Become
<1>6. stack' = [stack EXCEPT ![t] = r]
  BY <1>1, <1>4, <1>5, Zenon
<1>7. stack'[t] = r
  BY <1>6, StackType
<1> HIDE <1>4
<1> QED BY <1>1, <1>3, <1>4, <1>6, <1>7, Zenon DEF Quiet

LEMMA QuietRaise ==
  ASSUME TypeOK, NEW t \in Thread, NEW l, At(t, l), NEW kind, Raise(t, kind)
  PROVE  /\ Quiet(t) /\ PingSame(t) /\ (open' => open)
         /\ PingStack(stack[t]) => stack'[t] = << >>
<1>1. PICK s : s = stack[t]
  OBVIOUS
<1>2. s \in Seq(FrameSet) /\ s # << >> /\ DOMAIN s = 1 .. Len(s)
  BY <1>1, StackType, AtPlace, LenProperties
<1> DEFINE C == {j \in DOMAIN stack[t] : Catches(stack[t][j].at, kind)}
           i == CHOOSE j \in C : \A k \in C : j <= k
<1>3. stack' = [stack EXCEPT ![t] =
                  IF C = {} THEN << >>
                  ELSE Handler(stack[t][i].at, kind) \o SubSeq(stack[t], i + 1, Len(stack[t]))]
  BY Zenon DEF Raise
<1>4. C = {j \in 1 .. Len(s) : Catches(Place(s[j]), kind)}
  BY <1>1, <1>2, Zenon DEF Place
<1>5. C # {} => i \in C
  <2>1. C \in SUBSET Nat
    BY <1>4
  <2> HIDE DEF C
  <2> QED BY <2>1, SmallestOf
<1> HIDE DEF C, i
<1>6. PICK r : r = IF C = {} THEN << >> ELSE Handler(Place(s[i]), kind) \o SubSeq(s, i + 1, Len(s))
  OBVIOUS
<1>7. SameCalls(s, r) /\ (PingStack(s) => r = << >>)
  BY <1>2, <1>4, <1>5, <1>6, RaisedCalls
<1>8. stack[t][i].at = Place(s[i])
  BY <1>1, Zenon DEF Place
<1>9. stack' = [stack EXCEPT ![t] = r]
  BY <1>1, <1>3, <1>6, <1>8, Zenon
<1>10. stack'[t] = r
  BY <1>9, StackType
<1>11. Quiet(t) /\ (PingStack(stack[t]) => stack'[t] = << >>)
  BY <1>1, <1>7, <1>9, <1>10, Zenon DEF Quiet
<1>12. /\ pingTimer' = pingTimer /\ timer' = timer
       /\ old' = [old EXCEPT ![t] = NoTimer] /\ (open' => open)
  BY Zenon DEF Raise
<1>13. PingSame(t)
  BY <1>12 DEF PingSame, TypeOK
<1> QED BY <1>11, <1>12, <1>13

LEMMA QuietReturn ==
  ASSUME TypeOK, NEW t \in Thread, NEW l \in PlainPlace, At(t, l), Return(t)
  PROVE  Quiet(t)
<1>1. << >> \in Seq(FrameSet) /\ \A i \in 1 .. Len(<< >>) : Place(<< >>[i]) \in PlainPlace
  BY EmptySeq
<1> QED BY <1>1, QuietBecome DEF Return

LEMMA QuietGoto ==
  ASSUME TypeOK, NEW t \in Thread, NEW l \in PlainPlace, At(t, l), NEW to \in PlainPlace,
         Goto(t, to)
  PROVE  Quiet(t)
<1>1. PICK g : g = Frame(to, Error(t))
  OBVIOUS
<1>2. Error(t) \in BOOLEAN
  BY StackType, AtPlace DEF Error, FrameSet
<1>3. g \in FrameSet /\ Place(g) = to
  BY <1>1, <1>2 DEF Frame, FrameSet, Place, PlainPlace
<1>4. PICK f \in Seq(FrameSet) : f = <<g>> /\ Len(f) = 1 /\ f[1] = g
  BY <1>3, Single
<1>5. Become(t, f)
  BY <1>1, <1>4, Zenon DEF Goto
<1>6. \A i \in 1 .. Len(f) : Place(f[i]) \in PlainPlace
  BY <1>3, <1>4
<1> HIDE <1>4
<1> QED BY <1>5, <1>6, QuietBecome

LEMMA Plain ==
  ASSUME NEW l \in {"drain", "empty", "pill", "close", "shut", "interrupt", "signal", "lock",
                    "write", "unlock", "sent", "handled", "ponged", "put", "inner", "frame",
                    "get", "unset", "idle"}
  PROVE  l \in PlainPlace
BY DEF PlainPlace, PingPlace, Label

\* Returns, goes on, stays, or raises.
SamePings == UNCHANGED pingVars /\ (open' => open)
Goes(t) ==
  \/ SamePings /\ (Return(t) \/ (\E to \in PlainPlace : Goto(t, to)) \/ stack' = stack)
  \/ \E kind \in Kinds : Raise(t, kind)

LEMMA GoesQuietly ==
  ASSUME TypeOK, NEW t \in Thread, NEW l \in PlainPlace, At(t, l), Goes(t)
  PROVE  Quiet(t) /\ PingSame(t) /\ (open' => open)
<1>1. CASE \E kind \in Kinds : Raise(t, kind)
  BY <1>1, QuietRaise, Zenon
<1>2. CASE SamePings /\ Quiet(t)
  BY <1>2, Zenon DEF pingVars, PingSame, SamePings
<1>3. Return(t) => Quiet(t)
  BY QuietReturn
<1>4. \A to \in PlainPlace : Goto(t, to) => Quiet(t)
  BY QuietGoto
<1>5. stack' = stack => Quiet(t)
  <2> SUFFICES ASSUME stack' = stack PROVE Quiet(t)
    OBVIOUS
  <2>1. stack = [stack EXCEPT ![t] = stack[t]]
    BY StackType
  <2>2. SameCalls(stack[t], stack[t])
    BY Zenon DEF SameCalls
  <2>3. stack'[t] = stack[t]
    BY Zenon
  <2>4. stack' = [stack EXCEPT ![t] = stack'[t]]
    BY <2>1, <2>3, Zenon
  <2> QED BY <2>2, <2>3, <2>4, Zenon DEF Quiet
<1> QED BY <1>1, <1>2, <1>3, <1>4, <1>5, Zenon DEF Goes

\* The calls, but for those that replace the timer and the writing.
LEMMA CallGoes ==
  ASSUME NEW t,
         \/ CloseStep(t) \/ Lock(t) \/ Unlock(t) \/ LeaveTry(t)
         \/ (t = reader /\ (Drained \/ CloseFrame)) \/ (t = passthru /\ UnsetQueue)
  PROVE  \E l \in PlainPlace : At(t, l) /\ Goes(t)
<1>0. /\ "drain" \in PlainPlace /\ "empty" \in PlainPlace /\ "pill" \in PlainPlace
      /\ "close" \in PlainPlace /\ "shut" \in PlainPlace /\ "interrupt" \in PlainPlace
      /\ "signal" \in PlainPlace /\ "lock" \in PlainPlace /\ "write" \in PlainPlace
      /\ "unlock" \in PlainPlace /\ "sent" \in PlainPlace /\ "handled" \in PlainPlace
      /\ "ponged" \in PlainPlace /\ "inner" \in PlainPlace /\ "frame" \in PlainPlace
      /\ "unset" \in PlainPlace
  BY Plain
<1>1. "OSError" \in Kinds /\ "AttributeError" \in Kinds
  BY DEF Kinds
<1>2. UNCHANGED <<socketVars, sendLock, queueVars, pingVars>> => SamePings
  BY DEF SamePings, socketVars, pingVars
<1>3. drain(t) \/ interrupt(t) => \E l \in PlainPlace : At(t, l) /\ Goes(t)
  BY <1>0, <1>2, Zenon DEF drain, interrupt, Goes
<1>4. Unlock(t) \/ LeaveTry(t) \/ Lock(t) => SamePings
  BY DEF Unlock, LeaveTry, Lock, SamePings, socketVars, pingVars
<1>5. Unlock(t) \/ LeaveTry(t) \/ Lock(t) => \E l \in PlainPlace : At(t, l) /\ Goes(t)
  BY <1>0, <1>4, Zenon DEF Unlock, LeaveTry, Lock, Goes
<1>6. UNCHANGED <<socketVars, sendLock, hasQueue, full, pingVars>> => SamePings
  BY DEF SamePings, socketVars, pingVars
<1>7. empty(t) => \E l \in PlainPlace : At(t, l) /\ Goes(t)
  BY <1>0, <1>1, <1>6, Zenon DEF empty, Goes
<1>8. UNCHANGED <<socketVars, sendLock, hasQueue, pingVars>> => SamePings
  BY DEF SamePings, socketVars, pingVars
<1>9. putPill(t) => \E l \in PlainPlace : At(t, l) /\ Goes(t)
  BY <1>0, <1>1, <1>8, Zenon DEF putPill, Goes
<1>10. close(t) \/ Shut(t) => SamePings
  BY DEF close, Shut, SamePings, socketVars, pingVars
<1>11. close(t) \/ Shut(t) => \E l \in PlainPlace : At(t, l) /\ Goes(t)
  BY <1>0, <1>10, Zenon DEF close, Shut, Goes
<1>12. Signal(t) => \E l \in PlainPlace : At(t, l) /\ Goes(t)
  BY <1>0, <1>1, <1>2, Zenon DEF Signal, Goes
<1>13. t = reader /\ (Drained \/ CloseFrame) => \E l \in PlainPlace : At(t, l) /\ Goes(t)
  <2>1. Drained \/ CloseFrame => SamePings
    BY DEF Drained, CloseFrame, SamePings, socketVars, pingVars
  <2> QED BY <1>0, <2>1, Zenon DEF Drained, CloseFrame, Goes
<1>14. t = passthru /\ UnsetQueue => \E l \in PlainPlace : At(t, l) /\ Goes(t)
  <2>1. UnsetQueue => SamePings
    BY DEF UnsetQueue, SamePings, socketVars, pingVars
  <2> QED BY <1>0, <2>1, Zenon DEF UnsetQueue, Goes
<1> QED BY <1>3, <1>5, <1>7, <1>9, <1>11, <1>12, <1>13, <1>14, Zenon DEF CloseStep

LEMMA FrameAt ==
  ASSUME NEW l \in Label, NEW e \in BOOLEAN
  PROVE  Frame(l, e) \in FrameSet /\ Place(Frame(l, e)) = l
BY DEF Frame, FrameSet, Place

\* The frames of a write that failed, and of a put to a full queue.
LEMMA Pushed ==
  ASSUME TypeOK, NEW t \in Thread, NEW l \in {"write", "put"}, At(t, l),
         \/ Become(t, <<Frame("close", TRUE), Frame("unlock", FALSE)>>)
         \/ Become(t, <<Frame("drain", TRUE)>>)
  PROVE  Quiet(t)
<1>1. PICK g, h, d : /\ g = Frame("close", TRUE) /\ h = Frame("unlock", FALSE)
                     /\ d = Frame("drain", TRUE)
  OBVIOUS
<1>2. g \in FrameSet /\ h \in FrameSet /\ d \in FrameSet
      /\ Place(g) = "close" /\ Place(h) = "unlock" /\ Place(d) = "drain"
  BY <1>1, FrameAt DEF Label
<1>3. l \in PlainPlace /\ {"close", "unlock", "drain"} \subseteq PlainPlace
  BY Plain
<1>4. Become(t, <<g, h>>) \/ Become(t, <<d>>)
  BY <1>1, Zenon
<1> HIDE <1>1
<1>5. CASE Become(t, <<g, h>>)
  <2>1. PICK f \in Seq(FrameSet) : f = <<g, h>> /\ Len(f) = 2 /\ f[1] = g /\ f[2] = h
    <3>1. /\ <<g, h>> \in Seq(FrameSet) /\ Len(<<g, h>>) = 2
          /\ <<g, h>>[1] = g /\ <<g, h>>[2] = h
      BY <1>2, Pair
    <3> QED BY <3>1, Zenon
  <2>2. Become(t, f)
    BY <1>5, <2>1, Zenon
  <2> HIDE <2>1
  <2>3. \A i \in 1 .. 2 : i = 1 \/ i = 2
    OBVIOUS
  <2>4. \A i \in 1 .. Len(f) : Place(f[i]) \in PlainPlace
    BY <1>2, <1>3, <2>1, <2>3
  <2> QED BY <1>3, <2>2, <2>4, QuietBecome
<1>6. CASE Become(t, <<d>>)
  <2>1. PICK f \in Seq(FrameSet) : f = <<d>> /\ Len(f) = 1 /\ f[1] = d
    BY <1>2, Single
  <2>2. Become(t, f)
    BY <1>6, <2>1, Zenon
  <2> HIDE <2>1
  <2>3. \A i \in 1 .. Len(f) : Place(f[i]) \in PlainPlace
    BY <1>2, <1>3, <2>1
  <2> QED BY <1>3, <2>2, <2>3, QuietBecome
<1> QED BY <1>4, <1>5, <1>6

LEMMA WriteQuiet ==
  ASSUME TypeOK, NEW t \in Thread, Write(t) \/ Put(t)
  PROVE  Quiet(t) /\ PingSame(t) /\ (open' => open)
<1>1. PICK l \in {"write", "put"} : At(t, l)
  BY Zenon DEF Write, Put
<1>2. l \in PlainPlace
  BY Plain
<1>3. \/ Goes(t)
      \/ /\ SamePings
         /\ \/ Become(t, <<Frame("close", TRUE), Frame("unlock", FALSE)>>)
            \/ Become(t, <<Frame("drain", TRUE)>>)
  <2>1. "AttributeError" \in Kinds
    BY DEF Kinds
  <2>2. Write(t) => SamePings
    BY DEF Write, SamePings, socketVars, pingVars
  <2>3. UNCHANGED <<socketVars, sendLock, hasQueue, full, pingVars>> => SamePings
    BY DEF SamePings, socketVars, pingVars
  <2> QED BY <2>1, <2>2, <2>3, Zenon DEF Write, Put, Goes
<1>4. CASE Goes(t)
  BY <1>1, <1>2, <1>4, GoesQuietly
<1>5. CASE SamePings /\ Quiet(t)
  BY <1>5, Zenon DEF pingVars, PingSame, SamePings
<1> QED BY <1>1, <1>3, <1>4, <1>5, Pushed

-----------------------------------------------------------------------------
(* The reader, the pass-through thread and the others by themselves.        *)

LEMMA NewStack ==
  ASSUME TypeOK, NEW t \in Thread, NEW r, stack' = [stack EXCEPT ![t] = r]
  PROVE  /\ stack'[t] = r /\ stack' = [stack EXCEPT ![t] = stack'[t]]
         /\ \A u \in Thread : u # t => stack'[u] = stack[u]
<1>1. stack'[t] = r
  BY StackType
<1>2. \A u \in Thread : u # t => stack'[u] = stack[u]
  BY StackType
<1> QED BY <1>1, <1>2, Zenon

LEMMA PlainFrames ==
  ASSUME NEW l \in {<<"put", "idle">>, <<"lock", "sent", "idle">>, <<"drain">>, <<"close">>,
                    <<"unset">>, <<"lock", "sent", "get">>}
  PROVE  PlainStack(Frames(l))
<1> DEFINE P == {"put", "idle", "lock", "sent", "drain", "close", "unset", "get"}
<1>1. l \in Seq(P)
  <2>1. CASE l = <<"put", "idle">>
    BY <2>1
  <2>2. CASE l = <<"lock", "sent", "idle">>
    BY <2>2
  <2>3. CASE l = <<"lock", "sent", "get">>
    BY <2>3
  <2>4. CASE l = <<"drain">>
    BY <2>4
  <2>5. CASE l = <<"close">>
    BY <2>5
  <2>6. CASE l = <<"unset">>
    BY <2>6
  <2> QED BY <2>1, <2>2, <2>3, <2>4, <2>5, <2>6
<1>2. P \subseteq PlainPlace
  BY Plain
<1>3. P \subseteq Label
  BY <1>2 DEF PlainPlace
<1> HIDE DEF P
<1>4. PICK n \in Nat : n = Len(l)
  BY <1>1, LenProperties
<1>5. \A i \in 1 .. n : l[i] \in P
  BY <1>1, <1>4, ElementOfSeq
<1>6. l \in Seq(Label)
  BY <1>1, <1>3
<1>7. Len(Frames(l)) = n /\ \A i \in 1 .. n : Place(Frames(l)[i]) = l[i]
  BY <1>4, <1>6, FramesType
<1> QED BY <1>2, <1>5, <1>7 DEF PlainStack

\* Of the threads that are no ping and not the reader.
LEMMA BeginsKeeps ==
  ASSUME TypeOK, KeepInv, NEW t \in Thread, t \notin Timer, t # reader,
         NEW l \in {<<"put", "idle">>, <<"lock", "sent", "idle">>, <<"drain">>, <<"close">>,
                    <<"unset">>, <<"lock", "sent", "get">>},
         stack' = [stack EXCEPT ![t] = Frames(l)], SamePings
  PROVE  KeepInv'
<1>1. PlainStack(Frames(l))
  BY PlainFrames
<1>2. PICK r : r = Frames(l)
  OBVIOUS
<1>3. stack' = [stack EXCEPT ![t] = r] /\ PlainStack(r)
  BY <1>1, <1>2, Zenon
<1> HIDE <1>2
<1>4. /\ stack'[t] = r /\ stack' = [stack EXCEPT ![t] = stack'[t]]
      /\ \A u \in Thread : u # t => stack'[u] = stack[u]
  BY <1>3, NewStack
<1>5. stack'[reader] = stack[reader]
  BY <1>4, ThreadKinds
<1>6. PingSame(t) /\ (open' => open)
  BY Zenon DEF SamePings, PingSame, pingVars
<1> QED BY <1>3, <1>4, <1>5, <1>6, OutsideKeeps, Zenon

\* The reader gets a new stack.
LEMMA ReaderGets ==
  ASSUME TypeOK, KeepInv, NEW r, stack' = [stack EXCEPT ![reader] = r], SamePings,
         LoopStack(r), Idles(r) => Idles(stack[reader])
  PROVE  KeepInv'
<1>1. reader \in Thread /\ reader \notin Timer
  BY ThreadKinds
<1>2. stack'[reader] = r /\ stack' = [stack EXCEPT ![reader] = stack'[reader]]
  BY <1>1, NewStack
<1>3. PingSame(reader) /\ (open' => open)
  BY Zenon DEF SamePings, PingSame, pingVars
<1> QED BY <1>1, <1>2, <1>3, OutsideKeeps, Zenon

LEMMA SelectKeepsAlive ==
  ASSUME TypeOK, KeepInv, Select
  PROVE  KeepInv'
<1>1. SamePings
  BY DEF Select, SamePings, socketVars, pingVars
<1>2. CASE stack' = [stack EXCEPT ![reader] = Frames(<<"cancel", "reset", "inner", "loop">>)]
  <2>1. PICK l : l = <<"cancel", "reset", "inner", "loop">>
    OBVIOUS
  <2>2. l \in Seq(Label) /\ Len(l) = 4 /\ l[1] = "cancel" /\ l[2] = "reset" /\ l[3] = "inner"
    BY <2>1 DEF Label
  <2>3. PICK f : f = Frames(l)
    OBVIOUS
  <2>4. stack' = [stack EXCEPT ![reader] = f]
    BY <1>2, <2>1, <2>3, Zenon
  <2> HIDE <2>1
  <2>5. /\ f \in Seq(FrameSet) /\ Len(f) = 4 /\ \A i \in 1 .. 4 : Place(f[i]) = l[i]
        /\ f # << >> /\ Head(f) = f[1]
    BY <2>2, <2>3, NewFrames
  <2>6. Place(f[1]) = "cancel" /\ Place(f[2]) = "reset" /\ Place(f[3]) = "inner"
    BY <2>2, <2>5
  <2>7. LoopStack(f)
    BY <2>5, <2>6 DEF LoopStack, Replaces
  <2>8. ~Idles(f)
    BY <2>5, <2>6 DEF Idles, PingPlace
  <2> QED BY <1>1, <2>4, <2>7, <2>8, ReaderGets
<1>3. CASE stack' = [stack EXCEPT ![reader] = Frames(<<"closepipe">>)]
  <2>1. PICK l : l = <<"closepipe">>
    OBVIOUS
  <2>2. l \in Seq(Label) /\ Len(l) = 1 /\ l[1] = "closepipe"
    BY <2>1 DEF Label
  <2>3. PICK f : f = Frames(l)
    OBVIOUS
  <2>4. stack' = [stack EXCEPT ![reader] = f]
    BY <1>3, <2>1, <2>3, Zenon
  <2> HIDE <2>1
  <2>5. Len(f) = 1 /\ \A i \in 1 .. 1 : Place(f[i]) = l[i]
    BY <2>2, <2>3, FramesType
  <2>6. ~InLoop(f)
    BY <2>2, <2>5 DEF InLoop
  <2> QED BY <1>1, <2>4, <2>6, ReaderGets DEF LoopStack, Idles
<1> QED BY <1>2, <1>3, Zenon DEF Select

LEMMA PushCalls ==
  ASSUME NEW s \in Seq(FrameSet), s # << >>, Place(Head(s)) \in PlainPlace, LoopStack(s),
         NEW f \in Seq(FrameSet), \A i \in 1 .. Len(f) : Place(f[i]) \in PlainPlace,
         NEW r, r = f \o s
  PROVE  LoopStack(r) /\ (Idles(r) => Idles(s))
<1>1. PICK n \in Nat, m \in Nat : n = Len(s) /\ m = Len(f)
  BY LenProperties
<1>3. /\ r \in Seq(FrameSet) /\ Len(r) = Len(f) + Len(s)
      /\ \A i \in 1 .. Len(f) + Len(s) : r[i] = IF i <= Len(f) THEN f[i] ELSE s[i - Len(f)]
  BY ConcatProperties
<1>4. Len(r) = m + n /\ \A i \in 1 .. m + n : r[i] = IF i <= m THEN f[i] ELSE s[i - m]
  BY <1>1, <1>3, Zenon
<1>5. n # 0 /\ Head(s) = s[1]
  BY <1>1, EmptySeq, HeadTailProperties
<1>6. r[m + n] = s[n]
  <2>1. m + n \in 1 .. m + n /\ ~(m + n <= m) /\ m + n - m = n
    BY <1>5
  <2> QED BY <2>1, <1>4
<1> SUFFICES ASSUME InLoop(r) PROVE LoopStack(r) /\ Idles(s)
  BY Zenon DEF LoopStack, Idles
<1>7. InLoop(s)
  BY <1>1, <1>4, <1>6 DEF InLoop
<1>8. Place(s[1]) \notin PingPlace
  BY <1>5 DEF PlainPlace
<1>9. ~Replaces(s, 2)
  BY <1>8 DEF Replaces, PingPlace
<1>10. \A j \in 1 .. n - 1 : Place(s[j]) \in PlainPlace
  BY <1>1, <1>7, <1>9 DEF LoopStack
<1>11. \A i \in 1 .. m + n - 1 : Place(r[i]) \in PlainPlace
  <2> SUFFICES ASSUME NEW i \in 1 .. m + n - 1 PROVE Place(r[i]) \in PlainPlace
    OBVIOUS
  <2>1. CASE i <= m
    <3>1. r[i] = f[i] /\ i \in 1 .. m
      BY <2>1, <1>4
    <3> QED BY <3>1, <1>1
  <2>2. CASE ~(i <= m)
    <3>1. i - m \in 1 .. n - 1 /\ r[i] = s[i - m]
      BY <2>2, <1>4
    <3> QED BY <3>1, <1>10
  <2> QED BY <2>1, <2>2
<1> QED BY <1>4, <1>5, <1>7, <1>8, <1>11 DEF LoopStack, Idles

LEMMA MessageKeepsAlive ==
  ASSUME TypeOK, KeepInv, Message
  PROVE  KeepInv'
<1>0. SamePings
  BY DEF Message, SamePings, socketVars, pingVars
<1>1. At(reader, "inner") /\ "inner" \in PlainPlace
  BY Plain, Zenon DEF Message
<1>3. PICK l \in {<<"lock", "sent", "handled">>, <<"lock", "ponged">>} :
        stack' = [stack EXCEPT ![reader] = Frames(l) \o stack[reader]]
  BY Zenon DEF Message
<1>4. l \in Seq(Label) /\ \A i \in 1 .. Len(l) : l[i] \in {"lock", "sent", "handled", "ponged"}
  <2>1. CASE l = <<"lock", "sent", "handled">>
    BY <2>1 DEF Label
  <2>2. CASE l = <<"lock", "ponged">>
    BY <2>2 DEF Label
  <2> QED BY <2>1, <2>2
<1>5. PICK f : f = Frames(l)
  OBVIOUS
<1>6. f \in Seq(FrameSet) /\ Len(f) = Len(l) /\ \A i \in 1 .. Len(l) : Place(f[i]) = l[i]
  BY <1>4, <1>5, FramesType
<1>7. \A i \in 1 .. Len(f) : Place(f[i]) \in PlainPlace
  <2>1. {"lock", "sent", "handled", "ponged"} \subseteq PlainPlace
    BY Plain
  <2> QED BY <2>1, <1>4, <1>6
<1>8. PICK s : s = stack[reader]
  OBVIOUS
<1>9. s \in Seq(FrameSet) /\ s # << >> /\ Place(Head(s)) \in PlainPlace
  BY <1>1, <1>8, StackType, AtPlace, ThreadKinds
<1>10. LoopStack(s)
  BY <1>8, Zenon DEF KeepInv
<1>11. PICK r : r = f \o s
  OBVIOUS
<1>12. LoopStack(r) /\ (Idles(r) => Idles(s))
  BY <1>6, <1>7, <1>9, <1>10, <1>11, PushCalls
<1>13. stack' = [stack EXCEPT ![reader] = r]
  BY <1>3, <1>5, <1>8, <1>11, Zenon
<1> HIDE <1>11
<1> QED BY <1>0, <1>8, <1>12, <1>13, ReaderGets

LEMMA DisconnectKeepsAlive ==
  ASSUME TypeOK, KeepInv, Disconnect
  PROVE  KeepInv'
<1>1. stack' = [stack EXCEPT ![reader] = stack[reader]]
  BY StackType DEF Disconnect
<1>2. SamePings
  BY DEF Disconnect, SamePings
<1>3. PICK r : r = stack[reader] /\ stack' = [stack EXCEPT ![reader] = r]
  BY <1>1, Zenon
<1>4. LoopStack(r) /\ (Idles(r) => Idles(stack[reader]))
  BY <1>3, Zenon DEF KeepInv
<1>5. stack' = [stack EXCEPT ![reader] = r]
  BY <1>3
<1> HIDE <1>3
<1> QED BY <1>2, <1>4, <1>5, ReaderGets

\* The end of handle() is no loop.
LEMMA PipeKeepsAlive ==
  ASSUME TypeOK, KeepInv, ClosePipe \/ UnsetPipe
  PROVE  KeepInv'
<1>1. PICK l \in {"closepipe", "unsetpipe"} : At(reader, l)
  BY Zenon DEF ClosePipe, UnsetPipe
<1>2. SamePings
  BY DEF ClosePipe, UnsetPipe, SamePings, socketVars, pingVars
<1>3. PICK s : s = stack[reader]
  OBVIOUS
<1>4. s \in Seq(FrameSet) /\ s # << >> /\ Place(Head(s)) = l /\ LoopStack(s)
  BY <1>1, <1>3, StackType, AtPlace, ThreadKinds DEF KeepInv
<1>5. PICK n \in Nat : n = Len(s)
  BY <1>4, LenProperties
<1>6. n # 0 /\ Head(s) = s[1] /\ Place(s[1]) = l
  BY <1>4, <1>5, EmptySeq, HeadTailProperties
<1>7. ~InLoop(s)
  <2> SUFFICES ASSUME InLoop(s) PROVE FALSE
    OBVIOUS
  <2>1. ~Replaces(s, 2)
    BY <1>6 DEF Replaces
  <2>2. \A k \in 1 .. n - 1 : Place(s[k]) \in PlainPlace
    BY <1>4, <1>5, <2>1 DEF LoopStack
  <2>3. l \notin PlainPlace
    BY DEF PlainPlace
  <2>4. n = 1
    BY <1>6, <2>2, <2>3
  <2> QED BY <1>5, <1>6, <2>4 DEF InLoop
<1>8. PICK f \in Seq(FrameSet) : /\ Become(reader, f) /\ Len(f) \in {1, 3}
                                 /\ Place(f[Len(f)]) # "loop"
  <2>1. CASE ClosePipe
    <3>1. PICK g : g = Frame("unsetpipe", Error(reader))
      OBVIOUS
    <3>2. Error(reader) \in BOOLEAN
      BY <1>3, <1>4, StackType, ThreadKinds DEF Error, FrameSet
    <3>3. g \in FrameSet /\ Place(g) = "unsetpipe"
      BY <3>1, <3>2, FrameAt DEF Label
    <3>4. <<g>> \in Seq(FrameSet) /\ Len(<<g>>) = 1 /\ <<g>>[1] = g
      BY <3>3, Single
    <3>5. Become(reader, <<g>>)
      BY <2>1, <3>1, Zenon DEF ClosePipe, Goto
    <3>6. Len(<<g>>) \in {1, 3} /\ Place(<<g>>[Len(<<g>>)]) # "loop"
      BY <3>3, <3>4
    <3> QED BY <3>4, <3>5, <3>6
  <2>2. CASE UnsetPipe
    <3>1. PICK h : h = Finally
      OBVIOUS
    <3>2. h = Handler("loop", "OSError")
      BY <3>1 DEF Handler
    <3>3. h \in Seq(FrameSet) /\ Len(h) = 3 /\ Place(h[3]) = "frame"
      BY <3>2, HandlerPlaces DEF Label
    <3>4. Become(reader, h)
      BY <2>2, <3>1, Zenon DEF UnsetPipe
    <3> QED BY <3>3, <3>4
  <2> QED BY <2>1, <2>2
<1>9. PICK m \in Nat : m = Len(f) /\ m # 0 /\ Place(f[m]) # "loop"
  BY <1>8
<1>10. PICK r : r = f \o Tail(s)
  OBVIOUS
<1>11. /\ r \in Seq(FrameSet) /\ Len(r) = m + n - 1
       /\ \A i \in 1 .. m : r[i] = f[i]
       /\ \A i \in m + 1 .. m + n - 1 : r[i] = s[i - m + 1]
  BY <1>4, <1>5, <1>9, <1>10, Replaced
<1>12. stack' = [stack EXCEPT ![reader] = r]
  BY <1>3, <1>8, <1>10, Zenon DEF Become
<1> HIDE <1>10
<1>13. ~InLoop(r)
  <2>1. CASE n = 1
    <3>1. m + n - 1 = m /\ m \in 1 .. m
      BY <1>9, <2>1
    <3>2. r[m] = f[m] /\ Len(r) = m
      BY <1>11, <3>1
    <3> QED BY <1>9, <3>2 DEF InLoop
  <2>2. CASE n # 1
    <3>1. m + n - 1 \in m + 1 .. m + n - 1 /\ m + n - 1 - m + 1 = n
      BY <1>6, <2>2
    <3>2. r[m + n - 1] = s[n]
      BY <1>11, <3>1
    <3>3. Place(s[n]) # "loop"
      BY <1>4, <1>5, <1>7 DEF InLoop
    <3> QED BY <1>11, <3>2, <3>3 DEF InLoop
  <2> QED BY <2>1, <2>2
<1> QED BY <1>2, <1>12, <1>13, ReaderGets DEF LoopStack, Idles

LEMMA OwnKeepsAlive ==
  ASSUME TypeOK, KeepInv, OwnStep
  PROVE  KeepInv'
<1>0. /\ reader \in Thread /\ passthru \in Thread /\ reader # passthru
      /\ \A t \in Pumps \union Closers \union {passthru} :
           t \in Thread /\ t \notin Timer /\ t # reader
      /\ reader \notin Timer
  BY DEF Thread, Timer, reader, passthru, Pumps, Closers
<1>1. CASE Select \/ Message \/ Disconnect \/ ClosePipe \/ UnsetPipe
  BY <1>1, SelectKeepsAlive, MessageKeepsAlive, DisconnectKeepsAlive, PipeKeepsAlive
<1>2. CASE Drained \/ CloseFrame
  <2>1. PICK l \in PlainPlace : At(reader, l) /\ Goes(reader)
    BY <1>2, CallGoes
  <2> QED BY <1>0, <2>1, GoesQuietly, QuietKeeps
<1>3. CASE UnsetQueue
  <2>1. PICK l \in PlainPlace : At(passthru, l) /\ Goes(passthru)
    BY <1>3, CallGoes
  <2> QED BY <1>0, <2>1, GoesQuietly, QuietKeeps
<1>4. CASE Get
  <2>1. SamePings
    BY <1>4 DEF Get, SamePings, socketVars, pingVars
  <2>2. PICK l \in {<<"put", "idle">>, <<"lock", "sent", "idle">>, <<"drain">>, <<"close">>,
                    <<"unset">>, <<"lock", "sent", "get">>} :
          stack' = [stack EXCEPT ![passthru] = Frames(l)]
    BY <1>4, Zenon DEF Get
  <2> QED BY <1>0, <2>1, <2>2, BeginsKeeps
<1>5. ASSUME NEW t \in Pumps, Put(t) PROVE KeepInv'
  BY <1>0, <1>5, WriteQuiet, QuietKeeps
<1>6. ASSUME NEW t \in Pumps \union Closers, mp_send(t) \/ send(t) \/ CloseFromOutside(t)
      PROVE  KeepInv'
  <2>1. SamePings
    BY <1>6 DEF mp_send, send, CloseFromOutside, SamePings, socketVars, pingVars
  <2>2. PICK l \in {<<"put", "idle">>, <<"lock", "sent", "idle">>, <<"drain">>, <<"close">>,
                    <<"unset">>, <<"lock", "sent", "get">>} :
          stack' = [stack EXCEPT ![t] = Frames(l)]
    BY <1>6, Zenon DEF mp_send, send, CloseFromOutside
  <2> QED BY <1>0, <2>1, <2>2, BeginsKeeps
<1> QED BY <1>1, <1>2, <1>3, <1>4, <1>5, <1>6, Zenon DEF OwnStep, ReaderStep, PassthruStep

-----------------------------------------------------------------------------
(* The steps that replace the timer.                                        *)

Cancels == {"cancel", "take", "forget", "stop"}
Resets  == {"reset", "create", "start"}

\* The frame on top is that of cancelPing, called by resetPing, or its own.
LEMMA ReplacingGoes ==
  ASSUME NEW n \in {0, 2}, NEW s \in Seq(FrameSet), s # << >>, Replaces(s, n),
         NEW l, Place(Head(s)) = l, NEW g \in FrameSet, NEW to, Place(g) = to,
         (l \in Cancels /\ to \in Cancels) \/ (l \in Resets /\ to \in Resets),
         NEW r, r = <<g>> \o Tail(s)
  PROVE  Replaces(r, n)
<1>1. /\ r # << >> /\ Len(r) = Len(s) /\ Len(s) \in Nat \ {0}
      /\ r[1] = g /\ Head(s) = s[1]
      /\ \A k \in 2 .. Len(s) : r[k] = s[k]
  BY TopGoes
<1>2. PICK m \in Nat : m = Len(s)
  BY <1>1
<1>3. Len(r) = m /\ Place(r[1]) = to /\ Place(s[1]) = l /\ \A k \in 2 .. m : r[k] = s[k]
  BY <1>1, <1>2
<1>4. CASE m = n + 2 /\ Place(s[1]) \in Cancels /\ Place(s[2]) = "reset"
  <2>1. 2 \in 2 .. m
    BY <1>4
  <2>2. r[2] = s[2]
    BY <1>3, <2>1
  <2>3. to \in Cancels
    BY <1>3, <1>4 DEF Cancels, Resets
  <2> QED BY <1>3, <1>4, <2>2, <2>3 DEF Replaces, Cancels
<1>5. CASE m = n + 1 /\ Place(s[1]) \in Resets
  <2>1. to \in Resets
    BY <1>3, <1>5 DEF Cancels, Resets
  <2> QED BY <1>3, <1>5, <2>1 DEF Replaces, Resets
<1> QED BY <1>2, <1>4, <1>5 DEF Replaces, Cancels, Resets

\* What is below stays.
LEMMA ReplacingReturns ==
  ASSUME NEW n \in {0, 2}, NEW s \in Seq(FrameSet), s # << >>, Replaces(s, n),
         NEW l, Place(Head(s)) = l, NEW r, r = << >> \o Tail(s)
  PROVE  /\ l \in Cancels => Replaces(r, n) /\ r # << >> /\ Place(Head(r)) = "reset"
         /\ l \in Resets => Len(r) = n
<1>1. /\ Len(r) = Len(s) - 1 /\ Len(s) \in Nat \ {0}
      /\ Head(s) = s[1] /\ (r = << >> <=> Len(s) = 1)
      /\ \A k \in 1 .. Len(s) - 1 : r[k] = s[k + 1]
      /\ r # << >> => Head(r) = s[2]
  BY TopReturns
<1>2. PICK m \in Nat : m = Len(s)
  BY <1>1
<1>3. Len(r) = m - 1 /\ Place(s[1]) = l /\ (r = << >> <=> m = 1)
      /\ \A k \in 1 .. m - 1 : r[k] = s[k + 1]
  BY <1>1, <1>2
<1>4. CASE m = n + 2 /\ Place(s[1]) \in Cancels /\ Place(s[2]) = "reset"
  <2>1. 1 \in 1 .. m - 1 /\ 1 + 1 = 2
    BY <1>4
  <2>2. r[1] = s[2] /\ Head(r) = s[2] /\ r # << >>
    BY <1>1, <1>3, <1>4, <2>1
  <2>3. l \notin Resets /\ Len(r) = n + 1
    BY <1>3, <1>4 DEF Cancels, Resets
  <2> QED BY <1>4, <2>2, <2>3 DEF Replaces
<1>5. CASE m = n + 1 /\ Place(s[1]) \in Resets
  <2>1. l \notin Cancels
    BY <1>3, <1>5 DEF Cancels, Resets
  <2> QED BY <1>3, <1>5, <2>1
<1> QED BY <1>2, <1>4, <1>5 DEF Replaces, Cancels, Resets

\* What a step of resetPing can be.
GoesOn(t, l) ==
  \E to \in Label :
    /\ Goto(t, to)
    /\ (l \in Cancels /\ to \in Cancels) \/ (l \in Resets /\ to \in Resets)

LEMMA PingMoves ==
  ASSUME TypeOK, NEW t \in Thread, PingStep(t)
  PROVE  /\ open' => open
         /\ \E l \in Cancels \union Resets :
              /\ At(t, l)
              /\ \/ GoesOn(t, l)
                 \/ Return(t) /\ (l \in Resets => ~open' \/ Armed')
                 \/ \E kind \in Kinds : Raise(t, kind)
<1>0. /\ Cancels \subseteq Label /\ Resets \subseteq Label
      /\ "cancel" \in Cancels /\ "take" \in Cancels /\ "forget" \in Cancels /\ "stop" \in Cancels
      /\ "reset" \in Resets /\ "create" \in Resets /\ "start" \in Resets
      /\ "AttributeError" \in Kinds /\ "RuntimeError" \in Kinds
      /\ "cancel" \notin Resets /\ "stop" \notin Resets
  BY DEF Cancels, Resets, Label, Kinds
<1>1. CASE cancelPing(t)
  <2>1. open' => open
    BY <1>1 DEF cancelPing, socketVars
  <2> QED BY <1>0, <1>1, <2>1, Zenon DEF cancelPing, GoesOn
<1>2. CASE TakeOld(t)
  <2>1. open' => open
    BY <1>2 DEF TakeOld, socketVars
  <2> QED BY <1>0, <1>2, <2>1, Zenon DEF TakeOld, GoesOn
<1>3. CASE Forget(t)
  <2>1. open' => open
    BY <1>3 DEF Forget, socketVars
  <2> QED BY <1>0, <1>3, <2>1, Zenon DEF Forget, GoesOn
<1>4. CASE StopOld(t)
  <2>1. open' => open
    BY <1>4 DEF StopOld, Raise, socketVars
  <2> QED BY <1>0, <1>4, <2>1, Zenon DEF StopOld
<1>5. CASE resetPing(t)
  <2>1. open' = open
    BY <1>5 DEF resetPing, socketVars
  <2>2. At(t, "reset") /\ (IF open THEN Goto(t, "create") ELSE Return(t))
    BY <1>5, Zenon DEF resetPing
  <2> QED BY <1>0, <2>1, <2>2, Zenon DEF GoesOn
<1>6. CASE CreateTimer(t)
  <2>1. open' => open
    BY <1>6 DEF CreateTimer, socketVars
  <2>2. At(t, "create") /\ Goto(t, "start")
    BY <1>6, Zenon DEF CreateTimer
  <2> QED BY <1>0, <2>1, <2>2, Zenon DEF GoesOn
<1>7. CASE StartTimer(t)
  <2>1. open' => open
    BY <1>7 DEF StartTimer, Raise, socketVars
  <2>2. ASSUME pingTimer # NoTimer, timer' = [timer EXCEPT ![pingTimer] = "armed"]
        PROVE  Armed'
    BY <2>2 DEF TypeOK, Armed
  <2> QED BY <1>0, <1>7, <2>1, <2>2, Zenon DEF StartTimer
<1> QED BY <1>1, <1>2, <1>3, <1>4, <1>5, <1>6, <1>7, Zenon DEF PingStep

\* A step that goes on, as a stack.
LEMMA GoesOnStack ==
  ASSUME TypeOK, NEW t \in Thread, NEW l, At(t, l), GoesOn(t, l), NEW s, s = stack[t]
  PROVE  \E g \in FrameSet :
           /\ (l \in Cancels /\ Place(g) \in Cancels) \/ (l \in Resets /\ Place(g) \in Resets)
           /\ stack' = [stack EXCEPT ![t] = <<g>> \o Tail(s)]
<1>1. PICK to \in Label : /\ Goto(t, to)
                          /\ (l \in Cancels /\ to \in Cancels) \/ (l \in Resets /\ to \in Resets)
  BY Zenon DEF GoesOn
<1>2. PICK g : g = Frame(to, Error(t))
  OBVIOUS
<1>3. Error(t) \in BOOLEAN
  BY StackType, AtPlace DEF Error, FrameSet
<1>4. g \in FrameSet /\ Place(g) = to
  BY <1>2, <1>3, FrameAt
<1>5. stack' = [stack EXCEPT ![t] = <<g>> \o Tail(stack[t])]
  BY <1>1, <1>2, Zenon DEF Goto, Become
<1> HIDE <1>2
<1> QED BY <1>1, <1>4, <1>5, Zenon

LEMMA ReturnStack ==
  ASSUME NEW t \in Thread, Return(t), NEW s, s = stack[t]
  PROVE  stack' = [stack EXCEPT ![t] = << >> \o Tail(s)]
BY Zenon DEF Return, Become

\* The reader's own replacing, above its loop or after it.
LEMMA ReplacesAbove ==
  ASSUME NEW s \in Seq(FrameSet), s # << >>, LoopStack(s), InLoop(s),
         Place(Head(s)) \in Cancels \union Resets, NEW n \in Nat, n = Len(s)
  PROVE  /\ Replaces(s, 2) /\ Place(s[n - 1]) = "inner" /\ Place(s[n]) = "loop"
         /\ n \in {3, 4} /\ (Place(Head(s)) \in Cancels => n = 4)
<1>1. n # 0 /\ Head(s) = s[1]
  BY EmptySeq, HeadTailProperties
<1>2. Place(s[1]) \notin PlainPlace /\ Place(s[1]) # "loop"
  BY <1>1 DEF Cancels, Resets, PlainPlace, PingPlace
<1>3. Place(s[n]) = "loop"
  BY DEF InLoop
<1>4. n # 1
  BY <1>2, <1>3
<1>5. 1 \in 1 .. n - 1
  BY <1>1, <1>4
<1>6. Replaces(s, 2) /\ Place(s[n - 1]) = "inner"
  BY <1>2, <1>5 DEF LoopStack
<1>7. n \in {3, 4} /\ (Place(s[1]) \in Cancels => n = 4)
  BY <1>6 DEF Replaces, Cancels
<1> QED BY <1>1, <1>3, <1>6, <1>7

LEMMA ReaderGoesOn ==
  ASSUME NEW s \in Seq(FrameSet), s # << >>, LoopStack(s),
         NEW l, Place(Head(s)) = l, NEW g \in FrameSet,
         (l \in Cancels /\ Place(g) \in Cancels) \/ (l \in Resets /\ Place(g) \in Resets),
         NEW r, r = <<g>> \o Tail(s)
  PROVE  LoopStack(r) /\ ~Idles(r)
<1>1. /\ r # << >> /\ Len(r) = Len(s) /\ Len(s) \in Nat \ {0}
      /\ r[1] = g /\ Head(r) = g
      /\ \A k \in 2 .. Len(s) : r[k] = s[k]
  BY TopGoes
<1>2. PICK n \in Nat : n = Len(s) /\ n # 0
  BY <1>1
<1>3. Len(r) = n /\ \A k \in 2 .. n : r[k] = s[k]
  BY <1>1, <1>2
<1>4. Place(g) \in PingPlace /\ Place(g) # "loop"
  BY DEF Cancels, Resets, PingPlace
<1>5. ~Idles(r)
  BY <1>1, <1>4 DEF Idles
<1>6. ASSUME InLoop(r) PROVE Replaces(r, 2) /\ Place(r[n - 1]) = "inner"
  <2>1. Place(r[n]) = "loop"
    BY <1>3, <1>6 DEF InLoop
  <2>2. n # 1
    BY <1>1, <1>4, <2>1
  <2>3. n \in 2 .. n
    BY <1>2, <2>2
  <2>4. r[n] = s[n]
    BY <1>3, <2>3
  <2>5. InLoop(s)
    BY <1>2, <2>1, <2>4 DEF InLoop
  <2>6. Replaces(s, 2) /\ Place(s[n - 1]) = "inner" /\ n \in {3, 4}
    BY <1>2, <2>5, ReplacesAbove
  <2>7. n - 1 \in 2 .. n
    BY <2>6
  <2>8. r[n - 1] = s[n - 1]
    BY <1>3, <2>7
  <2>9. Replaces(r, 2)
    BY <2>6, ReplacingGoes
  <2> QED BY <2>6, <2>8, <2>9
<1> QED BY <1>3, <1>5, <1>6 DEF LoopStack

LEMMA ReaderReturnsTo ==
  ASSUME NEW s \in Seq(FrameSet), s # << >>, LoopStack(s),
         NEW l \in Cancels \union Resets, Place(Head(s)) = l,
         NEW r, r = << >> \o Tail(s)
  PROVE  LoopStack(r) /\ (l \in Cancels => ~Idles(r))
<1>1. /\ Len(r) = Len(s) - 1 /\ Len(s) \in Nat \ {0}
      /\ (r = << >> <=> Len(s) = 1)
      /\ \A k \in 1 .. Len(s) - 1 : r[k] = s[k + 1]
      /\ r # << >> => Head(r) = s[2]
  BY TopReturns
<1>2. PICK n \in Nat : n = Len(s) /\ n # 0
  BY <1>1
<1>3. Len(r) = n - 1 /\ (r = << >> <=> n = 1) /\ \A k \in 1 .. n - 1 : r[k] = s[k + 1]
  BY <1>1, <1>2
<1>4. ASSUME InLoop(r) PROVE LoopStack(r) /\ (l \in Cancels => ~Idles(r))
  <2>1. Place(r[n - 1]) = "loop" /\ n # 1
    BY <1>3, <1>4 DEF InLoop
  <2>2. n - 1 \in 1 .. n - 1 /\ n - 1 + 1 = n
    BY <1>2, <2>1
  <2>3. r[n - 1] = s[n]
    BY <1>3, <2>2
  <2>4. InLoop(s)
    BY <1>2, <2>1, <2>3 DEF InLoop
  <2>5. Replaces(s, 2) /\ Place(s[n - 1]) = "inner" /\ n \in {3, 4} /\ (l \in Cancels => n = 4)
    BY <1>2, <2>4, ReplacesAbove
  <2>6. CASE l \in Cancels
    <3>1. Replaces(r, 2) /\ Place(Head(r)) = "reset"
      BY <2>5, <2>6, ReplacingReturns
    <3>2. 2 \in 1 .. n - 1 /\ 2 + 1 = n - 1 /\ n - 1 - 1 = 2
      BY <2>5, <2>6
    <3>3. r[2] = s[n - 1]
      BY <1>3, <3>2
    <3>4. LoopStack(r)
      BY <1>3, <2>5, <3>1, <3>2, <3>3 DEF LoopStack
    <3>5. ~Idles(r)
      BY <3>1 DEF Idles, PingPlace
    <3> QED BY <3>4, <3>5
  <2>7. CASE l \notin Cancels
    <3>1. Len(r) = 2
      BY <2>5, <2>7, ReplacingReturns
    <3>2. n - 1 = 2
      BY <1>3, <3>1, Zenon
    <3>3. n = 3 /\ 1 \in 1 .. n - 1 /\ 1 + 1 = n - 1
      BY <3>2
    <3>4. r[1] = s[n - 1]
      BY <1>3, <3>3
    <3>5. "inner" \in PlainPlace
      BY Plain
    <3>6. \A k \in 1 .. 1 : k = 1
      OBVIOUS
    <3>7. \A k \in 1 .. Len(r) - 1 : Place(r[k]) \in PlainPlace
      BY <3>1, <2>5, <3>4, <3>5, <3>6
    <3>8. LoopStack(r)
      BY <3>7 DEF LoopStack
    <3> QED BY <2>7, <3>8
  <2> QED BY <2>6, <2>7
<1> QED BY <1>4, Zenon DEF LoopStack, Idles

LEMMA ReaderPings ==
  ASSUME TypeOK, KeepInv, PingStep(reader)
  PROVE  KeepInv'
<1>0. reader \in Thread /\ reader \notin Timer
  BY ThreadKinds
<1>1. open' => open
  BY <1>0, PingMoves
<1>2. PICK l \in Cancels \union Resets :
        /\ At(reader, l)
        /\ \/ GoesOn(reader, l)
           \/ Return(reader) /\ (l \in Resets => ~open' \/ Armed')
           \/ \E kind \in Kinds : Raise(reader, kind)
  BY <1>0, PingMoves, Zenon
<1>3. PICK s : s = stack[reader]
  OBVIOUS
<1>4. s \in Seq(FrameSet) /\ s # << >> /\ Place(Head(s)) = l /\ LoopStack(s)
  BY <1>0, <1>2, <1>3, StackType, AtPlace DEF KeepInv
<1>5. CASE GoesOn(reader, l)
  <2>1. PICK g \in FrameSet :
           /\ (l \in Cancels /\ Place(g) \in Cancels) \/ (l \in Resets /\ Place(g) \in Resets)
           /\ stack' = [stack EXCEPT ![reader] = <<g>> \o Tail(s)]
    BY <1>0, <1>2, <1>3, <1>5, GoesOnStack
  <2>2. PICK r : r = <<g>> \o Tail(s)
    OBVIOUS
  <2>3. LoopStack(r) /\ ~Idles(r)
    <3> HIDE <2>2
    <3>1. (l \in Cancels /\ Place(g) \in Cancels) \/ (l \in Resets /\ Place(g) \in Resets)
      BY <2>1
    <3> QED BY <1>4, <2>2, <3>1, ReaderGoesOn
  <2>4. stack' = [stack EXCEPT ![reader] = r]
    BY <2>1, <2>2, Zenon
  <2> HIDE <2>2
  <2>5. stack'[reader] = r /\ stack' = [stack EXCEPT ![reader] = stack'[reader]]
    BY <1>0, <2>4, NewStack
  <2>6. LoopStack(stack'[reader]) /\ ~Idles(stack'[reader])
    BY <2>3, <2>5, Zenon
  <2> QED BY <1>0, <1>1, <2>5, <2>6, OutsideKeeps
<1>6. CASE Return(reader) /\ (l \in Resets => ~open' \/ Armed')
  <2>1. stack' = [stack EXCEPT ![reader] = << >> \o Tail(s)]
    BY <1>0, <1>3, <1>6, ReturnStack
  <2>2. PICK r : r = << >> \o Tail(s)
    OBVIOUS
  <2>3. LoopStack(r) /\ (l \in Cancels => ~Idles(r))
    BY <1>4, <2>2, ReaderReturnsTo
  <2>4. stack' = [stack EXCEPT ![reader] = r]
    BY <2>1, <2>2, Zenon
  <2> HIDE <2>2
  <2>5. stack'[reader] = r /\ stack' = [stack EXCEPT ![reader] = stack'[reader]]
    BY <1>0, <2>4, NewStack
  <2>6. LoopStack(stack'[reader]) /\ (l \in Cancels => ~Idles(stack'[reader]))
    BY <2>3, <2>5, Zenon
  <2>7. Idles(stack'[reader]) => Armed' \/ ~open'
    BY <1>2, <1>6, <2>6
  <2> QED BY <1>0, <1>1, <2>5, <2>6, <2>7, OutsideKeeps, Zenon
<1>7. CASE \E kind \in Kinds : Raise(reader, kind)
  BY <1>0, <1>2, <1>7, QuietRaise, QuietKeeps
<1> QED BY <1>2, <1>5, <1>6, <1>7

-----------------------------------------------------------------------------
(* The steps of a ping thread.                                              *)

LEMMA PingKeeps ==
  ASSUME TypeOK, KeepInv, NEW t \in Timer, \A i \in Timer : i # t => Over(i),
         NEW r, stack' = [stack EXCEPT ![t] = r], PingStack(r),
         \A l \in {"interrupt", "signal"} : At(t, l)' => ~open',
         open' => open,
         open' /\ (Armed \/ WillArm(t)) => Armed' \/ WillArm(t)'
  PROVE  KeepInv'
<1>0. t \in Thread /\ reader \in Thread /\ t # reader /\ Timer \subseteq Thread
  BY ThreadKinds
<1>1. stack'[t] = r /\ \A u \in Thread : u # t => stack'[u] = stack[u]
  BY <1>0, NewStack
<1>2. \A i \in Timer : PingStack(stack'[i])
  BY <1>0, <1>1, Zenon DEF KeepInv
<1>3. stack'[reader] = stack[reader] /\ LoopStack(stack'[reader])
  BY <1>0, <1>1, Zenon DEF KeepInv
<1>4. \A u \in Thread \ Timer : u # reader => PlainStack(stack'[u])
  BY <1>1, Zenon DEF KeepInv
<1>5. \A i \in Timer : i # t => Over(i)'
  BY <1>0, <1>1, Zenon DEF Over
<1>6. \A i \in Timer : \A l \in {"interrupt", "signal"} : At(i, l)' => ~open'
  <2>1. \A i \in Timer : \A l : i # t => ~At(i, l)'
    BY <1>5, Zenon DEF At, Over
  <2> QED BY <2>1
<1>7. \A i, j \in Timer : ~Over(i)' /\ ~Over(j)' => i = j
  BY <1>5, Zenon
<1>8. ASSUME open', Idles(stack'[reader]) PROVE Armed' \/ \E i \in Timer : WillArm(i)'
  <2>1. Armed \/ \E i \in Timer : WillArm(i)
    BY <1>3, <1>8, Zenon DEF KeepInv
  <2>2. \A i \in Timer : WillArm(i) => i = t
    BY Zenon DEF WillArm
  <2> QED BY <1>8, <2>1, <2>2, Zenon
<1> QED BY <1>2, <1>3, <1>4, <1>6, <1>7, <1>8, Zenon DEF KeepInv

\* At these places a ping thread has everything before it.
LEMMA WillArmHere ==
  ASSUME NEW t \in Timer, NEW r, stack'[t] = r, r # << >>,
         Place(Head(r)) \notin {"take", "forget", "stop", "start"}
  PROVE  WillArm(t)'
<1>1. ~Over(t)'
  BY DEF Over
<1>2. \A l \in {"take", "forget", "stop", "start"} : ~At(t, l)'
  BY Zenon DEF At, Place
<1>3. ~At(t, "take")' /\ ~At(t, "forget")' /\ ~At(t, "stop")' /\ ~At(t, "start")'
  BY <1>2
<1> QED BY <1>1, <1>3 DEF WillArm

\* Such a step keeps alive.
LEMMA PingGoesOn ==
  ASSUME TypeOK, KeepInv, NEW t \in Timer, ~Over(t), NEW r, stack' = [stack EXCEPT ![t] = r],
         PingStack(r), r # << >>, Place(Head(r)) \notin {"take", "forget", "stop", "start"},
         Place(Head(r)) \in {"interrupt", "signal"} => ~open', open' => open
  PROVE  KeepInv'
<1>1. stack'[t] = r
  BY NewStack, ThreadKinds
<1>2. WillArm(t)'
  BY <1>1, WillArmHere
<1>3. \A i \in Timer : i # t => Over(i)
  BY Zenon DEF KeepInv
<1>4. \A l \in {"interrupt", "signal"} : At(t, l)' => ~open'
  BY <1>1, Zenon DEF At, Place
<1> QED BY <1>2, <1>3, <1>4, PingKeeps

\* The last step of a ping thread.
LEMMA PingEnds ==
  ASSUME TypeOK, KeepInv, NEW t \in Timer, ~Over(t), NEW r, stack' = [stack EXCEPT ![t] = r],
         r = << >>, open' => open, open' /\ (Armed \/ WillArm(t)) => Armed'
  PROVE  KeepInv'
<1>1. stack'[t] = r
  BY NewStack, ThreadKinds
<1>2. \A i \in Timer : i # t => Over(i)
  BY Zenon DEF KeepInv
<1>3. \A l \in {"interrupt", "signal"} : ~At(t, l)'
  BY <1>1, Zenon DEF At
<1>4. PingStack(r)
  BY DEF PingStack
<1> QED BY <1>2, <1>3, <1>4, PingKeeps

\* Where a ping thread is, and what is below.
Sends(s) ==
  /\ Len(s) = 3 /\ Place(s[1]) \in {"lock", "write", "unlock"}
  /\ Place(s[2]) = "cancel" /\ Place(s[3]) = "reset"
Closes(s) ==
  /\ Len(s) = 4 /\ Place(s[1]) \in {"close", "shut", "interrupt", "signal"}
  /\ Place(s[2]) = "unlock" /\ Place(s[3]) = "cancel" /\ Place(s[4]) = "reset"

LEMMA PingPlaces ==
  ASSUME NEW s \in Seq(FrameSet), s # << >>, PingStack(s), NEW l, Place(Head(s)) = l
  PROVE  /\ l \in Cancels \union Resets => Replaces(s, 0)
         /\ l \in {"lock", "write", "unlock"} => Sends(s)
         /\ l \in {"close", "shut", "interrupt", "signal"} => Closes(s)
         /\ l \in Cancels \union Resets \union
                  {"lock", "write", "unlock", "close", "shut", "interrupt", "signal"}
<1>1. Head(s) = s[1]
  BY HeadTailProperties
<1>2. Place(s[1]) = l
  BY <1>1
<1>3. Replaces(s, 0) \/ Sends(s) \/ Closes(s)
  BY DEF PingStack, Sends, Closes
<1>4. Replaces(s, 0) => l \in Cancels \union Resets
  BY <1>2 DEF Replaces, Cancels, Resets
<1>5. Sends(s) => l \in {"lock", "write", "unlock"}
  BY <1>2 DEF Sends
<1>6. Closes(s) => l \in {"close", "shut", "interrupt", "signal"}
  BY <1>2 DEF Closes
<1> QED BY <1>3, <1>4, <1>5, <1>6 DEF Cancels, Resets

\* The stack whose top frame went on, returned, or made two calls.
GoneOn(s, r, g) ==
  /\ r # << >> /\ Len(r) = Len(s) /\ r[1] = g /\ Head(r) = g
  /\ \A k \in 2 .. Len(s) : r[k] = s[k]
Returned(s, r) ==
  /\ Len(r) = Len(s) - 1 /\ (r = << >> <=> Len(s) = 1)
  /\ \A k \in 1 .. Len(s) - 1 : r[k] = s[k + 1]
  /\ r # << >> => Head(r) = s[2]
Called(s, r, g, h) ==
  /\ r # << >> /\ Len(r) = Len(s) + 1 /\ Head(r) = g /\ r[1] = g /\ r[2] = h
  /\ \A k \in 3 .. Len(s) + 1 : r[k] = s[k - 1]

LEMMA CalledTwo ==
  ASSUME NEW s \in Seq(FrameSet), s # << >>, NEW g \in FrameSet, NEW h \in FrameSet
  PROVE  Called(s, <<g, h>> \o Tail(s), g, h)
<1>1. PICK f \in Seq(FrameSet) : f = <<g, h>> /\ Len(f) = 2 /\ f[1] = g /\ f[2] = h
  <2>1. /\ <<g, h>> \in Seq(FrameSet) /\ Len(<<g, h>>) = 2
        /\ <<g, h>>[1] = g /\ <<g, h>>[2] = h
    BY Pair
  <2> QED BY <2>1, Zenon
<1>2. PICK r : r = f \o Tail(s) /\ r = <<g, h>> \o Tail(s)
  BY <1>1, Zenon
<1>3. PICK m \in Nat, n \in Nat : m = Len(f) /\ n = Len(s)
  BY LenProperties
<1>4. r = f \o Tail(s)
  BY <1>2
<1>5. /\ r \in Seq(FrameSet) /\ n # 0 /\ Len(r) = m + n - 1
      /\ \A i \in 1 .. m : r[i] = f[i]
      /\ \A i \in m + 1 .. m + n - 1 : r[i] = s[i - m + 1]
      /\ r = << >> <=> m + n - 1 = 0
  <2> HIDE <1>1, <1>2
  <2> QED BY <1>3, <1>4, Replaced
<1>6. Len(f) = 2 /\ f[1] = g /\ f[2] = h
  BY <1>1
<1>7. r = <<g, h>> \o Tail(s)
  BY <1>2
<1> HIDE <1>1, <1>2, <1>4, <1>7
<1>8. m = 2
  BY <1>3, <1>6
<1>9. Len(r) = n + 1 /\ r # << >> /\ r[1] = g /\ r[2] = h
  BY <1>5, <1>6, <1>8
<1>10. \A k \in 3 .. n + 1 : r[k] = s[k - 1]
  <2> SUFFICES ASSUME NEW k \in 3 .. n + 1 PROVE r[k] = s[k - 1]
    OBVIOUS
  <2>1. k \in m + 1 .. m + n - 1 /\ k - m + 1 = k - 1
    BY <1>8
  <2> QED BY <1>5, <2>1
<1>11. Head(r) = r[1]
  BY <1>5, <1>9, HeadTailProperties
<1>12. Called(s, r, g, h)
  BY <1>3, <1>9, <1>10, <1>11 DEF Called
<1> QED BY <1>7, <1>12, Zenon

LEMMA GoneOnTop ==
  ASSUME NEW s \in Seq(FrameSet), s # << >>, NEW g \in FrameSet
  PROVE  GoneOn(s, <<g>> \o Tail(s), g)
<1>1. PICK r : r = <<g>> \o Tail(s)
  OBVIOUS
<1>2. /\ r # << >> /\ Len(r) = Len(s) /\ r[1] = g /\ Head(r) = g
      /\ \A k \in 2 .. Len(s) : r[k] = s[k]
  BY <1>1, TopGoes
<1>3. GoneOn(s, r, g)
  BY <1>2, Zenon DEF GoneOn
<1> QED BY <1>1, <1>3, Zenon

LEMMA ReturnedTop ==
  ASSUME NEW s \in Seq(FrameSet), s # << >>
  PROVE  Returned(s, << >> \o Tail(s))
<1>1. PICK r : r = << >> \o Tail(s)
  OBVIOUS
<1>2. /\ Len(r) = Len(s) - 1 /\ (r = << >> <=> Len(s) = 1)
      /\ \A k \in 1 .. Len(s) - 1 : r[k] = s[k + 1]
      /\ r # << >> => Head(r) = s[2]
  BY <1>1, TopReturns
<1>3. Returned(s, r)
  BY <1>2, Zenon DEF Returned
<1> QED BY <1>1, <1>3, Zenon

LEMMA SendsGoes ==
  ASSUME NEW s, Sends(s), NEW g, Place(g) = "write", NEW r, GoneOn(s, r, g)
  PROVE  PingStack(r) /\ r # << >> /\ Place(Head(r)) = "write"
<1>1. r[2] = s[2] /\ r[3] = s[3] /\ Len(r) = 3
  BY DEF Sends, GoneOn
<1>2. Place(r[1]) = "write" /\ Place(r[2]) = "cancel" /\ Place(r[3]) = "reset"
  BY <1>1 DEF Sends, GoneOn
<1> QED BY <1>1, <1>2 DEF PingStack, GoneOn

LEMMA SendsReturns ==
  ASSUME NEW s, Sends(s), NEW r, Returned(s, r)
  PROVE  PingStack(r) /\ r # << >> /\ Place(Head(r)) = "cancel"
<1>1. Len(r) = 2 /\ r # << >> /\ \A k \in 1 .. 2 : r[k] = s[k + 1]
  BY DEF Sends, Returned
<1>2. r[1] = s[2] /\ r[2] = s[3] /\ Head(r) = s[2]
  BY <1>1 DEF Returned
<1>3. Place(r[1]) = "cancel" /\ Place(Head(r)) = "cancel" /\ Place(r[2]) = "reset"
  BY <1>2 DEF Sends
<1>4. Replaces(r, 0)
  BY <1>1, <1>3 DEF Replaces
<1> QED BY <1>1, <1>3, <1>4 DEF PingStack

LEMMA SendsCloses ==
  ASSUME NEW s, Sends(s), NEW g, Place(g) = "close", NEW h, Place(h) = "unlock",
         NEW r, Called(s, r, g, h)
  PROVE  PingStack(r) /\ r # << >> /\ Place(Head(r)) = "close"
<1>1. Len(r) = 4 /\ \A k \in 3 .. 4 : r[k] = s[k - 1]
  BY DEF Sends, Called
<1>2. r[3] = s[2] /\ r[4] = s[3]
  BY <1>1
<1>3. /\ Place(r[1]) = "close" /\ Place(r[2]) = "unlock"
      /\ Place(r[3]) = "cancel" /\ Place(r[4]) = "reset"
  BY <1>2 DEF Sends, Called
<1> QED BY <1>1, <1>3 DEF PingStack, Called

LEMMA ClosesGoes ==
  ASSUME NEW s, Closes(s), NEW g, Place(g) \in {"shut", "interrupt", "signal"},
         NEW r, GoneOn(s, r, g)
  PROVE  PingStack(r) /\ r # << >> /\ Place(Head(r)) = Place(g)
<1>1. r[2] = s[2] /\ r[3] = s[3] /\ r[4] = s[4] /\ Len(r) = 4
  BY DEF Closes, GoneOn
<1>2. Place(r[2]) = "unlock" /\ Place(r[3]) = "cancel" /\ Place(r[4]) = "reset"
  BY <1>1 DEF Closes
<1> QED BY <1>1, <1>2 DEF PingStack, GoneOn

LEMMA ClosesReturns ==
  ASSUME NEW s, Closes(s), NEW r, Returned(s, r)
  PROVE  PingStack(r) /\ r # << >> /\ Place(Head(r)) = "unlock"
<1>1. Len(r) = 3 /\ r # << >> /\ \A k \in 1 .. 3 : r[k] = s[k + 1]
  BY DEF Closes, Returned
<1>2. r[1] = s[2] /\ r[2] = s[3] /\ r[3] = s[4] /\ Head(r) = s[2]
  BY <1>1 DEF Returned
<1>3. /\ Place(r[1]) = "unlock" /\ Place(Head(r)) = "unlock"
      /\ Place(r[2]) = "cancel" /\ Place(r[3]) = "reset"
  BY <1>2 DEF Closes
<1> QED BY <1>1, <1>3 DEF PingStack

LEMMA PingAt ==
  ASSUME TypeOK, KeepInv, NEW t \in Timer, NEW l, At(t, l)
  PROVE  /\ t \in Thread /\ ~Over(t) /\ stack[t] \in Seq(FrameSet) /\ stack[t] # << >>
         /\ Place(Head(stack[t])) = l /\ PingStack(stack[t])
         /\ l \in Cancels \union Resets => Replaces(stack[t], 0)
         /\ l \in {"lock", "write", "unlock"} => Sends(stack[t])
         /\ l \in {"close", "shut", "interrupt", "signal"} => Closes(stack[t])
         /\ l \in Cancels \union Resets \union
                  {"lock", "write", "unlock", "close", "shut", "interrupt", "signal"}
<1>1. t \in Thread
  BY ThreadKinds
<1>2. PICK s : s = stack[t]
  OBVIOUS
<1>3. s \in Seq(FrameSet) /\ s # << >> /\ Place(Head(s)) = l
  BY <1>1, <1>2, StackType, AtPlace
<1>4. PingStack(s)
  BY <1>2, Zenon DEF KeepInv
<1>5. /\ l \in Cancels \union Resets => Replaces(s, 0)
      /\ l \in {"lock", "write", "unlock"} => Sends(s)
      /\ l \in {"close", "shut", "interrupt", "signal"} => Closes(s)
      /\ l \in Cancels \union Resets \union
               {"lock", "write", "unlock", "close", "shut", "interrupt", "signal"}
  BY <1>3, <1>4, PingPlaces
<1> QED BY <1>1, <1>2, <1>3, <1>4, <1>5, Zenon DEF Over

LEMMA PingGoesTo ==
  ASSUME TypeOK, KeepInv, NEW t \in Timer, NEW l, At(t, l), NEW to \in Label, Goto(t, to)
  PROVE  \E g \in FrameSet : \E r :
           /\ Place(g) = to /\ stack' = [stack EXCEPT ![t] = r]
           /\ GoneOn(stack[t], r, g) /\ r = <<g>> \o Tail(stack[t])
<1>1. PICK s : s = stack[t]
  OBVIOUS
<1>2. s \in Seq(FrameSet) /\ s # << >> /\ t \in Thread
  BY <1>1, PingAt
<1>3. PICK g : g = Frame(to, Error(t))
  OBVIOUS
<1>4. Error(t) \in BOOLEAN
  BY <1>1, <1>2, StackType DEF Error, FrameSet
<1>5. g \in FrameSet /\ Place(g) = to
  BY <1>3, <1>4, FrameAt
<1>6. stack' = [stack EXCEPT ![t] = <<g>> \o Tail(stack[t])]
  BY <1>3, Zenon DEF Goto, Become
<1> HIDE <1>3
<1>7. GoneOn(s, <<g>> \o Tail(s), g)
  BY <1>2, <1>5, GoneOnTop
<1> QED BY <1>1, <1>5, <1>6, <1>7, Zenon

LEMMA PingReturnsTo ==
  ASSUME TypeOK, KeepInv, NEW t \in Timer, NEW l, At(t, l), Return(t)
  PROVE  \E r : /\ stack' = [stack EXCEPT ![t] = r]
                /\ Returned(stack[t], r) /\ r = << >> \o Tail(stack[t])
<1>1. PICK s : s = stack[t]
  OBVIOUS
<1>2. s \in Seq(FrameSet) /\ s # << >> /\ t \in Thread
  BY <1>1, PingAt
<1>3. stack' = [stack EXCEPT ![t] = << >> \o Tail(stack[t])]
  BY Zenon DEF Return, Become
<1>4. Returned(s, << >> \o Tail(s))
  BY <1>2, ReturnedTop
<1> QED BY <1>1, <1>3, <1>4, Zenon

LEMMA PingRaises ==
  ASSUME TypeOK, KeepInv, NEW t \in Timer, NEW l, At(t, l), NEW kind, Raise(t, kind),
         open' /\ (Armed \/ WillArm(t)) => Armed'
  PROVE  KeepInv'
<1>1. t \in Thread /\ ~Over(t) /\ PingStack(stack[t])
  BY PingAt
<1>2. Quiet(t) /\ (open' => open) /\ stack'[t] = << >>
  BY <1>1, QuietRaise
<1>3. stack' = [stack EXCEPT ![t] = stack'[t]]
  BY <1>2 DEF Quiet
<1>4. PICK r : r = << >> /\ stack' = [stack EXCEPT ![t] = r]
  BY <1>2, <1>3, Zenon
<1>5. stack' = [stack EXCEPT ![t] = r] /\ r = << >>
  BY <1>4
<1> HIDE <1>4
<1> QED BY <1>1, <1>2, <1>5, PingEnds

\* The ping is sent, or closes the connection.
LEMMA PingSends ==
  ASSUME TypeOK, KeepInv, NEW t \in Timer, Lock(t) \/ Write(t) \/ Unlock(t)
  PROVE  KeepInv'
<1>1. PICK l \in {"lock", "write", "unlock"} : At(t, l)
  BY Zenon DEF Lock, Write, Unlock
<1>2. Sends(stack[t]) /\ ~Over(t) /\ stack[t] \in Seq(FrameSet) /\ stack[t] # << >>
      /\ t \in Thread
  BY <1>1, PingAt
<1>3. open' => open
  BY DEF Lock, Write, Unlock, socketVars
<1>4. CASE Goto(t, "write")
  <2>1. PICK g, r :
           /\ Place(g) = "write" /\ stack' = [stack EXCEPT ![t] = r] /\ GoneOn(stack[t], r, g)
    <3>1. "write" \in Label
      BY DEF Label
    <3> QED BY <1>1, <1>4, <3>1, PingGoesTo, Zenon
  <2>2. PingStack(r) /\ r # << >> /\ Place(Head(r)) = "write"
    BY <1>2, <2>1, SendsGoes
  <2> QED BY <1>2, <1>3, <2>1, <2>2, PingGoesOn
<1>5. CASE Return(t)
  <2>1. PICK r : stack' = [stack EXCEPT ![t] = r] /\ Returned(stack[t], r)
    BY <1>1, <1>5, PingReturnsTo, Zenon
  <2>2. PingStack(r) /\ r # << >> /\ Place(Head(r)) = "cancel"
    BY <1>2, <2>1, SendsReturns
  <2> QED BY <1>2, <1>3, <2>1, <2>2, PingGoesOn
<1>6. CASE Become(t, <<Frame("close", TRUE), Frame("unlock", FALSE)>>)
  <2>1. PICK g, h : g = Frame("close", TRUE) /\ h = Frame("unlock", FALSE)
    OBVIOUS
  <2>2. g \in FrameSet /\ h \in FrameSet /\ Place(g) = "close" /\ Place(h) = "unlock"
    BY <2>1, FrameAt DEF Label
  <2>3. stack' = [stack EXCEPT ![t] = <<g, h>> \o Tail(stack[t])]
    BY <1>6, <2>1, Zenon DEF Become
  <2> HIDE <2>1
  <2>4. Called(stack[t], <<g, h>> \o Tail(stack[t]), g, h)
    BY <1>2, <2>2, CalledTwo
  <2>5. PICK r : stack' = [stack EXCEPT ![t] = r] /\ Called(stack[t], r, g, h)
    BY <2>3, <2>4, Zenon
  <2>6. PingStack(r) /\ r # << >> /\ Place(Head(r)) = "close"
    BY <1>2, <2>2, <2>5, SendsCloses
  <2> QED BY <1>2, <1>3, <2>5, <2>6, PingGoesOn
<1> QED BY <1>4, <1>5, <1>6, Zenon DEF Lock, Write, Unlock

LEMMA PingCloses ==
  ASSUME TypeOK, KeepInv, NEW t \in Timer,
         close(t) \/ Shut(t) \/ interrupt(t) \/ Signal(t)
  PROVE  KeepInv'
<1>1. PICK l \in {"close", "shut", "interrupt", "signal"} : At(t, l)
  BY Zenon DEF close, Shut, interrupt, Signal
<1>2. Closes(stack[t]) /\ ~Over(t) /\ stack[t] \in Seq(FrameSet) /\ stack[t] # << >>
      /\ t \in Thread
  BY <1>1, PingAt
<1>3. At(t, "interrupt") \/ At(t, "signal") => ~open
  BY Zenon DEF KeepInv
<1>4. open' => open
  BY DEF close, Shut, interrupt, Signal, Raise, socketVars
<1>5. CASE Return(t)
  <2>1. PICK r : stack' = [stack EXCEPT ![t] = r] /\ Returned(stack[t], r)
    BY <1>1, <1>5, PingReturnsTo, Zenon
  <2>2. PingStack(r) /\ r # << >> /\ Place(Head(r)) = "unlock"
    BY <1>2, <2>1, ClosesReturns
  <2> QED BY <1>2, <1>4, <2>1, <2>2, PingGoesOn
<1>6. ASSUME NEW to \in {"shut", "interrupt", "signal"}, Goto(t, to),
             to \in {"interrupt", "signal"} => ~open'
      PROVE  KeepInv'
  <2>1. PICK g, r :
           /\ Place(g) = to /\ stack' = [stack EXCEPT ![t] = r] /\ GoneOn(stack[t], r, g)
    <3>1. to \in Label
      BY DEF Label
    <3> QED BY <1>1, <1>6, <3>1, PingGoesTo, Zenon
  <2>2. PingStack(r) /\ r # << >> /\ Place(Head(r)) = to
    BY <1>2, <2>1, ClosesGoes
  <2>3. to \notin {"take", "forget", "stop", "start"}
    OBVIOUS
  <2> QED BY <1>2, <1>4, <1>6, <2>1, <2>2, <2>3, PingGoesOn
<1>7. CASE close(t)
  <2>1. Goto(t, "shut") \/ Return(t)
    BY <1>7, Zenon DEF close
  <2> QED BY <1>5, <1>6, <2>1
<1>8. CASE Shut(t)
  <2>1. Goto(t, "interrupt") /\ ~open'
    BY <1>8 DEF Shut
  <2> QED BY <1>6, <2>1
<1>9. CASE interrupt(t)
  <2>1. (Goto(t, "signal") \/ Return(t)) /\ At(t, "interrupt")
    BY <1>9, Zenon DEF interrupt
  <2> QED BY <1>3, <1>4, <1>5, <1>6, <2>1
<1>10. CASE Signal(t)
  <2>1. ~open'
    BY <1>3, <1>4, <1>10 DEF Signal
  <2>2. ASSUME NEW kind, Raise(t, kind) PROVE KeepInv'
    BY <1>1, <2>1, <2>2, PingRaises
  <2> QED BY <1>5, <1>10, <2>2, Zenon DEF Signal
<1> QED BY <1>7, <1>8, <1>9, <1>10

LEMMA PingGoes ==
  ASSUME TypeOK, KeepInv, NEW t \in Timer, NEW l, At(t, l), NEW to, Goto(t, to),
         (l \in Cancels /\ to \in Cancels) \/ (l \in Resets /\ to \in Resets)
  PROVE  \E r : /\ stack' = [stack EXCEPT ![t] = r]
                /\ PingStack(r) /\ r # << >> /\ Place(Head(r)) = to
<1>1. /\ Replaces(stack[t], 0) /\ stack[t] \in Seq(FrameSet) /\ stack[t] # << >>
      /\ Place(Head(stack[t])) = l
  BY PingAt
<1>2. to \in Label
  BY DEF Cancels, Resets, Label
<1>3. PICK g, r :
         /\ g \in FrameSet /\ Place(g) = to /\ stack' = [stack EXCEPT ![t] = r]
         /\ GoneOn(stack[t], r, g) /\ r = <<g>> \o Tail(stack[t])
  BY <1>2, PingGoesTo, Zenon
<1>4. Replaces(r, 0)
  BY <1>1, <1>3, ReplacingGoes
<1>5. r # << >> /\ Head(r) = g
  BY <1>3, Zenon DEF GoneOn
<1> QED BY <1>3, <1>4, <1>5, Zenon DEF PingStack

\* A step that replaces the timer and whose thread goes on.
LEMMA PingGoesKeeps ==
  ASSUME TypeOK, KeepInv, NEW t \in Timer, NEW l, At(t, l), NEW to, Goto(t, to),
         (l \in Cancels /\ to \in Cancels) \/ (l \in Resets /\ to \in Resets),
         open' => open,
         Armed \/ WillArm(t) => Armed' \/
            \/ to \in {"cancel", "reset", "create"}
            \/ to = "take" /\ pingTimer' # NoTimer
            \/ to \in {"forget", "stop"} /\ old'[t] # NoTimer
            \/ to = "start" /\ pingTimer' # NoTimer /\ timer'[pingTimer'] = "new"
  PROVE  KeepInv'
<1>1. ~Over(t) /\ t \in Thread
  BY PingAt
<1>2. PICK r : /\ stack' = [stack EXCEPT ![t] = r]
               /\ PingStack(r) /\ r # << >> /\ Place(Head(r)) = to
  BY PingGoes, Zenon
<1>3. stack'[t] = r
  BY <1>1, <1>2, NewStack
<1>4. ~Over(t)' /\ \A m : At(t, m)' => m = to
  BY <1>2, <1>3, Zenon DEF Over, At, Place
<1>5. At(t, "take")' => to = "take"
  BY <1>4, Zenon
<1>6. \A m \in {"forget", "stop"} : At(t, m)' => to = m
  BY <1>4, Zenon
<1>7. At(t, "start")' => to = "start"
  BY <1>4, Zenon
<1>8. Armed \/ WillArm(t) => Armed' \/ WillArm(t)'
  BY <1>4, <1>5, <1>6, <1>7 DEF WillArm
<1>9. \A i \in Timer : i # t => Over(i)
  BY <1>1, Zenon DEF KeepInv
<1>10. \A m \in {"interrupt", "signal"} : ~At(t, m)'
  BY <1>4 DEF Cancels, Resets
<1> QED BY <1>2, <1>8, <1>9, <1>10, PingKeeps

\* cancelPing returns.
LEMMA PingCancelled ==
  ASSUME TypeOK, KeepInv, NEW t \in Timer, NEW l \in Cancels, At(t, l), Return(t),
         open' => open
  PROVE  KeepInv'
<1>1. /\ Replaces(stack[t], 0) /\ stack[t] \in Seq(FrameSet) /\ stack[t] # << >>
      /\ Place(Head(stack[t])) = l /\ ~Over(t)
  BY PingAt
<1>2. PICK r : stack' = [stack EXCEPT ![t] = r] /\ r = << >> \o Tail(stack[t])
  BY PingReturnsTo, Zenon
<1>3. Replaces(r, 0) /\ r # << >> /\ Place(Head(r)) = "reset"
  BY <1>1, <1>2, ReplacingReturns
<1>4. PingStack(r)
  BY <1>3 DEF PingStack
<1>5. stack' = [stack EXCEPT ![t] = r]
  BY <1>2
<1> HIDE <1>2
<1> QED BY <1>1, <1>3, <1>4, <1>5, PingGoesOn

\* resetPing returns, and the thread ends.
LEMMA PingReset ==
  ASSUME TypeOK, KeepInv, NEW t \in Timer, NEW l \in Resets, At(t, l), Return(t),
         open' => open, ~open' \/ Armed'
  PROVE  KeepInv'
<1>1. /\ Replaces(stack[t], 0) /\ stack[t] \in Seq(FrameSet) /\ stack[t] # << >>
      /\ Place(Head(stack[t])) = l /\ ~Over(t)
  BY PingAt
<1>2. PICK r : /\ stack' = [stack EXCEPT ![t] = r] /\ Returned(stack[t], r)
               /\ r = << >> \o Tail(stack[t])
  BY PingReturnsTo, Zenon
<1>3. Len(r) = 0
  BY <1>1, <1>2, ReplacingReturns
<1>4. PICK n \in Nat : n = Len(stack[t])
  BY <1>1, LenProperties
<1>5. n - 1 = 0
  BY <1>2, <1>3, <1>4, Zenon DEF Returned
<1>6. n = 1
  BY <1>5
<1>7. r = << >>
  BY <1>2, <1>4, <1>6, Zenon DEF Returned
<1>8. stack' = [stack EXCEPT ![t] = r]
  BY <1>2
<1> HIDE <1>2
<1> QED BY <1>1, <1>7, <1>8, PingEnds

LEMMA PingReplaces ==
  ASSUME TypeOK, KeepInv, NEW t \in Timer, PingStep(t)
  PROVE  KeepInv'
<1>0. /\ "cancel" \in Cancels /\ "take" \in Cancels /\ "forget" \in Cancels /\ "stop" \in Cancels
      /\ "reset" \in Resets /\ "create" \in Resets /\ "start" \in Resets
      /\ t \in Thread
  BY ThreadKinds DEF Cancels, Resets
<1>1. CASE cancelPing(t)
  <2>1. open' = open /\ pingTimer' = pingTimer
    BY <1>1 DEF cancelPing, socketVars, pingVars
  <2>2. CASE pingTimer = NoTimer
    <3>1. At(t, "cancel") /\ Return(t)
      BY <1>1, <2>2, Zenon DEF cancelPing
    <3> QED BY <1>0, <2>1, <3>1, PingCancelled
  <2>3. CASE pingTimer # NoTimer
    <3>1. At(t, "cancel") /\ Goto(t, "take")
      BY <1>1, <2>3, Zenon DEF cancelPing
    <3> QED BY <1>0, <2>1, <2>3, <3>1, PingGoesKeeps
  <2> QED BY <2>2, <2>3
<1>2. CASE TakeOld(t)
  <2>1. /\ open' = open /\ timer' = timer /\ old' = [old EXCEPT ![t] = pingTimer]
        /\ At(t, "take") /\ Goto(t, "forget")
    BY <1>2 DEF TakeOld, socketVars
  <2>2. Armed => Armed'
    BY <2>1, Zenon DEF Armed
  <2>3. old'[t] = pingTimer
    BY <1>0, <2>1 DEF TypeOK
  <2>4. WillArm(t) => old'[t] # NoTimer
    BY <2>1, <2>3, Zenon DEF WillArm
  <2> QED BY <1>0, <2>1, <2>2, <2>4, PingGoesKeeps
<1>3. CASE Forget(t)
  <2>1. /\ open' = open /\ timer' = timer /\ old' = old
        /\ At(t, "forget") /\ Goto(t, "stop")
    BY <1>3 DEF Forget, socketVars
  <2>2. Armed => Armed'
    BY <2>1, Zenon DEF Armed
  <2>4. WillArm(t) => old'[t] # NoTimer
    BY <2>1 DEF WillArm
  <2> QED BY <1>0, <2>1, <2>2, <2>4, PingGoesKeeps
<1>4. CASE StopOld(t)
  <2>1. At(t, "stop")
    BY <1>4 DEF StopOld
  <2>2. CASE old[t] = NoTimer /\ Raise(t, "AttributeError")
    <3>1. timer' = timer
      BY <2>2, Zenon DEF Raise
    <3>2. Armed => Armed'
      BY <3>1, Zenon DEF Armed
    <3>3. ~WillArm(t)
      BY <2>1, <2>2 DEF WillArm
    <3> QED BY <2>1, <2>2, <3>2, <3>3, PingRaises
  <2>3. CASE Return(t) /\ UNCHANGED socketVars
    <3>1. open' = open
      BY <2>3 DEF socketVars
    <3> QED BY <1>0, <2>1, <2>3, <3>1, PingCancelled
  <2> QED BY <1>4, <2>2, <2>3 DEF StopOld
<1>5. CASE resetPing(t)
  <2>1. open' = open /\ At(t, "reset")
    BY <1>5 DEF resetPing, socketVars
  <2>2. CASE open
    <3>1. Goto(t, "create")
      BY <1>5, <2>2, Zenon DEF resetPing
    <3> QED BY <1>0, <2>1, <3>1, PingGoesKeeps
  <2>3. CASE ~open
    <3>1. Return(t)
      BY <1>5, <2>3, Zenon DEF resetPing
    <3> QED BY <1>0, <2>1, <2>3, <3>1, PingReset
  <2> QED BY <2>2, <2>3
<1>6. CASE CreateTimer(t)
  <2>1. open' = open /\ At(t, "create") /\ Goto(t, "start")
    BY <1>6 DEF CreateTimer, socketVars
  <2>2. PICK i \in Timer : pingTimer' = i /\ timer' = [timer EXCEPT ![i] = "new"]
    BY <1>6, Zenon DEF CreateTimer
  <2>3. timer'[pingTimer'] = "new" /\ pingTimer' # NoTimer
    BY <2>2, ConnectionAssumption DEF TypeOK
  <2> QED BY <1>0, <2>1, <2>3, PingGoesKeeps
<1>7. CASE StartTimer(t)
  <2>1. At(t, "start")
    BY <1>7 DEF StartTimer
  <2>2. ASSUME NEW kind, Raise(t, kind), pingTimer = NoTimer \/ timer[pingTimer] # "new"
        PROVE  KeepInv'
    <3>1. timer' = timer
      BY <2>2, Zenon DEF Raise
    <3>2. Armed => Armed'
      BY <3>1, Zenon DEF Armed
    <3>3. ~WillArm(t)
      BY <2>1, <2>2 DEF WillArm
    <3> QED BY <2>1, <2>2, <3>2, <3>3, PingRaises
  <2>3. CASE /\ pingTimer # NoTimer /\ timer' = [timer EXCEPT ![pingTimer] = "armed"]
             /\ Return(t) /\ UNCHANGED socketVars
    <3>1. open' = open
      BY <2>3 DEF socketVars
    <3>2. Armed'
      BY <2>3 DEF TypeOK, Armed
    <3> QED BY <1>0, <2>1, <2>3, <3>1, <3>2, PingReset
  <2> QED BY <1>7, <2>2, <2>3, Zenon DEF StartTimer
<1> QED BY <1>1, <1>2, <1>3, <1>4, <1>5, <1>6, <1>7, Zenon DEF PingStep

\* With MaxPings = 1, a ping is sent when no other is under way.
LEMMA OnlyPing ==
  ASSUME MaxPings = 1, NEW t \in Timer, sendPing(t)
  PROVE  \A i \in Timer : Over(i)
<1>1. Cardinality({i \in Timer : ~Over(i)}) < 1
  BY DEF sendPing
<1>2. IsFiniteSet(1 .. MaxTimers)
  BY FS_Interval, ConnectionAssumption
<1>3. IsFiniteSet({"timer"})
  BY FS_Singleton
<1>4. IsFiniteSet(Timer)
  BY <1>2, <1>3, FS_Product DEF Timer
<1>5. PICK S : S = {i \in Timer : ~Over(i)}
  OBVIOUS
<1>6. IsFiniteSet(S)
  <2>1. S \in SUBSET Timer
    BY <1>5
  <2> QED BY <1>4, <2>1, FS_Subset
<1>7. Cardinality(S) = 0
  <2>1. Cardinality(S) \in Nat
    BY <1>6, FS_CardinalityType
  <2>2. Cardinality(S) < 1
    BY <1>1, <1>5, Zenon
  <2> QED BY <2>1, <2>2
<1>8. S = {}
  BY <1>6, <1>7, FS_EmptySet
<1> QED BY <1>5, <1>8

LEMMA SendPingKeepsAlive ==
  ASSUME MaxPings = 1, TypeOK, KeepInv, NEW t \in Timer, sendPing(t)
  PROVE  KeepInv'
<1>1. \A i \in Timer : Over(i)
  BY OnlyPing
<1>2. open' = open /\ stack' = [stack EXCEPT ![t] = Frames(<<"lock", "cancel", "reset">>)]
  BY DEF sendPing, socketVars
<1>3. PICK l : l = <<"lock", "cancel", "reset">>
  OBVIOUS
<1>4. l \in Seq(Label) /\ Len(l) = 3 /\ l[1] = "lock" /\ l[2] = "cancel" /\ l[3] = "reset"
  BY <1>3 DEF Label
<1>5. PICK f : f = Frames(l)
  OBVIOUS
<1>6. stack' = [stack EXCEPT ![t] = f]
  BY <1>2, <1>3, <1>5, Zenon
<1> HIDE <1>3
<1>7. /\ f \in Seq(FrameSet) /\ Len(f) = 3 /\ \A i \in 1 .. 3 : Place(f[i]) = l[i]
      /\ f # << >> /\ Head(f) = f[1]
  BY <1>4, <1>5, NewFrames
<1> HIDE <1>5
<1>8. Place(f[1]) = "lock" /\ Place(f[2]) = "cancel" /\ Place(f[3]) = "reset"
  BY <1>4, <1>7
<1>9. PingStack(f) /\ Place(Head(f)) = "lock"
  BY <1>7, <1>8 DEF PingStack
<1>10. stack'[t] = f /\ t \in Thread
  BY <1>6, NewStack, ThreadKinds
<1>11. WillArm(t)'
  BY <1>7, <1>9, <1>10, WillArmHere
<1>12. \A m \in {"interrupt", "signal"} : ~At(t, m)'
  BY <1>9, <1>10 DEF At, Place
<1> QED BY <1>1, <1>2, <1>6, <1>9, <1>11, <1>12, PingKeeps
-----------------------------------------------------------------------------
(* The connection is kept alive.                                            *)

LEMMA CallsKeepAlive ==
  ASSUME TypeOK, KeepInv, NEW t \in Thread, CallNext(t) \/ Lock(t)
  PROVE  KeepInv'
<1>1. CASE t \in Timer
  <2>1. \A l : At(t, l) =>
          l \in Cancels \union Resets \union
                {"lock", "write", "unlock", "close", "shut", "interrupt", "signal"}
    BY <1>1, PingAt
  <2>2. \A l \in {"drain", "empty", "pill", "sent", "handled", "ponged"} : ~At(t, l)
    BY <2>1 DEF Cancels, Resets
  <2>3. ~drain(t) /\ ~empty(t) /\ ~putPill(t) /\ ~LeaveTry(t)
    BY <2>2 DEF drain, empty, putPill, LeaveTry
  <2> QED BY <1>1, <2>3, PingSends, PingCloses, PingReplaces, Zenon
          DEF CallNext, CloseStep, SendStep
<1>2. CASE t \notin Timer
  <2>1. CASE CloseStep(t) \/ Lock(t) \/ Unlock(t) \/ LeaveTry(t)
    <3>1. PICK l \in PlainPlace : At(t, l) /\ Goes(t)
      BY <2>1, CallGoes
    <3> QED BY <1>2, <3>1, GoesQuietly, QuietKeeps
  <2>2. CASE Write(t)
    BY <1>2, <2>2, WriteQuiet, QuietKeeps
  <2>3. CASE PingStep(t)
    <3>1. CASE t = reader
      BY <2>3, <3>1, ReaderPings
    <3>2. CASE t # reader
      <4>1. PICK l \in Cancels \union Resets : At(t, l)
        BY <2>3, PingMoves
      <4>2. PlainStack(stack[t])
        BY <1>2, <3>2, Zenon DEF KeepInv
      <4>3. PICK s : s = stack[t]
        OBVIOUS
      <4>4. s \in Seq(FrameSet) /\ s # << >> /\ Place(Head(s)) = l /\ PlainStack(s)
        BY <4>1, <4>2, <4>3, StackType, AtPlace
      <4>5. Head(s) = s[1] /\ 1 \in 1 .. Len(s)
        BY <4>4, EmptySeq, LenProperties, HeadTailProperties
      <4>6. l \in PlainPlace
        BY <4>4, <4>5 DEF PlainStack
      <4> QED BY <4>1, <4>6 DEF PlainPlace, PingPlace, Cancels, Resets
    <3> QED BY <3>1, <3>2
  <2> QED BY <2>1, <2>2, <2>3, Zenon DEF CallNext, SendStep
<1> QED BY <1>1, <1>2

LEMMA NextKeepsAlive ==
  ASSUME MaxPings = 1, TypeOK, KeepInv, ConnNext
  PROVE  KeepInv'
BY CallsKeepAlive, SendPingKeepsAlive, OwnKeepsAlive, Zenon DEF ConnNext, OwnStep

LEMMA StutterKeepsAlive ==
  ASSUME KeepInv, UNCHANGED connVars
  PROVE  KeepInv'
<1>1. open' = open /\ pingTimer' = pingTimer /\ timer' = timer /\ old' = old /\ stack' = stack
  BY DEF connVars, socketVars, pingVars
<1>2. Armed' <=> Armed
  BY <1>1, Zenon DEF Armed
<1>3. \A i \in Timer : (Over(i)' <=> Over(i)) /\ \A l : At(i, l)' <=> At(i, l)
  BY <1>1, Zenon DEF Over, At
<1>4. \A i \in Timer : WillArm(i)' <=> WillArm(i)
  BY <1>1, <1>3, Zenon DEF WillArm
<1> QED BY <1>1, <1>2, <1>3, <1>4, Zenon DEF KeepInv

LEMMA InitAlive ==
  ASSUME ConnInit
  PROVE  KeepInv
<1>1. /\ reader \in Thread /\ \A i \in Timer : i \in Thread /\ i # reader /\ i # passthru
      /\ reader # passthru
  BY ThreadKinds
<1>2. pingTimer \in Timer /\ timer[pingTimer] = "armed"
  BY ConnectionAssumption DEF ConnInit, Timer
<1>3. Armed
  BY <1>2 DEF Armed
<1>4. \A i \in Timer : stack[i] = << >>
  BY <1>1 DEF ConnInit
<1>5. \A i \in Timer : PingStack(stack[i]) /\ Over(i) /\ \A l : ~At(i, l)
  BY <1>4, Zenon DEF PingStack, Over, At
<1>6. LoopStack(stack[reader])
  <2>1. PICK l : l = <<"inner", "loop">>
    OBVIOUS
  <2>2. l \in Seq(Label) /\ Len(l) = 2 /\ l[1] = "inner"
    BY <2>1 DEF Label
  <2>3. PICK f : f = Frames(l)
    OBVIOUS
  <2>4. f = Frames(<<"inner", "loop">>)
    BY <2>1, <2>3, Zenon
  <2> HIDE <2>1
  <2>5. Len(f) = 2 /\ \A i \in 1 .. 2 : Place(f[i]) = l[i]
    BY <2>2, <2>3, FramesType
  <2> HIDE <2>3
  <2>6. "inner" \in PlainPlace /\ \A k \in 1 .. 2 - 1 : k = 1
    BY Plain
  <2>7. \A k \in 1 .. Len(f) - 1 : Place(f[k]) \in PlainPlace
    BY <2>2, <2>5, <2>6
  <2>8. LoopStack(f)
    BY <2>7 DEF LoopStack
  <2>9. stack[reader] = f
    BY <1>1, <2>4 DEF ConnInit
  <2> QED BY <2>8, <2>9
<1>7. ASSUME NEW t \in Thread \ Timer, t # reader PROVE PlainStack(stack[t])
  <2>1. PICK l : l \in {<<"get">>, <<"idle">>} /\ stack[t] = Frames(l)
    <3>1. CASE t = passthru
      BY <1>1, <3>1 DEF ConnInit
    <3>2. CASE t # passthru
      BY <1>7, <3>2 DEF ConnInit
    <3> QED BY <3>1, <3>2
  <2>2. l \in Seq(Label) /\ Len(l) = 1 /\ l[1] \in {"get", "idle"}
    <3>1. CASE l = <<"get">>
      BY <3>1 DEF Label
    <3>2. CASE l = <<"idle">>
      BY <3>2 DEF Label
    <3> QED BY <2>1, <3>1, <3>2
  <2>3. PICK f : f = Frames(l)
    OBVIOUS
  <2>4. stack[t] = f
    BY <2>1, <2>3, Zenon
  <2> HIDE <2>1
  <2>5. Len(f) = 1 /\ \A i \in 1 .. 1 : Place(f[i]) = l[i]
    BY <2>2, <2>3, FramesType
  <2> HIDE <2>3
  <2>6. {"get", "idle"} \subseteq PlainPlace /\ \A i \in 1 .. 1 : i = 1
    BY Plain
  <2>7. PlainStack(f)
    BY <2>2, <2>5, <2>6 DEF PlainStack
  <2> QED BY <2>4, <2>7
<1> QED BY <1>3, <1>5, <1>6, <1>7, Zenon DEF KeepInv

LEMMA AliveMeansPinging ==
  ASSUME TypeOK, KeepInv
  PROVE  KeepAlive
<1> SUFFICES ASSUME open, ReaderWaits PROVE Pinging # {}
  BY DEF KeepAlive
<1>1. stack[reader] # << >> /\ Place(stack[reader][Len(stack[reader])]) = "loop"
  BY Zenon DEF ReaderWaits, Over, Place
<1>2. \A l \in PingPlace : ~At(reader, l)
  BY DEF ReaderWaits, PingPlace
<1>3. Place(Head(stack[reader])) \notin PingPlace
  BY <1>1, <1>2, Zenon DEF At, Place
<1>4. Idles(stack[reader])
  BY <1>1, <1>3, Zenon DEF Idles, InLoop
<1>5. Armed \/ \E i \in Timer : WillArm(i)
  BY <1>4, Zenon DEF KeepInv
<1>6. \E i \in Timer : ~Over(i) \/ timer[i] = "armed"
  BY <1>5, Zenon DEF Armed, WillArm
<1> QED BY <1>6 DEF Pinging

\* websocket.py: resetPing, cancelPing and sendPing. While the connection is
\* open and its reader waits for messages or handles one, a ping is under way
\* or a Timer is armed, however the reader and the ping thread get in each
\* other's way: for any number of pumps, threads that close and Timers, if a
\* ping has been sent before the next one is due.
THEOREM PingsGoOn ==
  ASSUME MaxPings = 1
  PROVE  ConnSpec => []KeepAlive
<1>1. ConnInit => KeepInv
  BY InitAlive
<1>2. KeepInv /\ TypeOK /\ [ConnNext]_connVars => KeepInv'
  BY NextKeepsAlive, StutterKeepsAlive
<1>3. KeepInv /\ TypeOK => KeepAlive
  BY AliveMeansPinging
<1> QED BY <1>1, <1>2, <1>3, ConnTypeCorrect, PTL DEF ConnSpec
=============================================================================

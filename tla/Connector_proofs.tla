-------------------------- MODULE Connector_proofs --------------------------
(* However the device fails, whatever changes arrive, and in whichever      *)
(* order the main thread and the control thread call the device: what is    *)
(* not excused, the device does.                                            *)
(*                                                                          *)
(* The argument: of each setting, the device has it in effect, or a thread  *)
(* has its call still before it.  The argument of a call is taken before    *)
(* the call, and the member may change in between: main() then calls with   *)
(* an old value, but only in setup(), where the change is excused.          *)
EXTENDS Connector, SequenceTheorems, TLAPS

(* What the comment of Settings asks for.                                   *)
Followed ==
  /\ {"center_freq", "rf_gain"} \subseteq Settings
  /\ Settings \subseteq {"antenna", "center_freq", "samp_rate", "ppm", "rf_gain",
                         "settings", "bias_tee", "direct_sampling"}

Step == Settings \union {"gain_again"}

\* What this kind of connector may have before it.
Fine(k) == IF k = "gain_again" THEN Has("direct_sampling") ELSE Has(k)

\* Each thread has device calls of this kind of connector before it, and a
\* value for the first of them only.
CallsOK ==
  /\ kind \in {"rtl", "rtl_tcp", "soapy"}
  /\ stored \in [Settings -> Int]
  /\ dev \in [Settings -> Int]
  /\ calls \in [Caller -> Seq(Step)]
  /\ loaded \in [Caller -> Int]
  /\ \A t \in Caller : \A i \in DOMAIN calls[t] : Fine(calls[t][i])
  /\ \A t \in Caller :
       loaded[t] # NotRead => calls[t] # << >> /\ Head(calls[t]) \in Settings
  /\ \A k \in Settings : stored[k] = Dangling => k = "rf_gain"

\* main() calls the device in setup() only.
MainInv ==
  /\ stage \notin {"setup", "crashed"} => calls["main"] = << >>
  /\ loaded["main"] # NotRead /\ stage = "setup" /\ Head(calls["main"]) \notin excused =>
       loaded["main"] = stored[Head(calls["main"])]
  /\ stage = "setup" /\ "direct_sampling" \in excused => "rf_gain" \in excused

\* A change is over before the next one, and is about one setting; but for
\* the frequency and the gain after a change of the sampling mode.
ControlInv ==
  /\ stage = "start" \/ stored["rf_gain"] = Dangling => calls["control"] = << >>
  /\ loaded["control"] # NotRead => loaded["control"] = stored[Head(calls["control"])]
  /\ \A i \in DOMAIN calls["control"] : i > 1 => calls["control"][i] = "gain_again"

\* A thread will set k.
Pending(k) ==
  \E t \in Caller : \E i \in DOMAIN calls[t] :
    \/ calls[t][i] = k
    \/ k = "rf_gain" /\ calls[t][i] = "gain_again" /\ stored["direct_sampling"] = 0

Follows ==
  stage \in {"setup", "read"} =>
    \A k \in Settings \ excused :
      Has(k) => stored[k] \in {Unset, Dangling, dev[k]} \/ Pending(k) \/ Lost(k)

FollowInv == CallsOK /\ MainInv /\ ControlInv /\ Follows
-----------------------------------------------------------------------------
(* What is before a thread after its first call was replaced.               *)
LEMMA Replaced ==
  ASSUME NEW S, NEW s \in Seq(S), s # << >>, NEW f \in Seq(S)
  PROVE  /\ f \o Tail(s) \in Seq(S)
         /\ DOMAIN (f \o Tail(s)) = 1 .. (Len(f) + Len(s) - 1)
         /\ \A i \in 1 .. Len(f) : (f \o Tail(s))[i] = f[i]
         /\ \A i \in 2 .. Len(s) : (f \o Tail(s))[Len(f) + i - 1] = s[i]
         /\ \A i \in DOMAIN (f \o Tail(s)) :
              i \in 1 .. Len(f) \/ (i - Len(f) + 1 \in 2 .. Len(s)
                                   /\ (f \o Tail(s))[i] = s[i - Len(f) + 1])
         /\ Head(s) = s[1] /\ DOMAIN s = 1 .. Len(s) /\ Len(s) \in Nat \ {0}
<1>1. /\ Tail(s) \in Seq(S) /\ Len(Tail(s)) = Len(s) - 1
      /\ \A i \in 1 .. Len(Tail(s)) : Tail(s)[i] = s[i + 1]
      /\ Head(s) = s[1] /\ DOMAIN s = 1 .. Len(s) /\ Len(s) \in Nat \ {0}
  BY HeadTailProperties, EmptySeq, LenProperties
<1>2. PICK r : r = Tail(s)
  OBVIOUS
<1>3. /\ f \o r \in Seq(S) /\ Len(f \o r) = Len(f) + Len(r)
      /\ \A i \in 1 .. Len(f) + Len(r) :
           (f \o r)[i] = IF i <= Len(f) THEN f[i] ELSE r[i - Len(f)]
  BY <1>1, <1>2, ConcatProperties
<1>4. Len(f) \in Nat /\ DOMAIN (f \o r) = 1 .. Len(f \o r)
  BY <1>3, LenProperties
<1> HIDE <1>2
<1> QED BY <1>1, <1>2, <1>3, <1>4

LEMMA NewHead ==
  ASSUME NEW S, NEW s \in Seq(S), s # << >>, NEW f \in Seq(S), Len(f) # 0
  PROVE  f \o Tail(s) # << >> /\ Head(f \o Tail(s)) = f[1]
<1>1. PICK q : q = f \o Tail(s)
  OBVIOUS
<1>2. Len(f) \in Nat \ {0}
  BY LenProperties
<1>3. /\ q \in Seq(S) /\ DOMAIN q = 1 .. (Len(f) + Len(s) - 1) /\ Len(s) \in Nat \ {0}
      /\ \A i \in 1 .. Len(f) : q[i] = f[i]
  BY <1>1, Replaced
<1>4. q[1] = f[1] /\ Len(q) # 0
  BY <1>2, <1>3, LenProperties
<1>5. q # << >>
  BY <1>4, EmptySeq
<1>6. Head(q) = q[1]
  BY <1>3, <1>5, HeadTailProperties
<1> QED BY <1>1, <1>4, <1>5, <1>6

(* The same without a new call.                                             *)
LEMMA Dropped ==
  ASSUME NEW S, NEW s \in Seq(S), s # << >>
  PROVE  Tail(s) = << >> \o Tail(s) /\ << >> \in Seq(S) /\ Len(<< >>) = 0
BY HeadTailProperties, ConcatEmptySeq, EmptySeq

(* setup() has all calls of the kind of connector before it.                *)
In(k, s) == \E i \in 1 .. Len(s) : s[i] = k
Kept == {k \in Settings : Has(k)}

LEMMA OnlyOne ==
  ASSUME NEW k
  PROVE  /\ Only(k) \in Seq(Kept) /\ Len(Only(k)) \in Nat
         /\ k \in Kept => Len(Only(k)) = 1 /\ Only(k)[1] = k
<1>1. CASE Has(k)
  <2>1. Only(k) = <<k>> /\ k \in Kept
    BY <1>1 DEF Only, Kept, Has
  <2>2. <<k>> \in Seq(Kept) /\ Len(<<k>>) = 1 /\ <<k>>[1] = k
    BY <2>1
  <2> QED BY <2>1, <2>2
<1>2. CASE ~Has(k)
  <2>1. Only(k) = << >> /\ k \notin Kept
    BY <1>2 DEF Only, Kept
  <2> QED BY <2>1, EmptySeq
<1> QED BY <1>1, <1>2

LEMMA OneMore ==
  ASSUME NEW s \in Seq(Kept), NEW k
  PROVE  /\ s \o Only(k) \in Seq(Kept)
         /\ \A j : In(j, s) => In(j, s \o Only(k))
         /\ k \in Kept => In(k, s \o Only(k))
<1>1. PICK o : o = Only(k)
  OBVIOUS
<1>2. o \in Seq(Kept) /\ Len(o) \in Nat /\ (k \in Kept => Len(o) = 1 /\ o[1] = k)
  BY <1>1, OnlyOne
<1>3. /\ s \o o \in Seq(Kept) /\ Len(s \o o) = Len(s) + Len(o) /\ Len(s) \in Nat
      /\ \A i \in 1 .. Len(s) + Len(o) : (s \o o)[i] = IF i <= Len(s) THEN s[i] ELSE o[i - Len(s)]
  BY <1>2, ConcatProperties, LenProperties
<1>4. \A j : In(j, s) => In(j, s \o o)
  BY <1>2, <1>3 DEF In
<1>5. k \in Kept => In(k, s \o o)
  <2> SUFFICES ASSUME k \in Kept PROVE In(k, s \o o)
    OBVIOUS
  <2>1. Len(o) = 1 /\ o[1] = k
    BY <1>2
  <2>2. Len(s) + 1 \in 1 .. Len(s \o o) /\ (s \o o)[Len(s) + 1] = k
    BY <1>3, <2>1
  <2> QED BY <2>2 DEF In
<1> QED BY <1>1, <1>3, <1>4, <1>5

LEMMA OrderComplete ==
  ASSUME Followed
  PROVE  Order \in Seq(Kept) /\ \A k \in Kept : In(k, Order)
<1> DEFINE s1 == Only("antenna")
           s2 == s1 \o Only("center_freq")
           s3 == s2 \o Only("samp_rate")
           s4 == s3 \o Only("ppm")
           s5 == s4 \o Only("rf_gain")
           s6 == s5 \o Only("settings")
           s7 == s6 \o Only("bias_tee")
           s8 == s7 \o Only("direct_sampling")
<1>0. Order = s8
  BY DEF Order
<1>1. s1 \in Seq(Kept) /\ ("antenna" \in Kept => In("antenna", s1))
  BY OnlyOne DEF In
<1> HIDE DEF s1
<1>2. s2 \in Seq(Kept) /\ (\A j : In(j, s1) => In(j, s2)) /\ ("center_freq" \in Kept => In("center_freq", s2))
  BY <1>1, OneMore
<1> HIDE DEF s2
<1>3. s3 \in Seq(Kept) /\ (\A j : In(j, s2) => In(j, s3)) /\ ("samp_rate" \in Kept => In("samp_rate", s3))
  BY <1>2, OneMore
<1> HIDE DEF s3
<1>4. s4 \in Seq(Kept) /\ (\A j : In(j, s3) => In(j, s4)) /\ ("ppm" \in Kept => In("ppm", s4))
  BY <1>3, OneMore
<1> HIDE DEF s4
<1>5. s5 \in Seq(Kept) /\ (\A j : In(j, s4) => In(j, s5)) /\ ("rf_gain" \in Kept => In("rf_gain", s5))
  BY <1>4, OneMore
<1> HIDE DEF s5
<1>6. s6 \in Seq(Kept) /\ (\A j : In(j, s5) => In(j, s6)) /\ ("settings" \in Kept => In("settings", s6))
  BY <1>5, OneMore
<1> HIDE DEF s6
<1>7. s7 \in Seq(Kept) /\ (\A j : In(j, s6) => In(j, s7)) /\ ("bias_tee" \in Kept => In("bias_tee", s7))
  BY <1>6, OneMore
<1> HIDE DEF s7
<1>8. s8 \in Seq(Kept) /\ (\A j : In(j, s7) => In(j, s8)) /\ ("direct_sampling" \in Kept => In("direct_sampling", s8))
  BY <1>7, OneMore
<1> HIDE DEF s8
<1>9. ASSUME NEW k \in Kept
      PROVE  In(k, s8)
  <2>1. k \in {"antenna", "center_freq", "samp_rate", "ppm", "rf_gain", "settings", "bias_tee", "direct_sampling"}
    BY DEF Kept, Followed
  <2> QED BY <2>1, <1>1, <1>2, <1>3, <1>4, <1>5, <1>6, <1>7, <1>8
<1> QED BY <1>0, <1>8, <1>9
-----------------------------------------------------------------------------
(* A call that thread t does not finish stays pending, wherever it is.      *)
LEMMA PendingKept ==
  ASSUME CallsOK, NEW t \in Caller, calls[t] # << >>, NEW f \in Seq(Step),
         calls' = [calls EXCEPT ![t] = f \o Tail(calls[t])], UNCHANGED stored,
         NEW k, Pending(k),
         Head(calls[t]) # k,
         k = "rf_gain" /\ Head(calls[t]) = "gain_again" => stored["direct_sampling"] # 0
  PROVE  Pending(k)'
<1>1. PICK s : s = calls[t]
  OBVIOUS
<1>2. s \in Seq(Step) /\ s # << >> /\ calls'[t] = f \o Tail(s)
      /\ \A u \in Caller : u # t => calls'[u] = calls[u]
  BY <1>1 DEF CallsOK
<1>3. PICK q : q = f \o Tail(s)
  OBVIOUS
<1>4. /\ \A i \in 2 .. Len(s) : q[Len(f) + i - 1] = s[i]
      /\ DOMAIN q = 1 .. (Len(f) + Len(s) - 1)
      /\ Head(s) = s[1] /\ DOMAIN s = 1 .. Len(s) /\ Len(s) \in Nat \ {0}
      /\ Len(f) \in Nat
  BY <1>2, <1>3, Replaced, LenProperties
<1>0. PICK u \in Caller : \E i \in DOMAIN calls[u] :
        \/ calls[u][i] = k
        \/ k = "rf_gain" /\ calls[u][i] = "gain_again" /\ stored["direct_sampling"] = 0
  BY DEF Pending
<1>5. PICK i \in DOMAIN calls[u] :
        \/ calls[u][i] = k
        \/ k = "rf_gain" /\ calls[u][i] = "gain_again" /\ stored["direct_sampling"] = 0
  BY <1>0
<1>6. CASE u # t
  BY <1>2, <1>5, <1>6 DEF Pending
<1>7. CASE u = t
  <2>1. i \in 2 .. Len(s) /\ s[i] = calls[u][i]
    BY <1>1, <1>4, <1>5, <1>7
  <2>2. Len(f) + i - 1 \in DOMAIN q /\ q[Len(f) + i - 1] = s[i]
    BY <1>4, <2>1
  <2>3. Len(f) + i - 1 \in DOMAIN calls'[t] /\ calls'[t][Len(f) + i - 1] = calls[u][i]
    BY <1>2, <1>3, <2>1, <2>2
  <2> QED BY <2>3, <1>5 DEF Pending
<1> QED BY <1>6, <1>7

(* What is put before a thread is pending.                                  *)
LEMMA PendingNew ==
  ASSUME CallsOK, NEW t \in Caller, calls[t] # << >>, NEW f \in Seq(Step),
         calls' = [calls EXCEPT ![t] = f \o Tail(calls[t])],
         NEW k, NEW i \in 1 .. Len(f),
         \/ f[i] = k
         \/ k = "rf_gain" /\ f[i] = "gain_again" /\ stored'["direct_sampling"] = 0
  PROVE  Pending(k)'
<1>1. PICK s : s = calls[t]
  OBVIOUS
<1>2. s \in Seq(Step) /\ s # << >> /\ calls'[t] = f \o Tail(s)
  BY <1>1 DEF CallsOK
<1>3. PICK q : q = f \o Tail(s)
  OBVIOUS
<1>4. q[i] = f[i] /\ i \in DOMAIN q
  BY <1>2, <1>3, Replaced, LenProperties
<1>5. i \in DOMAIN calls'[t] /\ calls'[t][i] = f[i]
  BY <1>2, <1>3, <1>4
<1> QED BY <1>5 DEF Pending

(* What the threads have before them remains of this kind, and of one       *)
(* change.                                                                  *)
LEMMA CallsKept ==
  ASSUME CallsOK, ControlInv, NEW t \in Caller, calls[t] # << >>, NEW f \in Seq(Step),
         calls' = [calls EXCEPT ![t] = f \o Tail(calls[t])], UNCHANGED kind,
         \A i \in 1 .. Len(f) : Fine(f[i]) /\ (i > 1 => f[i] = "gain_again")
  PROVE  /\ calls' \in [Caller -> Seq(Step)]
         /\ (\A u \in Caller : \A i \in DOMAIN calls[u] : Fine(calls[u][i]))'
         /\ \A i \in DOMAIN calls'["control"] : i > 1 => calls'["control"][i] = "gain_again"
<1>1. PICK s : s = calls[t]
  OBVIOUS
<1>2. PICK q : q = f \o Tail(s)
  OBVIOUS
<1>3. s \in Seq(Step) /\ s # << >> /\ calls' = [calls EXCEPT ![t] = q]
      /\ calls'[t] = q /\ \A u \in Caller : u # t => calls'[u] = calls[u]
  BY <1>1, <1>2 DEF CallsOK
<1>4. /\ q \in Seq(Step) /\ DOMAIN q = 1 .. (Len(f) + Len(s) - 1)
      /\ \A i \in 1 .. Len(f) : q[i] = f[i]
      /\ \A i \in DOMAIN q : i \in 1 .. Len(f) \/ (i - Len(f) + 1 \in 2 .. Len(s)
                                                  /\ q[i] = s[i - Len(f) + 1])
      /\ DOMAIN s = 1 .. Len(s) /\ Len(s) \in Nat \ {0} /\ Len(f) \in Nat
  BY <1>2, <1>3, Replaced, LenProperties
<1>5. calls' \in [Caller -> Seq(Step)]
  BY <1>3, <1>4 DEF CallsOK
<1>6. \A i \in DOMAIN s : Fine(s[i])
  BY <1>1 DEF CallsOK
<1>7. \A i \in DOMAIN q : Fine(q[i])
  <2> SUFFICES ASSUME NEW i \in DOMAIN q PROVE Fine(q[i])
    OBVIOUS
  <2>1. CASE i \in 1 .. Len(f)
    BY <2>1, <1>4
  <2>2. CASE i - Len(f) + 1 \in 2 .. Len(s) /\ q[i] = s[i - Len(f) + 1]
    <3>1. PICK n \in DOMAIN s : q[i] = s[n]
      BY <2>2, <1>4
    <3> QED BY <3>1, <1>6
  <2> QED BY <2>1, <2>2, <1>4
<1>8. \A u \in Caller : \A i \in DOMAIN calls'[u] : Fine(calls'[u][i])
  BY <1>3, <1>7 DEF CallsOK
<1>9. \A k : Fine(k)' <=> Fine(k)
  BY DEF Fine, Has
<1>10. t = "control" => \A i \in DOMAIN q : i > 1 => q[i] = "gain_again"
  <2> SUFFICES ASSUME t = "control", NEW i \in DOMAIN q, i > 1 PROVE q[i] = "gain_again"
    OBVIOUS
  <2>1. CASE i \in 1 .. Len(f)
    BY <2>1, <1>4
  <2>2. CASE i - Len(f) + 1 \in 2 .. Len(s) /\ q[i] = s[i - Len(f) + 1]
    <3>1. PICK n \in DOMAIN s : n > 1 /\ q[i] = s[n]
      BY <2>2, <1>4
    <3> QED BY <3>1, <1>1 DEF ControlInv
  <2> QED BY <2>1, <2>2, <1>4
<1> QED BY <1>3, <1>5, <1>8, <1>9, <1>10 DEF ControlInv, Caller

LEMMA FirstCall ==
  ASSUME Followed, CallsOK, NEW t \in Caller, calls[t] # << >>
  PROVE  /\ Head(calls[t]) \in Step /\ Fine(Head(calls[t]))
         /\ Head(calls[t]) # "gain_again" => Head(calls[t]) \in Settings /\ Has(Head(calls[t]))
<1>1. PICK s : s = calls[t]
  OBVIOUS
<1>2. s \in Seq(Step) /\ s # << >>
  BY <1>1 DEF CallsOK
<1>3. Head(s) \in Step /\ Head(s) = s[1] /\ 1 \in DOMAIN s
  BY <1>2, HeadTailProperties, LenProperties, EmptySeq
<1>4. Fine(Head(s))
  BY <1>1, <1>3 DEF CallsOK
<1> QED BY <1>1, <1>3, <1>4 DEF Fine, Step

(* The argument of a call is the member's value, and the call remains.      *)
LEMMA LoadKeeps ==
  ASSUME Followed, FollowInv, NEW t \in Caller, load(t)
  PROVE  FollowInv'
<1> DEFINE k == Head(calls[t])
           j == IF k = "gain_again" THEN "rf_gain" ELSE k
           skipped == \/ k = "direct_sampling" /\ stored[k] = Unset
                      \/ k = "gain_again" /\ stored["direct_sampling"] # 0
           f == IF skipped THEN << >> ELSE <<j>>
<1>1. /\ Live /\ calls[t] # << >> /\ loaded[t] = NotRead
      /\ UNCHANGED <<kind, stage, run, handle, stored, dev, excused>>
  BY DEF load
<1>2. /\ CallsOK /\ MainInv /\ ControlInv /\ Follows
  BY DEF FollowInv
<1>3. /\ k \in Step /\ Fine(k) /\ (k # "gain_again" => k \in Settings /\ Has(k))
      /\ j \in Settings /\ Fine(j) /\ "gain_again" \notin Settings
  BY <1>1, <1>2, FirstCall DEF Followed, Fine, Has
<1>4. f \in Seq(Step) /\ \A i \in 1 .. Len(f) : i = 1 /\ ~skipped /\ f[i] = j
  <2>1. CASE skipped
    BY <2>1, EmptySeq
  <2>2. CASE ~skipped
    <3>1. <<j>> \in Seq(Step) /\ Len(<<j>>) = 1 /\ <<j>>[1] = j
      BY <1>3 DEF Step
    <3> QED BY <2>2, <3>1
  <2> QED BY <2>1, <2>2
<1>5. /\ calls' = [calls EXCEPT ![t] = f \o Tail(calls[t])]
      /\ loaded' = IF skipped THEN loaded ELSE [loaded EXCEPT ![t] = stored[j]]
  <2>1. calls[t] \in Seq(Step)
    BY <1>2 DEF CallsOK
  <2>2. Tail(calls[t]) = << >> \o Tail(calls[t])
    BY <1>1, <2>1, Dropped
  <2>3. CASE skipped
    BY <2>2, <2>3 DEF load, Advance
  <2>4. CASE ~skipped
    BY <2>4 DEF load, Advance
  <2> QED BY <2>3, <2>4
<1> HIDE DEF k, j, f
<1>6. \A u \in Caller : u # t => calls'[u] = calls[u] /\ loaded'[u] = loaded[u]
  BY <1>2, <1>5 DEF CallsOK
<1>7. /\ skipped => loaded'[t] = NotRead
      /\ ~skipped => loaded'[t] = stored[j] /\ calls'[t] # << >> /\ Head(calls'[t]) = j
  <2>1. loaded'[t] = IF skipped THEN NotRead ELSE stored[j]
    BY <1>1, <1>2, <1>5 DEF CallsOK
  <2>2. PICK s : s = calls[t]
    OBVIOUS
  <2>3. s \in Seq(Step) /\ s # << >> /\ calls'[t] = f \o Tail(s)
    BY <1>1, <1>2, <1>5, <2>2 DEF CallsOK
  <2>4. ASSUME ~skipped PROVE calls'[t] # << >> /\ Head(calls'[t]) = j
    <3>1. Len(f) = 1 /\ f[1] = j
      BY <2>4, <1>4 DEF f
    <3>2. Len(f) # 0 /\ f \in Seq(Step) /\ s \in Seq(Step) /\ s # << >>
      BY <3>1, <1>4, <2>3
    <3>3. f \o Tail(s) # << >> /\ Head(f \o Tail(s)) = f[1]
      BY <3>2, NewHead, Zenon
    <3> QED BY <2>3, <3>1, <3>3, Zenon
  <2> QED BY <2>1, <2>4
<1>8. /\ calls' \in [Caller -> Seq(Step)]
      /\ (\A u \in Caller : \A i \in DOMAIN calls[u] : Fine(calls[u][i]))'
      /\ \A i \in DOMAIN calls'["control"] : i > 1 => calls'["control"][i] = "gain_again"
  <2>1. \A i \in 1 .. Len(f) : Fine(f[i]) /\ (i > 1 => f[i] = "gain_again")
    BY <1>3, <1>4
  <2>2. UNCHANGED kind
    BY <1>1
  <2> QED BY <1>1, <1>2, <1>4, <1>5, <2>1, <2>2, CallsKept
<1>9. CallsOK'
  <2>1. loaded' \in [Caller -> Int]
    BY <1>2, <1>3, <1>5 DEF CallsOK
  <2>2. \A u \in Caller : loaded'[u] # NotRead => calls'[u] # << >> /\ Head(calls'[u]) \in Settings
    BY <1>2, <1>3, <1>6, <1>7 DEF CallsOK
  <2>3. stored' \in [Settings -> Int] /\ dev' \in [Settings -> Int]
        /\ \A i \in Settings : stored'[i] = Dangling => i = "rf_gain"
    BY <1>1, <1>2 DEF CallsOK
  <2> QED BY <1>1, <1>2, <1>8, <2>1, <2>2, <2>3 DEF CallsOK
<1>10. MainInv'
  <2>1. CASE t = "main"
    BY <1>1, <1>2, <1>7, <2>1 DEF MainInv, Live
  <2>2. CASE t # "main"
    BY <1>1, <1>2, <1>6, <2>2 DEF MainInv, Caller
  <2> QED BY <2>1, <2>2
<1>11. ControlInv'
  <2>1. CASE t = "control"
    BY <1>1, <1>2, <1>7, <1>8, <2>1 DEF ControlInv, Live
  <2>2. CASE t # "control"
    BY <1>1, <1>2, <1>6, <1>8, <2>2 DEF ControlInv, Caller
  <2> QED BY <2>1, <2>2
<1>12. Follows'
  <2> SUFFICES ASSUME stage \in {"setup", "read"}, NEW i \in Settings \ excused, Has(i),
                      stored[i] \notin {Unset, Dangling, dev[i]}, ~Lost(i)
               PROVE  Pending(i)'
    <3>1. /\ \A i \in Settings : (Has(i)' <=> Has(i)) /\ (Lost(i)' <=> Lost(i))
          /\ UNCHANGED <<stage, stored, dev, excused>>
      BY <1>1 DEF Has, Lost
    <3> QED BY <3>1 DEF Follows
  <2>1. Pending(i)
    BY <1>2 DEF Follows
  <2>2. CASE ~skipped /\ i = j
    <3>1. 1 \in 1 .. Len(f) /\ f[1] = i
      BY <2>2 DEF f
    <3> QED BY <3>1, <1>1, <1>2, <1>4, <1>5, PendingNew
  <2>3. CASE skipped \/ i # j
    <3>1. Head(calls[t]) # i /\ (i = "rf_gain" /\ Head(calls[t]) = "gain_again" => stored["direct_sampling"] # 0)
      BY <1>3, <2>3 DEF k, j
    <3> QED BY <3>1, <2>1, <1>1, <1>2, <1>4, <1>5, PendingKept
  <2> QED BY <2>2, <2>3
<1> QED BY <1>9, <1>10, <1>11, <1>12 DEF FollowInv

(* What the device loses with the sampling mode is called again.            *)
LEMMA FollowingCalls ==
  ASSUME Followed, NEW k \in Settings, Has(k)
  PROVE  /\ Following(k) \in Seq(Step)
         /\ \A i \in 1 .. Len(Following(k)) :
              Fine(Following(k)[i]) /\ (i > 1 => Following(k)[i] = "gain_again")
         /\ k = "direct_sampling" /\ kind = "rtl" =>
              /\ Len(Following(k)) = 2
              /\ Following(k)[1] = "center_freq" /\ Following(k)[2] = "gain_again"
<1>1. CASE k = "direct_sampling" /\ kind = "rtl"
  <2>1. Following(k) = <<"center_freq", "gain_again">>
    BY <1>1 DEF Following
  <2>2. Fine("center_freq") /\ Fine("gain_again")
    BY <1>1 DEF Fine, Has, Followed
  <2>3. "center_freq" \in Step /\ "gain_again" \in Step
    BY DEF Step, Followed
  <2> QED BY <2>1, <2>2, <2>3
<1>2. CASE ~(k = "direct_sampling" /\ kind = "rtl")
  <2>1. Following(k) = << >>
    BY <1>2 DEF Following
  <2> QED BY <1>2, <2>1, EmptySeq
<1> QED BY <1>1, <1>2

LEMMA CallKeeps ==
  ASSUME Followed, FollowInv, NEW t \in Caller, callDevice(t)
  PROVE  FollowInv'
<1> DEFINE k == Head(calls[t])
           f == Following(k)
<1>1. /\ Live /\ loaded[t] # NotRead
      /\ UNCHANGED <<kind, stage, run, handle, stored>>
      /\ calls' = [calls EXCEPT ![t] = f \o Tail(calls[t])]
      /\ loaded' = [loaded EXCEPT ![t] = NotRead]
      /\ excused' = IF t = "main" THEN excused
                    ELSE IF stage = "read" THEN excused \ {k} ELSE excused \union Touched(k)
  BY DEF callDevice, Advance
<1>2. CallsOK /\ MainInv /\ ControlInv /\ Follows
  BY DEF FollowInv
<1>3. calls[t] # << >> /\ k \in Settings
  BY <1>1, <1>2 DEF CallsOK
<1>4. Has(k) /\ "gain_again" \notin Settings
  BY <1>2, <1>3, FirstCall DEF Followed
<1>5. PICK v \in IF loaded[t] = Dangling THEN Value(k) ELSE {loaded[t]} : dev' = Effect(k, v)
  BY DEF callDevice
<1>6. /\ f \in Seq(Step)
      /\ \A i \in 1 .. Len(f) : Fine(f[i]) /\ (i > 1 => f[i] = "gain_again")
      /\ k = "direct_sampling" /\ kind = "rtl" =>
           Len(f) = 2 /\ f[1] = "center_freq" /\ f[2] = "gain_again"
  BY <1>3, <1>4, FollowingCalls
<1> HIDE DEF k, f
<1>7. /\ \A u \in Caller : u # t => calls'[u] = calls[u] /\ loaded'[u] = loaded[u]
      /\ loaded'[t] = NotRead
  BY <1>1, <1>2 DEF CallsOK
<1>8. /\ calls' \in [Caller -> Seq(Step)]
      /\ (\A u \in Caller : \A i \in DOMAIN calls[u] : Fine(calls[u][i]))'
      /\ \A i \in DOMAIN calls'["control"] : i > 1 => calls'["control"][i] = "gain_again"
  <2>1. UNCHANGED kind
    BY <1>1
  <2> QED BY <1>1, <1>2, <1>3, <1>6, <2>1, CallsKept
<1>9. CallsOK'
  <2>1. loaded' \in [Caller -> Int]
    BY <1>1, <1>2 DEF CallsOK, NotRead
  <2>2. v \in Int
    BY <1>2, <1>5 DEF CallsOK, Value
  <2>3. dev' \in [Settings -> Int]
    BY <1>2, <1>5, <2>2 DEF CallsOK, Effect
  <2>4. \A u \in Caller : loaded'[u] # NotRead => calls'[u] # << >> /\ Head(calls'[u]) \in Settings
    BY <1>2, <1>7 DEF CallsOK
  <2>5. stored' \in [Settings -> Int] /\ \A i \in Settings : stored'[i] = Dangling => i = "rf_gain"
    BY <1>1, <1>2 DEF CallsOK
  <2> QED BY <1>1, <1>2, <1>8, <2>1, <2>3, <2>4, <2>5 DEF CallsOK
<1>10. stage = "setup" => excused \subseteq excused'
       /\ ("direct_sampling" \in excused' => "direct_sampling" \in excused \/ "rf_gain" \in excused')
  BY <1>1 DEF Touched
<1>11. MainInv'
  <2>1. CASE t = "main"
    BY <1>1, <1>2, <1>3, <1>7, <2>1 DEF MainInv, Live
  <2>2. CASE t # "main"
    BY <1>1, <1>2, <1>7, <1>10, <2>2 DEF MainInv, Caller
  <2> QED BY <2>1, <2>2
<1>12. ControlInv'
  <2>1. CASE t = "control"
    BY <1>1, <1>2, <1>3, <1>7, <1>8, <2>1 DEF ControlInv, Live
  <2>2. CASE t # "control"
    BY <1>1, <1>2, <1>7, <1>8, <2>2 DEF ControlInv, Caller
  <2> QED BY <2>1, <2>2
<1>13. Follows'
  <2> SUFFICES ASSUME stage \in {"setup", "read"}, NEW i \in Settings \ excused', Has(i),
                      stored[i] \notin {Unset, Dangling, dev'[i]}, ~Lost(i)'
               PROVE  Pending(i)'
    <3>1. (\A n \in Settings : Has(n)' <=> Has(n)) /\ UNCHANGED <<stage, stored>>
      BY <1>1 DEF Has
    <3> QED BY <3>1 DEF Follows
  <2>1. t = "main" => stage = "setup" /\ (k \in excused \/ loaded[t] = stored[k])
    BY <1>1, <1>2, <1>3 DEF MainInv, Live, k
  <2>2. t = "control" => loaded[t] = stored[k] /\ stored[k] # Dangling
    BY <1>1, <1>2, <1>3 DEF ControlInv, CallsOK, k
  <2>3. k \in excused \/ stored[k] = Dangling \/ stored[k] = v \/ t = "control"
    BY <1>5, <2>1, <2>2 DEF Caller
  <2>4. t = "control" => stored[k] = v
    BY <1>5, <2>2
  <2>5. dev'[k] = v
    BY <1>3, <1>5 DEF Effect
  <2>6. i # k
    BY <1>1, <2>3, <2>4, <2>5 DEF Touched, Caller
  <2>7. i \notin excused
    BY <1>1, <2>6
  <2>8. CASE dev'[i] = dev[i]
    <3>1. Pending(i)
      BY <1>1, <1>2, <2>7, <2>8 DEF Follows, Lost
    <3> QED BY <3>1, <1>1, <1>2, <1>3, <1>4, <1>6, <2>6, PendingKept DEF k
  <2>9. CASE dev'[i] # dev[i]
    <3>1. /\ k = "direct_sampling" /\ kind = "rtl"
          /\ i = "center_freq" \/ (i = "rf_gain" /\ v = 0)
      <4>1. /\ k = "direct_sampling" /\ dev'[i] = 0
            /\ i = "center_freq" \/ (i = "rf_gain" /\ v = 0)
        BY <1>2, <1>5, <2>6, <2>9 DEF Effect, CallsOK
      <4>2. kind # "rtl_tcp"
        BY <1>1, <4>1 DEF Lost
      <4>3. kind \in {"rtl", "rtl_tcp"}
        BY <1>2, <1>4, <4>1 DEF Has, CallsOK
      <4> QED BY <4>1, <4>2, <4>3
    <3>2. CASE i = "center_freq"
      <4>1. 1 \in 1 .. Len(f) /\ f[1] = i
        BY <1>6, <3>1, <3>2
      <4> QED BY <4>1, <1>1, <1>2, <1>3, <1>6, PendingNew
    <3>3. CASE i = "rf_gain" /\ v = 0
      <4>1. stored[k] # Dangling
        BY <1>2, <1>3, <3>1 DEF CallsOK
      <4>2. k \notin excused \/ t = "control"
        BY <1>2, <2>1, <2>7, <3>1, <3>3 DEF MainInv, Caller
      <4>3. stored'["direct_sampling"] = 0
        BY <1>1, <2>3, <2>4, <3>1, <3>3, <4>1, <4>2
      <4>5. Len(f) = 2 /\ f[2] = "gain_again"
        BY <1>6, <3>1, Zenon
      <4>4. 2 \in 1 .. Len(f) /\ f[2] = "gain_again"
        BY <4>5
      <4> QED BY <4>3, <4>4, <3>3, <1>1, <1>2, <1>3, <1>6, PendingNew
    <3> QED BY <3>1, <3>2, <3>3
  <2> QED BY <2>8, <2>9
<1> QED BY <1>9, <1>11, <1>12, <1>13 DEF FollowInv

(* With a failed call its setting, and what was to follow it, is excused.   *)
LEMMA FailKeeps ==
  ASSUME Followed, FollowInv, NEW t \in Caller, failCall(t)
  PROVE  FollowInv'
<1> DEFINE k == Head(calls[t])
<1>1. /\ Live /\ loaded[t] # NotRead
      /\ UNCHANGED <<kind, run, handle, stored>>
      /\ stage' = IF t = "main" /\ k # "settings" THEN "exited" ELSE stage
      /\ calls' = [calls EXCEPT ![t] = IF k = "settings" THEN Tail(calls[t]) ELSE << >>]
      /\ loaded' = [loaded EXCEPT ![t] = NotRead]
      /\ dev' \in {dev, [dev EXCEPT ![k] = 0]}
      /\ excused \subseteq excused' /\ Touched(k) \subseteq excused'
      /\ "gain_again" \in ToSet(calls[t]) => "rf_gain" \in excused'
      /\ excused' \subseteq excused \union Touched(k) \union {"rf_gain"}
  BY DEF failCall, Advance
<1>2. CallsOK /\ MainInv /\ ControlInv /\ Follows
  BY DEF FollowInv
<1>3. calls[t] # << >> /\ k \in Settings /\ k \in Touched(k)
  BY <1>1, <1>2 DEF CallsOK, Touched
<1>4. Has(k) /\ "gain_again" \notin Settings
  BY <1>2, <1>3, FirstCall DEF Followed
<1>5. calls[t] \in Seq(Step) /\ << >> \in Seq(Step) /\ Len(<< >>) = 0
      /\ Tail(calls[t]) = << >> \o Tail(calls[t]) /\ DOMAIN << >> = {}
  BY <1>2, <1>3, Dropped DEF CallsOK
<1>6. \A i \in DOMAIN calls[t] : calls[t][i] # "gain_again" \/ "rf_gain" \in excused'
  BY <1>1 DEF ToSet
<1> HIDE DEF k
<1>7. /\ \A u \in Caller : u # t => calls'[u] = calls[u] /\ loaded'[u] = loaded[u]
      /\ loaded'[t] = NotRead
      /\ k # "settings" => calls'[t] = << >>
  BY <1>1, <1>2 DEF CallsOK
<1>8. /\ calls' \in [Caller -> Seq(Step)]
      /\ (\A u \in Caller : \A i \in DOMAIN calls[u] : Fine(calls[u][i]))'
      /\ \A i \in DOMAIN calls'["control"] : i > 1 => calls'["control"][i] = "gain_again"
  <2>0. UNCHANGED kind
    BY <1>1
  <2>1. CASE k = "settings"
    <3>1. calls' = [calls EXCEPT ![t] = << >> \o Tail(calls[t])]
      BY <1>1, <1>5, <2>1
    <3>2. \A i \in 1 .. Len(<< >>) : Fine(<< >>[i]) /\ (i > 1 => << >>[i] = "gain_again")
      BY <1>5
    <3> QED BY <1>2, <1>3, <1>5, <2>0, <3>1, <3>2, CallsKept
  <2>2. CASE k # "settings"
    <3>1. calls' \in [Caller -> Seq(Step)]
      BY <1>1, <1>2, <1>5, <2>2 DEF CallsOK
    <3>2. \A n : Fine(n)' <=> Fine(n)
      BY <2>0 DEF Fine, Has
    <3>3. \A u \in Caller : \A i \in DOMAIN calls'[u] : i \in DOMAIN calls[u] /\ calls'[u][i] = calls[u][i]
      BY <1>5, <1>7, <2>2
    <3>4. \A u \in Caller : \A i \in DOMAIN calls'[u] : Fine(calls'[u][i])
      BY <1>2, <3>3 DEF CallsOK
    <3> QED BY <1>2, <3>1, <3>2, <3>3, <3>4 DEF ControlInv, Caller
  <2> QED BY <2>1, <2>2
<1>9. CallsOK'
  <2>1. loaded' \in [Caller -> Int] /\ dev' \in [Settings -> Int]
    BY <1>1, <1>2 DEF CallsOK, NotRead
  <2>2. \A u \in Caller : loaded'[u] # NotRead => calls'[u] # << >> /\ Head(calls'[u]) \in Settings
    BY <1>2, <1>7 DEF CallsOK
  <2>3. stored' \in [Settings -> Int] /\ \A i \in Settings : stored'[i] = Dangling => i = "rf_gain"
    BY <1>1, <1>2 DEF CallsOK
  <2> QED BY <1>1, <1>2, <1>8, <2>1, <2>2, <2>3 DEF CallsOK
<1>10. MainInv'
  <2>1. "direct_sampling" \in excused' => "direct_sampling" \in excused \/ "rf_gain" \in excused'
    BY <1>1 DEF Touched
  <2>2. CASE t = "main"
    BY <1>1, <1>2, <1>3, <1>7, <2>1, <2>2 DEF MainInv, Live
  <2>3. CASE t # "main"
    BY <1>1, <1>2, <1>7, <2>1, <2>3 DEF MainInv, Caller
  <2> QED BY <2>2, <2>3
<1>11. ControlInv'
  <2>1. CASE t = "control"
    BY <1>1, <1>2, <1>3, <1>7, <1>8, <2>1 DEF ControlInv, Live
  <2>2. CASE t # "control"
    BY <1>1, <1>2, <1>7, <1>8, <2>2 DEF ControlInv, Caller, Live
  <2> QED BY <2>1, <2>2
<1>12. Follows'
  <2> SUFFICES ASSUME stage' \in {"setup", "read"}, NEW i \in Settings \ excused', Has(i),
                      stored[i] \notin {Unset, Dangling, dev'[i]}, ~Lost(i)'
               PROVE  Pending(i)'
    <3>1. (\A n \in Settings : Has(n)' <=> Has(n)) /\ UNCHANGED stored
      BY <1>1 DEF Has
    <3> QED BY <3>1 DEF Follows
  <2>1. /\ stage' = stage /\ i \notin excused /\ i # k
        /\ t = "main" => k = "settings"
    BY <1>1, <1>3
  <2>2. dev'[i] = dev[i]
    BY <1>1, <1>2, <2>1 DEF CallsOK
  <2>3. Pending(i)
    BY <1>1, <1>2, <2>1, <2>2 DEF Follows, Lost
  <2>4. CASE k = "settings"
    <3>1. calls' = [calls EXCEPT ![t] = << >> \o Tail(calls[t])]
      BY <1>1, <1>5, <2>4
    <3>2. Head(calls[t]) # i /\ Head(calls[t]) # "gain_again"
      BY <1>4, <1>3, <2>1 DEF k
    <3> QED BY <1>1, <1>2, <1>3, <1>5, <2>3, <3>1, <3>2, PendingKept
  <2>5. CASE k # "settings"
    <3>1. PICK u \in Caller : \E n \in DOMAIN calls[u] :
            \/ calls[u][n] = i
            \/ i = "rf_gain" /\ calls[u][n] = "gain_again" /\ stored["direct_sampling"] = 0
      BY <2>3 DEF Pending
    <3>2. CASE u = t
      <4>1. t = "control"
        BY <2>1, <2>5 DEF Caller
      <4>2. PICK n \in DOMAIN calls[t] :
              calls[t][n] = i \/ (i = "rf_gain" /\ calls[t][n] = "gain_again")
        BY <3>1, <3>2
      <4>3. i # "gain_again" /\ (i = "rf_gain" => calls[t][n] # "gain_again")
        BY <1>4, <1>6
      <4>4. n = 1
        <5>1. DOMAIN calls[t] = 1 .. Len(calls[t]) /\ Len(calls[t]) \in Nat
          BY <1>5, LenProperties
        <5> QED BY <1>2, <4>1, <4>2, <4>3, <5>1 DEF ControlInv
      <4>5. calls[t][1] = k
        BY <1>3, <1>5, HeadTailProperties DEF k
      <4> QED BY <2>1, <4>2, <4>3, <4>4, <4>5
    <3>3. CASE u # t
      BY <1>1, <1>7, <3>1, <3>3 DEF Pending
    <3> QED BY <3>2, <3>3
  <2> QED BY <2>4, <2>5
<1> QED BY <1>9, <1>10, <1>11, <1>12 DEF FollowInv

(* A change waits in the control thread, with its value.                    *)
LEMMA ChangeKeeps ==
  ASSUME Followed, FollowInv, Live, calls["control"] = << >>, NEW k, Has(k),
         NEW v \in Value(k), k # "rf_gain" => stored["rf_gain"] # Dangling, Change(k, v)
  PROVE  FollowInv'
<1>1. /\ UNCHANGED <<kind, stage, run, handle, dev>>
      /\ stored' = [stored EXCEPT ![k] = v]
      /\ calls' = [calls EXCEPT !["control"] = <<k>>]
      /\ loaded' = [loaded EXCEPT !["control"] = v]
      /\ excused' = IF stage = "read" THEN excused ELSE excused \union Touched(k)
  BY DEF Change, Advance
<1>2. CallsOK /\ MainInv /\ ControlInv /\ Follows
  BY DEF FollowInv
<1>3. k \in Settings /\ v \in {0, 1, 2} /\ k # "gain_again" /\ Fine(k) /\ "rf_gain" \in Settings
      /\ k \in Touched(k)
  BY DEF Has, Value, Followed, Fine, Touched
<1>4. /\ <<k>> \in Seq(Step) /\ DOMAIN <<k>> = {1} /\ <<k>>[1] = k
      /\ <<k>> # << >> /\ Head(<<k>>) = k
  BY <1>3 DEF Step
<1>5. /\ calls'["main"] = calls["main"] /\ loaded'["main"] = loaded["main"]
      /\ calls'["control"] = <<k>> /\ loaded'["control"] = v
      /\ calls' \in [Caller -> Seq(Step)] /\ loaded' \in [Caller -> Int]
  BY <1>1, <1>2, <1>3, <1>4 DEF CallsOK, Caller
<1>6. /\ stored' \in [Settings -> Int] /\ stored'[k] = v
      /\ \A i \in Settings : i # k => stored'[i] = stored[i]
  BY <1>1, <1>2, <1>3 DEF CallsOK
<1>7. CallsOK'
  <2>1. \A n : Fine(n)' <=> Fine(n)
    BY <1>1 DEF Fine, Has
  <2>2. \A u \in Caller : \A i \in DOMAIN calls'[u] : Fine(calls'[u][i])
    BY <1>2, <1>3, <1>4, <1>5 DEF CallsOK, Caller
  <2>3. \A u \in Caller : loaded'[u] # NotRead => calls'[u] # << >> /\ Head(calls'[u]) \in Settings
    BY <1>2, <1>3, <1>4, <1>5 DEF CallsOK, Caller
  <2>4. \A i \in Settings : stored'[i] = Dangling => i = "rf_gain"
    BY <1>2, <1>3, <1>6 DEF CallsOK, Dangling
  <2>5. dev' \in [Settings -> Int]
    BY <1>1, <1>2 DEF CallsOK
  <2> QED BY <1>1, <1>2, <1>5, <1>6, <2>1, <2>2, <2>3, <2>4, <2>5 DEF CallsOK
<1>8. MainInv'
  <2>1. loaded["main"] # NotRead => Head(calls["main"]) \in Settings
    BY <1>2 DEF CallsOK, Caller
  <2>2. stage = "setup" => Touched(k) \subseteq excused' /\ excused \subseteq excused'
        /\ ("direct_sampling" \in excused' => "direct_sampling" \in excused \/ "rf_gain" \in excused')
    BY <1>1 DEF Touched
  <2> QED BY <1>1, <1>2, <1>3, <1>5, <1>6, <2>1, <2>2 DEF MainInv
<1>9. ControlInv'
  <2>1. stored'["rf_gain"] # Dangling
    BY <1>3, <1>6 DEF Dangling
  <2> QED BY <1>1, <1>4, <1>5, <1>6, <2>1 DEF ControlInv, Live
<1>10. Follows'
  <2> SUFFICES ASSUME stage \in {"setup", "read"}, NEW i \in Settings \ excused', Has(i),
                      stored'[i] \notin {Unset, Dangling, dev[i]}, ~Lost(i)
               PROVE  Pending(i)'
    <3>1. /\ \A n \in Settings : (Has(n)' <=> Has(n)) /\ (Lost(n)' <=> Lost(n))
          /\ UNCHANGED <<stage, dev>>
      BY <1>1 DEF Has, Lost
    <3> QED BY <3>1 DEF Follows
  <2>1. CASE i = k
    BY <1>4, <1>5, <2>1 DEF Pending, Caller
  <2>2. CASE i # k
    <3>1. i \notin excused
      BY <1>1
    <3>2. Pending(i)
      BY <1>2, <1>6, <2>2, <3>1 DEF Follows
    <3>3. PICK n \in DOMAIN calls["main"] :
            \/ calls["main"][n] = i
            \/ i = "rf_gain" /\ calls["main"][n] = "gain_again" /\ stored["direct_sampling"] = 0
      <4>1. DOMAIN calls["control"] = {}
        OBVIOUS
      <4> QED BY <3>2, <4>1 DEF Pending, Caller
    <3>4. stage = "setup"
      <4>1. DOMAIN << >> = {}
        OBVIOUS
      <4> QED BY <1>2, <3>3, <4>1 DEF MainInv
    <3>5. i = "rf_gain" => k # "direct_sampling"
      BY <1>1, <3>4 DEF Touched
    <3>6. i = "rf_gain" /\ calls["main"][n] = "gain_again" => stored'["direct_sampling"] = stored["direct_sampling"]
      <4>1. calls["main"][n] = "gain_again" => "direct_sampling" \in Settings
        BY <1>2, <3>3 DEF CallsOK, Caller, Fine, Has
      <4> QED BY <1>6, <3>5, <4>1
    <3>7. n \in DOMAIN calls'["main"] /\ calls'["main"][n] = calls["main"][n]
      BY <1>5, <3>3
    <3> QED BY <3>3, <3>6, <3>7 DEF Pending, Caller
  <2> QED BY <2>1, <2>2
<1> QED BY <1>7, <1>8, <1>9, <1>10 DEF FollowInv

(* Between "delete gain" and the new one nothing is promised of the gain.   *)
LEMMA DeleteKeeps ==
  ASSUME Followed, FollowInv, deleteGain
  PROVE  FollowInv'
<1>1. /\ Live /\ BetweenLines
      /\ UNCHANGED <<kind, stage, run, handle, dev, calls>>
      /\ stored' = [stored EXCEPT !["rf_gain"] = Dangling]
      /\ loaded' = [loaded EXCEPT !["main"] =
           IF loaded["main"] # NotRead /\ Head(calls["main"]) = "rf_gain"
           THEN Dangling ELSE loaded["main"]]
      /\ excused' = IF stage = "read" THEN excused ELSE excused \union {"rf_gain"}
  BY DEF deleteGain
<1>2. CallsOK /\ MainInv /\ ControlInv /\ Follows
  BY DEF FollowInv
<1>3. "rf_gain" \in Settings /\ "gain_again" \notin Settings /\ calls["control"] = << >>
  BY <1>1 DEF Followed, BetweenLines
<1>4. /\ stored' \in [Settings -> Int] /\ stored'["rf_gain"] = Dangling
      /\ \A i \in Settings : i # "rf_gain" => stored'[i] = stored[i]
  BY <1>1, <1>2, <1>3 DEF CallsOK, Dangling
<1>5. /\ loaded' \in [Caller -> Int] /\ loaded'["control"] = loaded["control"]
      /\ loaded'["main"] # NotRead => loaded["main"] # NotRead
      /\ loaded["main"] # NotRead /\ Head(calls["main"]) # "rf_gain" => loaded'["main"] = loaded["main"]
  BY <1>1, <1>2 DEF CallsOK, Caller, Dangling, NotRead
<1>6. loaded["control"] = NotRead
  BY <1>2, <1>3 DEF CallsOK, Caller
<1>7. CallsOK'
  <2>1. \A n : Fine(n)' <=> Fine(n)
    BY <1>1 DEF Fine, Has
  <2>2. \A u \in Caller : \A i \in DOMAIN calls'[u] : Fine(calls'[u][i])
    BY <1>1, <1>2 DEF CallsOK
  <2>3. \A u \in Caller : loaded'[u] # NotRead => calls'[u] # << >> /\ Head(calls'[u]) \in Settings
    BY <1>1, <1>2, <1>5 DEF CallsOK, Caller
  <2>4. \A i \in Settings : stored'[i] = Dangling => i = "rf_gain"
    BY <1>2, <1>4 DEF CallsOK
  <2>5. dev' \in [Settings -> Int] /\ calls' \in [Caller -> Seq(Step)]
    BY <1>1, <1>2 DEF CallsOK
  <2> QED BY <1>1, <1>2, <1>4, <1>5, <2>1, <2>2, <2>3, <2>4, <2>5 DEF CallsOK
<1>8. MainInv'
  <2>1. loaded["main"] # NotRead => Head(calls["main"]) \in Settings
    BY <1>2 DEF CallsOK, Caller
  <2>2. stage = "setup" => "rf_gain" \in excused' /\ excused \subseteq excused'
    BY <1>1
  <2> QED BY <1>1, <1>2, <1>4, <1>5, <2>1, <2>2 DEF MainInv
<1>9. ControlInv'
  BY <1>1, <1>2, <1>3, <1>5, <1>6 DEF ControlInv, Live
<1>10. Follows'
  <2> SUFFICES ASSUME stage \in {"setup", "read"}, NEW i \in Settings \ excused', Has(i),
                      stored'[i] \notin {Unset, Dangling, dev[i]}, ~Lost(i)
               PROVE  Pending(i)'
    <3>1. /\ \A n \in Settings : (Has(n)' <=> Has(n)) /\ (Lost(n)' <=> Lost(n))
          /\ UNCHANGED <<stage, dev>>
      BY <1>1 DEF Has, Lost
    <3> QED BY <3>1 DEF Follows
  <2>1. i # "rf_gain" /\ i \notin excused
    BY <1>1, <1>4
  <2>2. Pending(i)
    BY <1>2, <1>4, <2>1 DEF Follows
  <2> QED BY <1>1, <2>1, <2>2 DEF Pending
<1> QED BY <1>7, <1>8, <1>9, <1>10 DEF FollowInv

(* A device that was opened has to be set up completely.                    *)
LEMMA OpenKeeps ==
  ASSUME Followed, FollowInv, open
  PROVE  FollowInv'
<1>1. stage = "open" /\ UNCHANGED <<kind, run, stored, loaded>>
  BY DEF open
<1>2. CallsOK /\ MainInv /\ ControlInv
  BY DEF FollowInv
<1>3. calls["main"] = << >> /\ loaded["main"] = NotRead
  BY <1>1, <1>2 DEF MainInv, CallsOK, Caller
<1>4. CASE stage' = "exited" /\ UNCHANGED <<handle, dev, calls, excused>>
  BY <1>1, <1>2, <1>3, <1>4 DEF FollowInv, CallsOK, MainInv, ControlInv, Follows, Lost, Fine, Has
<1>5. CASE /\ stage' = "setup" /\ dev' = [k \in Settings |-> 0]
           /\ calls' = [calls EXCEPT !["main"] = Order] /\ excused' = {}
  <2>1. PICK s : s = Order
    OBVIOUS
  <2>2. s \in Seq(Kept) /\ \A k \in Kept : In(k, s)
    BY <2>1, OrderComplete
  <2>3. Kept \subseteq Step
    BY DEF Kept, Step
  <2>4. s \in Seq(Step) /\ DOMAIN s = 1 .. Len(s) /\ \A i \in DOMAIN s : s[i] \in Kept
    <3>1. s \in Seq(Step)
      BY <2>2, <2>3, SeqMonotonic
    <3> QED BY <2>2, <3>1, LenProperties, ElementOfSeq
  <2>5. \A k \in Kept : Has(k) /\ k # "gain_again"
    BY DEF Kept, Followed
  <2>6. calls' \in [Caller -> Seq(Step)] /\ calls'["main"] = s /\ calls'["control"] = calls["control"]
    BY <1>2, <1>5, <2>1, <2>4 DEF CallsOK, Caller
  <2>7. CallsOK'
    <3>1. \A n : Fine(n)' <=> Fine(n)
      BY <1>1 DEF Fine, Has
    <3>2. \A i \in DOMAIN s : Fine(s[i])
      BY <2>4, <2>5 DEF Fine
    <3>3. \A u \in Caller : \A i \in DOMAIN calls'[u] : Fine(calls'[u][i])
      BY <1>2, <2>6, <3>2 DEF CallsOK, Caller
    <3>4. \A u \in Caller : loaded'[u] # NotRead => calls'[u] # << >> /\ Head(calls'[u]) \in Settings
      BY <1>1, <1>2, <1>3, <2>6 DEF CallsOK, Caller
    <3>5. dev' \in [Settings -> Int]
      BY <1>5
    <3> QED BY <1>1, <1>2, <2>6, <3>1, <3>3, <3>4, <3>5 DEF CallsOK
  <2>8. MainInv'
    BY <1>1, <1>3, <1>5 DEF MainInv
  <2>9. ControlInv'
    BY <1>1, <1>2, <1>5, <2>6 DEF ControlInv
  <2>10. Follows'
    <3> SUFFICES ASSUME NEW k \in Settings, Has(k)
                 PROVE  Pending(k)'
      <4>1. \A n \in Settings : Has(n)' <=> Has(n)
        BY <1>1 DEF Has
      <4> QED BY <4>1 DEF Follows
    <3>1. \E i \in DOMAIN s : s[i] = k
      BY <2>2, <2>4 DEF Kept, In
    <3> QED BY <2>6, <3>1 DEF Pending, Caller
  <2> QED BY <2>7, <2>8, <2>9, <2>10 DEF FollowInv
<1> QED BY <1>4, <1>5 DEF open

(* The other steps call nothing.                                            *)
LEMMA OthersKeep ==
  ASSUME Followed, FollowInv,
         \/ parseArguments \/ startRead \/ lose \/ finishRead \/ closeDevice \/ sleep \/ signal
         \/ \E t \in Caller : crash(t)
         \/ invalidValue \/ UNCHANGED cvars
  PROVE  FollowInv'
<1>1. CallsOK /\ MainInv /\ ControlInv /\ Follows
  BY DEF FollowInv
<1>2. CASE parseArguments
  <2>1. /\ UNCHANGED <<kind, dev, calls, loaded, excused>>
        /\ stage = "start" /\ stage' \in {"open", "exited"}
        /\ stored' \in [Settings -> {-1, 1, 2} \union {0, 1}]
    BY <1>2 DEF parseArguments, Unset, Value
  <2>2. stored' \in [Settings -> Int] /\ \A k \in Settings : stored'[k] # Dangling
    BY <2>1 DEF Dangling
  <2>3. CallsOK'
    BY <1>1, <2>1, <2>2 DEF CallsOK, Fine, Has
  <2>4. calls["main"] = << >> /\ calls["control"] = << >>
        /\ loaded["main"] = NotRead /\ loaded["control"] = NotRead
    BY <1>1, <2>1 DEF MainInv, ControlInv, CallsOK, Caller
  <2> QED BY <2>1, <2>3, <2>4 DEF FollowInv, MainInv, ControlInv, Follows
<1>3. CASE startRead \/ lose \/ finishRead \/ closeDevice \/ sleep \/ signal \/ invalidValue
           \/ \E t \in Caller : crash(t)
  <2>1. /\ UNCHANGED <<kind, stored, dev, calls, loaded, excused>>
        /\ stage # "start" /\ stage' # "start" /\ (stage' # "setup" \/ stage' = stage)
        /\ stage' = "read" => stage \in {"setup", "read"}
        /\ stage' \notin {"setup", "crashed"} => calls["main"] = << >>
    BY <1>1, <1>3 DEF startRead, lose, finishRead, closeDevice, sleep, signal, invalidValue, crash,
                      rest, Live, MainInv
  <2> QED BY <1>1, <2>1 DEF FollowInv, CallsOK, MainInv, ControlInv, Follows,
      Lost, Pending, Fine, Has
<1>4. CASE UNCHANGED cvars
  BY <1>1, <1>4 DEF cvars, rest, FollowInv, CallsOK, MainInv, ControlInv, Follows,
      Lost, Pending, Fine, Has
<1> QED BY <1>2, <1>3, <1>4

(* FollowInv holds of every behaviour of the connector.                     *)
THEOREM FollowInvHolds ==
  ASSUME Followed
  PROVE  ConnectorSpec => []FollowInv
<1>1. ConnectorInit => FollowInv
  BY EmptySeq DEF ConnectorInit, FollowInv, CallsOK, MainInv, ControlInv, Follows, Caller,
                  Dangling, NotRead
<1>2. ASSUME FollowInv, [ConnectorNext]_cvars PROVE FollowInv'
  <2>1. ASSUME NEW t \in Caller, load(t) PROVE FollowInv'
    BY <1>2, <2>1, LoadKeeps
  <2>2. ASSUME NEW t \in Caller, callDevice(t) PROVE FollowInv'
    BY <1>2, <2>2, CallKeeps
  <2>3. ASSUME NEW t \in Caller, failCall(t) PROVE FollowInv'
    BY <1>2, <2>3, FailKeeps
  <2>4. ASSUME NEW k \in Settings, NEW v \in Value(k), applyChange(k, v) PROVE FollowInv'
    BY <1>2, <2>4, ChangeKeeps DEF applyChange, BetweenLines
  <2>5. ASSUME NEW v \in Value("rf_gain"), parseGain(v) PROVE FollowInv'
    <3>1. Live /\ stored["rf_gain"] = Dangling /\ Change("rf_gain", v)
      BY <2>5 DEF parseGain
    <3>2. calls["control"] = << >> /\ Has("rf_gain")
      BY <1>2, <3>1 DEF FollowInv, ControlInv, Has, Followed
    <3> QED BY <1>2, <3>1, <3>2, ChangeKeeps
  <2> QED BY <1>2, <2>1, <2>2, <2>3, <2>4, <2>5, OpenKeeps, DeleteKeeps, OthersKeep
          DEF ConnectorNext
<1> QED BY <1>1, <1>2, PTL DEF ConnectorSpec

(* While the device is read and no change is under way, it works with the   *)
(* settings of the connector, for any settings that are followed            *)
(* (connector.cpp, the applyChange() and setup() of its kinds); but for the *)
(* frequency and the gain that rtl_tcp loses with the sampling mode.        *)
THEOREM DeviceAlwaysFollows ==
  ASSUME Followed
  PROVE  ConnectorSpec => []DeviceFollows
<1>1. FollowInv => DeviceFollows
  <2> SUFFICES ASSUME FollowInv, stage = "read", BetweenLines, NEW k \in Settings \ excused, Has(k)
               PROVE  stored[k] \in {Unset, dev[k]} \/ Lost(k)
    BY DEF DeviceFollows
  <2>1. calls["main"] = << >> /\ calls["control"] = << >>
    BY DEF FollowInv, MainInv, BetweenLines
  <2>2. ~Pending(k)
    <3>1. DOMAIN << >> = {}
      OBVIOUS
    <3> QED BY <2>1, <3>1 DEF Pending, Caller
  <2>3. stored[k] # Dangling
    BY DEF FollowInv, CallsOK, BetweenLines
  <2> QED BY <2>2, <2>3 DEF FollowInv, Follows
<1> QED BY <1>1, FollowInvHolds, PTL
=============================================================================

---------------------------- MODULE LossyStream ----------------------------
(* What a csdr ring buffer promises its readers, without positions: each    *)
(* reader is behind the writer by some number of items.  A write puts every *)
(* reader the same number of items further behind, or, where that makes a   *)
(* whole buffer of Length items, takes exactly this buffer away.  Only a    *)
(* reader itself catches up, by what it found when it began to read; if the *)
(* writer came around meanwhile, it is a buffer less behind than it was     *)
(* told, but never a part of one.                                           *)
EXTENDS Integers

CONSTANTS Client, Length, Absent

VARIABLES
  behind,     \* Of each client, or Absent while it reads nothing.
  taking      \* The items it found when it began to read, while it does.

vars == <<behind, taking>>

Behind == 0 .. Length - 1

Init == /\ behind = [c \in Client |-> Absent]
        /\ taking = [c \in Client |-> 0]

Write(n) ==
  /\ behind' = [c \in Client |->
                  IF behind[c] = Absent THEN Absent
                  ELSE IF behind[c] + n < Length THEN behind[c] + n
                       ELSE behind[c] + n - Length]
  /\ UNCHANGED taking

Begin(c) ==
  /\ behind[c] # Absent
  /\ taking' = [taking EXCEPT ![c] = behind[c]]
  /\ UNCHANGED behind

End(c) ==
  /\ behind[c] # Absent
  /\ behind' = [behind EXCEPT ![c] = IF taking[c] <= @ THEN @ - taking[c]
                                     ELSE @ + Length - taking[c]]
  /\ taking' = [taking EXCEPT ![c] = 0]

Join(c) ==
  /\ behind[c] = Absent
  /\ behind' = [behind EXCEPT ![c] = 0]
  /\ UNCHANGED taking

\* A client leaves when it has found nothing more to read.
Leave(c) ==
  /\ behind[c] = 0
  /\ behind' = [behind EXCEPT ![c] = Absent]
  /\ UNCHANGED taking

\* Most of what happens is not about the stream.
Next == \/ UNCHANGED vars
        \/ \E n \in Behind : Write(n)
        \/ \E c \in Client : Begin(c) \/ End(c) \/ Join(c) \/ Leave(c)

Spec == Init /\ [][Next]_vars
=============================================================================

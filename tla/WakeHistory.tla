---------------------------- MODULE WakeHistory ----------------------------
(***************************************************************************)
(* WakeHandshake with the history that says what an answer is worth, and   *)
(* the handshake as an implementation of PollOnRequest for as long as no   *)
(* handler asks while another one waits. Once two have waited together a   *)
(* flag may be left over, and answers the next request before any poll.    *)
(***************************************************************************)
EXTENDS WakeHandshake

VARIABLES
  polled,    \* the handlers for whom a poll ended since they asked
  ready,     \* a poll ended since workedEvent was last set
  overlap    \* a handler has asked while another one waited

history == <<polled, ready, overlap>>
hvars == <<vars, history>>

Waiting == {h \in Handler : hpc[h] \in {"towait", "blocked", "clear"}}

HTypeOK == TypeOK /\ polled \subseteq Handler /\ ready \in BOOLEAN /\ overlap \in BOOLEAN

HInit == Init /\ polled = {} /\ ready = FALSE /\ overlap = FALSE

HNext ==
  \/ PollDone /\ polled' = Handler /\ ready' = TRUE /\ UNCHANGED overlap
  \/ SetWorked /\ ready' = FALSE /\ UNCHANGED <<polled, overlap>>
  \/ \E h \in Handler : /\ Request(h) /\ polled' = polled \ {h} /\ UNCHANGED ready
                        /\ overlap' = (overlap \/ Waiting # {})
  \/ /\ \/ LeaveWait \/ PollRaises \/ CheckWake \/ ClearWake \/ Shutdown
        \/ \E h \in Handler : EnterWait(h) \/ ClearWorked(h) \/ Finish(h)
     /\ UNCHANGED history

HSpec == HInit /\ [][HNext]_hvars
----------------------------------------------------------------------------
(* Properties.                                                             *)

\* The flag workedEvent is up only for a handler that is there to take it
\* down: it never answers a request of the future.
NoStaleSignal ==
  doRun /\ ~overlap /\ worked => \E h \in Handler : hpc[h] \in {"towait", "clear"}

\* As long as the poll thread lives, a request is answered; unless two
\* handlers have waited together and nobody asks any more. One of them may
\* take down the flag that was meant for both while its wakeEvent has been
\* cleared already (receivestate.py:33-34, 52-53): the other one waits until
\* the next request, which may never come.
RequestAnswered ==
  \A h \in Handler :
    hpc[h] = "towait" ~>
      (hpc[h] = "answered" \/ ~doRun \/ ppc = "dead" \/ (overlap /\ []~wake))

\* "Always update current state before deciding, so that newest data are
\* available" (controllers/assets.py): a poll ended since the handler asked.
\* It fails of a lone handler already: a request that comes after a 30 s
\* poll ended, and before the thread looks at the flag, is answered by it.
UpdateBeforeAnswer ==
  doRun => \A h \in Handler : hpc[h] = "answered" => h \in polled

\* PollOnRequest's view of a handler: it is served from the moment the flag
\* workedEvent is up for it until it takes the flag down.
req == [h \in Handler |->
          CASE hpc[h] \in {"idle", "answered"} -> "idle"
            [] hpc[h] = "clear" -> "served"
            [] hpc[h] \in {"towait", "blocked"} ->
                 IF worked THEN "served" ELSE "asked"]
Abstract == INSTANCE PollOnRequest WITH req <- req, ready <- ready

\* Up to shutdown() the handshake implements PollOnRequest: a handler is
\* served once for each request, from a poll no other answer used.
ImplementsPollOnRequest ==
  /\ Abstract!Init
  /\ [][doRun' /\ ~overlap' => Abstract!Next \/ UNCHANGED <<req, ready>>]_hvars
=============================================================================

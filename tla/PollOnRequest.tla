--------------------------- MODULE PollOnRequest ---------------------------
(***************************************************************************)
(* What ReceiveServersStateThread.wake_and_wait_until_thread_works         *)
(* promises the HTTP handlers at least: everybody who asks is served, once,*)
(* stays served until it goes on, and no two rounds of serving rest on the *)
(* same poll of the servers.                                               *)
(***************************************************************************)
CONSTANT Handler        \* the HTTP handler threads

VARIABLES
  req,                  \* per handler: "idle", "asked" or "served"
  ready                 \* a poll ended since somebody was last served

Init == req = [h \in Handler |-> "idle"] /\ ready = FALSE

Ask(h) ==
  /\ req[h] = "idle"
  /\ req' = [req EXCEPT ![h] = "asked"]
  /\ UNCHANGED ready

\* A poll of all servers ends.
Poll == ready' = TRUE /\ UNCHANGED req

\* Everybody who asked by now is served.
Serve ==
  /\ ready
  /\ \E h \in Handler : req[h] = "asked"
  /\ req' = [h \in Handler |-> IF req[h] = "asked" THEN "served" ELSE req[h]]
  /\ ready' = FALSE

GoOn(h) ==
  /\ req[h] = "served"
  /\ req' = [req EXCEPT ![h] = "idle"]
  /\ UNCHANGED ready

Next == Poll \/ Serve \/ \E h \in Handler : Ask(h) \/ GoOn(h)

Spec == Init /\ [][Next]_<<req, ready>>
=============================================================================

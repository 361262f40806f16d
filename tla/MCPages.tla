------------------------------ MODULE MCPages -------------------------------
(* The settings pages of both programs against what they change, for TLC; a *)
(* behaviour runs one of them: the servers of the load balancer, with its   *)
(* poll and a deciding browser; or an SDR source with a browser and a       *)
(* process that may crash. In place of the settings page that disables the  *)
(* source there may be a full queue that closes the browser's connection.   *)
EXTENDS MCLoadBalancer, SdrSource, TLC

VARIABLE machine

\* What a behaviour does not run never starts.
PagesInit ==
  /\ machine \in {"servers", "source", "queue"}
  /\ Init /\ SourceInit
  /\ machine # "servers" => up = [s \in Server |-> TRUE]

PagesNext ==
  /\ machine' = machine
  /\ \/ machine = "servers" /\ Next /\ UNCHANGED sourceVars
     \/ /\ machine # "servers" /\ SourceNext /\ UNCHANGED vars
        /\ \A t \in IF machine = "source" THEN Sender ELSE Page :
             pc'[t] = "idle" /\ stack'[t] = <<>>

\* Two administrators do the same things; no liveness is checked here.
AdminSymmetry == Permutations(Admin)

PagesSpec == PagesInit /\ [][PagesNext]_<<machine, vars, sourceVars>>
=============================================================================

----------------------------- MODULE MCService ------------------------------
(* The programs at work, for TLC; a behaviour runs one of them: the load    *)
(* balancer with a deciding browser; an SDR source whose processes do not   *)
(* crash, with one browser; or the connector that the source starts.        *)
EXTENDS MCLoadBalancer, SdrSource, Connector

VARIABLE machine

\* The load balancer of a behaviour that does not run it: the poll thread has
\* died, so that neither fairness nor a property asks anything of it.
NoBalancer ==
  /\ wake = FALSE /\ worked = FALSE /\ doRun = TRUE /\ ppc = "dead"
  /\ hpc = [h \in Handler |-> "idle"]
  /\ phase = "rest" /\ start = {} /\ seen = {} /\ todo = {} /\ need = {}
  /\ resp = NoAnswers /\ inits = NoAnswers /\ depth = 0 /\ raised = "" /\ lock = "free"
  /\ keys = {} /\ info = [s \in Server |-> NewEntry] /\ config = {} /\ gone = {}
  /\ op = [h \in Handler |-> NoOp]
  /\ scan = [h \in Client |-> NoScan] /\ reply = [h \in Client |-> ""]
  /\ up = [s \in Server |-> FALSE]
  /\ conf = [s \in Server |-> 1] /\ tag = [s \in Server |-> 1]

\* What a behaviour does not run never starts.
ServiceInit ==
  /\ machine \in {"balancer", "source", "connector"}
  /\ IF machine = "balancer" THEN Init ELSE NoBalancer
  /\ SourceInit /\ ConnectorInit
  /\ machine # "connector" => kind = "rtl"

ServiceNext ==
  /\ machine' = machine
  /\ \/ machine = "balancer" /\ Next /\ UNCHANGED <<sourceVars, cvars>>
     \/ machine = "source" /\ SourceNext /\ UNCHANGED <<vars, cvars>>
     \/ machine = "connector" /\ ConnectorNext /\ UNCHANGED <<vars, sourceVars>>

\* Fairness asks nothing of what nobody starts.
ServiceSpec ==
  ServiceInit /\ [][ServiceNext]_<<machine, vars, sourceVars, cvars>>
    /\ Fairness /\ SourceFairness /\ ConnectorFairness
=============================================================================

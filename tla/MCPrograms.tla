----------------------------- MODULE MCPrograms -----------------------------
(* Parts that share no state, for TLC; a behaviour runs one of them: the    *)
(* decision of the load balancer; the path of the samples of a device to    *)
(* OpenWebRX, and nmux; the blocks of csdr, and the chains they are put     *)
(* into; the websocket connection to a browser, which the browser, a pump,  *)
(* a failing socket and a page close.                                       *)
EXTENDS MCDecide, IqStream, Nmux, Blocks, Connection

\* What an uninitialised index may hold: a small one, a large one, none at all.
AnyIndex == {-8, 0, 40}

VARIABLE machine

CONSTANTS None, OutputRates, HdOutputRates

VARIABLES dsp, message, gap

Web == INSTANCE Dsp WITH todo <- message

webVars == <<dsp, message, gap>>

\* The machines that a behaviour does not run are not there, or are one of
\* their initial states and never start.
Absent ==
  /\ machine # "decide" => db = << >> /\ selected = None /\ failed_sdrs = {}
                           /\ answer = Unanswered
  /\ machine # "blocks" => block = Gain
  /\ machine # "dsp" => dsp = None /\ message = << >> /\ gap = {}

PInit ==
  /\ machine \in {"decide", "iq", "nmux", "blocks", "dsp", "connection"}
  /\ Absent
  /\ machine = "decide" => Init
  /\ IqInit /\ NmuxInit /\ BlocksInit /\ ConnInit
  /\ machine = "dsp" => Web!DspInit

PNext ==
  /\ machine' = machine
  /\ machine # "decide" => UNCHANGED vars
  /\ machine # "iq" => UNCHANGED ivars
  /\ machine # "nmux" => UNCHANGED nvars
  /\ machine # "blocks" => UNCHANGED bvars
  /\ machine # "dsp" => UNCHANGED webVars
  /\ machine # "connection" => UNCHANGED connVars
  /\ \/ machine = "decide" /\ Next
     \/ machine = "iq" /\ IqNext
     \/ machine = "nmux" /\ NmuxNext
     \/ machine = "blocks" /\ BlocksNext
     \/ machine = "dsp" /\ Web!DspNext
     \/ machine = "connection" /\ ConnNext

PSpec ==
  /\ PInit
  /\ [][PNext]_<<machine, vars, ivars, nvars, bvars, webVars, connVars>>

AudioFlows == machine = "dsp" => Web!AudioFlows
RatesAgree == machine = "dsp" => Web!RatesAgree
=============================================================================

----------------------------- MODULE Connector -----------------------------
(* A device connector (owrx_connector): the main thread opens the device,   *)
(* sets it up, reads it until it fails or a signal arrives, closes it and   *)
(* starts again; the thread of the control socket applies the changes that  *)
(* OpenWebRX sends, at any time, without a lock; signals call stop().       *)
(*                                                                          *)
(* The three programs differ in what a device handle is when the device is  *)
(* not open, in stop() and in set_direct_sampling().                        *)
EXTENDS Integers, Sequences, SequencesExt

CONSTANT Settings   \* Bound: the settings that are followed, of those in Order; the
                    \* frequency and the gain among them.

\* Values: two for each setting.  0 is what a device does by itself; the gain
\* 2 is one per stage of the tuner; -1 is a direct sampling mode not given.
Value(k) == IF k = "direct_sampling" THEN {0, 1} ELSE {1, 2}
Unset    == -1
Dangling == -2   \* A GainSpec that has been deleted.
NotRead  == -3

VARIABLES
  kind,     \* "rtl", "rtl_tcp" or "soapy".
  stage,    \* Where main() is: "start", "open", "setup", "read", "close", "sleep",
            \* "exited"; "crashed": the process was killed by its own doing.
  run,      \* Connector::run.
  stored,   \* The members of the connector: setting -> value.
  handle,   \* The device pointer or socket: "null", "open", "closed".
  dev,      \* The device: setting -> value in effect.
  calls,     \* The device calls before a thread, as settings.
  loaded,   \* The argument of its next call, once it is evaluated.
  excused   \* Settings with which a call failed, or that were changed while
            \* main() did not read: nothing is promised for them.

rest  == <<stored, dev, calls, loaded, excused>>
cvars == <<kind, stage, run, handle, rest>>

Caller == {"main", "control"}
Has(k) == k \in Settings /\ (k = "direct_sampling" => kind # "soapy")

\* The settings of setup(), in its order.
Only(k) == IF Has(k) THEN <<k>> ELSE << >>
Order   == Only("antenna") \o Only("center_freq") \o Only("samp_rate") \o Only("ppm")
           \o Only("rf_gain") \o Only("settings") \o Only("bias_tee")
           \o Only("direct_sampling")

Touched(k) == IF k = "direct_sampling" THEN {k, "center_freq", "rf_gain"} ELSE {k}
Live == stage \notin {"start", "exited", "crashed"}

ConnectorInit ==
  /\ kind \in {"rtl", "rtl_tcp", "soapy"}
  /\ stage = "start" /\ run = TRUE /\ handle = "null"
  /\ stored = [k \in Settings |-> 0]
  /\ dev = [k \in Settings |-> 0]
  /\ calls = [t \in Caller |-> << >>]
  /\ loaded = [t \in Caller |-> NotRead]
  /\ excused = {}
-----------------------------------------------------------------------------
(* main().                                                                  *)

\* parse_arguments() fills the members; usage, version or an argument that is
\* not known end the program.  Then the sockets are opened.
parseArguments ==
  /\ stage = "start"
  /\ stage' \in {"open", "exited"}
  /\ stored' \in [Settings -> {Unset, 1, 2} \union Value("direct_sampling")]
  /\ \A k \in Settings :
       stored'[k] \in Value(k) \union (IF k = "direct_sampling" THEN {Unset} ELSE {})
  /\ UNCHANGED <<kind, run, handle, dev, calls, loaded, excused>>

\* A device that is not found or cannot be opened ends the program.
open ==
  /\ stage = "open"
  /\ \/ /\ stage' = "setup" /\ handle' = "open"
        /\ dev' = [k \in Settings |-> 0]
        /\ calls' = [calls EXCEPT !["main"] = Order]
        /\ excused' = {}
     \/ stage' = "exited" /\ UNCHANGED <<handle, dev, calls, excused>>
  /\ UNCHANGED <<kind, run, stored, loaded>>

\* setup() is through.  Soapy may refuse the channel or the stream.
startRead ==
  /\ stage = "setup" /\ calls["main"] = << >>
  /\ stage' \in {"read"} \union (IF kind = "soapy" THEN {"exited"} ELSE {})
  /\ UNCHANGED <<kind, run, handle, rest>>

\* read() returns, with 0, when the device fails ...
lose ==
  /\ stage = "read" /\ run
  /\ stage' = "close"
  /\ UNCHANGED <<kind, run, handle, rest>>

\* Mutant: the loop of rtl_tcp's read() does not look at run.
FinishUnlessTcp ==
  /\ stage = "read" /\ ~run /\ kind # "rtl_tcp"
  /\ stage' = "close"
  /\ UNCHANGED <<kind, run, handle, rest>>

\* ... and with the next samples, the next timeout or the cancellation once
\* it has been stopped.
finishRead ==
  /\ stage = "read" /\ ~run
  /\ stage' = "close"
  /\ UNCHANGED <<kind, run, handle, rest>>

closeDevice ==
  /\ stage = "close"
  /\ handle' = IF kind = "soapy" THEN "null" ELSE "closed"
  /\ stage' \in {IF run THEN "sleep" ELSE "exited", "exited"}
  /\ UNCHANGED <<kind, run, rest>>

\* Five seconds, then the condition of the loop.
sleep ==
  /\ stage = "sleep"
  /\ stage' = IF run THEN "open" ELSE "exited"
  /\ UNCHANGED <<kind, run, handle, rest>>

\* handle_signal() and stop().  rtlsdr_cancel_async() fails unless a device
\* is read, and run stays as it is then; a closed device has been freed.
signal ==
  /\ Live
  /\ \/ /\ kind # "rtl" \/ stage = "read"
        /\ run' = FALSE /\ UNCHANGED stage
     \/ /\ kind = "rtl" /\ stage # "read" /\ handle = "closed"
        /\ stage' = "crashed" /\ UNCHANGED run
  /\ UNCHANGED <<kind, handle, rest>>
-----------------------------------------------------------------------------
(* Settings.  Both threads evaluate the member, then call the device.       *)

Advance(t, following) == calls' = [calls EXCEPT ![t] = following]

\* The argument of the next call.  setup() leaves a direct sampling mode out
\* that was not given; set_direct_sampling() sets the gain again in mode 0.
load(t) ==
  LET k == Head(calls[t]) IN
  /\ Live /\ calls[t] # << >> /\ loaded[t] = NotRead
  /\ IF \/ k = "direct_sampling" /\ stored[k] = Unset
        \/ k = "gain_again" /\ stored["direct_sampling"] # 0
     THEN Advance(t, Tail(calls[t])) /\ UNCHANGED loaded
     ELSE LET j == IF k = "gain_again" THEN "rf_gain" ELSE k
          IN  /\ Advance(t, <<j>> \o Tail(calls[t]))
              /\ loaded' = [loaded EXCEPT ![t] = stored[j]]
  /\ UNCHANGED <<kind, stage, run, handle, stored, dev, excused>>

\* rtl and rtl_tcp know no gain per stage.
Works(k, v) == handle = "open" /\ ~(k = "rf_gain" /\ v = 2 /\ kind # "soapy")

\* A null Device is called, a freed one used, or a gain that was deleted; the
\* rtl_tcp server has closed its end, and SIGPIPE is not ignored.
MayCrash(v) ==
  \/ v = Dangling
  \/ kind = "soapy" /\ handle = "null"
  \/ kind = "rtl" /\ handle = "closed"
  \/ kind = "rtl_tcp" /\ handle = "open"

\* The device (external): a change of the sampling mode loses the frequency
\* of an RTL-SDR, own or behind rtl_tcp, the way back to mode 0 its gain too.
Effect(k, v) ==
  [j \in Settings |->
     IF j = k THEN v
     ELSE IF k # "direct_sampling" THEN dev[j]
     ELSE IF j = "center_freq" \/ (j = "rf_gain" /\ v = 0) THEN 0 ELSE dev[j]]

\* Mutant: the frequency is not set again.
FollowingGain(k) ==
  IF k = "direct_sampling" /\ kind = "rtl" THEN <<"gain_again">> ELSE << >>

\* What set_direct_sampling() does after the mode: for rtl_tcp, nothing.
Following(k) == IF k = "direct_sampling" /\ kind = "rtl"
                THEN <<"center_freq", "gain_again">> ELSE << >>

callDevice(t) ==
  LET k == Head(calls[t]) IN
  /\ Live /\ loaded[t] # NotRead
  /\ \E v \in IF loaded[t] = Dangling THEN Value(k) ELSE {loaded[t]} :
       Works(k, v) /\ dev' = Effect(k, v)
  /\ Advance(t, Following(k) \o Tail(calls[t]))
  /\ loaded' = [loaded EXCEPT ![t] = NotRead]
  /\ excused' = IF t = "main" THEN excused
                ELSE IF stage = "read" THEN excused \ {k} ELSE excused \union Touched(k)
  /\ UNCHANGED <<kind, stage, run, handle, stored>>

\* The call fails: setup() gives up, but for the settings of Soapy; a change
\* is given up with a warning.
failCall(t) ==
  LET k == Head(calls[t]) IN
  /\ Live /\ loaded[t] # NotRead
  /\ kind = "soapy" => handle = "open"
  /\ stage' = IF t = "main" /\ k # "settings" THEN "exited" ELSE stage
  /\ Advance(t, IF k = "settings" THEN Tail(calls[t]) ELSE << >>)
  /\ loaded' = [loaded EXCEPT ![t] = NotRead]
  /\ dev' \in {dev, [dev EXCEPT ![k] = 0]}
  /\ excused' = excused \union Touched(k)
                \union (IF "gain_again" \in ToSet(calls[t]) THEN {"rf_gain"} ELSE {})
  /\ UNCHANGED <<kind, run, handle, stored>>

crash(t) ==
  /\ Live /\ loaded[t] # NotRead /\ MayCrash(loaded[t])
  /\ stage' = "crashed"
  /\ UNCHANGED <<kind, run, handle, rest>>
-----------------------------------------------------------------------------
(* applyChange(), with a line of the control connection.                    *)

BetweenLines == calls["control"] = << >> /\ stored["rf_gain"] # Dangling

Change(k, v) ==
  /\ stored' = [stored EXCEPT ![k] = v]
  /\ Advance("control", <<k>>)
  /\ loaded' = [loaded EXCEPT !["control"] = v]
  /\ excused' = IF stage = "read" THEN excused ELSE excused \union Touched(k)
  /\ UNCHANGED <<kind, stage, run, handle, dev>>

applyChange(k, v) ==
  /\ Live /\ BetweenLines /\ Has(k) /\ k # "rf_gain" /\ v \in Value(k)
  /\ Change(k, v)

\* "delete gain", which main() may be about to use ...
deleteGain ==
  /\ Live /\ BetweenLines
  /\ stored' = [stored EXCEPT !["rf_gain"] = Dangling]
  /\ loaded' = [loaded EXCEPT !["main"] = 
       IF @ # NotRead /\ Head(calls["main"]) = "rf_gain" THEN Dangling ELSE @]
  /\ excused' = IF stage = "read" THEN excused ELSE excused \union {"rf_gain"}
  /\ UNCHANGED <<kind, stage, run, handle, dev, calls>>

\* ... and GainSpec::parse().
parseGain(v) ==
  /\ Live /\ stored["rf_gain"] = Dangling /\ v \in Value("rf_gain")
  /\ Change("rf_gain", v)

\* "None" for a frequency or a rate: std::stod() throws, and nothing catches.
invalidValue ==
  /\ Live /\ BetweenLines
  /\ stage' = "crashed"
  /\ UNCHANGED <<kind, run, handle, rest>>

ConnectorNext ==
  \/ parseArguments \/ open \/ startRead \/ lose \/ finishRead \/ closeDevice \/ sleep \/ signal
  \/ \E t \in Caller : load(t) \/ callDevice(t) \/ failCall(t) \/ crash(t)
  \/ \E k \in Settings : \E v \in Value(k) : applyChange(k, v)
  \/ deleteGain \/ invalidValue
  \/ \E v \in Value("rf_gain") : parseGain(v)

ConnectorSpec == ConnectorInit /\ [][ConnectorNext]_cvars

(* Once started, the main thread goes on; a device that is read delivers    *)
(* samples, or read times out.                                              *)
ConnectorFairness ==
  WF_cvars(open \/ startRead \/ finishRead \/ closeDevice \/ sleep
           \/ load("main") \/ callDevice("main") \/ failCall("main"))
-----------------------------------------------------------------------------
\* An RTL-SDR behind rtl_tcp has lost k with the sampling mode.
Lost(k) == kind = "rtl_tcp" /\ k \in {"center_freq", "rf_gain"} /\ dev[k] = 0

(* While the device is read and no change is under way, it works with the   *)
(* settings of the connector, through failures of the device, reopening,    *)
(* and switches of the sampling mode that lose the frequency and the gain.  *)
(* Excused are settings whose last call failed, and those that were changed *)
(* while main() was not reading: setup() may then overwrite the new value   *)
(* with the old one.  With rtl_tcp it does not hold of a frequency or gain  *)
(* that was lost with the sampling mode: nothing sets them again there.     *)
DeviceFollows ==
  stage = "read" /\ BetweenLines =>
    \A k \in Settings \ excused : Has(k) => stored[k] \in {Unset, dev[k]} \/ Lost(k)

(* A connector whose run is FALSE ends, whatever its device does: while it  *)
(* opens it, sets it up, reads it, or waits to open it again.  For rtl, run *)
(* becomes FALSE only with a signal that arrives while the device is read:  *)
(* one that arrives earlier or in a pause is dropped (see signal).          *)
StopEnds == ~run ~> ~Live
=============================================================================

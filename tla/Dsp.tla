-------------------------------- MODULE Dsp ---------------------------------
(* The demodulation of one client: DspManager and ClientDemodulatorChain.   *)
(* Every request reconfigures a running chain of nested chains - selector,  *)
(* demodulator, audio converter and encoder - whose rates and formats have  *)
(* to follow each other, and a secondary demodulator that listens in.       *)
(*                                                                          *)
(* A handler runs from beginning to end, or until it raises an exception:   *)
(* what it has changed by then stays changed.  The state is one record, and *)
(* the steps of the handlers are operators on it.                           *)
EXTENDS Chain

CONSTANTS
  OutputRates,    \* What browsers ask for (kHz): 8 to 12,
  HdOutputRates   \* and 36 to 48.

VARIABLES
  dsp,            \* The state of the manager and its chains.
  todo,           \* What is left of the message being handled.
  gap             \* What has happened that the handlers do not provide for
                  \* since the modes were last set.

dvars == <<dsp, todo, gap>>

\* What the classes of the demodulators say of themselves; 0 means that a
\* class has no fixed rate of its own.  A codec server can refuse.
Demodulator(name, output, ifRate, audioRate, hd, server) ==
  [name |-> name, in |-> "complex_float", out |-> output, getFixedIfSampleRate |-> ifRate,
   getFixedAudioRate |-> audioRate, HdAudio |-> hd, codecserver |-> server]

NFm    == Demodulator("nfm", "float", 0, 0, FALSE, FALSE)
WFm    == Demodulator("wfm", "float", 200, 0, TRUE, FALSE)
Ssb    == Demodulator("usb", "float", 0, 0, FALSE, FALSE)
Dmr    == Demodulator("dmr", "short", 48, 8, FALSE, TRUE)
Drm    == Demodulator("drm", "short", 48, 48, FALSE, FALSE)
FreeDV == Demodulator("freedv", "short", 8, 8, FALSE, FALSE)

\* One class for every combination of formats, rates and servers.
Demodulators == {NFm, WFm, Ssb, Dmr, Drm, FreeDV}

DummyDemodulator(format) == Demodulator("dummy", format, 0, 0, FALSE, FALSE)

SecondaryDemodulator(name, input, audioRate, under) ==
  [name |-> name, in |-> input, getFixedAudioRate |-> audioRate, underlying |-> under]

AudioChopper == SecondaryDemodulator("ft8", "float", 12, {"usb"})
Packet       == SecondaryDemodulator("packet", "complex_float", 48, {"nfm", "usb"})
Psk          == SecondaryDemodulator("bpsk31", "complex_float", 0, {"usb"})
Secondaries  == {AudioChopper, Packet, Psk}
-----------------------------------------------------------------------------
(* ClientAudioChain: a converter where it takes one, and an encoder.        *)

Convert(format, from, to) == [name |-> "converter", in |-> format, out |-> "short",
                              inputRate |-> from, clientRate |-> to]
AdpcmEncoder == [name |-> "adpcm", in |-> "short", out |-> "char"]

\* An empty converter is none.
_buildConverter(a) ==
  IF a.inputRate # a.clientRate \/ a.format # "short"
  THEN <<Convert(a.format, a.inputRate, a.clientRate)>> ELSE << >>

indexOf(a, name) == SelectInSeq(a.chain.workers, LAMBDA w : w.name = name)

_updateConverter(a) ==
  LET converter == _buildConverter(a)
      index == indexOf(a, "converter")
      c     == [a.chain EXCEPT !.raised = FALSE]
  IN  [a EXCEPT !.chain = IF converter = << >>
                          THEN IF index > 0 THEN remove(c, index) ELSE c
                          ELSE IF index > 0 THEN replace(c, index, converter[1])
                               ELSE insert(c, converter[1])]

\* setFormat(), setInputRate(), setClientRate()
Change(a, field, value) ==
  IF a[field] = value THEN [a EXCEPT !.chain.raised = FALSE]
  ELSE _updateConverter([a EXCEPT ![field] = value])

setAudioCompression(a, compression) ==
  LET index == indexOf(a, "adpcm")
      c     == [a.chain EXCEPT !.raised = FALSE]
  IN  [a EXCEPT !.chain = IF compression = "adpcm"
                          THEN IF index > 0 THEN c ELSE append(c, AdpcmEncoder)
                          ELSE IF index > 0 THEN remove(c, index) ELSE c]

ClientAudioChain(format, inputRate, clientRate, compression) ==
  LET a == [format |-> format, inputRate |-> inputRate, clientRate |-> clientRate,
            chain |-> NewChain(<< >>)]
  IN  [a EXCEPT !.chain = NewChain(_buildConverter(a)
                            \o IF compression = "adpcm" THEN <<AdpcmEncoder>> ELSE << >>)]
-----------------------------------------------------------------------------
(* ClientDemodulatorChain.                                                  *)

\* The step of a handler after s, if nothing was raised before it.
Unless(s, next) == IF s.raised THEN s ELSE next

\* A change of the audio chain, whose exception is the handler's.
SetAudio(s, a) == [s EXCEPT !.audio = a, !.raised = a.chain.raised]

\* The output of the worker in the middle goes to the audio chain, by a
\* buffer that is kept as long as the format is the same; a secondary
\* demodulator of audio is moved to a new buffer first.
_connect(s) ==
  LET format == s.worker["out"]
      moves  == s.audioBuffer # format /\ s.secondary # None /\ s.secondary["in"] # "complex_float"
      fails  == moves /\ ~Accepts(s.secondary, format)
      a      == [s.audio EXCEPT !.chain = setReader(@, format)]
      new    == [s EXCEPT !.audioBuffer = format,
                          !.listens = IF moves THEN (IF fails THEN "stale" ELSE "audio") ELSE @]
  IN  IF fails THEN [new EXCEPT !.raised = TRUE]
      ELSE SetAudio([new EXCEPT !.linked = TRUE], a)

\* Chain.replace(1, worker): the selector accepts whatever it writes to.
replaceDemodulator(s, worker) == _connect([s EXCEPT !.worker = worker, !.linked = FALSE])

stopDemodulator(s) ==
  IF s.demodulator = None THEN s
  ELSE LET t == replaceDemodulator(s, DummyDemodulator(s.demodulator["out"]))
       IN  Unless(t, [t EXCEPT !.demodulator = None])

IsHd(s)    == s.demodulator # None /\ s.demodulator.HdAudio
Fixed(d)   == IF d = None THEN 0 ELSE d.getFixedAudioRate
IfRate(s)  == IF s.demodulator = None THEN 0 ELSE s.demodulator.getFixedIfSampleRate
OwnRate(s) == IF IsHd(s) THEN s.hdOutputRate ELSE s.outputRate

\* Demodulators of fixed audio rate have a fixed IF rate, too: the check that
\* the two audio rates match is never reached.
_getSelectorOutputRate(s) == IF IfRate(s) # 0 THEN IfRate(s)
                             ELSE IF Fixed(s.secondary) # 0 THEN Fixed(s.secondary)
                             ELSE OwnRate(s)

_getClientAudioInputRate(s) == IF Fixed(s.demodulator) # 0 THEN Fixed(s.demodulator)
                               ELSE IF Fixed(s.secondary) # 0 THEN Fixed(s.secondary)
                               ELSE OwnRate(s)

\* With no demodulator this is a call on None.
setSampleRate(s, rate) == IF s.demodulator = None THEN [s EXCEPT !.raised = TRUE]
                          ELSE [s EXCEPT !.sampleRate = rate]

\* Mutant: the audio chain is not told.
FollowSelector(s) ==
  setSampleRate([s EXCEPT !.selectorRate = _getSelectorOutputRate(s)],
                _getClientAudioInputRate(s))

\* What both kinds of demodulator are followed by.
Follow(s) ==
  LET s1 == [s EXCEPT !.selectorRate = _getSelectorOutputRate(s)]
      s2 == SetAudio(s1, Change(s1.audio, "inputRate", _getClientAudioInputRate(s)))
  IN  Unless(s2, setSampleRate(s2, _getClientAudioInputRate(s)))

\* A ValueError of setFormat() is expected, "and should be mended when
\* swapping out the demodulator in the next step".
setDemodulatorOfChain(s, d) ==
  LET s1 == [s EXCEPT !.audio = Change(@, "format", d["out"])]
      s2 == replaceDemodulator(s1, d)
      rate == IF d.HdAudio THEN s.hdOutputRate ELSE s.outputRate
      s3 == Unless(s2, Follow([s2 EXCEPT !.demodulator = d, !.sampleRate = rate]))
  IN  Unless(s3, SetAudio(s3, Change(s3.audio, "clientRate", OwnRate(s3))))

\* Only None is ever set again: every other request makes a new demodulator.
setSecondaryDemodulatorOfChain(s, d) ==
  LET s1 == Follow([s EXCEPT !.secondary = d, !.listens = "nothing", !.secondaryRate = 0])
      fails == d["in"] = "float" /\ s1.audioBuffer # "float"
  IN  IF d = None THEN (IF s.secondary = None THEN s ELSE s1)
      ELSE Unless(s1, [s1 EXCEPT !.secondaryRate = s1.selectorRate,
                                 !.raised = fails,
                                 !.listens = IF d["in"] = "complex_float" THEN "selector"
                                             ELSE IF fails THEN "nothing" ELSE "audio"])

\* Of the audio chain only the client rate changes, and that not with a
\* demodulator of fixed audio rate; a secondary demodulator is told the rate
\* whether it has a fixed one or not.
_updateDemodulatorOutputRate(s, rate) ==
  LET s1 == IF IfRate(s) # 0 THEN s
            ELSE setSampleRate([s EXCEPT !.selectorRate = rate], rate)
      s2 == IF IfRate(s) # 0 \/ s.secondary = None THEN s1
            ELSE [s1 EXCEPT !.secondaryRate = rate]
  IN  Unless(s1, IF Fixed(s2.demodulator) # 0 THEN s2
                 ELSE SetAudio(s2, Change(s2.audio, "clientRate", rate)))

setOutputRate(s, rate) ==
  LET s1 == [s EXCEPT !.outputRate = rate]
  IN  IF IsHd(s) THEN s1 ELSE _updateDemodulatorOutputRate(s1, rate)

setHdOutputRate(s, rate) ==
  LET s1 == [s EXCEPT !.hdOutputRate = rate]
  IN  IF IsHd(s) THEN _updateDemodulatorOutputRate(s1, rate) ELSE s1
-----------------------------------------------------------------------------
(* DspManager.                                                              *)

\* A new buffer of the format the chain has now, and a thread that takes the
\* data from it to the browser.  An empty chain has no format.
wireOutput(s) ==
  IF Empty(s.audio.chain) THEN [s EXCEPT !.raised = TRUE]
  ELSE SetAudio(s, [s.audio EXCEPT !.chain = setWriter(@, getOutputFormat(@))])

setDemodulator(s, d) ==
  LET s1 == stopDemodulator(s)
      s2 == Unless(s1, setDemodulatorOfChain(s1, d))
      output == IF d.HdAudio THEN "hd_audio" ELSE "audio"
  IN  Unless(s2, IF output = s2.audioOutput THEN s2
                 ELSE wireOutput([s2 EXCEPT !.audioOutput = output]))

\* A ValueError means that the format of the output has changed.
setCompression(s, compression) ==
  LET s1 == SetAudio([s EXCEPT !.compression = compression],
                     setAudioCompression(s.audio, compression))
  IN  IF s1.raised THEN wireOutput(s1) ELSE s1

\* The chain as the constructor leaves it, in the mode the profile starts with.
DspManager(d, secondary, compression, rate, hdRate) ==
  LET a == ClientAudioChain("float", rate, rate, compression)
      s == [demodulator |-> NFm, worker |-> NFm, linked |-> TRUE, audioBuffer |-> "float",
            secondary |-> None, listens |-> "nothing", secondaryRate |-> 0,
            selectorRate |-> rate, sampleRate |-> rate, outputRate |-> rate, hdOutputRate |-> hdRate,
            audio |-> [a EXCEPT !.chain = setReader(@, "float")],
            audioOutput |-> "none", compression |-> compression,
            mod |-> "unset", secondary_mod |-> "unset", raised |-> FALSE]
      s1 == setDemodulator(s, d)
  IN  IF secondary = None THEN s1 ELSE setSecondaryDemodulatorOfChain(s1, secondary)

Modes == {<<d, None>> : d \in Demodulators}
           \union {<<d, x>> \in Demodulators \X Secondaries : d.name \in x.underlying}

DspInit ==
  /\ \E mode \in Modes, compression \in {"adpcm", "none"} :
       /\ ~mode[1].codecserver
       /\ dsp = DspManager(mode[1], mode[2], compression, 12, 48)
  /\ todo = << >>
  /\ gap = {}
-----------------------------------------------------------------------------
(* A browser sends what has changed in one message; mod comes before        *)
(* secondary_mod.  Each is a property whose callback runs when its value    *)
(* changes.  An exception of a callback is logged.                          *)

Request(field, value) == <<field, value>>
Name(d) == IF d = None THEN "none" ELSE d.name

Message ==
  /\ todo = << >>
  /\ \E choice \in Modes :
       /\ <<Name(choice[1]), Name(choice[2])>> # <<dsp.mod, dsp.secondary_mod>>
       /\ todo' = <<Request("mod", choice[1]), Request("secondary_mod", choice[2])>>
  /\ UNCHANGED <<dsp, gap>>

Take == todo # << >> /\ todo' = Tail(todo)

Fresh(s) == [s EXCEPT !.raised = FALSE]

\* A secondary demodulator of audio cannot follow to another format; a
\* converter that setFormat() could not connect stays if no rate changes; and
\* with nothing to encode or convert nobody notices that the writer is of the
\* wrong format, until there is something again.
Misfit(s) == s.audio.chain.writer # IF s.compression = "adpcm" THEN "char" ELSE "short"

Gap(s, t) ==
  {x \in {"secondary", "converter", "writer", "listener"} :
     CASE x = "secondary" -> s.secondary # None /\ s.secondary["in"] # "complex_float"
                               /\ s.secondary["in"] # t.worker["out"]
       [] x = "converter" -> /\ x \in gap \/ t.audio.format # s.audio.format
                             /\ t.audio.inputRate = s.audio.inputRate
                             /\ t.audio.clientRate = s.audio.clientRate
                             /\ t.audio.inputRate # t.audio.clientRate
       [] x = "writer"    -> x \in gap \/ Misfit(t)
       [] x = "listener"  -> x \in gap}

\* The value is kept whatever its callback does.
SetMod(d) ==
  /\ Take /\ Head(todo) = Request("mod", d)
  /\ LET s == [Fresh(dsp) EXCEPT !.mod = Name(d)] IN
     \/ Name(d) = dsp.mod /\ dsp' = s /\ UNCHANGED gap
     \/ Name(d) # dsp.mod /\ dsp' = setDemodulator(s, d) /\ gap' = Gap(s, dsp')
     \/ Name(d) # dsp.mod /\ d.codecserver /\ dsp' = stopDemodulator(s) /\ UNCHANGED gap

SetSecondaryMod(d) ==
  /\ Take /\ Head(todo) = Request("secondary_mod", d)
  /\ dsp' = IF Name(d) = dsp.secondary_mod THEN Fresh(dsp)
            ELSE setSecondaryDemodulatorOfChain([Fresh(dsp) EXCEPT !.secondary_mod = Name(d)], d)
  /\ gap' = IF Name(d) = dsp.secondary_mod THEN gap ELSE gap \ {"listener"}

\* The rates of the browser's sound card.  Only a demodulator that has a fixed
\* IF rate, but no fixed audio rate, can go on as before: of any other one the
\* audio chain keeps the old input rate, or the old client rate.  What a
\* secondary demodulator is told stays with it, when the mode is changed, too.
RateGap(s, told) ==
  IF ~told \/ (IfRate(s) # 0 /\ Fixed(s.demodulator) = 0) THEN {}
  ELSE {"rate"} \union IF s.secondary = None THEN {} ELSE {"listener"}

SetOutputRate(rate) ==
  /\ todo = << >> /\ rate # dsp.outputRate
  /\ dsp' = setOutputRate(Fresh(dsp), rate)
  /\ gap' = gap \union RateGap(dsp, ~IsHd(dsp))
  /\ UNCHANGED todo

SetHdOutputRate(rate) ==
  /\ todo = << >> /\ rate # dsp.hdOutputRate
  /\ dsp' = setHdOutputRate(Fresh(dsp), rate)
  /\ gap' = gap \union RateGap(dsp, IsHd(dsp))
  /\ UNCHANGED todo

\* A setting of the receiver, changed on a settings page.
SetCompression ==
  /\ dsp' = setCompression(Fresh(dsp), IF dsp.compression = "adpcm" THEN "none" ELSE "adpcm")
  /\ gap' = IF Misfit(dsp') THEN gap \union {"writer"} ELSE gap
  /\ UNCHANGED todo

DspNext ==
  \/ Message
  \/ \E d \in Demodulators : SetMod(d)
  \/ \E d \in Secondaries \union {None} : SetSecondaryMod(d)
  \/ \E rate \in OutputRates : SetOutputRate(rate)
  \/ \E rate \in HdOutputRates : SetHdOutputRate(rate)
  \/ SetCompression

DspSpec == DspInit /\ [][DspNext]_dvars
-----------------------------------------------------------------------------
\* No message is half done, and there is a demodulator.
Settled == todo = << >> /\ dsp.demodulator # None

(* The samples find their way from the selector through the demodulator,    *)
(* the converter and the encoder to the browser: everyone reads what its    *)
(* neighbour writes, after any sequence of mode, rate and compression       *)
(* changes, and those in which a handler raised, but for the three that the *)
(* handlers do not provide for (gap): a secondary demodulator of audio is   *)
(* asked to follow to another format, a converter that setFormat() could    *)
(* not connect is not replaced because no rate changes, and the writer has  *)
(* the wrong format since the chain was empty.  The first two last until a  *)
(* mode is set in which they do not occur, the third until the manager is   *)
(* closed.  Nothing is said of the empty chain, which passes nothing, nor   *)
(* after a codec server has refused and left no demodulator.                *)
AudioFlows ==
  Settled /\ gap \subseteq {"rate", "listener"} /\ ~Empty(dsp.audio.chain)
    => dsp.linked /\ Flows(dsp.audio.chain)

\* What really comes out of the demodulator.
DemodulatedRate ==
  IF Fixed(dsp.demodulator) # 0 THEN Fixed(dsp.demodulator)
  ELSE IF IfRate(dsp) # 0 THEN dsp.sampleRate ELSE dsp.selectorRate

(* Everyone works at the rate at which its neighbour delivers, whenever a   *)
(* mode has been set: the demodulator and the secondary demodulator get     *)
(* what they were built for, and the audio is converted from the rate it    *)
(* has to the one the browser plays.  It is not so of the time from a       *)
(* change of the output rates to the next change of the mode (gap "rate"),  *)
(* unless the demodulator has a fixed IF rate and no fixed audio rate, nor  *)
(* of a secondary demodulator that was there at the time until it is set    *)
(* again (gap "listener").  The other gaps are those of AudioFlows; after   *)
(* them a handler may have raised before it set the rates.                  *)
RatesAgree ==
  Settled /\ gap = {} =>
    /\ IfRate(dsp) # 0 => dsp.selectorRate = IfRate(dsp)
    /\ dsp.audio.inputRate = DemodulatedRate
    /\ dsp.audio.clientRate = OwnRate(dsp)
    /\ Fixed(dsp.secondary) # 0 =>
         CASE dsp.listens = "audio"    -> DemodulatedRate = Fixed(dsp.secondary)
           [] dsp.listens = "selector" -> dsp.selectorRate = Fixed(dsp.secondary)
    /\ dsp.secondary # None => dsp.secondaryRate = dsp.selectorRate

(* src/lbowrx-owrx/lbowrx_owrx/owrx/dsp.py:97: an audio chain that does    *)
(* not match the new format "should be mended when swapping out the         *)
(* demodulator in the next step".                                           *)
FormatMended ==
  todo = << >> /\ dsp.mod = Name(dsp.worker) /\ ~Empty(dsp.audio.chain)
    => dsp.linked /\ Flows(dsp.audio.chain)
=============================================================================

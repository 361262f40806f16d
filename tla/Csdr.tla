-------------------------------- MODULE Csdr --------------------------------
(* The commands of the csdr command line, piped into each other.  Every     *)
(* command agrees with its neighbours on a buffer size, sent as a preamble  *)
(* ahead of the samples, and then copies blocks from stdin to stdout until  *)
(* a feof() check ends it.  The check stands at a different place in almost *)
(* every command, some never check, some process a buffer before they have  *)
(* read it, and those with filters keep the end of one block for the next.  *)
(*                                                                          *)
(* A sample on a pipe is its number there, counted from 1; Junk is one that *)
(* was computed from anything but the next samples in order; a preamble is  *)
(* the negated size.                                                        *)
EXTENDS Integers, Sequences, FiniteSetsExt

CONSTANTS
  bufsize,     \* env_csdr_fixed_bufsize, and what setbuf announces.
  Default,     \* SETBUF_DEFAULT_BUFSIZE.
  own,         \* The block of commands that choose their own: an FFT, an AGC.
  step,        \* New samples in every block of an FFT whose blocks overlap,
  skip,        \* and samples between the blocks of one that leaves some out.
  taps_length, \* Of the filters.
  factor,      \* By which they decimate and interpolate.
  num_poly_points, \* Over which the fractional decimator interpolates.
  Totals,      \* Bound: samples on the first command's stdin, a file.
  PipeSize     \* Bound: samples on a pipe before a writer blocks.

\* A filter fits into a buffer, as two steps do, and reaches over the step it
\* decimates by; the fractional decimator looks ahead at least to the place of
\* its next output.
ASSUME CsdrAssumption ==
  /\ {bufsize, Default, own, step, skip, taps_length} \subseteq Nat \ {0}
  /\ step < own
  /\ factor \in Nat /\ 2 <= factor /\ factor <= taps_length
  /\ taps_length <= bufsize /\ taps_length <= Default /\ 2 * factor <= bufsize
  /\ num_poly_points \in Nat /\ factor <= 3 * (num_poly_points \div 2) + 1
  /\ Totals \subseteq Nat

VARIABLES
  dynamic,     \* env_csdr_dynamic_bufsize_on.
  proc,        \* The processes of the pipeline, from left to right.
  pipe,        \* pipe[i] is the stdin of proc[i].
  closed       \* Nothing reads the last stdout any more.

csdrVars == <<dynamic, proc, pipe, closed>>

Junk == 0

\* What a command does with its sizes, and where it loads, works and checks:
\*   reads  "buffers" rounds the size up, "dummy" forgets it, "never" does not ask;
\*   sends  the size it announces;  takes  what it reads per block, "step" but
\*          the new samples, "apart" those it skips, too (as complex ones,
\*          although they are real: "farther"), "chars" one first;
\*   works  what becomes of a block, see Work;
\*   loads  "first" before it works, "late" after it, "astray" elsewhere;
\*   ends   "again" checks before it reads, "break" at an empty read, "drop"
\*          after any short read, "never" does not.
Does(reads, sends, takes, works, loads, ends) ==
  [reads |-> reads, sends |-> sends, takes |-> takes, works |-> works,
   loads |-> loads, ends |-> ends]

Each(names, does) == {[name |-> n, does |-> does] : n \in names}

\* The form of most commands, and of those that differ in one thing.
Basic(sends, works) == Does("buffers", sends, "size", works, "first", "again")
Breaks(works)       == Does("buffers", "same", "size", works, "first", "break")
Late(sends, works, ends) == Does("buffers", sends, "size", works, "late", ends)
Ahead(sends, works) == Does("buffers", sends, "size", works, "first", "drop")
OwnBlocks(reads, works) == Does(reads, "own", "own", works, "first", "again")
Overlapping         == Does("buffers", "own", "step", "overlap", "first", "again")
Skipping(sends, takes) == Does("buffers", sends, takes, "skips", "first", "again")
Characters(works)   == Does("buffers", "same", "chars", works, "first", "again")
Copies              == Does("buffers", "same", "size", "sample", "first", "never")
Generates           == Does("buffers", "same", "nothing", "sample", "first", "never")
-----------------------------------------------------------------------------
(* The functions of libcsdr that work on a block, by what they make of it.  *)
(* Most give a sample for a sample, and hand their state from one block to  *)
(* the next (a phase, a level, the last sample), so that only the samples   *)
(* that a block is made of matter.                                          *)
convert_s16_f           == "sample"
gain_ff                 == "sample"
get_power_c             == "sample"
shift_math_cc           == "sample"
shift_addfast_cc        == "sample"
shift_addition_cc       == "sample"
dcblock_ff              == "sample"
fastagc_ff              == "sample"
agc_ff                  == "sample"
agc_s16                 == "sample"
amdemod_cf              == "sample"
fmdemod_quadri_cf       == "sample"
deemphasis_wfm_ff       == "sample"
apply_window_c          == "sample"
logpower_cf             == "sample"
apply_fir_fft_cc        == "sample"
fft_compress_ima_adpcm  == "sample"
fmmod_fc                == "sample"
generic_slicer_f_u8     == "sample"
psk_modulator_u8_c      == "sample"
differential_codec      == "sample"
pll_cc                  == "sample"
bpsk_costas_loop_cc     == "sample"
simple_agc_cc           == "sample"
dbpsk_decoder_c_u8      == "sample"
get_random_samples_f    == "sample"
add_const_cc            == "sample"

\* A character for some of the samples.
varicode_decoder_push   == "some"
baudot_decoder_push     == "some"

\* Of two make one, of one make two, or of all make one.
decimating_shift_addition_cc      == "half"
encode_ima_adpcm_i16_u8           == "half"
fastddc_inv_cc                    == "half"
decode_ima_adpcm_u8_i16           == "double"
psk31_interpolate_sine_cc         == "double"
plain_interpolate_cc              == "double"
pack_bits_8to1_u8_u8              == "one"
normalized_timing_variance_u32_f  == "one"

\* As another of them, on other samples.
fractional_decimator_cc    == "fractional"
varicode_encoder_u8_u8     == "shorter"
bfsk_demod_cf              == "filter"
-----------------------------------------------------------------------------
clone_ == Does("none", "same", "size", "sample", "first", "never")
Fifo   == Each({"fifo"}, Late("same", "sample", "never"))

Converts ==
  Each({"convert_u8_f", "convert_f_u8", "convert_s8_f", "convert_f_s8", "convert_f_s16",
        "convert_s16_f", "convert_f_s24", "convert_s24_f"}, Basic("same", convert_s16_f))
Levels ==
  Each({"realpart_cf", "clipdetect_ff", "gain_ff", "limit_ff"}, Basic("same", gain_ff))
    \cup Each({"yes_f"}, Generates)
Shifts ==
  Each({"shift_math_cc", "shift_table_cc", "shift_unroll_cc"}, Breaks(shift_math_cc))
    \cup Each({"shift_addfast_cc"}, Breaks(shift_addfast_cc))
AdditionShifts ==
  Each({"decimating_shift_addition_cc"},
       Does("buffers", "half", "size", decimating_shift_addition_cc, "first", "break"))
    \cup Each({"shift_addition_cc"}, Breaks(shift_addition_cc))
RealShifts == Each({"shift_addition_fc"}, Breaks(shift_addition_cc))
DcBlocks ==
  Each({"dcblock_ff"}, Basic("same", dcblock_ff))
    \cup Each({"fastdcblock_ff"}, OwnBlocks("dummy", dcblock_ff))
Demodulators ==
  Each({"fmdemod_atan_cf"}, Ahead("same", fmdemod_quadri_cf))
    \cup Each({"fmdemod_quadri_cf", "fmdemod_quadri_novect_cf"},
              Basic("same", fmdemod_quadri_cf))
    \cup Each({"deemphasis_wfm_ff", "detect_nan_ff"}, Basic("same", deemphasis_wfm_ff))
    \cup Each({"dump_f"}, Basic("same", "one"))
    \cup Each({"deemphasis_nfm_ff"}, Late("same", "shorter", "again"))
    \cup Each({"amdemod_cf", "amdemod_estimator_cf"}, Basic("same", amdemod_cf))
FirRates ==
  Each({"fir_decimate_cc"}, Basic("half", "decimate"))
    \cup Each({"fir_interpolate_cc"}, Late("double", "interpolate", "drop"))
Agcs     == Each({"agc_ff"}, Basic("same", agc_ff)) \cup Each({"agc_s16"}, Basic("same", agc_s16))
FastAgcs == Each({"fastagc_ff"}, OwnBlocks("dummy", fastagc_ff))
Resamplers ==
  Each({"rational_resampler_ff"}, Basic("half", "resample"))
    \cup Each({"fractional_decimator_ff"}, Basic("half", "fractional"))
    \cup Each({"fractional_decimator_cc"}, Basic("half", fractional_decimator_cc))
    \cup Each({"rational_resampler_ff", "fractional_decimator_ff", "fractional_decimator_cc"},
              Copies)   \* At a rate of 1.
Unasked == Does("never", "nothing", "own", "one", "first", "again")
Ffts ==
  Each({"fft_cc"}, OwnBlocks("buffers", apply_window_c))
    \cup Each({"fft_cc"}, Overlapping) \cup Each({"fft_cc"}, Skipping("own", "apart"))
    \cup Each({"logpower_cf"}, Basic("same", logpower_cf))
    \cup Each({"logaveragepower_cf"}, Unasked)
    \cup Each({"fft_exchange_sides_ff"}, OwnBlocks("dummy", "sample"))
RealFfts ==
  Each({"fft_fc"}, OwnBlocks("buffers", apply_window_c))
    \cup Each({"fft_fc"}, Overlapping) \cup Each({"fft_fc"}, Skipping("own", "farther"))
Spectra ==
  Each({"fft_one_side_ff"}, OwnBlocks("dummy", "half"))
    \cup Each({"compress_fft_adpcm_f_u8"}, OwnBlocks("dummy", fft_compress_ima_adpcm))
Patterns == Each({"pattern_search_u8_u8"}, Unasked)
BandpassFirFft ==
  Each({"bandpass_fir_fft_cc"},
       Does("buffers", "same", "own", apply_fir_fft_cc, "first", "again"))
Adpcm ==
  Each({"encode_ima_adpcm_s16_u8"}, Basic("half", encode_ima_adpcm_i16_u8))
    \cup Each({"decode_ima_adpcm_u8_s16"}, Basic("double", decode_ima_adpcm_u8_i16))
    \cup Each({"flowcontrol"}, OwnBlocks("dummy", "sample"))
Channels ==
  Each({"through", "dsb_fc", "convert_f_samplerf"}, Basic("same", "sample"))
    \cup Each({"add_dcoffset_cc", "fmmod_fc", "fixed_amplitude_cc"}, Basic("same", fmmod_fc))
Stereo ==
  Each({"mono2stereo_s16"}, Basic("same", "double"))
    \cup Each({"stereo2mono_s16"}, Basic("same", "half"))
Squelches ==
  Each({"squelch_and_smeter_cc"}, Basic("same", get_power_c))
FastDdc ==
  Each({"fastddc_fwd_cc"}, Overlapping)
    \cup Each({"fastddc_inv_cc"}, OwnBlocks("anew", fastddc_inv_cc))
Plots == Each({"_fft2octave"}, Does("buffers", "own", "own", "one", "first", "again"))
Teletypes ==
  Each({"psk31_varicode_decoder_u8_u8"}, Characters(varicode_decoder_push))
    \cup Each({"rtty_line_decoder_u8_u8", "rtty_baudot2ascii_u8_u8"},
              Characters(baudot_decoder_push))
    \cup Each({"invert_u8_u8"}, Characters("sample"))
    \cup Each({"binary_slicer_f_u8"}, Breaks(generic_slicer_f_u8))
    \cup Each({"serial_line_decoder_f_u8"}, Basic("same", "serial"))
Recovery ==
  Each({"pll_cc"}, Basic("same", pll_cc))
    \cup Each({"timing_recovery_cc"}, Ahead("half", "symbols"))
ComplexPlots ==
  Each({"octave_complex_c"}, Skipping("same", "apart"))
    \cup Each({"octave_complex_c"}, Does("buffers", "same", "own", "sample", "first", "again"))
Symbols ==
  Each({"psk_modulator_u8_c"}, Basic("same", psk_modulator_u8_c))
    \cup Each({"duplicate_samples_ntimes_u8_u8", "psk31_interpolate_sine_cc",
               "pack_bits_1to8_u8_u8"}, Basic("double", psk31_interpolate_sine_cc))
    \cup Each({"pack_bits_8to1_u8_u8"},
              Does("buffers", "one", "own", pack_bits_8to1_u8_u8, "first", "again"))
    \cup Each({"psk31_varicode_encoder_u8_u8"},
              Does("buffers", "double", "size", varicode_encoder_u8_u8, "astray", "again"))
    \cup Each({"dump_u8"}, Basic("double", "one"))
Loops ==
  Each({"differential_decoder_u8_u8", "differential_encoder_u8_u8"},
       Basic("same", differential_codec))
    \cup Each({"bpsk_costas_loop_cc"}, Basic("same", bpsk_costas_loop_cc))
    \cup Each({"simple_agc_cc"}, Basic("same", simple_agc_cc))
Peaks == Each({"peaks_fir_cc"}, Ahead("same", "filter"))
Noise ==
  Each({"repeat_u8", "uniform_noise_f", "gaussian_noise_c"}, Generates)
    \cup Each({"awgn_cc"}, Basic("same", get_random_samples_f))
    \cup Each({"normalized_timing_variance_u32_f"},
              Basic("same", normalized_timing_variance_u32_f))
Slicers ==
  Each({"add_n_zero_samples_at_beginning_f"},
       Late("same", "sample", "never"))
    \cup Each({"pulse_shaping_filter_cc"}, Ahead("same", "filter"))
    \cup Each({"generic_slicer_f_u8"}, Breaks(generic_slicer_f_u8))
Modems ==
  Each({"plain_interpolate_cc"}, Basic("double", plain_interpolate_cc))
    \cup Each({"dbpsk_decoder_c_u8"}, Basic("same", dbpsk_decoder_c_u8))
    \cup Each({"add_const_cc"}, Basic("same", add_const_cc))
    \cup Each({"tee"}, Basic("same", "sample"))
    \cup Each({"bfsk_demod_cf"}, Ahead("same", bfsk_demod_cf))

Command ==
  UNION {Fifo, Converts, Levels, Shifts, AdditionShifts, RealShifts, DcBlocks,
         Demodulators, FirRates, Agcs, FastAgcs, Resamplers, Ffts, RealFfts, Spectra,
         Patterns, BandpassFirFft, Adpcm, Channels, Stereo, Squelches, FastDdc, Plots,
         Teletypes, Recovery, ComplexPlots, Symbols, Loops, Peaks, Noise, Slicers, Modems}
-----------------------------------------------------------------------------
\* Of a block of n: what is written and how much of it is used up; the rest
\* is kept.  The places of the resamplers, the symbol clock and the serial
\* line depend on earlier blocks or on the signal.
Result(out, used) == [out |-> out, used |-> used]

\* The outputs, a step apart, for which there are more samples than `over'.
Outputs(n, over) == IF n <= over THEN 0 ELSE (n - over - 1) \div factor + 1

sample(n) == {Result(n, n)}
fir_decimate_cc(n) ==
  LET out == Outputs(n, taps_length - 1)
  IN {Result(out, factor * out)}
fir_interpolate_cc(n) ==
  LET i == Outputs(n * factor, factor + taps_length - 2)
  IN {Result(factor * i, i)}
\* An interpolation of 1.  A buffer that ends behind the last output gives its
\* last place again.  One without an output is dropped: the next read takes
\* nothing used for nothing read.
rational_resampler_ff(n) ==
  LET output_size == n \div factor
      out == Min({output_size, Outputs(n, taps_length)})
      last == IF out = output_size THEN output_size - 1 ELSE out
  IN {Result(out, IF out = 0 THEN n ELSE last * factor)}
\* At a whole rate `where' settles at half of the points.
fractional_decimator_ff(n) ==
  LET out == Outputs(n, 3 * (num_poly_points \div 2))
  IN {Result(out, IF out = 0 THEN n ELSE factor * out)}
deemphasis_nfm_ff(n) == {Result(n - taps_length, n - taps_length)}
apply_fir_cc(n)      == {Result(n - taps_length + 1, n - taps_length + 1)}
\* Symbols of `factor' samples, the last followed by half a symbol more, and
\* moved by the correction.
timing_recovery_cc(n) ==
  LET out == Outputs(n, 3 * (factor \div 2))
  IN {Result(out, factor * out + correction) : correction \in {0, 1}}
\* No start bit; a character, and the beginning of one that does not fit; a
\* start bit at the beginning of one that never fits, which is an error.
serial_line_decoder_f_u8(n) == {Result(0, n), Result(1, n - 1), Result(0, 0)}

\* Of the characters all make one, or none.
varicode(n) == {Result(0, n), Result(n, n)}
\* A block of an FFT, of which the end is in the next one again.  The first
\* ones reach back before the stream, to zeros or what malloc() left.
overlap(n) ==
  LET kept == Min({n, own - step})
  IN {Result(own, n - kept)}

Work(works, n) ==
  CASE works = "sample"      -> sample(n)
    [] works = "half"        -> {Result(n \div 2, n)}
    [] works = "double"      -> {Result(2 * n, n)}
    [] works = "one"         -> {Result(1, n)}
    [] works = "some"        -> varicode(n)
    [] works = "skips"       -> {Result(own, n)}
    [] works = "overlap"     -> overlap(n)
    [] works = "decimate"    -> fir_decimate_cc(n)
    [] works = "interpolate" -> fir_interpolate_cc(n)
    [] works = "resample"    -> rational_resampler_ff(n)
    [] works = "fractional"  -> fractional_decimator_ff(n)
    [] works = "shorter"     -> deemphasis_nfm_ff(n)
    [] works = "filter"      -> apply_fir_cc(n)
    [] works = "symbols"     -> timing_recovery_cc(n)
    [] works = "serial"      -> serial_line_decoder_f_u8(n)
-----------------------------------------------------------------------------
Process(does) ==
  [does |-> does,
   at   |-> CASE does.reads = "none" -> "announce" [] does.reads = "never" -> "load"
              [] OTHER -> "size",
   size |-> bufsize,
   buf  |-> << >>,    \* What it keeps of its last block.
   held |-> << >>,    \* What it is about to write.
   got  |-> 0,        \* The last sample it has used up.
   gave |-> 0,        \* The last sample it has written in order.
   eof  |-> FALSE,    \* feof(stdin).
   junk |-> FALSE,    \* It has written Junk.
   anew |-> FALSE]    \* Bound: it has agreed on its size a second time.

\* With dynamic buffer sizes `csdr setbuf' is the first command.  Bound: of the
\* others, one is of the most common form; behind setbuf it is the last one, and
\* of the filters only two are there.
Usual == Basic("same", "sample")

CsdrInit ==
  /\ dynamic \in BOOLEAN
  /\ \E one, two \in {c.does : c \in Command} :
       /\ two = Usual \/ (one = Usual /\ ~dynamic)
       /\ dynamic => one.works \in 
               {"sample", "half", "double", "one", "decimate", "filter", "overlap"}
       /\ proc = [i \in 1 .. (IF dynamic THEN 3 ELSE 2) |->
                    Process((IF dynamic THEN <<clone_, one, two>> ELSE <<one, two>>)[i])]
  /\ \E total \in Totals :
       pipe = [i \in 1 .. Len(proc) |-> IF i = 1 THEN [k \in 1 .. total |-> k] ELSE << >>]
  /\ closed = FALSE

\* The writer of a stdin has ended; nothing reads a stdout.
NoMore(i)   == i > 1 => proc[i - 1].at = "ended"
NoReader(i) == IF i = Len(proc) THEN closed ELSE proc[i + 1].at = "ended"

Junks(n) == [k \in 1 .. n |-> Junk]

\* The stdout of i; SIGPIPE ends a process that writes where nothing reads.
PutOut(i, q, tokens) ==
  IF tokens # << >> /\ NoReader(i)
  THEN /\ proc' = [proc EXCEPT ![i].at = "ended"]
       /\ UNCHANGED pipe
  ELSE /\ i < Len(proc) => Len(pipe[i + 1]) < PipeSize
       /\ proc' = [proc EXCEPT ![i] = q]
       /\ pipe' = IF i = Len(proc) THEN pipe ELSE [pipe EXCEPT ![i + 1] = @ \o tokens]

unitround(n) == ((n - 1) \div 4) * 4 + 4
Size(does, n) == IF does.reads \in {"buffers", "anew"} THEN unitround(n) ELSE n

\* Mutant: a command with blocks of its own does not ask for a size.
getbufsizeIfNeeded(i) ==
  /\ proc[i].at = "size"
  /\ LET asks == dynamic /\ proc[i].does.reads # "dummy"
     IN /\ asks => pipe[i] # << >>
        /\ proc' = [proc EXCEPT ![i].at = "announce",
                               ![i].size = IF asks THEN Size(proc[i].does, -Head(pipe[i]))
                                           ELSE bufsize]
        /\ pipe' = IF asks THEN [pipe EXCEPT ![i] = Tail(@)] ELSE pipe
  /\ UNCHANGED <<dynamic, closed>>

\* A first item that is no preamble is lost.
getbufsize(i) ==
  /\ proc[i].at = "size"
  /\ dynamic /\ pipe[i] = << >> => NoMore(i)
  /\ LET asked == dynamic /\ pipe[i] # << >>
         n == IF ~dynamic THEN bufsize
              ELSE IF asked /\ Head(pipe[i]) < 0 THEN -Head(pipe[i]) ELSE Default
     IN /\ proc' = [proc EXCEPT ![i].size = Size(proc[i].does, n), ![i].at = "announce"]
        /\ pipe' = IF asked THEN [pipe EXCEPT ![i] = Tail(@)] ELSE pipe
  /\ UNCHANGED <<dynamic, closed>>

Announced(p) ==
  CASE p.does.sends = "same"   -> p.size
    [] p.does.sends = "half"   -> p.size \div 2
    [] p.does.sends = "double" -> 2 * p.size
    [] p.does.sends = "own"    -> own
    [] p.does.sends = "one"    -> 1

\* A command that works before it loads finds what malloc left.
sendbufsize(i) ==
  LET p == proc[i]
  IN /\ p.at = "announce"
     /\ PutOut(i, [p EXCEPT !.at = "load",
                         !.buf = IF p.does.loads = "late" THEN Junks(p.size) ELSE << >>],
            IF dynamic THEN <<-Announced(p)>> ELSE << >>)
     /\ UNCHANGED <<dynamic, closed>>

\* fread(): all it asks for, or less when there is no more.
Wanted(p) == CASE p.does.takes = "size" -> p.size - Len(p.buf)
               [] p.does.takes = "own" -> own - Len(p.buf)
               [] p.does.takes = "step" -> step
               [] p.does.takes = "apart" -> own + skip
               [] p.does.takes = "farther" -> own + 2 * skip
               [] p.does.takes = "chars" -> IF p.got = 0 THEN 1 ELSE own
               [] p.does.takes = "nothing" -> 0
Fresh(i) == SubSeq(pipe[i], 1, IF Wanted(proc[i]) < Len(pipe[i]) THEN Wanted(proc[i])
                               ELSE Len(pipe[i]))
Short(i) == Len(Fresh(i)) < Wanted(proc[i])

\* Mutant: the check before the read is forgotten.
FindsAtTheRead(i) ==
  \/ proc[i].does.ends = "break" /\ Short(i) /\ Fresh(i) = << >>
  \/ proc[i].does.ends = "drop" /\ Short(i)

\* Where the check stands.
Finds(i) ==
  \/ proc[i].does.ends = "again" /\ proc[i].eof
  \/ proc[i].does.ends = "break" /\ Short(i) /\ Fresh(i) = << >>
  \/ proc[i].does.ends = "drop" /\ Short(i)

feof(i) ==
  /\ proc[i].at = "load"
  /\ Short(i) => NoMore(i)
  /\ Finds(i)
  /\ proc' = [proc EXCEPT ![i].at = "ended", ![i].eof = TRUE]
  /\ UNCHANGED <<dynamic, pipe, closed>>

\* The block in the buffer: behind a short read there is what was there before.
Block(i) ==
  LET p == proc[i]
  IN IF p.does.takes = "nothing" THEN Junks(p.size)
     ELSE IF p.does.loads = "astray" /\ p.buf # << >> THEN p.buf \o Junks(Wanted(p))
     ELSE p.buf \o Fresh(i) \o Junks(Wanted(p) - Len(Fresh(i)))

load(i) ==
  /\ proc[i].at = "load"
  /\ Short(i) => NoMore(i)
  /\ ~Finds(i)
  /\ LET p == proc[i]
         block == Block(i)
         inOrder == \A k \in 1 .. Len(block) : block[k] = p.got + k
     IN \E r \in Work(p.does.works, Len(block)) :
          proc' = [proc EXCEPT ![i] =
            [p EXCEPT !.eof  = @ \/ Short(i),
                      !.buf  = IF p.does.takes = "nothing" THEN << >>
                               ELSE SubSeq(block, r.used + 1, Len(block)),
                      !.got  = Max({@} \cup {block[k] : k \in 1 .. r.used}),
                      !.held = IF inOrder THEN [k \in 1 .. r.out |-> p.gave + k]
                               ELSE Junks(r.out),
                      !.gave = IF inOrder THEN @ + r.out ELSE @,
                      !.at   = IF r.used = 0 /\ p.does.works = "serial" THEN "ended"
                               ELSE "write"]]
  /\ pipe' = [pipe EXCEPT ![i] = SubSeq(@, Len(Fresh(i)) + 1, Len(@))]
  /\ UNCHANGED <<dynamic, closed>>

write(i) ==
  LET p == proc[i]
  IN /\ p.at = "write"
     /\ PutOut(i, [p EXCEPT !.at = "load", !.held = << >>,
                         !.junk = @ \/ \E k \in DOMAIN p.held : p.held[k] = Junk],
            p.held)
     /\ UNCHANGED <<dynamic, closed>>

\* A new shift from the control fifo begins it all again, the sizes too.
read_fifo_ctl(i) ==
  /\ proc[i].at = "load" /\ proc[i].does.reads = "anew" /\ ~proc[i].anew
  /\ proc' = [proc EXCEPT ![i].at = "size", ![i].anew = TRUE]
  /\ UNCHANGED <<dynamic, pipe, closed>>

Run(i) == getbufsize(i) \/ sendbufsize(i) \/ feof(i) \/ load(i) \/ write(i)

\* What reads the last stdout goes away.  Bound: only where setbuf is, which
\* nothing else ends, and has used up its input.
closeStdout ==
  /\ dynamic /\ proc[1].eof /\ ~closed
  /\ closed' = TRUE
  /\ UNCHANGED <<dynamic, proc, pipe>>

CsdrNext == closeStdout \/ \E i \in DOMAIN proc : Run(i) \/ read_fifo_ctl(i)

CsdrFairness == \A i \in 1 .. 3 : WF_csdrVars(i \in DOMAIN proc /\ Run(i))

CsdrSpec == CsdrInit /\ [][CsdrNext]_csdrVars /\ CsdrFairness
-----------------------------------------------------------------------------
\* A command works on the samples of its stdin in their order, none lost,
\* none taken twice and none made from a preamble, before a stdin to the left of
\* it has ended: only the tail of a stream may be padded.  (The blocks of an
\* FFT overlap or leave samples out where that is asked for; nothing is said of
\* the samples before the stream in the first blocks that overlap.)  Excepted
\* are the commands that work before they read or read elsewhere, that read
\* nothing, or that do not keep to the preambles.
Excepted(i, j) ==
  \/ proc[j].does.loads # "first" \/ proc[j].does.takes = "nothing"
  \/ dynamic /\ (proc[j].does.reads \in {"never", "anew"}
                   \/ (j < i /\ proc[j].does.sends = "nothing"))

TailOnly ==
  \A i \in DOMAIN proc : proc[i].junk => \E j \in 1 .. i : proc[j].eof \/ Excepted(i, j)

\* A pipeline ends: when its input has ended, if every command checks for that
\* (setbuf does not), and when nothing reads its output, if every command
\* writes in the end (a serial line or a teletype may stay silent).
Ended == \A i \in DOMAIN proc : proc[i].at = "ended"
PipelineEnds ==
  (\/ \A i \in DOMAIN proc : proc[i].does.ends # "never"
   \/ closed /\ \A i \in DOMAIN proc : proc[i].does.works \notin {"serial", "some"}) ~> Ended
=============================================================================

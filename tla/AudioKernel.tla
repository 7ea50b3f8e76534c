---------------------------- MODULE AudioKernel ----------------------------
(***************************************************************************)
(* audio_dsp: voices that read a sample memory at their own pitch, each    *)
(* with an envelope, mixed through a one-pole low-pass. The voices and the *)
(* filter are static; init resets them at every call.                      *)
(***************************************************************************)
EXTENDS Words
CONSTANTS
  VOICES, SAMPLE_MEM, FRAMES, SAMPLES_PER_FRAME,
  FRACTION,       \* bits of the fixed-point positions: 12
  PITCH, DETUNE,  \* sample_inc of voice 0, and what each next voice adds: 0x800, 0x80
  ENV_BITS,       \* bits of the envelope: 11, its maximum 0x7FF
  ATTACK, DECAY, SUSTAIN, RELEASE  \* 0x10, 0x4, 0x500, 0x2

EnvMax == 2^ENV_BITS - 1

init(seed) ==
  LET words == LcgWords(seed, SAMPLE_MEM)
  IN [SAMPLE |-> [i \in 0..(SAMPLE_MEM - 1) |-> Signed(words[i + 1]) \div 2^(WORD \div 2)],
      VOICES_STATE |-> [v \in 0..(VOICES - 1) |->
        [pos |-> 0, inc |-> PITCH + v * DETUNE, env |-> 0, phase |-> 0,
         off |-> (v * SAMPLE_MEM) \div VOICES]],
      LPF_STATE |-> 0]

fetch_sample(SAMPLE, off, idx) == SAMPLE[(off + idx) % SAMPLE_MEM]

Interpolated(SAMPLE, voice) ==
  LET at == voice.pos \div 2^FRACTION
      S(k) == fetch_sample(SAMPLE, voice.off, at + k)
  IN Quotient(S(0) + 2 * S(1) + 2 * S(2) + S(3), 6)

Envelope(voice) ==
  CASE voice.phase = 0 ->
         IF voice.env + ATTACK >= EnvMax THEN [voice EXCEPT !.env = EnvMax, !.phase = 1]
         ELSE [voice EXCEPT !.env = @ + ATTACK]
    [] voice.phase = 1 ->
         IF voice.env - DECAY < SUSTAIN THEN [voice EXCEPT !.env = SUSTAIN, !.phase = 2]
         ELSE [voice EXCEPT !.env = @ - DECAY]
    [] voice.phase = 2 -> voice
    [] OTHER -> [voice EXCEPT !.env = IF @ < RELEASE THEN 0 ELSE @ - RELEASE]

Advanced(voice) ==
  LET pos == voice.pos + voice.inc  end == SAMPLE_MEM * 2^FRACTION
  IN [voice EXCEPT !.pos = IF pos >= end THEN pos - end ELSE pos]

Clamp(x) == LET top == 2^(WORD \div 2 - 1)
            IN IF x < -top THEN -top ELSE IF x > top - 1 THEN top - 1 ELSE x

\* One output sample: every voice steps, the filter follows the mix.
Rendered(m) ==
  LET stepped == [v \in DOMAIN m.voices |-> Envelope(m.voices[v])]
      mix == For(LAMBDA sum, v : sum + (Interpolated(m.sample, m.voices[v]) * stepped[v].env) \div 2^ENV_BITS,
                 0, 0, VOICES - 1)
      lpf == m.lpf + (mix - m.lpf) \div 4
  IN [m EXCEPT !.voices = [v \in DOMAIN @ |-> Advanced(stepped[v])], !.lpf = lpf,
               !.sum = Wrap(@ + Clamp(lpf))]

\* After the frames at a quarter, a half and three quarters every voice changes phase.
EndOfFrame(m, frame) ==
  LET To(phase) == [m EXCEPT !.voices = [v \in DOMAIN @ |-> [@[v] EXCEPT !.phase = phase]]]
  IN CASE frame = FRAMES \div 4 -> To(1)
       [] frame = FRAMES \div 2 -> To(2)
       [] frame = (3 * FRAMES) \div 4 -> To(3)
       [] OTHER -> m

RenderAll(SAMPLE, VOICES_STATE, LPF_STATE) ==
  LET Frame(m, frame) == EndOfFrame(For(LAMBDA n, s : Rendered(n), m, 1, SAMPLES_PER_FRAME), frame)
  IN For(Frame, [sample |-> SAMPLE, voices |-> VOICES_STATE, lpf |-> LPF_STATE, sum |-> 0], 0, FRAMES - 1)

\* The statics are overwritten before they are read.
audio_dsp(SAMPLE, VOICES_STATE, LPF_STATE, seed) ==
  LET start == init(seed)
      end == RenderAll(start.SAMPLE, start.VOICES_STATE, start.LPF_STATE)
  IN [result |-> LowBits(end.sum, WORD - 1), SAMPLE |-> start.SAMPLE,
      VOICES_STATE |-> end.voices, LPF_STATE |-> end.lpf]
=============================================================================

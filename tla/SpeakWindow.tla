---------------------------- MODULE SpeakWindow ----------------------------
(***************************************************************************)
(* The BeSTspeak window: hot keys and menu commands arrive as messages of  *)
(* one queue; a command changes the voice, the pitch, the volume or the    *)
(* speed and then speaks, and to speak is to destroy the engine and create *)
(* it again with the volume and the speed it had.                          *)
(*                                                                         *)
(* TtsWav may dispatch further messages before it returns.  All that its   *)
(* caller does after it is to free the text, except for the exit command,  *)
(* which then destroys the window.  WM_CLOSE destroys it too, at any time, *)
(* so nothing is kept of the stack of nested calls.                        *)
(***************************************************************************)
EXTENDS Integers, Sequences

CONSTANTS
    LastVoice,      \* DRACULA, the last of the voices 0, 1, ... (13)
    Ghost,          \* the number of the voice GHOST (11)
    BaseFreq,       \* V_*_F: base pitch of a voice
    MinPitch, MaxPitch, PitchStep,      \* 45, 600 and PITCH_ADJUST 5
    MinGain, VoiceGain, GainStep,       \* -35, -5 and GAIN_ADJUST 5
    MinRate, RateStep,                  \* -100 and RATE_ADJUST 20
    RateBound,      \* bound: DecreaseRate has no limit of its own
    Keys,           \* the hot keys the user presses
    MenuVoices,     \* the voices the user picks from the menu
    MaxPresses      \* bound: key presses and menu picks

Voices == 0..LastVoice
CommandKeys == {"louder", "quieter", "faster", "slower",
                "pitchUp", "pitchDown", "reset", "speak", "exit"}
VoiceKeys == {"forward", "backward"}

ASSUME VoiceAssumption ==
    /\ LastVoice \in Nat /\ Ghost \in Voices
    /\ BaseFreq \in [Voices -> MinPitch..MaxPitch]
ASSUME RangeAssumption ==
    /\ MinPitch \in Nat /\ MaxPitch \in Nat /\ PitchStep \in Nat \ {0}
    /\ MinGain \in Int /\ VoiceGain \in MinGain..0 /\ GainStep \in Nat \ {0}
    /\ MinRate \in Int /\ MinRate <= 0 /\ RateStep \in Nat \ {0}
    /\ RateBound \in Nat
ASSUME InputAssumption ==
    /\ Keys \subseteq CommandKeys \cup VoiceKeys
    /\ MenuVoices \subseteq Voices /\ MaxPresses \in Nat

VARIABLES
    queue,     \* messages of the window
    select,    \* voice_select
    prefix,    \* the voice whose parameter string is in prefix
    rateText,  \* what prefix_rate says: a voice's rate, or a pitch
    freqText,  \* what prefix_freq says: a pitch
    pitch,     \* global_pitch
    engine,    \* the engine behind tts_handle: alive, with gain and rate
    open,      \* the window exists
    presses    \* presses so far

voiceVars == <<select, prefix, rateText, freqText, pitch>>
vars == <<queue, voiceVars, engine, open, presses>>

Key(k) == [kind |-> "hotkey", key |-> k]
Command(k) == [kind |-> "command", key |-> k]
VoiceCommand(v) == [kind |-> "voice", voice |-> v]
Startup == [kind |-> "startup"]

NoEngine == [alive |-> FALSE, gain |-> 0, rate |-> 0]
RateOf(v) == [of |-> "rate", voice |-> v]
PitchText(p) == [of |-> "pitch", pitch |-> p]

Clamp(x, low, high) == IF x < low THEN low ELSE IF x > high THEN high ELSE x
AtMost(x, high) == IF x > high THEN high ELSE x
AtLeast(x, low) == IF x < low THEN low ELSE x

(***************************************************************************)
(* The operations behind the commands.                                     *)
(***************************************************************************)
(* SetFreqPrefix(prefix_freq, p)                                           *)
SetFreqPrefix(p) == pitch' = p /\ freqText' = PitchText(p)

(* GetParams and SetParams on a null handle reach no engine.               *)
SetGain(e, g) == IF e.alive THEN [e EXCEPT !.gain = g] ELSE e
SetRate(e, r) == IF e.alive THEN [e EXCEPT !.rate = r] ELSE e

(* SetVoice.  For GHOST the pitch goes into prefix_rate.                   *)
\* Defect: voice_select is left to the hot keys.
KeepsSelect(v) == select
SelectAfter(v) == v

SetVoice(v) ==
    /\ select' = SelectAfter(v)
    /\ prefix' = v
    /\ pitch' = BaseFreq[v]
    /\ rateText' = IF v = Ghost THEN PitchText(BaseFreq[v]) ELSE RateOf(v)
    /\ freqText' = IF v = Ghost THEN freqText ELSE PitchText(BaseFreq[v])

(* InitSpeech when bstCreate succeeds: the volume and the speed are read   *)
(* from the engine before it is destroyed, and are 0 when there was none.  *)
\* Defect: they are read after the engine has been destroyed.
Forgetful(e) == NoEngine
Saved(e) == e

Reborn(e) == [alive |-> TRUE, gain |-> Saved(e).gain, rate |-> Saved(e).rate]

(* SpeakText(text, init) with engine e: bstCreate may fail, and then there *)
(* is no engine and nothing is spoken.                                     *)
SpeakText(e, init) ==
    \/ engine' = IF init THEN [Reborn(e) EXCEPT !.rate = 0] ELSE Reborn(e)
    \/ engine' = NoEngine

(***************************************************************************)
(* The user.                                                               *)
(***************************************************************************)
Turn(k) == CASE k = "forward" -> 1 [] k = "backward" -> -1 [] OTHER -> 0

(* WM_HOTKEY is put at the top of the queue; a key pressed while others    *)
(* are handled may also come after what is posted by then.                 *)
Press(k) ==
    /\ open /\ presses < MaxPresses
    /\ queue' \in {<<Key(k)>> \o queue, Append(queue, Key(k))}
    /\ presses' = presses + 1
    /\ UNCHANGED <<voiceVars, engine, open>>

Pick(v) ==
    /\ open /\ presses < MaxPresses
    /\ queue' = Append(queue, VoiceCommand(v))
    /\ presses' = presses + 1
    /\ UNCHANGED <<voiceVars, engine, open>>

(***************************************************************************)
(* WndProc: one action per message.                                        *)
(***************************************************************************)
First(kind) == open /\ queue # <<>> /\ Head(queue).kind = kind

(* WM_HOTKEY posts the WM_COMMAND behind what is in the queue already.     *)
Post(m) == queue' = Append(Tail(queue), m)

Wrap(v) == IF v < 0 THEN LastVoice ELSE IF v > LastVoice THEN 0 ELSE v

VoiceHotkey ==
    /\ First("hotkey") /\ Head(queue).key \in VoiceKeys
    /\ select' = Wrap(select + Turn(Head(queue).key))
    /\ Post(VoiceCommand(select'))
    /\ UNCHANGED <<prefix, rateText, freqText, pitch,
                   engine, open, presses>>

CommandHotkey ==
    /\ First("hotkey") /\ Head(queue).key \in CommandKeys
    /\ Post(Command(Head(queue).key))
    /\ UNCHANGED <<voiceVars, engine, open, presses>>

Dispatch == queue' = Tail(queue) /\ UNCHANGED <<open, presses>>

(* ID_VOICES_*, and ID_CONTROLS_RESET as the choice of the first voice.    *)
ChooseVoice(v) ==
    /\ SetVoice(v)
    /\ SpeakText(SetGain(engine, VoiceGain), TRUE)
    /\ Dispatch

OnVoice == First("voice") /\ ChooseVoice(Head(queue).voice)

FirstCommand(k) == First("command") /\ Head(queue).key = k

OnReset == FirstCommand("reset") /\ ChooseVoice(0)

OnStartup ==
    /\ First("startup")
    /\ UNCHANGED voiceVars
    /\ SpeakText(engine, TRUE)
    /\ Dispatch

(* A command that changes the engine to e and speaks.                      *)
Adjust(e) ==
    /\ UNCHANGED voiceVars
    /\ SpeakText(e, FALSE)
    /\ Dispatch

(* The limit each key respects.                                            *)
\* Defect: the limit of the other direction is tested.
GainUp(g) == AtLeast(g + GainStep, MinGain)
Louder(g) == AtMost(g + GainStep, 0)
Quieter(g) == AtLeast(g - GainStep, MinGain)
Faster(r) == AtLeast(r - RateStep, MinRate)

OnLouder == FirstCommand("louder") /\ Adjust(SetGain(engine, Louder(engine.gain)))
OnQuieter == FirstCommand("quieter") /\ Adjust(SetGain(engine, Quieter(engine.gain)))
OnFaster == FirstCommand("faster") /\ Adjust(SetRate(engine, Faster(engine.rate)))
OnSlower ==
    /\ FirstCommand("slower") /\ engine.rate + RateStep <= RateBound
    /\ Adjust(SetRate(engine, engine.rate + RateStep))

(* F4 and F5, help and credits: the text is not modelled.                  *)
OnSpeak == FirstCommand("speak") /\ Adjust(engine)

\* Defect: the new pitch is not put in the prefix.
OnlyPitch(p) == pitch' = p /\ UNCHANGED freqText
NewPitch(p) == SetFreqPrefix(p)

Repitch(p) ==
    /\ NewPitch(p)
    /\ UNCHANGED <<select, prefix, rateText>>
    /\ SpeakText(engine, FALSE)
    /\ Dispatch

PitchLimit(p) == Clamp(p, MinPitch, MaxPitch)

OnPitchUp == FirstCommand("pitchUp") /\ Repitch(PitchLimit(pitch + PitchStep))
OnPitchDown == FirstCommand("pitchDown") /\ Repitch(PitchLimit(pitch - PitchStep))

(* IDM_EXIT says "Exiting." and destroys the window when TtsWav returns.   *)
OnExit == FirstCommand("exit") /\ Adjust(engine)

(* DestroyWindow, by the exit command or by WM_CLOSE, also from a loop     *)
(* inside TtsWav: WM_DESTROY closes the engine; posted messages are lost.  *)
Destroy ==
    /\ open
    /\ open' = FALSE
    /\ engine' = NoEngine
    /\ queue' = <<>>
    /\ UNCHANGED <<voiceVars, presses>>

(***************************************************************************)
(* The specification.  WinMain has initialised the engine, chosen FRED and *)
(* created the window, which has posted WM_STARTUP to itself.              *)
(***************************************************************************)
Init ==
    /\ queue = <<Startup>>
    /\ select = 0 /\ prefix = 0
    /\ pitch = BaseFreq[0]
    /\ rateText = RateOf(0)
    /\ freqText = PitchText(BaseFreq[0])
    /\ engine = [alive |-> TRUE, gain |-> VoiceGain, rate |-> 0]
    /\ open = TRUE
    /\ presses = 0

Message ==
    \/ VoiceHotkey \/ CommandHotkey \/ OnVoice \/ OnReset \/ OnStartup
    \/ OnLouder \/ OnQuieter \/ OnFaster \/ OnSlower
    \/ OnPitchUp \/ OnPitchDown \/ OnSpeak \/ OnExit

Next ==
    \/ \E k \in Keys : Press(k)
    \/ \E v \in MenuVoices : Pick(v)
    \/ Message
    \/ Destroy

Spec == Init /\ [][Next]_vars

(***************************************************************************)
(* Properties.                                                             *)
(***************************************************************************)
TypeOK ==
    /\ queue \in Seq([kind : {"hotkey", "command"}, key : CommandKeys \cup VoiceKeys]
                       \cup [kind : {"voice"}, voice : Voices] \cup {Startup})
    /\ select \in Voices /\ prefix \in Voices
    /\ rateText \in [of : {"rate"}, voice : Voices]
                      \cup [of : {"pitch"}, pitch : MinPitch..MaxPitch]
    /\ freqText \in [of : {"pitch"}, pitch : MinPitch..MaxPitch]
    /\ pitch \in MinPitch..MaxPitch
    /\ engine \in [alive : BOOLEAN, gain : MinGain..0, rate : MinRate..RateBound]
    /\ open \in BOOLEAN
    /\ presses \in 0..MaxPresses

(* The keys raise and lower the pitch that is spoken: whatever was chosen  *)
(* and pressed before, the pitch in the text is the one the next F9 or F10 *)
(* starts from, and the rate in the text is the voice's own.  Neither is   *)
(* so for GHOST, whose pitch SetVoice writes in place of its rate.         *)
PitchFollowsKeys ==
    prefix # Ghost => freqText = PitchText(pitch) /\ rateText = RateOf(prefix)

(* voice_select, from which F11 counts, is the voice that is spoken with,  *)
(* once the commands the hot keys have posted are done.                    *)
VoicePending == \E i \in DOMAIN queue : queue[i].kind = "voice"
SelectionMatches == open /\ ~VoicePending => select = prefix

(* Destroying and creating the engine for every text keeps the volume and  *)
(* the speed, unless the creation fails: only the keys for them and the    *)
(* choice of a voice change them.                                          *)
Keeps(field) == engine.alive /\ engine'.alive /\ engine'[field] # engine[field]
VolumeMovers == First("voice") \/ FirstCommand("reset")
                  \/ FirstCommand("louder") \/ FirstCommand("quieter")
SpeedMovers == First("voice") \/ First("startup") \/ FirstCommand("reset")
                 \/ FirstCommand("faster") \/ FirstCommand("slower")
SettingsSurvive ==
    [][/\ Keeps("gain") => VolumeMovers
       /\ Keeps("rate") => SpeedMovers]_vars
=============================================================================

------------------------- MODULE SpeakWindowProofs -------------------------
(***************************************************************************)
(* Proofs about SpeakWindow, for any voices, ranges and steps of the       *)
(* settings, and any keys and menu picks in any order.                     *)
(***************************************************************************)
EXTENDS SpeakWindow, SequenceTheorems, TLAPS

Messages ==
    [kind : {"hotkey", "command"}, key : CommandKeys \cup VoiceKeys]
      \cup [kind : {"voice"}, voice : Voices] \cup {Startup}
EngineStates == [alive : BOOLEAN, gain : MinGain..0, rate : MinRate..RateBound]

(***************************************************************************)
(* The settings.                                                           *)
(***************************************************************************)
LEMMA Limits ==
    /\ 0 \in Voices /\ MinPitch <= MaxPitch
    /\ VoiceGain \in MinGain..0 /\ 0 \in MinGain..0 /\ 0 \in MinRate..RateBound
    /\ \A p \in MinPitch..MaxPitch :
          PitchLimit(p + PitchStep) \in MinPitch..MaxPitch
            /\ PitchLimit(p - PitchStep) \in MinPitch..MaxPitch
    /\ \A g \in MinGain..0 : Louder(g) \in MinGain..0 /\ Quieter(g) \in MinGain..0
    /\ \A r \in MinRate..RateBound :
          /\ Faster(r) \in MinRate..RateBound
          /\ r + RateStep <= RateBound => r + RateStep \in MinRate..RateBound
<1>1. 0 \in Voices
  BY VoiceAssumption DEF Voices
<1>2. BaseFreq[0] \in MinPitch..MaxPitch
  BY <1>1, VoiceAssumption
<1>3. MinPitch \in Nat /\ MaxPitch \in Nat /\ MinPitch <= MaxPitch
  BY <1>2, RangeAssumption
<1>4. ASSUME NEW p \in MinPitch..MaxPitch
      PROVE  /\ PitchLimit(p + PitchStep) \in MinPitch..MaxPitch
             /\ PitchLimit(p - PitchStep) \in MinPitch..MaxPitch
  BY <1>3, RangeAssumption DEF PitchLimit, Clamp
<1>5. ASSUME NEW g \in MinGain..0 PROVE Louder(g) \in MinGain..0 /\ Quieter(g) \in MinGain..0
  BY RangeAssumption DEF Louder, Quieter, AtMost, AtLeast
<1>6. ASSUME NEW r \in MinRate..RateBound
      PROVE  /\ Faster(r) \in MinRate..RateBound
             /\ r + RateStep <= RateBound => r + RateStep \in MinRate..RateBound
  BY RangeAssumption DEF Faster, AtLeast
<1>7. VoiceGain \in MinGain..0 /\ 0 \in MinGain..0 /\ 0 \in MinRate..RateBound
  BY RangeAssumption
<1> QED
  BY <1>1, <1>3, <1>4, <1>5, <1>6, <1>7

LEMMA EngineSet ==
    ASSUME NEW e \in EngineStates, NEW g \in MinGain..0, NEW r \in MinRate..RateBound
    PROVE  /\ SetGain(e, g) \in EngineStates /\ SetRate(e, r) \in EngineStates
           /\ SetGain(e, g).rate = e.rate /\ SetRate(e, r).gain = e.gain
           /\ SetGain(e, g).alive = e.alive /\ SetRate(e, r).alive = e.alive
BY DEF EngineStates, SetGain, SetRate

(* The engine that is created has the volume of the one destroyed, and its *)
(* speed unless the text has the parameters of a voice in front.           *)
LEMMA Recreated ==
    ASSUME NEW e \in EngineStates, NEW init \in BOOLEAN, SpeakText(e, init)
    PROVE  /\ engine' \in EngineStates
           /\ engine'.alive => /\ engine'.gain = e.gain
                               /\ ~init => engine'.rate = e.rate
<1>1. NoEngine \in EngineStates /\ ~NoEngine.alive
  BY Limits DEF NoEngine, EngineStates
<1>2. /\ Reborn(e) \in EngineStates /\ Reborn(e).gain = e.gain /\ Reborn(e).rate = e.rate
      /\ [Reborn(e) EXCEPT !.rate = 0] \in EngineStates
      /\ [Reborn(e) EXCEPT !.rate = 0].gain = e.gain
  BY Limits DEF Reborn, Saved, EngineStates
<1> QED
  BY <1>1, <1>2 DEF SpeakText

(***************************************************************************)
(* The queue.                                                              *)
(***************************************************************************)
Pending(q) == \E i \in DOMAIN q : q[i].kind = "voice"

LEMMA Posted ==
    ASSUME NEW q \in Seq(Messages), NEW m \in Messages
    PROVE  /\ Append(q, m) \in Seq(Messages)
           /\ Pending(Append(q, m)) <=> Pending(q) \/ m.kind = "voice"
<1>1. /\ Append(q, m) \in Seq(Messages) /\ Len(q) \in Nat
      /\ DOMAIN Append(q, m) = 1..(Len(q) + 1) /\ DOMAIN q = 1..Len(q)
      /\ \A i \in 1..Len(q) : Append(q, m)[i] = q[i]
      /\ Append(q, m)[Len(q) + 1] = m
  BY AppendProperties, LenProperties
<1>2. Len(q) + 1 \in 1..(Len(q) + 1) /\ 1..Len(q) \subseteq 1..(Len(q) + 1)
      /\ \A i \in 1..(Len(q) + 1) : i \in 1..Len(q) \/ i = Len(q) + 1
  BY <1>1
<1> HIDE DEF Messages
<1> QED
  BY <1>1, <1>2, Zenon DEF Pending

LEMMA Prepended ==
    ASSUME NEW q \in Seq(Messages), NEW m \in Messages
    PROVE  <<m>> \o q \in Seq(Messages) /\ (Pending(q) => Pending(<<m>> \o q))
<1> DEFINE s == <<m>> \o q
<1>1. /\ <<m>> \in Seq(Messages) /\ Len(<<m>>) = 1
      /\ Len(q) \in Nat /\ DOMAIN q = 1..Len(q)
  BY LenProperties
<1>2. /\ s \in Seq(Messages) /\ Len(s) = 1 + Len(q)
      /\ \A i \in 1..Len(s) : i > 1 => s[i] = q[i - 1]
  BY <1>1, ConcatProperties
<1>3. DOMAIN s = 1..Len(s)
  BY <1>2, LenProperties
<1> HIDE DEF s, Messages
<1>4. ASSUME NEW i \in DOMAIN q
      PROVE  i + 1 \in DOMAIN s /\ s[i + 1] = q[i]
  BY <1>1, <1>2, <1>3
<1>5. Pending(q) => Pending(s)
  BY <1>4, Zenon DEF Pending
<1> QED
  BY <1>2, <1>5 DEF s

LEMMA Dispatched ==
    ASSUME NEW q \in Seq(Messages), q # <<>>
    PROVE  /\ Head(q) \in Messages /\ Tail(q) \in Seq(Messages)
           /\ Pending(q) <=> Head(q).kind = "voice" \/ Pending(Tail(q))
<1> DEFINE t == Tail(q)
<1>1. /\ Head(q) \in Messages /\ t \in Seq(Messages) /\ Len(t) = Len(q) - 1
      /\ \A i \in 1..Len(t) : t[i] = q[i + 1]
  BY HeadTailProperties
<1>2. /\ Len(q) \in Nat /\ Len(q) > 0 /\ DOMAIN q = 1..Len(q) /\ Head(q) = q[1]
  BY EmptySeq, LenProperties
<1>3. DOMAIN t = 1..Len(t)
  BY <1>1, LenProperties
<1> HIDE DEF t, Messages
<1>4. ASSUME NEW i \in DOMAIN q, q[i].kind = "voice"
      PROVE  Head(q).kind = "voice" \/ Pending(t)
  <2>1. CASE i = 1
    BY <1>2, <1>4, <2>1
  <2>2. CASE i # 1
    <3>1. i - 1 \in DOMAIN t /\ t[i - 1] = q[i - 1 + 1] /\ i - 1 + 1 = i
      BY <1>1, <1>2, <1>3, <2>2
    <3> QED
      BY <1>4, <3>1 DEF Pending
  <2> QED
    BY <2>1, <2>2
<1>5. ASSUME NEW i \in DOMAIN t, t[i].kind = "voice"
      PROVE  Pending(q)
  <2>1. i + 1 \in DOMAIN q /\ q[i + 1] = t[i]
    BY <1>1, <1>2, <1>3
  <2> QED
    BY <1>5, <2>1 DEF Pending
<1>6. Head(q).kind = "voice" => Pending(q)
  BY <1>2 DEF Pending
<1> QED
  BY <1>1, <1>4, <1>5, <1>6 DEF Pending, t

(***************************************************************************)
(* The invariant: the invariants of the window together, which need each   *)
(* other's types only.                                                     *)
(***************************************************************************)
IInv == TypeOK /\ PitchFollowsKeys /\ SelectionMatches

LEMMA InitGood == Init => IInv
<1> SUFFICES ASSUME Init PROVE IInv
  OBVIOUS
<1>1. BaseFreq[0] \in MinPitch..MaxPitch /\ 0 \in Voices
  BY Limits, VoiceAssumption
<1>2. queue = <<Startup>> /\ Startup \in Messages /\ ~Pending(queue)
  BY DEF Init, Messages, Startup, Pending
<1>3. queue \in Seq(Messages)
  BY <1>2
<1>4. engine \in EngineStates
  BY Limits DEF Init, EngineStates
<1>5. rateText \in [of : {"rate"}, voice : Voices] /\ freqText = PitchText(pitch)
      /\ rateText = RateOf(prefix)
      /\ freqText \in [of : {"pitch"}, pitch : MinPitch..MaxPitch]
  BY <1>1 DEF Init, RateOf, PitchText
<1>6. presses \in 0..MaxPresses
  BY InputAssumption DEF Init
<1>7. TypeOK
  BY <1>1, <1>3, <1>4, <1>5, <1>6 DEF Init, TypeOK, Messages, EngineStates
<1> QED
  BY <1>5, <1>7 DEF Init, IInv, PitchFollowsKeys, SelectionMatches

(* The user adds a message; nothing else changes.                          *)
LEMMA InputGood ==
    ASSUME IInv, (\E k \in Keys : Press(k)) \/ (\E v \in MenuVoices : Pick(v))
    PROVE  IInv'
<1>1. queue \in Seq(Messages) /\ presses \in 0..MaxPresses
  BY DEF IInv, TypeOK, Messages
<1>2. /\ presses' = presses + 1 /\ presses < MaxPresses
      /\ UNCHANGED <<voiceVars, engine, open>>
      /\ \E m \in Messages : queue' \in {<<m>> \o queue, Append(queue, m)}
  <2>1. ASSUME NEW k \in Keys, Press(k)
        PROVE  Key(k) \in Messages /\ queue' \in {<<Key(k)>> \o queue, Append(queue, Key(k))}
    BY <2>1, InputAssumption DEF Press, Messages, Key, CommandKeys, VoiceKeys
  <2>2. ASSUME NEW v \in MenuVoices, Pick(v)
        PROVE  VoiceCommand(v) \in Messages /\ queue' = Append(queue, VoiceCommand(v))
    BY <2>2, InputAssumption DEF Pick, Messages, VoiceCommand
  <2>3. \E m \in Messages : queue' \in {<<m>> \o queue, Append(queue, m)}
    BY <2>1, <2>2
  <2> QED
    BY <2>3 DEF Press, Pick
<1>3. queue' \in Seq(Messages) /\ (Pending(queue) => Pending(queue'))
  BY <1>1, <1>2, Posted, Prepended
<1>4. presses' \in 0..MaxPresses
  BY <1>1, <1>2, InputAssumption
<1>5. TypeOK'
  BY <1>2, <1>3, <1>4 DEF IInv, TypeOK, Messages, voiceVars
<1>6. PitchFollowsKeys' /\ SelectionMatches'
  BY <1>2, <1>3 DEF IInv, PitchFollowsKeys, SelectionMatches, VoicePending, Pending, voiceVars
<1> QED
  BY <1>5, <1>6 DEF IInv

(* A hot key: the command goes to the end of the queue.                    *)
LEMMA HotkeyGood ==
    ASSUME IInv, VoiceHotkey \/ CommandHotkey
    PROVE  IInv'
<1>1. /\ queue \in Seq(Messages) /\ queue # <<>> /\ Head(queue).kind = "hotkey"
      /\ select \in Voices /\ prefix \in Voices
      /\ UNCHANGED <<prefix, rateText, freqText, pitch, engine, open, presses>>
  BY DEF IInv, TypeOK, Messages, VoiceHotkey, CommandHotkey, First, voiceVars
<1>2. /\ Head(queue) \in Messages /\ Tail(queue) \in Seq(Messages)
      /\ Pending(queue) <=> Pending(Tail(queue))
  BY <1>1, Dispatched
<1>3. PICK m \in Messages : /\ queue' = Append(Tail(queue), m)
                            /\ select' = select \/ m.kind = "voice"
                            /\ select' \in Voices
  <2>1. CASE VoiceHotkey
    <3>1. Turn(Head(queue).key) \in {1, -1, 0}
      BY DEF Turn
    <3>2. Wrap(select + Turn(Head(queue).key)) \in Voices
      BY <1>1, <3>1, VoiceAssumption DEF Wrap, Voices
    <3>3. select' \in Voices /\ queue' = Append(Tail(queue), VoiceCommand(select'))
      BY <2>1, <3>2 DEF VoiceHotkey, Post
    <3>4. VoiceCommand(select') \in Messages /\ VoiceCommand(select').kind = "voice"
      BY <3>3 DEF VoiceCommand, Messages
    <3> QED
      BY <3>3, <3>4
  <2>2. CASE CommandHotkey
    <3>1. queue' = Append(Tail(queue), Command(Head(queue).key)) /\ select' = select
          /\ Command(Head(queue).key) \in Messages
      BY <2>2 DEF CommandHotkey, Post, voiceVars, Command, Messages
    <3> QED
      BY <1>1, <3>1
  <2> QED
    BY <2>1, <2>2
<1>4. queue' \in Seq(Messages) /\ (Pending(queue') <=> Pending(queue) \/ m.kind = "voice")
  BY <1>2, <1>3, Posted
<1>5. TypeOK'
  BY <1>1, <1>3, <1>4 DEF IInv, TypeOK, Messages
<1>6. PitchFollowsKeys'
  BY <1>1 DEF IInv, PitchFollowsKeys
<1>7. SelectionMatches'
  BY <1>1, <1>3, <1>4 DEF IInv, SelectionMatches, VoicePending, Pending
<1> QED
  BY <1>5, <1>6, <1>7 DEF IInv

(* A command takes itself off the queue and recreates the engine; it keeps *)
(* the invariant when it puts the voice and the pitch in step.             *)
LEMMA CommandGood ==
    ASSUME IInv, queue # <<>>, Head(queue).kind # "voice" \/ select' = prefix', Dispatch,
           select' \in Voices, prefix' \in Voices, pitch' \in MinPitch..MaxPitch,
           rateText' \in [of : {"rate"}, voice : Voices]
                           \cup [of : {"pitch"}, pitch : MinPitch..MaxPitch],
           freqText' \in [of : {"pitch"}, pitch : MinPitch..MaxPitch],
           prefix' # Ghost => freqText' = PitchText(pitch') /\ rateText' = RateOf(prefix'),
           UNCHANGED <<select, prefix>> \/ select' = prefix',
           NEW e \in EngineStates, NEW init \in BOOLEAN, SpeakText(e, init)
    PROVE  IInv'
<1>1. queue \in Seq(Messages) /\ queue' = Tail(queue) /\ UNCHANGED <<open, presses>>
  BY DEF IInv, TypeOK, Messages, Dispatch
<1>2. queue' \in Seq(Messages) /\ (Head(queue).kind # "voice" => (Pending(queue) <=> Pending(queue')))
  BY <1>1, Dispatched
<1>3. engine' \in EngineStates
  BY Recreated
<1>4. TypeOK'
  BY <1>1, <1>2, <1>3 DEF IInv, TypeOK, Messages, EngineStates
<1>5. PitchFollowsKeys'
  BY DEF PitchFollowsKeys
<1>6. SelectionMatches'
  BY <1>1, <1>2 DEF IInv, SelectionMatches, VoicePending, Pending
<1> QED
  BY <1>4, <1>5, <1>6 DEF IInv

LEMMA ChooseVoiceGood ==
    ASSUME IInv, NEW v \in Voices, queue # <<>>, ChooseVoice(v)
    PROVE  IInv'
<1>1. /\ select' = v /\ prefix' = v /\ pitch' = BaseFreq[v]
      /\ rateText' = (IF v = Ghost THEN PitchText(BaseFreq[v]) ELSE RateOf(v))
      /\ freqText' = (IF v = Ghost THEN freqText ELSE PitchText(BaseFreq[v]))
      /\ SpeakText(SetGain(engine, VoiceGain), TRUE) /\ Dispatch
  BY DEF ChooseVoice, SetVoice, SelectAfter
<1>2. BaseFreq[v] \in MinPitch..MaxPitch
  BY VoiceAssumption
<1>3. /\ PitchText(BaseFreq[v]) \in [of : {"pitch"}, pitch : MinPitch..MaxPitch]
      /\ RateOf(v) \in [of : {"rate"}, voice : Voices]
  BY <1>2 DEF PitchText, RateOf
<1>4. /\ freqText \in [of : {"pitch"}, pitch : MinPitch..MaxPitch] /\ engine \in EngineStates
  BY DEF IInv, TypeOK, EngineStates
<1>5. SetGain(engine, VoiceGain) \in EngineStates
  BY <1>4, Limits, EngineSet
<1> QED
  BY <1>1, <1>2, <1>3, <1>4, <1>5, CommandGood

LEMMA SettingGood ==
    ASSUME IInv,
           OnStartup \/ OnLouder \/ OnQuieter \/ OnFaster \/ OnSlower \/ OnSpeak \/ OnExit
    PROVE  IInv'
<1>1. /\ queue # <<>> /\ Head(queue).kind # "voice" /\ Dispatch
      /\ UNCHANGED <<select, prefix, rateText, freqText, pitch>>
  BY DEF OnStartup, OnLouder, OnQuieter, OnFaster, OnSlower, OnSpeak, OnExit, Adjust,
         First, FirstCommand, voiceVars
<1>2. engine \in EngineStates /\ engine.gain \in MinGain..0 /\ engine.rate \in MinRate..RateBound
  BY DEF IInv, TypeOK, EngineStates
<1>3. \E e \in EngineStates : \E init \in BOOLEAN : SpeakText(e, init)
  <2>1. CASE OnStartup
    BY <1>2, <2>1 DEF OnStartup
  <2>2. CASE OnLouder \/ OnQuieter
    <3>1. PICK g \in MinGain..0 : SpeakText(SetGain(engine, g), FALSE)
      BY <1>2, <2>2, Limits DEF OnLouder, OnQuieter, Adjust
    <3> QED
      BY <1>2, <3>1, EngineSet, Limits
  <2>3. CASE OnFaster \/ OnSlower
    <3>1. PICK r \in MinRate..RateBound : SpeakText(SetRate(engine, r), FALSE)
      BY <1>2, <2>3, Limits DEF OnFaster, OnSlower, Adjust
    <3> QED
      BY <1>2, <3>1, EngineSet, Limits
  <2>4. CASE OnSpeak \/ OnExit
    BY <1>2, <2>4 DEF OnSpeak, OnExit, Adjust
  <2> QED
    BY <2>1, <2>2, <2>3, <2>4
<1>4. PICK e \in EngineStates, init \in BOOLEAN : SpeakText(e, init)
  BY <1>3
<1>5. /\ select' \in Voices /\ prefix' \in Voices /\ pitch' \in MinPitch..MaxPitch
      /\ rateText' \in [of : {"rate"}, voice : Voices]
                         \cup [of : {"pitch"}, pitch : MinPitch..MaxPitch]
      /\ freqText' \in [of : {"pitch"}, pitch : MinPitch..MaxPitch]
      /\ prefix' # Ghost => freqText' = PitchText(pitch') /\ rateText' = RateOf(prefix')
  BY <1>1 DEF IInv, TypeOK, PitchFollowsKeys
<1> QED
  BY <1>1, <1>4, <1>5, CommandGood

LEMMA PitchGood ==
    ASSUME IInv, OnPitchUp \/ OnPitchDown
    PROVE  IInv'
<1>1. pitch \in MinPitch..MaxPitch /\ engine \in EngineStates
      /\ select \in Voices /\ prefix \in Voices
  BY DEF IInv, TypeOK, EngineStates
<1>2. PICK p \in MinPitch..MaxPitch : Repitch(p)
  BY <1>1, Limits DEF OnPitchUp, OnPitchDown
<1>3. /\ queue # <<>> /\ Head(queue).kind # "voice"
  BY DEF OnPitchUp, OnPitchDown, First, FirstCommand
<1>4. /\ pitch' = p /\ freqText' = PitchText(p) /\ UNCHANGED <<select, prefix, rateText>>
      /\ SpeakText(engine, FALSE) /\ Dispatch
  BY <1>2 DEF Repitch, NewPitch, SetFreqPrefix
<1>5. PitchText(p) \in [of : {"pitch"}, pitch : MinPitch..MaxPitch]
  BY DEF PitchText
<1>6. /\ rateText' \in [of : {"rate"}, voice : Voices]
                         \cup [of : {"pitch"}, pitch : MinPitch..MaxPitch]
      /\ prefix' # Ghost => rateText' = RateOf(prefix')
  BY <1>4 DEF IInv, TypeOK, PitchFollowsKeys
<1> QED
  BY <1>1, <1>3, <1>4, <1>5, <1>6, CommandGood

LEMMA DestroyGood ==
    ASSUME IInv, Destroy
    PROVE  IInv'
<1>1. /\ open' = FALSE /\ queue' = <<>> /\ engine' = NoEngine
      /\ UNCHANGED <<select, prefix, rateText, freqText, pitch, presses>>
  BY DEF Destroy, voiceVars
<1>2. NoEngine \in EngineStates /\ <<>> \in Seq(Messages)
  BY Limits, EmptySeq DEF NoEngine, EngineStates
<1>3. TypeOK'
  BY <1>1, <1>2 DEF IInv, TypeOK, Messages, EngineStates
<1> QED
  BY <1>1, <1>3 DEF IInv, PitchFollowsKeys, SelectionMatches

LEMMA StepGood ==
    ASSUME IInv, [Next]_vars
    PROVE  IInv'
<1>1. CASE UNCHANGED vars
  BY <1>1 DEF vars, voiceVars, IInv, TypeOK, PitchFollowsKeys, SelectionMatches, VoicePending
<1>2. CASE OnVoice
  <2>1. queue # <<>> /\ Head(queue).kind = "voice" /\ Head(queue) \in Messages
        /\ ChooseVoice(Head(queue).voice)
    BY <1>2, Dispatched DEF OnVoice, First, IInv, TypeOK, Messages
  <2>2. Head(queue).voice \in Voices
    BY <2>1 DEF Messages, Startup
  <2> QED
    BY <2>1, <2>2, ChooseVoiceGood
<1>3. CASE OnReset
  <2>1. queue # <<>> /\ ChooseVoice(0)
    BY <1>3 DEF OnReset, FirstCommand, First
  <2> QED
    BY <2>1, ChooseVoiceGood, Limits
<1> QED
  BY <1>1, <1>2, <1>3, InputGood, HotkeyGood, SettingGood, PitchGood, DestroyGood
     DEF Next, Message

LEMMA Invariance == Spec => []IInv
BY InitGood, StepGood, PTL DEF Spec

(***************************************************************************)
(* The theorems.                                                           *)
(***************************************************************************)
(* Pitch, volume and speed keep to their limits, and the parameter texts   *)
(* are a voice's and a pitch's, under any keys and menu picks.             *)
THEOREM TypeCorrect == Spec => []TypeOK
BY Invariance, PTL DEF IInv

(* The pitch that is spoken is the one the pitch keys count from, and the  *)
(* rate the voice's own, whatever was chosen and pressed before, for every *)
(* voice but GHOST.                                                        *)
THEOREM PitchInStep == Spec => []PitchFollowsKeys
BY Invariance, PTL DEF IInv

(* voice_select and the voice that is spoken with agree whenever no voice  *)
(* command waits in the queue, however hot keys and menu picks mix.        *)
THEOREM SelectionInStep == Spec => []SelectionMatches
BY Invariance, PTL DEF IInv

(* Destroying the engine for every text loses neither volume nor speed:    *)
(* nothing but the keys for them and the choice of a voice changes them.   *)
THEOREM SettingsOutliveEngines == Spec => SettingsSurvive
<1>1. ASSUME IInv, [Next]_vars
      PROVE  (Keeps("gain") => VolumeMovers) /\ (Keeps("rate") => SpeedMovers)
  <2> USE DEF Keeps
  <2>1. engine \in EngineStates
    BY <1>1 DEF IInv, TypeOK, EngineStates
  <2>2. engine.gain \in MinGain..0 /\ engine.rate \in MinRate..RateBound
    BY <2>1 DEF EngineStates
  <2>3. CASE UNCHANGED engine
    BY <2>3
  <2>4. CASE OnVoice \/ OnReset
    BY <2>4 DEF OnVoice, OnReset, VolumeMovers, SpeedMovers
  <2>5. CASE OnStartup
    <3>1. SpeakText(engine, TRUE) /\ First("startup")
      BY <2>5 DEF OnStartup
    <3>2. engine'.alive => engine'.gain = engine.gain
      BY <2>1, <3>1, Recreated
    <3> QED
      BY <3>1, <3>2 DEF SpeedMovers
  <2>6. CASE OnLouder \/ OnQuieter
    <3>1. PICK g \in MinGain..0 : SpeakText(SetGain(engine, g), FALSE)
      BY <2>2, <2>6, Limits DEF OnLouder, OnQuieter, Adjust
    <3>2. SetGain(engine, g) \in EngineStates /\ SetGain(engine, g).rate = engine.rate
      BY <2>1, Limits, EngineSet
    <3>3. engine'.alive => engine'.rate = engine.rate
      BY <3>1, <3>2, Recreated
    <3> QED
      BY <2>6, <3>3 DEF OnLouder, OnQuieter, VolumeMovers
  <2>7. CASE OnFaster \/ OnSlower
    <3>1. PICK r \in MinRate..RateBound : SpeakText(SetRate(engine, r), FALSE)
      BY <2>2, <2>7, Limits DEF OnFaster, OnSlower, Adjust
    <3>2. SetRate(engine, r) \in EngineStates /\ SetRate(engine, r).gain = engine.gain
      BY <2>1, Limits, EngineSet
    <3>3. engine'.alive => engine'.gain = engine.gain
      BY <3>1, <3>2, Recreated
    <3> QED
      BY <2>7, <3>3 DEF OnFaster, OnSlower, SpeedMovers
  <2>8. CASE OnSpeak \/ OnExit \/ OnPitchUp \/ OnPitchDown
    <3>1. SpeakText(engine, FALSE)
      BY <2>8 DEF OnSpeak, OnExit, OnPitchUp, OnPitchDown, Repitch, Adjust
    <3>2. engine'.alive => engine'.gain = engine.gain /\ engine'.rate = engine.rate
      BY <2>1, <3>1, Recreated
    <3> QED
      BY <3>2
  <2>9. CASE Destroy
    BY <2>9 DEF Destroy, NoEngine
  <2>10. CASE \/ (\E k \in Keys : Press(k)) \/ (\E v \in MenuVoices : Pick(v))
              \/ VoiceHotkey \/ CommandHotkey
    BY <2>3, <2>10 DEF Press, Pick, VoiceHotkey, CommandHotkey
  <2> QED
    BY <1>1, <2>3, <2>4, <2>5, <2>6, <2>7, <2>8, <2>9, <2>10 DEF Next, Message, vars
<1>2. IInv /\ [Next]_vars =>
        [/\ Keeps("gain") => VolumeMovers
         /\ Keeps("rate") => SpeedMovers]_vars
  BY <1>1
<1> QED
  BY <1>2, Invariance, PTL DEF Spec, SettingsSurvive
=============================================================================

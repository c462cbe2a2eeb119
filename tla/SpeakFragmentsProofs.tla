----------------------- MODULE SpeakFragmentsProofs -----------------------
(***************************************************************************)
(* Proofs about SpeakFragments, for any fragments, sounds and settings and *)
(* whatever the site does.                                                 *)
(***************************************************************************)
EXTENDS SpeakFragments, SequenceTheorems, TLAPS

USE BoundsAssumption, SettingsAssumption

Speaking == pc \in {"synth", "check", "write"}

(***************************************************************************)
(* The parts of the invariant.                                             *)
(***************************************************************************)
SiteTypes ==
    /\ actions \subseteq {"abort", "skip", "rate", "volume"}
    /\ siteRate \in Rates /\ siteVolume \in Volumes
    /\ skips \in Nat /\ completed \in Nat /\ late \in Nat

CallTypes ==
    /\ frags \in Seq(Fragments) /\ frag \in Nat /\ frag >= 1
    /\ pc \in {"fragment", "synth", "check", "write", "returned"}
    /\ Speaking => frag <= Len(frags)
    /\ rate \in Rates /\ gain \in Int
    /\ asked \in [native : -100..100, sonic : Int, gain : Int]
    /\ written \in Nat /\ remaining \in Nat
    /\ aborted \in BOOLEAN /\ refused \in BOOLEAN

OutputTypes ==
    audio \in Seq(Nat) /\ events \in Seq([fragment : Nat, offset : Nat])

Base == SiteTypes /\ CallTypes /\ OutputTypes

(* What is counted is what the site took; no byte and no event is of a     *)
(* fragment that has not begun.                                            *)
Counted ==
    /\ written = Len(audio)
    /\ \A i \in 1..Len(audio) : audio[i] <= frag
    /\ pc = "fragment" => \A i \in 1..Len(audio) : audio[i] < frag
    /\ \A e \in 1..Len(events) :
          events[e].fragment <= frag /\ events[e].offset <= written
Aligned ==
    \A e \in 1..Len(events) : \A i \in 1..Len(audio) :
        audio[i] < events[e].fragment <=> i <= events[e].offset

(* A Write that is about to be made was decided before any abort.          *)
Quiet ==
    /\ late <= 1
    /\ "abort" \notin actions => late = 0
    /\ pc = "write" => late = 0

(* Every skip is pending or completed, and one that is ends the call.      *)
SkipsCounted == completed + (IF "skip" \in actions THEN 1 ELSE 0) <= skips
SkipEnds ==
    completed > 0 => pc = "returned" \/ (pc = "synth" /\ refused /\ aborted)

IInv == Base /\ Counted /\ Aligned /\ Quiet /\ SkipsCounted /\ SkipEnds /\ SettingsCurrent

(***************************************************************************)
(* The gain and the rates.                                                 *)
(***************************************************************************)
LEMMA GainRounds ==
    ASSUME NEW v \in 0..100
    PROVE  Gain(v) \in Int /\ 2 * Gain(v) - (v - 100) \in 0..1
BY DEF Gain

LEMMA GainIsInt ==
    ASSUME NEW v \in Volumes \cup FragVolumes
    PROVE  v \in 0..100 /\ Gain(v) \in Int
<1>1. v \in 0..100
  BY DEF SettingsAssumption
<1> QED
  BY <1>1, GainRounds

LEMMA FragmentFields ==
    ASSUME NEW f \in Fragments
    PROVE  f.rateAdj \in Int /\ f.volume \in 0..100
<1>1. CASE f \in [kind : {"bookmark", "passed"}, rateAdj : {0}, volume : {100}]
  BY <1>1
<1>2. CASE f \in [kind : {"text"}, rateAdj : RateAdjs, volume : FragVolumes]
  BY <1>2 DEF SettingsAssumption
<1> QED
  BY <1>1, <1>2 DEF Fragments

LEMMA RatesMeet ==
    ASSUME NEW r \in Int, NEW p \in SpeechRates(r)
    PROVE  /\ p.native \in -100..100 /\ p.sonic \in Int
           /\ 100 * p.sonic - 8 * p.native - 100 * r \in -4..4
<1> DEFINE c == Clamp(r, 8)
           n == p.native
           s == p.sonic
<1>1. c \in Int
  BY DEF Clamp
<1>2. n \in -100..100 /\ 2 * n + 25 * c \in -1..1 /\ s = r - c
  BY DEF SpeechRates, NativeRates
<1> HIDE DEF c, n, s
<1>3. s \in Int /\ 100 * s - 8 * n - 100 * r \in -4..4
  BY <1>1, <1>2
<1> QED
  BY <1>2, <1>3 DEF n, s

LEMMA CombinedInRange ==
    ASSUME NEW r \in Int
    PROVE  CombinedRate(r) \in -10..10
BY DEF CombinedRate, Clamp

(***************************************************************************)
(* What the site does, and what acknowledging does.                        *)
(***************************************************************************)
LEMMA SiteSteps ==
    ASSUME Base, Site
    PROVE  /\ UNCHANGED <<frags, engineVars, outputVars>>
           /\ SiteTypes'
           /\ actions \subseteq actions'
           /\ siteRate' # siteRate => "rate" \in actions'
           /\ siteVolume' # siteVolume => "volume" \in actions'
           /\ \/ skips' = skips /\ ("skip" \in actions' <=> "skip" \in actions)
              \/ skips' = skips + 1 /\ "skip" \notin actions
<1> USE DEF Base, SiteTypes, Raise, outputVars
<1>1. CASE Abort
  BY <1>1 DEF Abort
<1>2. CASE Skip
  BY <1>2 DEF Skip
<1>3. ASSUME NEW r \in Rates, SetRate(r)
      PROVE  /\ UNCHANGED <<frags, engineVars, outputVars, siteVolume, skips>>
             /\ siteRate' \in Rates /\ actions' = actions \cup {"rate"}
  BY <1>3 DEF SetRate
<1>4. ASSUME NEW v \in Volumes, SetVolume(v)
      PROVE  /\ UNCHANGED <<frags, engineVars, outputVars, siteRate, skips>>
             /\ siteVolume' \in Volumes /\ actions' = actions \cup {"volume"}
  BY <1>4 DEF SetVolume
<1> QED
  BY <1>1, <1>2, <1>3, <1>4 DEF Site

LEMMA Acknowledged ==
    ASSUME Base, MustStop, Acknowledge
    PROVE  /\ actions' \subseteq actions /\ actions \ actions' \subseteq {"skip"}
           /\ completed' \in Nat
           /\ \/ completed' = completed /\ actions' = actions
              \/ completed' = completed + 1 /\ "skip" \in actions /\ "skip" \notin actions'
BY DEF Base, SiteTypes, MustStop, Acknowledge

(* A text fragment begins: what the engine is asked for.                   *)
LEMMA Asked ==
    ASSUME Base, pc = "fragment", frag <= Len(frags), GetChanges,
           NEW r \in SpeechRates(CombinedRate(rate' + frags[frag].rateAdj))
    PROVE  /\ rate' \in Rates /\ gain' \in Int
           /\ r.native \in -100..100 /\ r.sonic \in Int
           /\ frags[frag] \in Fragments
<1>1. rate' \in Rates /\ rate' \in Int
  BY DEF Base, SiteTypes, CallTypes, GetChanges
<1>2. frags[frag] \in Fragments
  BY DEF Base, CallTypes
<1>3. gain' \in Int
  BY GainIsInt DEF Base, SiteTypes, CallTypes, GetChanges, NewGain
<1>4. frags[frag].rateAdj \in Int
  BY <1>2, FragmentFields
<1>5. CombinedRate(rate' + frags[frag].rateAdj) \in Int
  BY <1>1, <1>4, CombinedInRange
<1> QED
  BY <1>1, <1>2, <1>3, <1>5, RatesMeet

LEMMA Elements ==
    ASSUME Base
    PROVE  /\ \A i \in 1..Len(audio) : audio[i] \in Nat
           /\ \A e \in 1..Len(events) :
                 events[e].fragment \in Nat /\ events[e].offset \in Nat
           /\ Len(audio) \in Nat /\ Len(events) \in Nat
<1>1. \A e \in 1..Len(events) : events[e] \in [fragment : Nat, offset : Nat]
  BY ElementOfSeq DEF Base, OutputTypes
<1> QED
  BY <1>1, ElementOfSeq DEF Base, OutputTypes

(***************************************************************************)
(* Types.                                                                  *)
(***************************************************************************)
LEMMA BaseInit == Init => Base
<1> SUFFICES ASSUME Init PROVE Base
  OBVIOUS
<1>1. frags \in Seq(Fragments)
  <2>1. PICK n \in 1..MaxFragments : frags \in [1..n -> Fragments]
    BY DEF Init
  <2> QED
    BY <2>1
<1>2. SiteTypes
  BY DEF Init, SiteTypes
<1>3. Gain(siteVolume) \in Int
  BY GainIsInt DEF Init
<1>4. CallTypes
  <2>1. rate \in Rates /\ gain \in Int
    BY <1>3 DEF Init
  <2>2. asked \in [native : -100..100, sonic : Int, gain : Int]
    BY DEF Init
  <2>3. /\ frag = 1 /\ pc = "fragment" /\ written = 0 /\ remaining = 0
        /\ aborted \in BOOLEAN /\ refused \in BOOLEAN
    BY DEF Init
  <2> QED
    BY <1>1, <2>1, <2>2, <2>3 DEF CallTypes, Speaking
<1>5. OutputTypes
  BY DEF Init, OutputTypes
<1> QED
  BY <1>2, <1>4, <1>5 DEF Base

LEMMA BaseStep == Base /\ [Next]_vars => Base'
<1> SUFFICES ASSUME Base, [Next]_vars PROVE Base'
  OBVIOUS
<1> USE DEF Base, SiteTypes, CallTypes, OutputTypes, Speaking
<1>1. CASE Site
  BY <1>1, SiteSteps, SMTT(30) DEF engineVars, callVars, outputVars
<1>2. CASE StopBefore
  BY <1>2, Acknowledged DEF StopBefore
<1>3. CASE NextFragment
  <2>1. SiteTypes'
    BY <1>3 DEF NextFragment, GetChanges
  <2>2. OutputTypes'
    <3>1. [fragment |-> frag, offset |-> written] \in [fragment : Nat, offset : Nat]
      OBVIOUS
    <3>2. Append(events, [fragment |-> frag, offset |-> written])
            \in Seq([fragment : Nat, offset : Nat])
      BY <3>1, AppendProperties
    <3> QED
      BY <1>3, <3>2 DEF NextFragment, Announce
  <2>3. CASE frags[frag].kind = "text"
    <3>1. PICK r \in SpeechRates(CombinedRate(rate' + frags[frag].rateAdj)) :
              asked' = [native |-> r.native, sonic |-> r.sonic,
                        gain |-> FragmentGain(frags[frag])]
      BY <1>3, <2>3 DEF NextFragment
    <3>2. frags[frag] \in Fragments /\ gain' \in Int
      BY <1>3, <3>1, Asked DEF NextFragment
    <3>3. Gain(frags[frag].volume) \in Int
      BY <3>2, FragmentFields, GainRounds
    <3>4. FragmentGain(frags[frag]) \in Int
      BY <3>2, <3>3 DEF FragmentGain
    <3> QED
      BY <1>3, <2>1, <2>2, <2>3, <3>1, <3>4, Asked DEF NextFragment
  <2>4. CASE frags[frag].kind # "text"
    <3>1. rate' \in Rates /\ gain' \in Int
      BY <1>3, GainIsInt DEF NextFragment, GetChanges, NewGain
    <3>2. pc' = "fragment" /\ frag' = frag + 1
      BY <1>3, <2>4 DEF NextFragment
    <3>3. UNCHANGED <<frags, asked, written, remaining, aborted, refused>>
      BY <1>3, <2>4 DEF NextFragment
    <3> QED
      BY <2>1, <2>2, <3>1, <3>2, <3>3
  <2> QED
    BY <2>3, <2>4
<1>4. CASE Return
  BY <1>4 DEF Return, siteVars, outputVars
<1>5. CASE SynthReturns
  BY <1>5 DEF SynthReturns, siteVars, outputVars
<1>6. CASE Callback
  <2>1. CASE MustStop
    BY <1>6, <2>1, Acknowledged DEF Callback, Refuse, StopsSpeak
  <2>2. CASE ~MustStop
    <3>1. remaining' \in Nat
      BY <1>6, <2>2, BoundsAssumption DEF Callback, BoundsAssumption
    <3> QED
      BY <1>6, <2>2, <3>1 DEF Callback
  <2> QED
    BY <2>1, <2>2
<1>7. CASE Check
  BY <1>7, Acknowledged DEF Check, Refuse, StopsSpeak, StopsWriting
<1>8. CASE Write
  <2>1. SiteTypes'
    BY <1>8 DEF Write, siteVars
  <2>2. CASE \E n \in 0..remaining :
                /\ audio' = audio \o [i \in 1..n |-> frag]
                /\ written' = written + n /\ remaining' = remaining - n
                /\ pc' \in {"synth", "check"} /\ refused' = refused
    <3>1. PICK n \in 0..remaining :
                /\ audio' = audio \o [i \in 1..n |-> frag]
                /\ written' = written + n /\ remaining' = remaining - n
                /\ pc' \in {"synth", "check"} /\ refused' = refused
      BY <2>2
    <3>2. [i \in 1..n |-> frag] \in Seq(Nat)
      OBVIOUS
    <3>3. OutputTypes'
      BY <1>8, <3>1, <3>2, ConcatProperties DEF Write
    <3> QED
      BY <1>8, <2>1, <3>1, <3>3 DEF Write
  <2>3. CASE pc' = "synth" /\ refused' = TRUE /\ UNCHANGED <<audio, written, remaining>>
    BY <1>8, <2>1, <2>3 DEF Write
  <2> QED
    BY <1>8, <2>2, <2>3 DEF Write, Taken
<1>9. CASE UNCHANGED vars
  BY <1>9 DEF vars, engineVars, callVars, siteVars, outputVars
<1>10. CASE Throw
  <2>1. rate' \in Rates /\ gain' \in Int /\ actions' \subseteq actions
    BY <1>10, GainIsInt DEF Throw, GetChanges, NewGain
  <2> QED
    BY <1>10, <2>1 DEF Throw, outputVars
<1> QED
  BY <1>1, <1>2, <1>3, <1>4, <1>5, <1>6, <1>7, <1>8, <1>9, <1>10 DEF Next, Engine

(***************************************************************************)
(* Events and sound.                                                       *)
(***************************************************************************)
LEMMA CountedInit == Init => Counted /\ Aligned
BY DEF Init, Counted, Aligned

LEMMA CountedStep == Base /\ Counted /\ [Next]_vars => Counted'
<1> SUFFICES ASSUME Base, Counted, [Next]_vars PROVE Counted'
  OBVIOUS
<1> USE DEF Counted
<1>1. CASE Site
  BY <1>1, SiteSteps DEF engineVars, callVars, outputVars
<1>2. CASE StopBefore
  BY <1>2 DEF StopBefore
<1>3. CASE NextFragment
  <2>1. CASE events' = events /\ frag' = frag + 1 /\ pc' = "fragment"
    BY <1>3, <2>1, Elements DEF NextFragment, Base, CallTypes
  <2>2. ASSUME Announce
        PROVE  \A e \in 1..Len(events') :
                  /\ events'[e].fragment \in Nat
                  /\ events'[e].fragment <= frag /\ events'[e].offset <= written
    <3>1. /\ Len(events') = Len(events) + 1
          /\ \A e \in 1..Len(events) : events'[e] = events[e]
          /\ events'[Len(events) + 1] = [fragment |-> frag, offset |-> written]
      BY <2>2 DEF Announce, Base, OutputTypes
    <3>2. \A e \in 1..Len(events') : e \in 1..Len(events) \/ e = Len(events) + 1
      BY <3>1 DEF Base, OutputTypes
    <3>3. /\ [fragment |-> frag, offset |-> written].fragment = frag
          /\ [fragment |-> frag, offset |-> written].offset = written
          /\ frag \in Nat /\ written \in Nat
      BY DEF Base, CallTypes
    <3> QED
      BY <3>1, <3>2, <3>3, Elements
  <2>3. /\ UNCHANGED <<audio, written>> /\ frag \in Nat
        /\ \A i \in 1..Len(audio) : audio[i] \in Nat /\ audio[i] < frag
    BY <1>3, Elements DEF NextFragment, Base, CallTypes
  <2>4. CASE frags[frag].kind = "text"
    <3>1. Announce /\ pc' = "synth" /\ frag' = frag
      BY <1>3, <2>4 DEF NextFragment
    <3> QED
      BY <2>2, <2>3, <3>1
  <2>5. CASE frags[frag].kind = "bookmark"
    <3>1. Announce /\ pc' = "fragment" /\ frag' = frag + 1
      BY <1>3, <2>5 DEF NextFragment
    <3> QED
      BY <2>2, <2>3, <3>1, SMTT(30)
  <2>6. CASE frags[frag].kind = "passed"
    BY <1>3, <2>1, <2>6 DEF NextFragment
  <2> QED
    BY <1>3, <2>4, <2>5, <2>6 DEF NextFragment
<1>4. CASE Return
  BY <1>4 DEF Return, outputVars
<1>5. CASE SynthReturns
  <2>1. \A i \in 1..Len(audio) : audio[i] \in Nat
    BY Elements
  <2>2. \A e \in 1..Len(events) : events[e].fragment \in Nat
    BY Elements
  <2> QED
    BY <1>5, <2>1, <2>2 DEF SynthReturns, outputVars, Base, CallTypes
<1>6. CASE Callback
  BY <1>6 DEF Callback, Refuse
<1>7. CASE Check
  BY <1>7 DEF Check, Refuse
<1>8. CASE Write
  <2>1. CASE UNCHANGED <<audio, written>>
    BY <1>8, <2>1 DEF Write
  <2>2. ASSUME NEW n \in 0..remaining,
               audio' = audio \o [i \in 1..n |-> frag], written' = written + n
        PROVE  Counted'
    <3>1. [i \in 1..n |-> frag] \in Seq(Nat) /\ Len([i \in 1..n |-> frag]) = n
      BY DEF Base, CallTypes
    <3>2. /\ Len(audio') = Len(audio) + n
          /\ \A i \in 1..Len(audio') :
                audio'[i] = IF i <= Len(audio) THEN audio[i] ELSE frag
      BY <2>2, <3>1, ConcatProperties DEF Base, OutputTypes
    <3>3. \A i \in 1..Len(audio') : audio'[i] <= frag
      BY <3>2 DEF Base, CallTypes, OutputTypes
    <3>4. \A e \in 1..Len(events) : events[e].offset \in Nat
      BY Elements
    <3>5. frag' = frag /\ events' = events /\ pc' # "fragment"
      BY <1>8 DEF Write
    <3> QED
      BY <2>2, <3>2, <3>3, <3>4, <3>5, SMTT(30) DEF Base, CallTypes
  <2> QED
    BY <1>8, <2>1, <2>2 DEF Write, Taken
<1>9. CASE UNCHANGED vars
  BY <1>9 DEF vars, engineVars, callVars, outputVars
<1>10. CASE Throw
  BY <1>10 DEF Throw, outputVars
<1> QED
  BY <1>1, <1>2, <1>3, <1>4, <1>5, <1>6, <1>7, <1>8, <1>9, <1>10 DEF Next, Engine

LEMMA AlignedStep == Base /\ Counted /\ Aligned /\ [Next]_vars => Aligned'
<1> SUFFICES ASSUME Base, Counted, Aligned, [Next]_vars PROVE Aligned'
  OBVIOUS
<1> USE DEF Aligned
<1>1. CASE UNCHANGED <<audio, events>>
  BY <1>1
<1>2. CASE NextFragment /\ Announce
  <2>1. /\ Len(events') = Len(events) + 1
        /\ \A e \in 1..Len(events) : events'[e] = events[e]
        /\ events'[Len(events) + 1] = [fragment |-> frag, offset |-> written]
    BY <1>2 DEF Announce, Base, OutputTypes
  <2>2. \A e \in 1..Len(events') : e \in 1..Len(events) \/ e = Len(events) + 1
    BY <2>1 DEF Base, OutputTypes
  <2>3. \A i \in 1..Len(audio) : audio[i] < frag /\ i <= written
    BY <1>2 DEF NextFragment, Counted
  <2> QED
    BY <1>2, <2>1, <2>2, <2>3 DEF NextFragment
<1>3. ASSUME Write, NEW n \in 0..remaining, audio' = audio \o [i \in 1..n |-> frag]
      PROVE  Aligned'
  <2>1. [i \in 1..n |-> frag] \in Seq(Nat) /\ Len([i \in 1..n |-> frag]) = n
    BY DEF Base, CallTypes
  <2>2. /\ Len(audio') = Len(audio) + n
        /\ \A i \in 1..Len(audio') :
              audio'[i] = IF i <= Len(audio) THEN audio[i] ELSE frag
    BY <1>3, <2>1, ConcatProperties DEF Base, OutputTypes
  <2>3. \A e \in 1..Len(events) :
           /\ events[e].fragment \in Nat /\ events[e].offset \in Nat
           /\ events[e].fragment <= frag /\ events[e].offset <= Len(audio)
    BY Elements DEF Counted
  <2>4. Len(audio) \in Nat /\ frag \in Nat
    BY DEF Base, CallTypes, OutputTypes
  <2>5. ASSUME NEW e \in 1..Len(events), NEW i \in 1..Len(audio')
        PROVE  audio'[i] < events[e].fragment <=> i <= events[e].offset
    <3>1. CASE i <= Len(audio)
      BY <2>2, <2>4, <3>1
    <3>2. CASE i > Len(audio)
      BY <2>2, <2>3, <2>4, <3>2
    <3> QED
      BY <2>2, <2>4, <3>1, <3>2
  <2> QED
    BY <1>3, <2>5 DEF Write
<1> QED
  BY <1>1, <1>2, <1>3, SiteSteps
     DEF Next, Engine, StopBefore, NextFragment, Return, SynthReturns, Throw, Callback, Check,
         Refuse, Write, vars, outputVars

(***************************************************************************)
(* Abort and skip.                                                         *)
(***************************************************************************)
LEMMA StopsInit == Init => Quiet /\ SkipsCounted /\ SkipEnds
BY DEF Init, Quiet, SkipsCounted, SkipEnds

LEMMA QuietStep == Base /\ Quiet /\ [Next]_vars => Quiet'
<1> SUFFICES ASSUME Base, Quiet, [Next]_vars PROVE Quiet'
  OBVIOUS
<1> USE DEF Quiet
<1>1. CASE Site
  BY <1>1, SiteSteps DEF engineVars, callVars, outputVars
<1>2. CASE StopBefore
  BY <1>2, Acknowledged DEF StopBefore
<1>3. CASE NextFragment
  BY <1>3 DEF NextFragment, GetChanges
<1>4. CASE Return \/ SynthReturns
  BY <1>4 DEF Return, SynthReturns, siteVars, outputVars
<1>5. CASE Callback
  BY <1>5, Acknowledged DEF Callback, Refuse
<1>6. CASE Check
  <2>1. CASE MustStop
    BY <1>6, <2>1, Acknowledged DEF Check, StopsWriting, Refuse
  <2>2. CASE ~MustStop
    <3>1. "abort" \notin actions
      BY <2>2 DEF MustStop
    <3> QED
      BY <1>6, <2>2, <3>1 DEF Check, StopsWriting
  <2> QED
    BY <2>1, <2>2
<1>7. CASE Write
  <2>1. pc' # "write" /\ actions' = actions
    BY <1>7 DEF Write, siteVars
  <2>2. late' = IF "abort" \in actions THEN 1 ELSE 0
    BY <1>7 DEF Write
  <2> QED
    BY <2>1, <2>2
<1>8. CASE UNCHANGED vars
  BY <1>8 DEF vars, engineVars, callVars, siteVars, outputVars
<1>9. CASE Throw
  BY <1>9 DEF Throw, GetChanges, outputVars
<1> QED
  BY <1>1, <1>2, <1>3, <1>4, <1>5, <1>6, <1>7, <1>8, <1>9 DEF Next, Engine

LEMMA SkipStep ==
    Base /\ SkipsCounted /\ SkipEnds /\ [Next]_vars => SkipsCounted' /\ SkipEnds'
<1> SUFFICES ASSUME Base, SkipsCounted, SkipEnds, [Next]_vars
             PROVE  SkipsCounted' /\ SkipEnds'
  OBVIOUS
<1> USE DEF SkipsCounted, SkipEnds
<1>1. CASE Site
  <2>1. skips \in Nat /\ completed \in Nat
    BY DEF Base, SiteTypes
  <2>2. completed' = completed /\ UNCHANGED <<pc, refused, aborted>>
    BY <1>1, SiteSteps DEF engineVars, callVars, outputVars
  <2>3. \/ skips' = skips /\ ("skip" \in actions' <=> "skip" \in actions)
        \/ skips' = skips + 1 /\ "skip" \notin actions
    BY <1>1, SiteSteps
  <2> QED
    BY <2>1, <2>2, <2>3
<1>2. ASSUME MustStop, Acknowledge, skips' = skips,
             pc' = "returned" \/ (pc' = "synth" /\ refused' /\ aborted')
      PROVE  SkipsCounted' /\ SkipEnds'
  <2>1. skips \in Nat /\ completed \in Nat
    BY DEF Base, SiteTypes
  <2> QED
    BY <1>2, <2>1, Acknowledged
<1>3. CASE StopBefore
  BY <1>2, <1>3 DEF StopBefore
<1>4. CASE NextFragment
  BY <1>4 DEF NextFragment, GetChanges
<1>5. CASE Return \/ SynthReturns
  BY <1>5 DEF Return, SynthReturns, siteVars, outputVars, Base, CallTypes
<1>6. CASE Callback
  <2>1. CASE MustStop
    BY <1>2, <1>6, <2>1 DEF Callback, Refuse, StopsSpeak
  <2>2. CASE ~MustStop
    BY <1>6, <2>2 DEF Callback
  <2> QED
    BY <2>1, <2>2
<1>7. CASE Check
  <2>1. CASE MustStop
    BY <1>2, <1>7, <2>1 DEF Check, StopsWriting, Refuse, StopsSpeak
  <2>2. CASE ~MustStop
    BY <1>7, <2>2 DEF Check, StopsWriting
  <2> QED
    BY <2>1, <2>2
<1>8. CASE Write
  BY <1>8 DEF Write, siteVars
<1>9. CASE UNCHANGED vars
  BY <1>9 DEF vars, engineVars, callVars, siteVars, outputVars
<1>10. CASE Throw
  BY <1>10 DEF Throw, GetChanges, outputVars
<1> QED
  BY <1>1, <1>3, <1>4, <1>5, <1>6, <1>7, <1>8, <1>9, <1>10 DEF Next, Engine

(* After a completed skip nothing is written and nothing announced.        *)
LEMMA SkipSilences ==
    Base /\ SkipsCounted /\ SkipEnds /\ [Next]_vars
      => completed' <= skips' /\ (completed > 0 => UNCHANGED <<audio, events>>)
<1> SUFFICES ASSUME Base, SkipsCounted, SkipEnds, [Next]_vars
             PROVE  completed' <= skips' /\ (completed > 0 => UNCHANGED <<audio, events>>)
  OBVIOUS
<1> DEFINE c == completed'
           s == skips'
<1>1. c \in Nat /\ s \in Nat /\ (c <= s \/ c + 1 <= s)
  BY SkipStep, BaseStep DEF Base, SiteTypes, SkipsCounted
<1> HIDE DEF c, s
<1>2. c <= s
  BY <1>1
<1>3. ASSUME completed > 0 PROVE UNCHANGED <<audio, events>>
  <2>1. pc = "returned" \/ (pc = "synth" /\ refused)
    BY <1>3 DEF SkipEnds
  <2> QED
    BY <2>1, SiteSteps
       DEF Next, Engine, StopBefore, NextFragment, Return, SynthReturns, Throw, Callback, Check,
           Write, vars, outputVars
<1> QED
  BY <1>2, <1>3 DEF c, s

(***************************************************************************)
(* Settings.                                                               *)
(***************************************************************************)
(* What the engine has got, and the request it was given.                  *)
Known ==
    /\ rate # siteRate => "rate" \in actions
    /\ gain # Gain(siteVolume) => "volume" \in actions
Speed(r, request) == 100 * request.sonic - 8 * request.native - 100 * r \in -4..4
Loudness(volume, request) == 2 * request.gain - (siteVolume + volume - 200) \in 0..2
Meant ==
    Speaking => /\ Speed(CombinedRate(rate + frags[frag].rateAdj), asked)
                /\ "volume" \notin actions => Loudness(frags[frag].volume, asked)

LEMMA SettingsParts == SettingsCurrent <=> Known /\ Meant
BY DEF SettingsCurrent, Known, Meant, Speaking, Speed, Loudness

LEMMA KnownStep == Base /\ Known /\ [Next]_vars => Known'
<1> SUFFICES ASSUME Base, Known, [Next]_vars PROVE Known'
  OBVIOUS
<1> USE DEF Known
<1>1. CASE Site
  BY <1>1, SiteSteps DEF engineVars
<1>2. CASE NextFragment
  BY <1>2 DEF NextFragment, GetChanges, NewGain, Base, SiteTypes
<1>3. ASSUME UNCHANGED <<rate, gain, siteRate, siteVolume>>,
             actions \ actions' \subseteq {"skip"}
      PROVE  Known'
  BY <1>3
<1>4. CASE StopBefore
  BY <1>3, <1>4, Acknowledged DEF StopBefore
<1>5. CASE Callback
  BY <1>3, <1>5, Acknowledged DEF Callback, Refuse
<1>6. CASE Check
  BY <1>3, <1>6, Acknowledged DEF Check, StopsWriting, Refuse
<1>7. CASE Return \/ SynthReturns \/ Write \/ UNCHANGED vars
  BY <1>7 DEF Return, SynthReturns, Write, vars, engineVars, siteVars
<1>8. CASE Throw
  BY <1>8 DEF Throw, GetChanges, NewGain, Base, SiteTypes
<1> QED
  BY <1>1, <1>2, <1>4, <1>5, <1>6, <1>7, <1>8 DEF Next, Engine

LEMMA MeantStep == Base /\ Known /\ Meant /\ [Next]_vars => Meant'
<1> SUFFICES ASSUME Base, Known, Meant, [Next]_vars PROVE Meant'
  OBVIOUS
<1>1. ASSUME UNCHANGED <<frags, frag, rate, asked>>, Speaking' => Speaking,
             siteVolume' = siteVolume \/ "volume" \in actions',
             "volume" \in actions => "volume" \in actions'
      PROVE  Meant'
  BY <1>1 DEF Meant, Loudness
<1>2. CASE Site
  BY <1>1, <1>2, SiteSteps DEF engineVars, callVars, Speaking
<1>3. CASE StopBefore
  BY <1>3 DEF StopBefore, Meant, Speaking
<1>4. CASE NextFragment
  <2>1. CASE frags[frag].kind # "text"
    BY <1>4, <2>1 DEF NextFragment, Meant, Speaking
  <2>2. CASE frags[frag].kind = "text"
    <3>1. PICK r \in SpeechRates(CombinedRate(rate' + frags[frag].rateAdj)) :
              asked' = [native |-> r.native, sonic |-> r.sonic,
                        gain |-> FragmentGain(frags[frag])]
      BY <1>4, <2>2 DEF NextFragment
    <3>2. /\ pc = "fragment" /\ frag <= Len(frags) /\ GetChanges
          /\ UNCHANGED <<frags, frag, siteVolume>>
      BY <1>4, <2>2 DEF NextFragment
    <3>3. frags[frag] \in Fragments /\ rate' \in Int
      BY <3>1, <3>2, Asked, SettingsAssumption DEF SettingsAssumption
    <3>4. CombinedRate(rate' + frags[frag].rateAdj) \in Int
      BY <3>3, FragmentFields, CombinedInRange
    <3>5. Speed(CombinedRate(rate' + frags[frag].rateAdj), asked')
      BY <3>1, <3>4, RatesMeet DEF Speed
    <3>6. gain' = Gain(siteVolume)
      BY <3>2 DEF GetChanges, NewGain, Known
    <3>7. Loudness(frags[frag].volume, asked')
      <4> DEFINE v == siteVolume
                 w == frags[frag].volume
                 g == Gain(v)
                 h == Gain(w)
      <4>1. v \in 0..100 /\ w \in 0..100
        BY <3>3, FragmentFields, GainIsInt DEF Base, SiteTypes
      <4>2. /\ g \in Int /\ 2 * g - (v - 100) \in 0..1
            /\ h \in Int /\ 2 * h - (w - 100) \in 0..1
        BY <4>1, GainRounds
      <4>3. asked'.gain = g + h
        BY <3>1, <3>6 DEF FragmentGain
      <4> HIDE DEF v, w, g, h
      <4>4. 2 * (g + h) - (v + w - 200) \in 0..2
        BY <4>1, <4>2
      <4> QED
        BY <4>3, <4>4 DEF Loudness, v, w
    <3> QED
      BY <3>2, <3>5, <3>7 DEF Meant, Loudness
  <2> QED
    BY <2>1, <2>2
<1>5. CASE Return \/ SynthReturns
  BY <1>5 DEF Return, SynthReturns, Meant, Speaking
<1>6. CASE Callback
  BY <1>1, <1>6, Acknowledged DEF Callback, Refuse, Speaking
<1>7. CASE Check
  BY <1>1, <1>7, Acknowledged DEF Check, StopsWriting, Refuse, Speaking
<1>8. CASE Write
  BY <1>1, <1>8 DEF Write, siteVars, Speaking
<1>9. CASE UNCHANGED vars
  BY <1>1, <1>9 DEF vars, engineVars, callVars, siteVars, Speaking
<1>10. CASE Throw
  BY <1>10 DEF Throw, Meant, Speaking
<1> QED
  BY <1>2, <1>3, <1>4, <1>5, <1>6, <1>7, <1>8, <1>9, <1>10 DEF Next, Engine

(***************************************************************************)
(* The theorems.                                                           *)
(***************************************************************************)
LEMMA IInvInit == Init => IInv
<1>1. Init => SettingsCurrent
  BY DEF Init, SettingsCurrent
<1> QED
  BY <1>1, BaseInit, CountedInit, StopsInit DEF IInv

LEMMA IInvStep == IInv /\ [Next]_vars => IInv'
<1> SUFFICES ASSUME IInv, [Next]_vars PROVE IInv'
  OBVIOUS
<1>1. Base' /\ Counted' /\ Aligned' /\ Quiet' /\ SkipsCounted' /\ SkipEnds'
  BY BaseStep, CountedStep, AlignedStep, QuietStep, SkipStep DEF IInv
<1>2. Known' /\ Meant'
  BY SettingsParts, KnownStep, MeantStep DEF IInv
<1>3. SettingsCurrent'
  BY <1>2, SettingsParts, PTL
<1> QED
  BY <1>1, <1>3 DEF IInv

LEMMA Invariance == Spec => []IInv
BY IInvInit, IInvStep, PTL DEF Spec

(* Every event lies in the sound where its fragment begins, whatever the   *)
(* site took, refused or failed to take.                                   *)
THEOREM EventsLieRight == Spec => []EventsAligned
<1>1. IInv => EventsAligned
  <2> SUFFICES ASSUME IInv PROVE EventsAligned
    OBVIOUS
  <2>1. DOMAIN audio = 1..Len(audio) /\ DOMAIN events = 1..Len(events)
    BY DEF IInv, Base, OutputTypes
  <2> QED
    BY <2>1 DEF IInv, Aligned, EventsAligned
<1> QED
  BY <1>1, Invariance, PTL

(* At most one Write follows an abort.                                     *)
THEOREM AbortStops == Spec => []AbortStopsWrites
<1>1. IInv => AbortStopsWrites
  BY DEF IInv, Quiet, AbortStopsWrites
<1> QED
  BY <1>1, Invariance, PTL

(* No change of rate or volume is lost, and every fragment is spoken with  *)
(* the speed and the gain that were asked for.                             *)
THEOREM SettingsKept == Spec => []SettingsCurrent
BY Invariance, PTL DEF IInv

(* A skip is completed once and ends the call in silence.                  *)
THEOREM SkipIsFinal == Spec => SkipEndsCall
<1>1. IInv /\ [Next]_vars
        => [completed' <= skips' /\ (completed > 0 => UNCHANGED <<audio, events>>)]_vars
  BY SkipSilences DEF IInv
<1> QED
  BY <1>1, Invariance, PTL DEF Spec, SkipEndsCall
===========================================================================

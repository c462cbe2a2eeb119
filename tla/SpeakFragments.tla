-------------------------- MODULE SpeakFragments --------------------------
(***************************************************************************)
(* ISpTTSEngineImpl::Speak and its callback: one call of the SAPI engine,  *)
(* a list of text fragments, and the output site, which may at any moment  *)
(* raise actions (abort, skip, new rate, new volume) that the engine looks *)
(* at between fragments, before every piece of sound and before every      *)
(* Write.                                                                  *)
(*                                                                         *)
(* The site belongs to SAPI.  A flag for the rate or the volume is lowered *)
(* when the engine gets the new value, the flag for skip when the engine   *)
(* completes it; the flag for abort stays.  Write may take a part of what  *)
(* it is offered, or nothing, or fail.                                     *)
(***************************************************************************)
EXTENDS Integers, Sequences

CONSTANTS
    MaxFragments,   \* bound: fragments of the call
    MaxChunks,      \* bound: pieces of sound of a fragment
    ChunkSize,      \* bound: bytes of a piece of sound
    Rates, Volumes, \* values the user sets
    RateAdjs,       \* RateAdj of a fragment
    FragVolumes,    \* Volume of a fragment
    MaxChanges      \* bound: actions the site raises

ASSUME BoundsAssumption ==
    /\ MaxFragments \in Nat \ {0} /\ MaxChunks \in Nat /\ ChunkSize \in Nat
    /\ MaxChanges \in Nat
ASSUME SettingsAssumption ==
    /\ Rates \subseteq Int /\ Rates # {} /\ RateAdjs \subseteq Int /\ RateAdjs # {}
    /\ Volumes \subseteq 0..100 /\ Volumes # {}
    /\ FragVolumes \subseteq 0..100 /\ FragVolumes # {}

VARIABLES
    frags,      \* the fragments of this call
    frag,       \* the current one
    pc,         \* where Speak, or its callback, stands
    rate,       \* sapi_rate
    gain,       \* gain, computed from the volume
    asked,      \* the rates and the gain of the last request to speak
    written,    \* ctx.bytes_written
    aborted,    \* ctx.aborted
    refused,    \* the callback has answered false for this fragment
    chunks,     \* pieces of sound of this fragment so far
    remaining,  \* of the piece being written
    actions,    \* what GetActions answers
    siteRate, siteVolume,
    audio,      \* for every byte the site has taken, its fragment
    events,     \* events added: the fragment and the audio stream offset
    skips,      \* skips requested
    completed,  \* CompleteSkip calls
    late,       \* Write calls since the site raised abort: 0, 1, or 2 for more
    changes     \* actions raised so far

callVars == <<frag, pc, written, aborted, refused, chunks, remaining>>
engineVars == <<callVars, rate, gain, asked>>
siteVars == <<actions, siteRate, siteVolume, skips, changes>>
outputVars == <<audio, events, completed, late>>
vars == <<frags, engineVars, siteVars, outputVars>>

(* Text to speak or spell, bookmarks, and what is passed over: other       *)
(* actions, and fragments without text.                                    *)
Fragments ==
    [kind : {"bookmark", "passed"}, rateAdj : {0}, volume : {100}]
      \cup [kind : {"text"}, rateAdj : RateAdjs, volume : FragVolumes]

(* (volume - 100) * 0.5, truncated towards zero.                           *)
Gain(volume) == -((100 - volume) \div 2)

(* The speed is 2^(rate/8), for rates from -10 to 10.  The engine is       *)
(* twice as fast at its rate -100, half as fast at 100, and by powers of   *)
(* two in between; what is beyond that is left to Sonic, whose part is     *)
(* counted in steps of SAPI's rate.  A value half-way between two numbers  *)
(* may be rounded to either, as it comes from floating point.              *)
Clamp(r, limit) == IF r < -limit THEN -limit ELSE IF r > limit THEN limit ELSE r
CombinedRate(r) == Clamp(r, 10)

NativeRates(r) == {n \in -100..100 : 2 * n + 25 * Clamp(r, 8) \in -1..1}
\* Defect: the very slow speeds are Sonic's alone.
SonicAlone(r) ==
    [native : NativeRates(r), sonic : {IF r < -8 THEN r ELSE r - Clamp(r, 8)}]
SpeechRates(r) == [native : NativeRates(r), sonic : {r - Clamp(r, 8)}]

(* The fragment's own volume takes off as much again.                      *)
\* Defect: it replaces the user's.
FragmentOnly(f) == Gain(f.volume)
FragmentGain(f) == gain' + Gain(f.volume)

(***************************************************************************)
(* The site.                                                               *)
(***************************************************************************)
Raise(flag) ==
    /\ changes < MaxChanges
    /\ actions' = actions \cup {flag}
    /\ changes' = changes + 1
    /\ UNCHANGED <<frags, engineVars, outputVars>>

Abort == Raise("abort") /\ UNCHANGED <<siteRate, siteVolume, skips>>
Skip ==
    /\ "skip" \notin actions
    /\ Raise("skip") /\ skips' = skips + 1 /\ UNCHANGED <<siteRate, siteVolume>>
SetRate(r) ==
    Raise("rate") /\ siteRate' = r /\ UNCHANGED <<siteVolume, skips>>
SetVolume(v) ==
    Raise("volume") /\ siteVolume' = v /\ UNCHANGED <<siteRate, skips>>

(***************************************************************************)
(* Speak: the loop over the fragments.                                     *)
(***************************************************************************)
(* Abort is looked at before skip.                                         *)
MustStop == actions \cap {"abort", "skip"} # {}
Acknowledge ==
    IF "abort" \in actions
      THEN UNCHANGED <<actions, completed>>
      ELSE completed' = completed + 1 /\ actions' = actions \ {"skip"}

StopBefore ==
    /\ pc = "fragment" /\ frag <= Len(frags) /\ MustStop
    /\ Acknowledge
    /\ pc' = "returned"
    /\ UNCHANGED <<frags, frag, rate, gain, asked, written, aborted, refused, chunks,
                   remaining, siteRate, siteVolume, skips, changes, audio, events, late>>

(* The gain is computed again from the volume that GetVolume answers.      *)
\* Defect: it is left as it was.
OldGain(volume) == gain
NewGain(volume) == Gain(volume)

GetChanges ==
    /\ rate' = IF "rate" \in actions THEN siteRate ELSE rate
    /\ gain' = IF "volume" \in actions THEN NewGain(siteVolume) ELSE gain
    /\ actions' = actions \ {"rate", "volume"}

(* A bookmark is one event; the events of the sentence and of its words    *)
(* stand for one, as all are added before the sound, at the same offset.   *)
Announce == events' = Append(events, [fragment |-> frag, offset |-> written])

NextFragment ==
    /\ pc = "fragment" /\ frag <= Len(frags) /\ ~MustStop
    /\ GetChanges
    /\ \/ /\ frags[frag].kind = "text"
          /\ \E r \in SpeechRates(CombinedRate(rate' + frags[frag].rateAdj)) :
                asked' = [native |-> r.native, sonic |-> r.sonic,
                          gain |-> FragmentGain(frags[frag])]
          /\ pc' = "synth" /\ refused' = FALSE /\ chunks' = 0
          /\ Announce /\ UNCHANGED frag
       \/ /\ frags[frag].kind = "bookmark"
          /\ frag' = frag + 1 /\ Announce /\ UNCHANGED <<asked, pc, refused, chunks>>
       \/ /\ frags[frag].kind = "passed"
          /\ frag' = frag + 1 /\ UNCHANGED <<asked, pc, refused, chunks, events>>
    /\ UNCHANGED <<frags, written, aborted, remaining, siteRate, siteVolume, skips,
                   changes, audio, completed, late>>

Return ==
    /\ pc = "fragment" /\ frag > Len(frags)
    /\ pc' = "returned"
    /\ UNCHANGED <<frags, frag, rate, gain, asked, written, aborted, refused, chunks,
                   remaining, siteVars, outputVars>>

(* The bridge's speak, or speak_async, returns: at the end of the sound or *)
(* early; its result is ignored.                                           *)
SynthReturns ==
    /\ pc = "synth"
    /\ pc' = IF aborted THEN "returned" ELSE "fragment"
    /\ frag' = frag + 1
    /\ UNCHANGED <<frags, rate, gain, asked, written, aborted, refused, chunks, remaining,
                   siteVars, outputVars>>

(* Memory runs out while a fragment is prepared, or in the bridge: the     *)
(* exception ends the call, with an error for SAPI.                        *)
Throw ==
    /\ \/ /\ pc = "fragment" /\ frag <= Len(frags) /\ ~MustStop
          /\ GetChanges
       \/ pc = "synth" /\ UNCHANGED <<rate, gain, actions>>
    /\ pc' = "returned"
    /\ UNCHANGED <<frags, frag, asked, written, aborted, refused, chunks, remaining,
                   siteRate, siteVolume, skips, changes, outputVars>>

(***************************************************************************)
(* speak_callback.                                                         *)
(***************************************************************************)
(* It stops and answers false.                                             *)
\* Defect: a skip is completed and forgotten.
AbortOnly == "abort" \in actions
StopsSpeak == TRUE

Refuse ==
    /\ Acknowledge
    /\ aborted' = StopsSpeak /\ refused' = TRUE
    /\ pc' = "synth"

(* A piece of sound arrives; none does after the callback has refused one. *)
Callback ==
    /\ pc = "synth" /\ ~refused /\ chunks < MaxChunks
    /\ chunks' = chunks + 1
    /\ \/ MustStop /\ Refuse /\ UNCHANGED remaining
       \/ ~MustStop /\ remaining' \in 1..ChunkSize /\ pc' = "check"
          /\ UNCHANGED <<aborted, refused, actions, completed>>
    /\ UNCHANGED <<frags, frag, rate, gain, asked, written, siteRate, siteVolume, skips,
                   changes, audio, events, late>>

(* The loop looks at the actions again before every Write.                 *)
\* Defect: once for the whole piece is enough.
NotInTheLoop == FALSE
StopsWriting == MustStop

Check ==
    /\ pc = "check"
    /\ \/ StopsWriting /\ Refuse
       \/ ~StopsWriting /\ pc' = "write"
          /\ UNCHANGED <<aborted, refused, actions, completed>>
    /\ UNCHANGED <<frags, frag, rate, gain, asked, written, chunks, remaining, siteRate,
                   siteVolume, skips, changes, audio, events, late>>

(* What is counted is what the site has taken, n bytes.                    *)
\* Defect: what it was offered.
Offered(n) == remaining
Taken(n) == n

Write ==
    /\ pc = "write"
    /\ late' = IF "abort" \in actions /\ late < 2 THEN late + 1 ELSE late
    /\ \/ \E n \in 0..remaining :
             /\ audio' = audio \o [i \in 1..n |-> frag]
             /\ written' = written + Taken(n)
             /\ remaining' = remaining - n
             /\ pc' = IF n = remaining THEN "synth" ELSE "check"
             /\ UNCHANGED refused
       \/ pc' = "synth" /\ refused' = TRUE /\ UNCHANGED <<audio, written, remaining>>
    /\ UNCHANGED <<frags, frag, rate, gain, asked, aborted, chunks, siteVars, events, completed>>

(***************************************************************************)
(* The specification.  The engine has just asked for rate and volume.      *)
(***************************************************************************)
Init ==
    /\ frags \in UNION {[1..n -> Fragments] : n \in 1..MaxFragments}
    /\ frag = 1 /\ pc = "fragment"
    /\ siteRate \in Rates /\ siteVolume \in Volumes
    /\ rate = siteRate /\ gain = Gain(siteVolume) /\ asked = [native |-> 0, sonic |-> 0, gain |-> 0]
    /\ written = 0 /\ aborted = FALSE /\ refused = FALSE
    /\ chunks = 0 /\ remaining = 0 /\ actions = {}
    /\ audio = <<>> /\ events = <<>>
    /\ skips = 0 /\ completed = 0 /\ late = 0 /\ changes = 0

Site ==
    \/ Abort \/ Skip
    \/ \E r \in Rates : SetRate(r)
    \/ \E v \in Volumes : SetVolume(v)

Engine ==
    \/ StopBefore \/ NextFragment \/ Return \/ SynthReturns \/ Throw
    \/ Callback \/ Check \/ Write

Next == Site \/ Engine

Spec == Init /\ [][Next]_vars

(* The engine keeps running; the site need not do anything.                *)
FairSpec == Spec /\ WF_vars(Engine)

(***************************************************************************)
(* Properties.                                                             *)
(***************************************************************************)
MaxBytes == MaxFragments * MaxChunks * ChunkSize

TypeOK ==
    /\ frags \in Seq(Fragments) /\ frag \in 1..(MaxFragments + 1)
    /\ pc \in {"fragment", "synth", "check", "write", "returned"}
    /\ rate \in Rates /\ gain \in -50..0
    /\ asked \in [native : -100..100, sonic : -2..2, gain : -100..0]
    /\ written \in 0..MaxBytes /\ aborted \in BOOLEAN /\ refused \in BOOLEAN
    /\ chunks \in 0..MaxChunks /\ remaining \in 0..ChunkSize
    /\ actions \subseteq {"abort", "skip", "rate", "volume"}
    /\ siteRate \in Rates /\ siteVolume \in Volumes
    /\ audio \in Seq(1..MaxFragments)
    /\ events \in Seq([fragment : 1..MaxFragments, offset : 0..MaxBytes])
    /\ skips \in Nat /\ completed \in Nat /\ late \in 0..2 /\ changes \in 0..MaxChanges

(* An event lies where its fragment begins in the audio stream: all sound  *)
(* before its offset belongs to earlier fragments, all after it does not,  *)
(* however much of a piece the site took, refused or failed to take.       *)
EventsAligned ==
    \A e \in DOMAIN events : \A i \in DOMAIN audio :
        audio[i] < events[e].fragment <=> i <= events[e].offset

(* At most the Write that was already decided follows an abort.            *)
AbortStopsWrites == late <= 1

(* The engine never speaks on with a rate or a volume that the site has    *)
(* changed without having been told to look again; the rate of the engine  *)
(* together with Sonic's makes the speed that was asked for, up to half a  *)
(* unit of the engine's rate; and the gain is that of the two volumes      *)
(* together, up to the two roundings.                                      *)
SettingsCurrent ==
    /\ rate # siteRate => "rate" \in actions
    /\ gain # Gain(siteVolume) => "volume" \in actions
    /\ pc \in {"synth", "check", "write"} =>
         LET r == CombinedRate(rate + frags[frag].rateAdj)
         IN  /\ 100 * asked.sonic - 8 * asked.native - 100 * r \in -4..4
             /\ "volume" \notin actions =>
                  2 * asked.gain - (siteVolume + frags[frag].volume - 200) \in 0..2

(* A skip is completed once, and what was skipped stays silent: no sound   *)
(* and no event follows it in this call.                                   *)
SkipEndsCall ==
    [][completed' <= skips' /\ (completed > 0 => UNCHANGED <<audio, events>>)]_vars

(* Whatever the site does with the sound, an abort makes Speak return.     *)
AbortReturns == ("abort" \in actions) ~> (pc = "returned")
=============================================================================

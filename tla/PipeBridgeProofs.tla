------------------------- MODULE PipeBridgeProofs -------------------------
(***************************************************************************)
(* Proofs about PipeBridge, for any number of clients, calls and chunks,   *)
(* any quota of the streams and any crashes.                               *)
(***************************************************************************)
EXTENDS PipeBridge, SequenceTheorems, TLAPS

(***************************************************************************)
(* What is in a stream.                                                    *)
(***************************************************************************)
CommandsSent ==
    {Header("SPEAK", 1), Header("GET_VOICES", 0), Header("STOP", 0), Header("SHUTDOWN", 0)}
      \cup {SpeakText(u) : u \in 1..MaxSpeaks}
ResponsesSent ==
    {Header("OK", 0), Header("AUDIO_DATA", 2), Header("AUDIO_END", 0), Header("VOICES", 1),
     SizeField, VoiceList}
      \cup {Samples(u, i) : u \in 1..MaxSpeaks, i \in 1..MaxChunks}

IsType(unit, type) == unit.part = "header" /\ unit.type = type
Holds(s, type) == \E i \in 1..Len(s) : IsType(s[i], type)

(* The part that has to follow a unit, the one that has to follow s when   *)
(* s has to begin with first, and that all of s is in its place.           *)
Follows(unit) ==
    CASE IsType(unit, "SPEAK")      -> "text"
      [] IsType(unit, "AUDIO_DATA") -> "size"
      [] unit.part = "size"         -> "samples"
      [] IsType(unit, "VOICES")     -> "voices"
      [] OTHER                      -> "header"
Expected(s, first) == IF s = <<>> THEN first ELSE Follows(s[Len(s)])
Chained(s, first) ==
    \A i \in 1..Len(s) : s[i].part = IF i = 1 THEN first ELSE Follows(s[i - 1])

(* Of an utterance: its sound and its end.                                 *)
OfSpeak(unit) ==
    unit.part = "samples" \/ IsType(unit, "AUDIO_DATA") \/ IsType(unit, "AUDIO_END")
Silent(s) == \A i \in 1..Len(s) : ~OfSpeak(s[i])
EndsLast(s) ==
    \A i, j \in 1..Len(s) : i < j /\ IsType(s[i], "AUDIO_END") => ~OfSpeak(s[j])
OneSpeak(s) ==
    \A i, j \in 1..Len(s) : i < j => ~(IsType(s[i], "SPEAK") /\ IsType(s[j], "SPEAK"))
TextsOf(s, u) == \A i \in 1..Len(s) : s[i].part = "text" => s[i].utterance = u

(* The samples in s are the chunks m + 1, ..., n of utterance u.           *)
Sound(s, u, m, n) ==
    /\ m <= n
    /\ \A i \in 1..Len(s) : s[i].part = "samples" =>
          s[i].utterance = u /\ s[i].index \in (m + 1)..n
    /\ \A i, j \in 1..Len(s) :
          i < j /\ s[i].part = "samples" /\ s[j].part = "samples" =>
            s[i].index < s[j].index
    /\ \A k \in (m + 1)..n : \E i \in 1..Len(s) :
          s[i].part = "samples" /\ s[i].index = k

(***************************************************************************)
(* The parts of the invariant.                                             *)
(***************************************************************************)
Speaking(c) ==
    op[c] = "speak" /\ pc[c] \in {"sendBody", "readHeader", "readBody", "sendStop"}
Waiting(c) == pc[c] = "readBody"
First(c) == IF Waiting(c) THEN Follows(header[c]) ELSE "header"
ServerFirst == IF spc = "readText" THEN "text" ELSE "header"
Handling == spc \in {"readText", "synth", "audio"}

(* The server process, and the types of what only it looks at.             *)
ServerShape ==
    /\ spc \in {"down", "create", "listen", "read", "readText", "synth",
                "audio", "reply", "close"}
    /\ conn \in Clients \cup {NoClient}
    /\ conn # NoClient <=> spc \notin {"down", "create", "listen"}
    /\ out \in Seq(ResponsesSent) /\ (out # <<>> <=> spc \in {"audio", "reply"})
    /\ EndsLast(out)
    /\ Holds(out, "AUDIO_END") => spc = "reply"
    /\ Silent(out) \/ Holds(out, "AUDIO_END") \/ spc = "audio"
    /\ text \in 0..MaxSpeaks /\ (spc \in {"synth", "audio"} => text \in 1..MaxSpeaks)
    /\ gStop \in BOOLEAN /\ quitting \in BOOLEAN /\ crashes \in 0..MaxCrashes
    /\ spc \in {"synth", "audio"} => ~gStop

ClientShape(c) ==
    /\ pc[c] \in {"idle", "connect", "retry", "send", "sendBody",
                  "readHeader", "readBody", "sendStop"}
    /\ op[c] \in Operations
    /\ pipe[c] \in BOOLEAN /\ stopped[c] \in BOOLEAN
    /\ header[c] \in ResponsesSent /\ header[c].part = "header"
    /\ utterance[c] \in 0..MaxSpeaks
    /\ op[c] = "speak" /\ pc[c] # "idle" => utterance[c] > 0
    /\ heard[c] \in Seq(SamplesUnit)
    /\ result[c] \in {"none", "true", "false"}
    /\ toServer[c] \in Seq(CommandsSent) /\ toClient[c] \in Seq(ResponsesSent)
    /\ made[c] \in 0..MaxChunks
    /\ pc[c] \in {"sendBody", "sendStop"} => op[c] = "speak"
    /\ ~pipe[c] => pc[c] \in {"idle", "connect", "retry"} /\ toClient[c] = <<>>
    /\ Waiting(c) => header[c].size > 0

(* Every unit in a stream, and every unit to come, is in its place.        *)
Framed(c) ==
    /\ Chained(toClient[c], First(c))
    /\ conn = c => Chained(toServer[c], ServerFirst)
    /\ Connected(c) =>
         LET next == Expected(toClient[c], First(c))
         IN  /\ Chained(out, next) /\ Expected(out, next) = "header"
             /\ Expected(toServer[c], ServerFirst)
                  = IF pc[c] = "sendBody" THEN "text" ELSE "header"

(* A SPEAK on its way, being handled and answered: one at a time.          *)
Ordered(c) ==
    /\ EndsLast(toClient[c])
    /\ ~Speaking(c) =>
         Silent(toClient[c]) /\ ~(Waiting(c) /\ IsType(header[c], "AUDIO_DATA"))
    /\ Connected(c) =>
         /\ ~Speaking(c) =>
              Silent(out) /\ ~Handling /\ ~Holds(toServer[c], "SPEAK")
         /\ OneSpeak(toServer[c])
         /\ Holds(toServer[c], "SPEAK") => Silent(out) /\ ~Handling
         /\ Holds(toServer[c], "SPEAK") \/ spc = "readText" =>
              /\ Silent(toClient[c]) /\ heard[c] = <<>>
              /\ ~(Waiting(c) /\ IsType(header[c], "AUDIO_DATA"))
         /\ Handling \/ Holds(out, "AUDIO_END") => ~Holds(toClient[c], "AUDIO_END")

(* What the callback has got, what is on the way and what was made.        *)
Sounding(c) ==
    Connected(c) /\ (spc \in {"synth", "audio"} \/ Holds(out, "AUDIO_END"))
Counted(c) ==
    /\ \A i \in 1..Len(heard[c]) : heard[c][i] = Samples(utterance[c], i)
    /\ op[c] = "speak" /\ pc[c] \in {"connect", "retry", "send", "sendBody"} =>
         heard[c] = <<>>
    /\ Connected(c) =>
         /\ TextsOf(toServer[c], utterance[c])
         /\ spc \in {"synth", "audio"} => text = utterance[c]
    /\ Speaking(c) /\ ~stopped[c] =>
         \E n \in Nat :
            /\ Sound(toClient[c], utterance[c], Len(heard[c]), n)
            /\ Sounding(c) => Sound(out, utterance[c], n, made[c])
            /\ Holds(toClient[c], "AUDIO_END") => n = made[c]
    /\ pc[c] = "idle" /\ op[c] = "speak" /\ result[c] = "true" =>
         pipe[c] /\ (~stopped[c] => Len(heard[c]) = made[c])

Good(c) == ClientShape(c) /\ Framed(c) /\ Ordered(c) /\ Counted(c)

(* What is kept for every client is kept for nobody else.                  *)
ByClient(f) == f = [c \in Clients |-> f[c]]
Functions ==
    /\ ByClient(pc) /\ ByClient(op) /\ ByClient(pipe) /\ ByClient(stopped)
    /\ ByClient(header) /\ ByClient(utterance) /\ ByClient(heard) /\ ByClient(result)
    /\ ByClient(toServer) /\ ByClient(toClient) /\ ByClient(made)

IInv == Functions /\ ServerShape /\ \A c \in Clients : Good(c)

(***************************************************************************)
(* Lemmas about streams: what is appended to, and what is taken from, a    *)
(* stream.                                                                 *)
(***************************************************************************)
LEMMA Appended ==
    ASSUME NEW S, NEW s \in Seq(S), NEW e \in S
    PROVE  /\ Append(s, e) \in Seq(S) /\ Append(s, e) # <<>>
           /\ Len(s) \in Nat /\ Len(Append(s, e)) = Len(s) + 1
           /\ \A i \in 1..Len(s) : Append(s, e)[i] = s[i]
           /\ Append(s, e)[Len(s) + 1] = e
           /\ s = <<>> <=> Len(s) = 0
BY AppendProperties, EmptySeq, LenProperties

LEMMA Taken ==
    ASSUME NEW S, NEW s \in Seq(S), s # <<>>
    PROVE  /\ Head(s) \in S /\ Tail(s) \in Seq(S)
           /\ Len(s) \in Nat /\ Len(s) > 0 /\ Len(Tail(s)) = Len(s) - 1
           /\ Head(s) = s[1]
           /\ \A i \in 1..Len(Tail(s)) : Tail(s)[i] = s[i + 1]
           /\ Tail(s) = <<>> <=> Len(s) = 1
<1>1. Len(s) \in Nat /\ Len(s) > 0
  BY EmptySeq
<1>2. /\ Head(s) \in S /\ Tail(s) \in Seq(S) /\ Len(Tail(s)) = Len(s) - 1
      /\ \A i \in 1..Len(Tail(s)) : Tail(s)[i] = s[i + 1]
  BY HeadTailProperties
<1>3. Head(s) = s[1]
  OBVIOUS
<1>4. Tail(s) = <<>> <=> Len(Tail(s)) = 0
  BY <1>2, EmptySeq
<1> QED
  BY <1>1, <1>2, <1>3, <1>4

LEMMA HoldsAppend ==
    ASSUME NEW S, NEW s \in Seq(S), NEW e \in S, NEW type
    PROVE  Holds(Append(s, e), type) <=> Holds(s, type) \/ IsType(e, type)
<1> DEFINE t == Append(s, e)
<1>1. Len(s) \in Nat /\ Len(t) = Len(s) + 1 /\ (\A i \in 1..Len(s) : t[i] = s[i])
      /\ t[Len(s) + 1] = e
  BY Appended
<1> HIDE DEF t
<1>2. ASSUME NEW i \in 1..Len(t), IsType(t[i], type)
      PROVE  Holds(s, type) \/ IsType(e, type)
  BY <1>1, <1>2 DEF Holds
<1>3. ASSUME Holds(s, type) \/ IsType(e, type)
      PROVE  \E i \in 1..Len(t) : IsType(t[i], type)
  <2>1. CASE IsType(e, type)
    <3>1. Len(s) + 1 \in 1..Len(t)
      BY <1>1
    <3> QED
      BY <1>1, <2>1, <3>1
  <2>2. CASE Holds(s, type)
    <3>1. PICK i \in 1..Len(s) : IsType(s[i], type)
      BY <2>2 DEF Holds
    <3>2. i \in 1..Len(t) /\ t[i] = s[i]
      BY <1>1
    <3> QED
      BY <3>1, <3>2
  <2> QED
    BY <1>3, <2>1, <2>2
<1> QED
  BY <1>2, <1>3 DEF Holds, t

LEMMA HoldsTail ==
    ASSUME NEW S, NEW s \in Seq(S), s # <<>>, NEW type
    PROVE  Holds(s, type) <=> IsType(Head(s), type) \/ Holds(Tail(s), type)
<1> DEFINE t == Tail(s)
<1>1. Len(s) \in Nat /\ Len(s) > 0 /\ Len(t) = Len(s) - 1 /\ Head(s) = s[1]
      /\ \A i \in 1..Len(t) : t[i] = s[i + 1]
  BY Taken
<1> HIDE DEF t
<1>2. ASSUME NEW i \in 1..Len(s), IsType(s[i], type)
      PROVE  IsType(Head(s), type) \/ Holds(t, type)
  <2>1. CASE i = 1
    BY <1>1, <1>2, <2>1
  <2>2. CASE i # 1
    <3>1. i - 1 \in 1..Len(t) /\ t[i - 1] = s[i]
      BY <1>1, <2>2
    <3> QED
      BY <1>2, <3>1 DEF Holds
  <2> QED
    BY <2>1, <2>2
<1>3. ASSUME NEW i \in 1..Len(t), IsType(t[i], type)
      PROVE  Holds(s, type)
  <2>1. i + 1 \in 1..Len(s) /\ t[i] = s[i + 1]
    BY <1>1
  <2> QED
    BY <1>3, <2>1 DEF Holds
<1>4. IsType(Head(s), type) => Holds(s, type)
  BY <1>1 DEF Holds
<1> QED
  BY <1>2, <1>3, <1>4 DEF Holds, t

LEMMA NothingHeld ==
    /\ \A type : ~Holds(<<>>, type)
    /\ Silent(<<>>) /\ EndsLast(<<>>) /\ OneSpeak(<<>>)
    /\ \A u : TextsOf(<<>>, u)
    /\ \A first : Chained(<<>>, first) /\ Expected(<<>>, first) = first
BY DEF Holds, Silent, EndsLast, OneSpeak, TextsOf, Chained, Expected

LEMMA ChainedAppend ==
    ASSUME NEW S, NEW s \in Seq(S), NEW e \in S, NEW first,
           Chained(s, first), e.part = Expected(s, first)
    PROVE  Chained(Append(s, e), first) /\ Expected(Append(s, e), first) = Follows(e)
<1> DEFINE t == Append(s, e)
<1>1. Len(s) \in Nat /\ Len(t) = Len(s) + 1 /\ (\A i \in 1..Len(s) : t[i] = s[i])
      /\ t[Len(s) + 1] = e /\ t # <<>> /\ (s = <<>> <=> Len(s) = 0)
  BY Appended
<1> HIDE DEF t
<1>2. Expected(t, first) = Follows(e)
  BY <1>1 DEF Expected
<1>3. ASSUME NEW i \in 1..Len(t)
      PROVE  t[i].part = IF i = 1 THEN first ELSE Follows(t[i - 1])
  <2>1. CASE i = Len(s) + 1
    BY <1>1, <2>1 DEF Expected
  <2>2. CASE i # Len(s) + 1
    <3>1. i \in 1..Len(s) /\ t[i] = s[i] /\ (i # 1 => t[i - 1] = s[i - 1])
      BY <1>1, <2>2
    <3> QED
      BY <3>1 DEF Chained
  <2> QED
    BY <2>1, <2>2
<1> QED
  BY <1>2, <1>3 DEF Chained, t

LEMMA ChainedTail ==
    ASSUME NEW S, NEW s \in Seq(S), s # <<>>, NEW first, Chained(s, first)
    PROVE  /\ Head(s).part = first
           /\ Chained(Tail(s), Follows(Head(s)))
           /\ Expected(Tail(s), Follows(Head(s))) = Expected(s, first)
<1> DEFINE t == Tail(s)
<1>1. Len(s) \in Nat /\ Len(s) > 0 /\ Len(t) = Len(s) - 1 /\ Head(s) = s[1]
      /\ (\A i \in 1..Len(t) : t[i] = s[i + 1]) /\ (t = <<>> <=> Len(s) = 1)
  BY Taken
<1> HIDE DEF t
<1>2. Head(s).part = first
  BY <1>1 DEF Chained
<1>3. ASSUME NEW i \in 1..Len(t)
      PROVE  t[i].part = IF i = 1 THEN Follows(Head(s)) ELSE Follows(t[i - 1])
  <2>1. i + 1 \in 1..Len(s) /\ t[i] = s[i + 1] /\ i + 1 # 1
        /\ s[i + 1].part = Follows(s[i + 1 - 1])
    BY <1>1 DEF Chained
  <2>2. CASE i = 1
    BY <1>1, <2>1, <2>2
  <2>3. CASE i # 1
    <3>1. t[i - 1] = s[i - 1 + 1] /\ i + 1 - 1 = i - 1 + 1
      BY <1>1, <2>3
    <3> QED
      BY <2>1, <2>3, <3>1
  <2> QED
    BY <2>2, <2>3
<1>4. Expected(t, Follows(Head(s))) = Expected(s, first)
  <2>1. CASE t = <<>>
    BY <1>1, <2>1 DEF Expected
  <2>2. CASE t # <<>>
    <3>1. Len(t) \in 1..Len(t) /\ t[Len(t)] = s[Len(s)]
      BY <1>1, <2>2
    <3> QED
      BY <2>2, <3>1 DEF Expected
  <2> QED
    BY <2>1, <2>2
<1> QED
  BY <1>2, <1>3, <1>4 DEF Chained, t

LEMMA SilentAppend ==
    ASSUME NEW S, NEW s \in Seq(S), NEW e \in S
    PROVE  Silent(Append(s, e)) <=> Silent(s) /\ ~OfSpeak(e)
<1> DEFINE t == Append(s, e)
<1>1. Len(s) \in Nat /\ Len(t) = Len(s) + 1 /\ (\A i \in 1..Len(s) : t[i] = s[i])
      /\ t[Len(s) + 1] = e
  BY Appended
<1> HIDE DEF t
<1>2. ASSUME Silent(t) PROVE Silent(s) /\ ~OfSpeak(e)
  BY <1>1, <1>2 DEF Silent
<1>3. ASSUME Silent(s), ~OfSpeak(e) PROVE Silent(t)
  BY <1>1, <1>3 DEF Silent
<1> QED
  BY <1>2, <1>3 DEF t

LEMMA SilentTail ==
    ASSUME NEW S, NEW s \in Seq(S), s # <<>>
    PROVE  Silent(s) <=> ~OfSpeak(Head(s)) /\ Silent(Tail(s))
<1> DEFINE t == Tail(s)
<1>1. Len(s) \in Nat /\ Len(s) > 0 /\ Len(t) = Len(s) - 1 /\ Head(s) = s[1]
      /\ \A i \in 1..Len(t) : t[i] = s[i + 1]
  BY Taken
<1> HIDE DEF t
<1>2. ASSUME Silent(s) PROVE ~OfSpeak(Head(s)) /\ Silent(t)
  BY <1>1, <1>2 DEF Silent
<1>3. ASSUME ~OfSpeak(Head(s)), Silent(t), NEW i \in 1..Len(s) PROVE ~OfSpeak(s[i])
  <2>1. CASE i = 1
    BY <1>1, <1>3, <2>1
  <2>2. CASE i # 1
    <3>1. i - 1 \in 1..Len(t) /\ t[i - 1] = s[i]
      BY <1>1, <2>2
    <3> QED
      BY <1>3, <3>1 DEF Silent
  <2> QED
    BY <2>1, <2>2
<1> QED
  BY <1>2, <1>3 DEF Silent, t

(* A silent stream has no end of an utterance.                             *)
LEMMA SilentHolds ==
    ASSUME NEW s, Silent(s)
    PROVE  ~Holds(s, "AUDIO_END") /\ ~Holds(s, "AUDIO_DATA") /\ EndsLast(s)
BY DEF Silent, Holds, OfSpeak, EndsLast

LEMMA EndsLastAppend ==
    ASSUME NEW S, NEW s \in Seq(S), NEW e \in S,
           EndsLast(s), Holds(s, "AUDIO_END") => ~OfSpeak(e)
    PROVE  EndsLast(Append(s, e))
<1> DEFINE t == Append(s, e)
<1>1. Len(s) \in Nat /\ Len(t) = Len(s) + 1 /\ (\A i \in 1..Len(s) : t[i] = s[i])
      /\ t[Len(s) + 1] = e
  BY Appended
<1> HIDE DEF t
<1>2. ASSUME NEW i \in 1..Len(t), NEW j \in 1..Len(t), i < j, IsType(t[i], "AUDIO_END")
      PROVE  ~OfSpeak(t[j])
  <2>1. i \in 1..Len(s) /\ t[i] = s[i]
    BY <1>1, <1>2
  <2>2. CASE j = Len(s) + 1
    BY <1>1, <1>2, <2>1, <2>2 DEF Holds
  <2>3. CASE j # Len(s) + 1
    <3>1. j \in 1..Len(s) /\ t[j] = s[j]
      BY <1>1, <2>3
    <3> QED
      BY <1>2, <2>1, <3>1 DEF EndsLast
  <2> QED
    BY <2>2, <2>3
<1> QED
  BY <1>2 DEF EndsLast, t

LEMMA EndsLastTail ==
    ASSUME NEW S, NEW s \in Seq(S), s # <<>>, EndsLast(s)
    PROVE  EndsLast(Tail(s)) /\ (IsType(Head(s), "AUDIO_END") => Silent(Tail(s)))
<1> DEFINE t == Tail(s)
<1>1. Len(s) \in Nat /\ Len(s) > 0 /\ Len(t) = Len(s) - 1 /\ Head(s) = s[1]
      /\ \A i \in 1..Len(t) : t[i] = s[i + 1]
  BY Taken
<1> HIDE DEF t
<1>2. ASSUME NEW i \in 1..Len(t), NEW j \in 1..Len(t), i < j, IsType(t[i], "AUDIO_END")
      PROVE  ~OfSpeak(t[j])
  <2>1. /\ i + 1 \in 1..Len(s) /\ j + 1 \in 1..Len(s) /\ i + 1 < j + 1
        /\ t[i] = s[i + 1] /\ t[j] = s[j + 1]
    BY <1>1, <1>2
  <2> QED
    BY <1>2, <2>1 DEF EndsLast
<1>3. ASSUME IsType(Head(s), "AUDIO_END"), NEW i \in 1..Len(t)
      PROVE  ~OfSpeak(t[i])
  <2>1. 1 \in 1..Len(s) /\ i + 1 \in 1..Len(s) /\ 1 < i + 1 /\ t[i] = s[i + 1]
    BY <1>1
  <2> QED
    BY <1>1, <1>3, <2>1 DEF EndsLast
<1> QED
  BY <1>2, <1>3 DEF EndsLast, Silent, t

LEMMA OneSpeakAppend ==
    ASSUME NEW S, NEW s \in Seq(S), NEW e \in S,
           OneSpeak(s), IsType(e, "SPEAK") => ~Holds(s, "SPEAK")
    PROVE  OneSpeak(Append(s, e))
<1> DEFINE t == Append(s, e)
<1>1. Len(s) \in Nat /\ Len(t) = Len(s) + 1 /\ (\A i \in 1..Len(s) : t[i] = s[i])
      /\ t[Len(s) + 1] = e
  BY Appended
<1> HIDE DEF t
<1>2. ASSUME NEW i \in 1..Len(t), NEW j \in 1..Len(t), i < j,
             IsType(t[i], "SPEAK"), IsType(t[j], "SPEAK")
      PROVE  FALSE
  <2>1. i \in 1..Len(s) /\ t[i] = s[i]
    BY <1>1, <1>2
  <2>2. CASE j = Len(s) + 1
    BY <1>1, <1>2, <2>1, <2>2 DEF Holds
  <2>3. CASE j # Len(s) + 1
    <3>1. j \in 1..Len(s) /\ t[j] = s[j]
      BY <1>1, <2>3
    <3> QED
      BY <1>2, <2>1, <3>1 DEF OneSpeak
  <2> QED
    BY <2>2, <2>3
<1> QED
  BY <1>2 DEF OneSpeak, t

LEMMA OneSpeakTail ==
    ASSUME NEW S, NEW s \in Seq(S), s # <<>>, OneSpeak(s)
    PROVE  OneSpeak(Tail(s)) /\ (IsType(Head(s), "SPEAK") => ~Holds(Tail(s), "SPEAK"))
<1> DEFINE t == Tail(s)
<1>1. Len(s) \in Nat /\ Len(s) > 0 /\ Len(t) = Len(s) - 1 /\ Head(s) = s[1]
      /\ \A i \in 1..Len(t) : t[i] = s[i + 1]
  BY Taken
<1> HIDE DEF t
<1>2. ASSUME NEW i \in 1..Len(t), NEW j \in 1..Len(t), i < j,
             IsType(t[i], "SPEAK"), IsType(t[j], "SPEAK")
      PROVE  FALSE
  <2>1. /\ i + 1 \in 1..Len(s) /\ j + 1 \in 1..Len(s) /\ i + 1 < j + 1
        /\ t[i] = s[i + 1] /\ t[j] = s[j + 1]
    BY <1>1, <1>2
  <2> QED
    BY <1>2, <2>1 DEF OneSpeak
<1>3. ASSUME IsType(Head(s), "SPEAK"), NEW i \in 1..Len(t), IsType(t[i], "SPEAK")
      PROVE  FALSE
  <2>1. 1 \in 1..Len(s) /\ i + 1 \in 1..Len(s) /\ 1 < i + 1 /\ t[i] = s[i + 1]
    BY <1>1
  <2> QED
    BY <1>1, <1>3, <2>1 DEF OneSpeak
<1> QED
  BY <1>2, <1>3 DEF OneSpeak, Holds, t

LEMMA TextsAppend ==
    ASSUME NEW S, NEW s \in Seq(S), NEW e \in S, NEW u,
           TextsOf(s, u), e.part = "text" => e.utterance = u
    PROVE  TextsOf(Append(s, e), u)
<1> DEFINE t == Append(s, e)
<1>1. Len(s) \in Nat /\ Len(t) = Len(s) + 1 /\ (\A i \in 1..Len(s) : t[i] = s[i])
      /\ t[Len(s) + 1] = e
  BY Appended
<1> HIDE DEF t
<1>2. \A i \in 1..Len(t) : i \in 1..Len(s) \/ i = Len(s) + 1
  BY <1>1
<1> QED
  BY <1>1, <1>2 DEF TextsOf, t

LEMMA TextsTail ==
    ASSUME NEW S, NEW s \in Seq(S), s # <<>>, NEW u, TextsOf(s, u)
    PROVE  TextsOf(Tail(s), u) /\ (Head(s).part = "text" => Head(s).utterance = u)
<1> DEFINE t == Tail(s)
<1>1. Len(s) \in Nat /\ Len(s) > 0 /\ Len(t) = Len(s) - 1 /\ Head(s) = s[1]
      /\ \A i \in 1..Len(t) : t[i] = s[i + 1] /\ i + 1 \in 1..Len(s)
  BY Taken
<1> HIDE DEF t
<1> QED
  BY <1>1 DEF TextsOf, t

(* A text is either the first unit or follows a SPEAK.                     *)
LEMMA NoTexts ==
    ASSUME NEW s \in Seq(CommandsSent), Chained(s, "header"), ~Holds(s, "SPEAK"), NEW u
    PROVE  TextsOf(s, u)
<1>1. Len(s) \in Nat
  BY LenProperties
<1>2. ASSUME NEW i \in 1..Len(s), s[i].part = "text"
      PROVE  FALSE
  <2>1. i # 1 /\ i - 1 \in 1..Len(s) /\ Follows(s[i - 1]) = "text"
    BY <1>1, <1>2 DEF Chained
  <2> QED
    BY <2>1 DEF Follows, Holds
<1> QED
  BY <1>2 DEF TextsOf

LEMMA SoundStarts ==
    ASSUME NEW s \in Seq(ResponsesSent), Silent(s), NEW u, NEW m \in Nat
    PROVE  Sound(s, u, m, m)
BY DEF Sound, Silent, OfSpeak

LEMMA SoundEnds ==
    ASSUME NEW s, NEW u, NEW m \in Nat, NEW n \in Nat, Sound(s, u, m, n), Silent(s)
    PROVE  m = n
BY DEF Sound, Silent, OfSpeak

LEMMA SoundAppend ==
    ASSUME NEW S, NEW s \in Seq(S), NEW e \in S, NEW u, NEW m \in Nat, NEW n \in Nat,
           Sound(s, u, m, n)
    PROVE  /\ e.part # "samples" => Sound(Append(s, e), u, m, n)
           /\ e = Samples(u, n + 1) => Sound(Append(s, e), u, m, n + 1)
<1> DEFINE t == Append(s, e)
<1>1. Len(s) \in Nat /\ Len(t) = Len(s) + 1 /\ (\A i \in 1..Len(s) : t[i] = s[i])
      /\ t[Len(s) + 1] = e
  BY Appended
<1>2. \A i \in 1..Len(t) : i = Len(s) + 1 \/ (i \in 1..Len(s) /\ t[i] = s[i])
  BY <1>1
<1>3. \A i \in 1..Len(s) : i \in 1..Len(t) /\ t[i] = s[i] /\ i < Len(s) + 1
  BY <1>1
<1>4. Len(s) + 1 \in 1..Len(t)
  BY <1>1
<1> HIDE DEF t
<1>5. ASSUME e.part # "samples" PROVE Sound(t, u, m, n)
  <2>1. \A i \in 1..Len(t) : t[i].part = "samples" => i \in 1..Len(s) /\ t[i] = s[i]
    BY <1>1, <1>2, <1>5
  <2> QED
    BY <1>3, <2>1 DEF Sound
<1>6. ASSUME e = Samples(u, n + 1) PROVE Sound(t, u, m, n + 1)
  <2>1. e.part = "samples" /\ e.utterance = u /\ e.index = n + 1
    BY <1>6 DEF Samples
  <2>2. m <= n + 1
    BY DEF Sound
  <2>3. ASSUME NEW i \in 1..Len(t), t[i].part = "samples"
        PROVE  t[i].utterance = u /\ t[i].index \in (m + 1)..(n + 1)
    <3>1. CASE i = Len(s) + 1
      BY <1>1, <2>1, <3>1 DEF Sound
    <3>2. CASE i # Len(s) + 1
      <4>1. i \in 1..Len(s) /\ t[i] = s[i]
        BY <1>2, <3>2
      <4>2. s[i].utterance = u /\ s[i].index \in (m + 1)..n
        BY <2>3, <4>1 DEF Sound
      <4> QED
        BY <4>1, <4>2
    <3> QED
      BY <3>1, <3>2
  <2>4. ASSUME NEW i \in 1..Len(t), NEW j \in 1..Len(t), i < j,
               t[i].part = "samples", t[j].part = "samples"
        PROVE  t[i].index < t[j].index
    <3>1. i \in 1..Len(s) /\ t[i] = s[i]
      BY <1>1, <2>4
    <3>2. CASE j = Len(s) + 1
      <4>1. s[i].index \in (m + 1)..n
        BY <2>4, <3>1 DEF Sound
      <4> QED
        BY <1>1, <2>1, <3>1, <3>2, <4>1
    <3>3. CASE j # Len(s) + 1
      <4>1. j \in 1..Len(s) /\ t[j] = s[j]
        BY <1>2, <3>3
      <4> QED
        BY <2>4, <3>1, <4>1 DEF Sound
    <3> QED
      BY <3>2, <3>3
  <2>5. ASSUME NEW k \in (m + 1)..(n + 1)
        PROVE  \E i \in 1..Len(t) : t[i].part = "samples" /\ t[i].index = k
    <3>1. CASE k = n + 1
      BY <1>1, <1>4, <2>1, <3>1
    <3>2. CASE k # n + 1
      <4>1. k \in (m + 1)..n
        BY <3>2
      <4>2. PICK i \in 1..Len(s) : s[i].part = "samples" /\ s[i].index = k
        BY <4>1 DEF Sound
      <4> QED
        BY <1>3, <4>2
    <3> QED
      BY <3>1, <3>2
  <2> QED
    BY <2>2, <2>3, <2>4, <2>5 DEF Sound
<1> QED
  BY <1>5, <1>6 DEF t

LEMMA SoundTail ==
    ASSUME NEW S, NEW s \in Seq(S), s # <<>>, NEW u, NEW m \in Nat, NEW n \in Nat,
           Sound(s, u, m, n)
    PROVE  /\ Head(s).part # "samples" => Sound(Tail(s), u, m, n)
           /\ Head(s).part = "samples" =>
                /\ Head(s).utterance = u /\ Head(s).index = m + 1
                /\ Sound(Tail(s), u, m + 1, n)
<1> DEFINE t == Tail(s)
<1>1. Len(s) \in Nat /\ Len(s) > 0 /\ Len(t) = Len(s) - 1 /\ Head(s) = s[1]
      /\ \A i \in 1..Len(t) : t[i] = s[i + 1]
  BY Taken
<1>2. \A i \in 1..Len(t) : t[i] = s[i + 1] /\ i + 1 \in 1..Len(s) /\ 1 < i + 1
  BY <1>1
<1>3. \A i \in 1..Len(s) : i = 1 \/ (i - 1 \in 1..Len(t) /\ t[i - 1] = s[i])
  BY <1>1
<1>4. 1 \in 1..Len(s)
  BY <1>1
<1> HIDE DEF t
<1>5. ASSUME NEW i \in 1..Len(t), NEW j \in 1..Len(t), i < j,
             t[i].part = "samples", t[j].part = "samples"
      PROVE  t[i].index < t[j].index
  <2>1. /\ i + 1 \in 1..Len(s) /\ j + 1 \in 1..Len(s) /\ i + 1 < j + 1
        /\ t[i] = s[i + 1] /\ t[j] = s[j + 1]
    BY <1>1, <1>2, <1>5
  <2>2. s[i + 1].part = "samples" /\ s[j + 1].part = "samples"
    BY <1>5, <2>1
  <2> QED
    BY <2>1, <2>2 DEF Sound
<1>6. \A i \in 1..Len(t) : t[i].part = "samples" =>
          t[i].utterance = u /\ t[i].index \in (m + 1)..n
  BY <1>2 DEF Sound
<1>7. m <= n
  BY DEF Sound
<1>8. ASSUME Head(s).part # "samples" PROVE Sound(t, u, m, n)
  <2>1. ASSUME NEW k \in (m + 1)..n
        PROVE  \E i \in 1..Len(t) : t[i].part = "samples" /\ t[i].index = k
    <3>1. PICK i \in 1..Len(s) : s[i].part = "samples" /\ s[i].index = k
      BY DEF Sound
    <3>2. i # 1
      BY <1>1, <1>8, <3>1
    <3> QED
      BY <1>3, <3>1, <3>2
  <2> QED
    BY <1>5, <1>6, <1>7, <2>1 DEF Sound
<1>9. ASSUME Head(s).part = "samples"
      PROVE  Head(s).utterance = u /\ Head(s).index = m + 1 /\ Sound(t, u, m + 1, n)
  <2>1. s[1].part = "samples" /\ s[1].utterance = u /\ s[1].index \in (m + 1)..n
    BY <1>1, <1>4, <1>9 DEF Sound
  <2>2. \A i \in 1..Len(s) : i # 1 /\ s[i].part = "samples" => s[1].index < s[i].index
    BY <1>1, <1>4, <2>1 DEF Sound
  <2>3. m + 1 \in (m + 1)..n
    BY <2>1
  <2>4. PICK i \in 1..Len(s) : s[i].part = "samples" /\ s[i].index = m + 1
    BY <2>3 DEF Sound
  <2>5. s[1].index = m + 1
    BY <2>1, <2>2, <2>4
  <2>6. \A j \in 1..Len(t) : t[j].part = "samples" =>
            t[j].utterance = u /\ t[j].index \in (m + 1 + 1)..n
    <3> SUFFICES ASSUME NEW j \in 1..Len(t), t[j].part = "samples"
                 PROVE  t[j].utterance = u /\ t[j].index \in (m + 1 + 1)..n
      OBVIOUS
    <3>1. t[j].index \in (m + 1)..n /\ t[j].utterance = u
      BY <1>6
    <3>2. m + 1 < t[j].index
      BY <1>2, <2>2, <2>5
    <3> QED
      BY <3>1, <3>2
  <2>7. ASSUME NEW k \in (m + 1 + 1)..n
        PROVE  \E j \in 1..Len(t) : t[j].part = "samples" /\ t[j].index = k
    <3>1. k \in (m + 1)..n /\ k # m + 1
      OBVIOUS
    <3>2. PICK j \in 1..Len(s) : s[j].part = "samples" /\ s[j].index = k
      BY <3>1 DEF Sound
    <3>3. j # 1
      BY <2>5, <3>1, <3>2
    <3> QED
      BY <1>3, <3>2, <3>3
  <2>8. m + 1 <= n
    BY <2>3
  <2> QED
    BY <1>1, <1>5, <2>1, <2>5, <2>6, <2>7, <2>8 DEF Sound
<1> QED
  BY <1>8, <1>9 DEF t

(***************************************************************************)
(* Lemmas about the units that are sent.                                   *)
(***************************************************************************)
LEMMA ResponseFacts ==
    ASSUME NEW r \in ResponsesSent
    PROVE  /\ r \in ResponseUnit
           /\ r.part \in {"header", "size", "samples", "voices"}
           /\ r.part = "header" =>
                /\ r \in ResponseHeader
                /\ r.size > 0 <=> Follows(r) # "header"
                /\ r.size \in 0..2
                /\ r.type \in Responses
                /\ r.size = 2 <=> r.type = "AUDIO_DATA"
                /\ r.size = 1 <=> r.type = "VOICES"
           /\ r.part = "samples" => r \in SamplesUnit /\ r = Samples(r.utterance, r.index)
           /\ r.part # "header" =>
                (Follows(r) = IF r.part = "size" THEN "samples" ELSE "header")
<1>1. CASE r \in {Header("OK", 0), Header("AUDIO_DATA", 2), Header("AUDIO_END", 0),
                  Header("VOICES", 1)}
  BY <1>1 DEF Header, ResponseUnit, ResponseHeader, Responses, Follows, IsType
<1>2. CASE r \in {SizeField, VoiceList}
  BY <1>2 DEF SizeField, VoiceList, ResponseUnit, Follows, IsType
<1>3. ASSUME NEW u \in 1..MaxSpeaks, NEW i \in 1..MaxChunks, r = Samples(u, i)
      PROVE  /\ r \in SamplesUnit /\ r.part = "samples" /\ r.utterance = u /\ r.index = i
             /\ Follows(r) = "header"
  BY <1>3 DEF Samples, SamplesUnit, Follows, IsType
<1> QED
  BY <1>1, <1>2, <1>3 DEF ResponsesSent, ResponseUnit

LEMMA CommandFacts ==
    ASSUME NEW r \in CommandsSent
    PROVE  /\ r \in CommandUnit
           /\ r.part \in {"header", "text"}
           /\ r.part = "header" => r.type \in Commands
           /\ r.part = "text" => r.utterance \in 1..MaxSpeaks
           /\ Follows(r) = IF IsType(r, "SPEAK") THEN "text" ELSE "header"
<1>1. CASE r \in {Header("SPEAK", 1), Header("GET_VOICES", 0), Header("STOP", 0),
                  Header("SHUTDOWN", 0)}
  BY <1>1 DEF Header, CommandUnit, Commands, Follows, IsType
<1>2. ASSUME NEW u \in 1..MaxSpeaks, r = SpeakText(u)
      PROVE  /\ r \in CommandUnit /\ r.part = "text" /\ r.utterance = u
             /\ Follows(r) = "header"
  BY <1>2 DEF SpeakText, CommandUnit, Follows, IsType
<1> QED
  BY <1>1, <1>2 DEF CommandsSent, IsType

(* The units and replies of the handlers.                                  *)
LEMMA ReplyShort ==
    ASSUME NEW r \in {Header("OK", 0), Header("AUDIO_END", 0)}
    PROVE  /\ <<r>> \in Seq(ResponsesSent) /\ <<r>> # <<>>
           /\ EndsLast(<<r>>)
           /\ Chained(<<r>>, "header") /\ Expected(<<r>>, "header") = "header"
           /\ r = Header("OK", 0) => Silent(<<r>>) /\ ~Holds(<<r>>, "AUDIO_END")
           /\ r = Header("AUDIO_END", 0) => Holds(<<r>>, "AUDIO_END")
           /\ \A u : \A n \in Nat : Sound(<<r>>, u, n, n)
<1>1. r \in ResponsesSent /\ r.part = "header" /\ Follows(r) = "header"
      /\ (IsType(r, "AUDIO_END") <=> r = Header("AUDIO_END", 0))
      /\ (OfSpeak(r) <=> r = Header("AUDIO_END", 0))
  BY DEF Header, IsType, Follows, ResponsesSent, OfSpeak
<1> DEFINE s == <<r>>
<1>2. Len(s) = 1 /\ s[1] = r /\ s \in Seq(ResponsesSent) /\ s # <<>>
  BY <1>1
<1> HIDE DEF s
<1>3. 1 \in 1..Len(s) /\ \A i \in 1..Len(s) : i = 1
  BY <1>2
<1>4. EndsLast(s) /\ Chained(s, "header") /\ Expected(s, "header") = "header"
  BY <1>1, <1>2, <1>3 DEF EndsLast, Chained, Expected
<1>5. /\ Silent(s) <=> r # Header("AUDIO_END", 0)
      /\ Holds(s, "AUDIO_END") <=> r = Header("AUDIO_END", 0)
  BY <1>1, <1>2, <1>3 DEF Silent, Holds
<1>6. ASSUME NEW u, NEW n \in Nat PROVE Sound(s, u, n, n)
  BY <1>1, <1>2, <1>3 DEF Sound
<1>7. Header("OK", 0) # Header("AUDIO_END", 0)
  BY DEF Header
<1> QED
  BY <1>2, <1>4, <1>5, <1>6, <1>7 DEF s

LEMMA ReplyVoices ==
    /\ VoicesReply \in Seq(ResponsesSent) /\ VoicesReply # <<>>
    /\ EndsLast(VoicesReply) /\ Silent(VoicesReply)
    /\ Chained(VoicesReply, "header") /\ Expected(VoicesReply, "header") = "header"
<1> DEFINE r == Header("VOICES", 1)
<1>1. /\ r \in ResponsesSent /\ r.part = "header" /\ Follows(r) = "voices" /\ ~OfSpeak(r)
      /\ VoiceList \in ResponsesSent /\ VoiceList.part = "voices"
      /\ Follows(VoiceList) = "header" /\ ~OfSpeak(VoiceList)
  BY DEF Header, VoiceList, IsType, Follows, ResponsesSent, OfSpeak
<1> HIDE DEF r
<1>2. /\ VoicesReply = <<r, VoiceList>>
  BY DEF VoicesReply, r
<1>3. /\ Len(VoicesReply) = 2 /\ VoicesReply[1] = r /\ VoicesReply[2] = VoiceList
      /\ VoicesReply \in Seq(ResponsesSent) /\ VoicesReply # <<>>
  BY <1>1, <1>2
<1> HIDE DEF VoicesReply
<1>4. \A i \in 1..Len(VoicesReply) : i = 1 \/ i = 2
  BY <1>3
<1> QED
  BY <1>1, <1>3, <1>4 DEF EndsLast, Chained, Expected, Silent

LEMMA ReplyAudio ==
    ASSUME NEW u \in 1..MaxSpeaks, NEW i \in 1..MaxChunks,
           NEW r, r = <<AudioHeader, SizeField, Samples(u, i)>>
    PROVE  /\ r \in Seq(ResponsesSent) /\ r # <<>>
           /\ EndsLast(r) /\ ~Holds(r, "AUDIO_END")
           /\ Chained(r, "header") /\ Expected(r, "header") = "header"
           /\ Sound(r, u, i - 1, i)
<1> DEFINE h == AudioHeader
           d == SizeField
           p == Samples(u, i)
<1>1. /\ h \in ResponsesSent /\ h.part = "header" /\ Follows(h) = "size"
      /\ d \in ResponsesSent /\ d.part = "size" /\ Follows(d) = "samples"
      /\ p \in ResponsesSent /\ p.part = "samples" /\ Follows(p) = "header"
      /\ p.utterance = u /\ p.index = i
      /\ ~IsType(h, "AUDIO_END") /\ ~IsType(d, "AUDIO_END") /\ ~IsType(p, "AUDIO_END")
  BY DEF AudioHeader, Header, SizeField, Samples, IsType, Follows, ResponsesSent
<1>2. /\ Len(r) = 3 /\ r[1] = h /\ r[2] = d /\ r[3] = p
      /\ r \in Seq(ResponsesSent) /\ r # <<>>
  BY <1>1
<1> HIDE DEF h, d, p
<1>3. \A j \in 1..Len(r) : j = 1 \/ j = 2 \/ j = 3
  BY <1>2
<1>4. EndsLast(r) /\ ~Holds(r, "AUDIO_END")
  BY <1>1, <1>2, <1>3 DEF EndsLast, Holds
<1>5. Chained(r, "header") /\ Expected(r, "header") = "header"
  BY <1>1, <1>2, <1>3 DEF Chained, Expected
<1>6. Sound(r, u, i - 1, i)
  <2>1. \A j \in 1..Len(r) : r[j].part = "samples" => j = 3
    BY <1>1, <1>2, <1>3
  <2>2. 3 \in 1..Len(r) /\ \A k \in (i - 1 + 1)..i : k = i
    BY <1>2
  <2> QED
    BY <1>1, <1>2, <2>1, <2>2 DEF Sound
<1> QED
  BY <1>2, <1>4, <1>5, <1>6

(***************************************************************************)
(* A step concerns one client; the others do not notice it.                *)
(***************************************************************************)
Same(c) ==
    /\ pc'[c] = pc[c] /\ op'[c] = op[c] /\ pipe'[c] = pipe[c]
    /\ stopped'[c] = stopped[c] /\ header'[c] = header[c]
    /\ utterance'[c] = utterance[c] /\ heard'[c] = heard[c] /\ result'[c] = result[c]
    /\ toServer'[c] = toServer[c] /\ toClient'[c] = toClient[c] /\ made'[c] = made[c]
    /\ conn' = c <=> conn = c
    /\ conn = c => UNCHANGED <<spc, out, text>>

LEMMA SameKeeps ==
    ASSUME NEW c \in Clients, Same(c), Good(c)
    PROVE  Good(c)'
<1> USE DEF Good, Same
<1>1. Speaking(c)' = Speaking(c) /\ Waiting(c)' = Waiting(c) /\ First(c)' = First(c)
      /\ Connected(c)' = Connected(c)
  BY DEF Speaking, Waiting, First, Connected
<1>2. Connected(c) => conn = c
  BY DEF Connected
<1>3. conn = c => Handling' = Handling /\ ServerFirst' = ServerFirst
  BY DEF Handling, ServerFirst
<1>4. Sounding(c)' = Sounding(c)
  BY <1>1, <1>2 DEF Sounding
<1>5. ClientShape(c)'
  BY <1>1 DEF ClientShape
<1>6. Framed(c)'
  BY <1>1, <1>2, <1>3 DEF Framed
<1>7. Ordered(c)'
  BY <1>1, <1>2, <1>3 DEF Ordered
<1>8. Counted(c)'
  <2>1. Speaking(c)' /\ ~stopped'[c] => \E n \in Nat :
          /\ Sound(toClient'[c], utterance'[c], Len(heard'[c]), n)
          /\ Sounding(c)' => Sound(out', utterance'[c], n, made'[c])
          /\ Holds(toClient'[c], "AUDIO_END") => n = made'[c]
    <3> SUFFICES ASSUME Speaking(c), ~stopped[c]
                 PROVE  \E n \in Nat :
                          /\ Sound(toClient[c], utterance[c], Len(heard[c]), n)
                          /\ Sounding(c) => Sound(out, utterance[c], n, made[c])
                          /\ Holds(toClient[c], "AUDIO_END") => n = made[c]
      BY <1>1, <1>2, <1>4 DEF Sounding
    <3> QED
      BY DEF Counted
  <2> QED
    BY <1>1, <1>2, <2>1 DEF Counted
<1> QED
  BY <1>5, <1>6, <1>7, <1>8

LEMMA RespondSame ==
    ASSUME Functions, NEW d \in Clients, op[d] \in Operations, NEW h, NEW body,
           Respond(d, h, body)
    PROVE  /\ \A c \in Clients \ {d} :
                /\ pc'[c] = pc[c] /\ result'[c] = result[c] /\ pipe'[c] = pipe[c]
                /\ stopped'[c] = stopped[c] /\ heard'[c] = heard[c]
           /\ ByClient(pc)' /\ ByClient(result)' /\ ByClient(pipe)'
           /\ ByClient(stopped)' /\ ByClient(heard)'
<1> USE DEF Functions, ByClient, Return
<1>1. CASE op[d] = "speak"
  BY <1>1 DEF Respond, SpeakResponse, Deliver
<1>2. CASE op[d] = "getVoices"
  BY <1>2 DEF Respond
<1>3. CASE op[d] = "shutdownServer"
  BY <1>3 DEF Respond
<1> QED
  BY <1>1, <1>2, <1>3 DEF Operations

LEMMA ClientStepSame ==
    ASSUME Functions, ServerShape, NEW d \in Clients,
           op[d] \in Operations,
           Call(d) \/ ClientStep(d) \/ ConnectRefused(d) \/ ClientExit(d)
    PROVE  Functions' /\ \A c \in Clients \ {d} : Same(c)
<1> USE DEF Functions, ByClient, Same, serverVars, Return, Disconnect, KeepHandle, Fail
<1>0. \A f \in {pc, op, pipe, stopped, header, utterance, heard, result, toServer, toClient,
                made} : DOMAIN f = Clients
  OBVIOUS
<1>1. CASE Call(d)
  BY <1>0, <1>1 DEF Call, CallSpeak, CallGetVoices, CallShutdown
<1>2. CASE Connect(d)
  <2>1. conn # NoClient => spc # "listen"
    BY DEF ServerShape
  <2> QED
    BY <1>0, <1>2, <2>1, NoClientAssumption, ZenonT(30) DEF Connect
<1>3. CASE FirstAttemptFails(d)
  <2>1. conn # NoClient => Running
    BY DEF ServerShape, Running
  <2> QED
    BY <1>0, <1>3, <2>1, NoClientAssumption DEF FirstAttemptFails
<1>4. CASE ConnectFails(d) \/ ConnectRefused(d)
  BY <1>0, <1>4 DEF ConnectFails, ConnectRefused, GivesUp
<1>5. CASE SendHeader(d) \/ SendBody(d)
  BY <1>0, <1>5 DEF SendHeader, SendBody, Send, SendFails
<1>6. CASE ReadHeader(d)
  BY <1>0, <1>6, RespondSame DEF ReadHeader, ReadFails, Consume
<1>7. CASE ReadBody(d)
  <2>1. /\ UNCHANGED <<op, utterance, toServer, serverVars>>
        /\ header' = [header EXCEPT ![d] = NoHeader]
    BY <1>7 DEF ReadBody
  <2>2. CASE Fail(d) /\ UNCHANGED <<stopped, heard>>
    BY <1>0, <2>1, <2>2
  <2>3. ASSUME NEW n, NEW body, Respond(d, header[d], body), Consume(d, n)
        PROVE  Functions' /\ \A c \in Clients \ {d} : Same(c)
    BY <1>0, <2>1, <2>3, RespondSame DEF Consume
  <2> QED
    BY <1>7, <2>2, <2>3 DEF ReadBody, ReadFails
<1>8. CASE SendStop(d)
  BY <1>0, <1>8 DEF SendStop
<1>9. CASE ClientExit(d)
  BY <1>0, <1>9 DEF ClientExit
<1> QED
  BY <1>1, <1>2, <1>3, <1>4, <1>5, <1>6, <1>7, <1>8, <1>9 DEF ClientStep

LEMMA ServerStepSame ==
    ASSUME Functions, ServerShape, NEW c \in Clients, c # conn, ServerStep
    PROVE  Same(c)
<1> USE DEF Functions, ByClient, Same, clientVars, Reply
<1>1. CASE ServerReadHeader \/ HandleSpeak
  BY <1>1 DEF ServerReadHeader, HandleSpeak, ServerReadFails
<1>2. CASE MakeChunk \/ FinishSpeak
  BY <1>2 DEF MakeChunk, FinishSpeak
<1>3. CASE ServerWrite \/ ServerWriteFails
  BY <1>3 DEF ServerWrite, ServerWriteFails
<1>4. CASE ServerClose \/ ServerListen
  BY <1>4, NoClientAssumption DEF ServerClose, ServerListen
<1> QED
  BY <1>1, <1>2, <1>3, <1>4 DEF ServerStep

LEMMA ServerStepFunctions ==
    ASSUME Functions, ServerStep \/ ServerCrash
    PROVE  Functions'
<1> USE DEF Functions, ByClient, clientVars, Reply
<1>1. CASE ServerReadHeader \/ HandleSpeak
  BY <1>1 DEF ServerReadHeader, HandleSpeak, ServerReadFails
<1>2. CASE MakeChunk \/ FinishSpeak
  BY <1>2 DEF MakeChunk, FinishSpeak
<1>3. CASE ServerWrite \/ ServerWriteFails
  BY <1>3 DEF ServerWrite, ServerWriteFails
<1>4. CASE ServerClose \/ ServerListen \/ ServerCrash
  BY <1>4 DEF ServerClose, ServerListen, ServerCrash
<1> QED
  BY <1>1, <1>2, <1>3, <1>4 DEF ServerStep

(***************************************************************************)
(* The calls, and what ends them without a response.                       *)
(***************************************************************************)
(* Before a call nothing of an utterance is left on an open connection.    *)
LEMMA CallGood ==
    ASSUME IInv, NEW d \in Clients, Call(d)
    PROVE  Good(d)' /\ ServerShape'
<1> USE DEF IInv, Functions, ByClient, serverVars
<1>1. /\ pc[d] = "idle" /\ pc'[d] = "connect" /\ result'[d] = "none"
      /\ UNCHANGED <<pipe, header, toServer, toClient, serverVars>>
      /\ \/ op'[d] \in {"getVoices", "shutdownServer"} /\ UNCHANGED <<stopped, utterance, heard>>
         \/ /\ op'[d] = "speak" /\ heard'[d] = <<>> /\ stopped'[d] = FALSE
            /\ utterance'[d] = utterance[d] + 1 /\ utterance[d] < MaxSpeaks
  BY DEF Call, CallSpeak, CallGetVoices, CallShutdown
<1>2. /\ ~Speaking(d) /\ ~Speaking(d)' /\ ~Waiting(d) /\ ~Waiting(d)'
      /\ First(d) = "header" /\ First(d)' = "header"
      /\ Connected(d)' = Connected(d) /\ (Connected(d) => conn = d)
      /\ Handling' = Handling /\ ServerFirst' = ServerFirst
  BY <1>1 DEF Speaking, Waiting, First, Connected, Handling, ServerFirst
<1>3. ClientShape(d) /\ Framed(d) /\ Ordered(d) /\ Counted(d)
  BY DEF Good
<1>4. ServerShape'
  BY <1>1 DEF ServerShape
<1>5. ClientShape(d)'
  <2>1. heard'[d] \in Seq(SamplesUnit) /\ stopped'[d] \in BOOLEAN
    <3>1. <<>> \in Seq(SamplesUnit)
      BY EmptySeq
    <3>2. heard[d] \in Seq(SamplesUnit) /\ stopped[d] \in BOOLEAN
      BY <1>3 DEF ClientShape
    <3> QED
      BY <1>1, <3>1, <3>2
  <2>2. utterance'[d] \in 0..MaxSpeaks /\ (op'[d] = "speak" => utterance'[d] > 0)
    BY <1>1, <1>3, BoundsAssumption DEF ClientShape
  <2>3. op'[d] \in Operations
    BY <1>1 DEF Operations
  <2> QED
    BY <1>1, <1>2, <1>3, <2>1, <2>2, <2>3 DEF ClientShape
<1>6. Framed(d)'
  BY <1>1, <1>2, <1>3 DEF Framed
<1>7. Connected(d) => /\ ~Handling /\ ~Holds(toServer[d], "SPEAK") /\ spc # "readText"
                      /\ \A u : TextsOf(toServer[d], u)
  <2> SUFFICES ASSUME Connected(d)
               PROVE  /\ ~Handling /\ ~Holds(toServer[d], "SPEAK") /\ spc # "readText"
                      /\ \A u : TextsOf(toServer[d], u)
    OBVIOUS
  <2>1. ~Handling /\ ~Holds(toServer[d], "SPEAK") /\ spc # "readText"
    BY <1>2, <1>3 DEF Ordered, Handling
  <2>2. Chained(toServer[d], "header") /\ toServer[d] \in Seq(CommandsSent)
    BY <1>2, <1>3, <2>1 DEF Framed, ServerFirst, ClientShape
  <2> QED
    BY <2>1, <2>2, NoTexts
<1>8. Ordered(d)'
  BY <1>1, <1>2, <1>3, <1>7 DEF Ordered
<1>9. Counted(d)'
  <2>1. \A i \in 1..Len(heard'[d]) : heard'[d][i] = Samples(utterance'[d], i)
    BY <1>1, <1>3 DEF Counted
  <2>2. Connected(d) => spc \notin {"synth", "audio"}
    BY <1>7 DEF Handling
  <2> QED
    BY <1>1, <1>2, <1>3, <1>7, <2>1, <2>2 DEF Counted
<1> QED
  BY <1>4, <1>5, <1>6, <1>8, <1>9 DEF Good

LEMMA ConnectGood ==
    ASSUME IInv, NEW d \in Clients, Connect(d)
    PROVE  Good(d)' /\ ServerShape'
<1> USE DEF IInv, Functions, ByClient
<1>1. /\ pc[d] \in {"connect", "retry"} /\ pc'[d] = "send"
      /\ UNCHANGED <<op, stopped, header, utterance, heard, result,
                     out, text, made, gStop, quitting, crashes>>
      /\ \/ pipe[d] /\ UNCHANGED <<pipe, conn, spc, toServer, toClient>>
         \/ /\ ~pipe[d] /\ spc = "listen" /\ pipe'[d] /\ conn' = d /\ spc' = "read"
            /\ toServer'[d] = <<>> /\ toClient'[d] = <<>> /\ pipe'[d] \in BOOLEAN
  BY DEF Connect
<1>2. /\ ~Speaking(d) /\ ~Speaking(d)' /\ ~Waiting(d) /\ ~Waiting(d)'
      /\ First(d) = "header" /\ First(d)' = "header"
  BY <1>1 DEF Speaking, Waiting, First
<1>3. ClientShape(d) /\ Framed(d) /\ Ordered(d) /\ Counted(d)
  BY DEF Good
<1>4. ServerShape'
  BY <1>1, NoClientAssumption DEF ServerShape
<1>5. ClientShape(d)'
  BY <1>1, <1>2, <1>3, EmptySeq DEF ClientShape
<1>6. CASE pipe[d]
  <2>1. /\ UNCHANGED <<pipe, conn, spc, toServer, toClient>>
        /\ Connected(d)' = Connected(d) /\ (Connected(d) => conn = d)
        /\ Handling' = Handling /\ ServerFirst' = ServerFirst
    BY <1>1, <1>6 DEF Connected, Handling, ServerFirst
  <2>2. Framed(d)' /\ Ordered(d)'
    BY <1>1, <1>2, <1>3, <2>1 DEF Framed, Ordered
  <2>3. Counted(d)'
    BY <1>1, <1>2, <1>3, <2>1 DEF Counted
  <2> QED
    BY <1>4, <1>5, <2>2, <2>3 DEF Good
<1>7. CASE ~pipe[d]
  <2>1. /\ toServer'[d] = <<>> /\ toClient'[d] = <<>> /\ out = <<>> /\ out' = <<>>
        /\ ~Handling' /\ ServerFirst' = "header" /\ spc' = "read"
    BY <1>1, <1>7 DEF Handling, ServerFirst, ServerShape
  <2>2. Framed(d)'
    BY <1>1, <1>2, <2>1, NothingHeld DEF Framed
  <2>3. Ordered(d)'
    BY <1>2, <2>1, NothingHeld DEF Ordered
  <2>4. Counted(d)'
    BY <1>1, <1>2, <1>3, <2>1, NothingHeld DEF Counted
  <2> QED
    BY <1>4, <1>5, <2>2, <2>3, <2>4 DEF Good
<1> QED
  BY <1>6, <1>7

LEMMA AttemptGood ==
    ASSUME IInv, NEW d \in Clients, FirstAttemptFails(d)
    PROVE  Good(d)' /\ ServerShape'
<1> USE DEF IInv, Functions, ByClient
<1>1. /\ pc[d] = "connect" /\ pc'[d] = "retry" /\ ~pipe[d]
      /\ UNCHANGED <<op, pipe, stopped, header, utterance, heard, result,
                     toServer, toClient, conn, out, text, made, crashes>>
      /\ \/ UNCHANGED <<spc, gStop, quitting>>
         \/ spc = "down" /\ spc' = "create" /\ gStop' = FALSE /\ quitting' = FALSE
  BY DEF FirstAttemptFails, Running
<1>2. /\ ~Speaking(d)' /\ ~Waiting(d) /\ ~Waiting(d)' /\ ~Connected(d)'
      /\ First(d) = "header" /\ First(d)' = "header"
      /\ ~Speaking(d)
  BY <1>1 DEF Speaking, Waiting, First, Connected
<1>3. ClientShape(d) /\ Framed(d) /\ Ordered(d) /\ Counted(d)
  BY DEF Good
<1>4. ServerShape'
  <2>1. CASE UNCHANGED <<spc, gStop, quitting>>
    BY <1>1, <2>1 DEF ServerShape
  <2>2. CASE spc = "down" /\ spc' = "create" /\ gStop' = FALSE /\ quitting' = FALSE
    BY <1>1, <2>2 DEF ServerShape
  <2> QED
    BY <1>1, <2>1, <2>2
<1>5. ClientShape(d)'
  BY <1>1, <1>2, <1>3 DEF ClientShape
<1>6. conn = d => ServerFirst' = ServerFirst
  BY <1>1, NoClientAssumption DEF ServerShape, ServerFirst
<1>7. Framed(d)' /\ Ordered(d)'
  BY <1>1, <1>2, <1>3, <1>6 DEF Framed, Ordered
<1>8. Counted(d)'
  BY <1>1, <1>2, <1>3 DEF Counted
<1> QED
  BY <1>4, <1>5, <1>7, <1>8 DEF Good

(* A call ends without a true answer: its handle is closed, or kept with   *)
(* what was there to be read from it.                                      *)
LEMMA FailGood ==
    ASSUME IInv, NEW d \in Clients, Fail(d),
           UNCHANGED <<op, stopped, utterance, heard, toServer, serverVars>>,
           header'[d] \in {header[d], NoHeader},
           op[d] = "getVoices" => ~Connected(d) /\ (Waiting(d) => toClient[d] = <<>>)
    PROVE  Good(d)' /\ ServerShape'
<1> USE DEF IInv, Functions, ByClient, serverVars
<1>1. ClientShape(d) /\ Framed(d) /\ Ordered(d) /\ Counted(d)
  BY DEF Good
<1>2. /\ pc'[d] = "idle" /\ result'[d] = "false"
      /\ \/ ~pipe'[d] /\ pipe'[d] \in BOOLEAN /\ toClient'[d] = <<>>
         \/ op[d] = "getVoices" /\ ~Connected(d) /\ UNCHANGED <<pipe, toClient>>
  <2>1. op[d] \in Operations
    BY <1>1 DEF ClientShape
  <2> QED
    BY <2>1 DEF Fail, Return, Disconnect, KeepHandle, DisconnectsOnFailure, Operations
<1>3. /\ ~Speaking(d)' /\ ~Waiting(d)' /\ ~Connected(d)' /\ First(d)' = "header"
      /\ ServerFirst' = ServerFirst
  BY <1>2 DEF Speaking, Waiting, First, Connected, ServerFirst
<1>4. ServerShape'
  BY DEF ServerShape
<1>5. header'[d] \in ResponsesSent /\ header'[d].part = "header"
  BY <1>1 DEF NoHeader, Header, ResponsesSent, ClientShape
<1>6. ClientShape(d)'
  BY <1>1, <1>2, <1>3, <1>5, EmptySeq DEF ClientShape
<1>7. Chained(toClient'[d], "header") /\ EndsLast(toClient'[d]) /\ Silent(toClient'[d])
  <2>1. CASE toClient'[d] = <<>>
    BY <2>1, NothingHeld
  <2>2. CASE toClient'[d] # <<>>
    <3>1. op[d] = "getVoices" /\ toClient'[d] = toClient[d] /\ ~Waiting(d)
      BY <1>2, <2>2
    <3> QED
      BY <1>1, <3>1 DEF Framed, Ordered, First, Speaking
  <2> QED
    BY <2>1, <2>2
<1>8. Framed(d)'
  BY <1>1, <1>3, <1>7 DEF Framed
<1>9. Ordered(d)' /\ Counted(d)'
  BY <1>1, <1>2, <1>3, <1>7 DEF Ordered, Counted
<1> QED
  BY <1>4, <1>6, <1>8, <1>9 DEF Good

LEMMA ConnectFailsGood ==
    ASSUME IInv, NEW d \in Clients, ConnectFails(d) \/ ConnectRefused(d)
    PROVE  Good(d)' /\ ServerShape'
<1>1. /\ ~pipe[d] /\ Fail(d)
      /\ UNCHANGED <<op, stopped, header, utterance, heard, toServer, serverVars>>
  BY DEF ConnectFails, ConnectRefused, GivesUp
<1>2. toClient[d] = <<>> /\ ~Connected(d)
  BY <1>1 DEF IInv, Good, ClientShape, Connected
<1> QED
  BY <1>1, <1>2, FailGood

LEMMA ExitGood ==
    ASSUME IInv, NEW d \in Clients, ClientExit(d)
    PROVE  Good(d)' /\ ServerShape'
<1> USE DEF IInv, Functions, ByClient, serverVars
<1>1. /\ pc'[d] = "idle" /\ result'[d] = "none" /\ header'[d] = NoHeader
      /\ ~pipe'[d] /\ pipe'[d] \in BOOLEAN /\ toClient'[d] = <<>>
      /\ UNCHANGED <<op, stopped, utterance, heard, toServer, serverVars>>
  BY DEF ClientExit, Return, Disconnect
<1>2. /\ ~Speaking(d)' /\ ~Waiting(d)' /\ ~Connected(d)' /\ First(d)' = "header"
      /\ ServerFirst' = ServerFirst
  BY <1>1 DEF Speaking, Waiting, First, Connected, ServerFirst
<1>3. ClientShape(d) /\ Framed(d) /\ Ordered(d) /\ Counted(d)
  BY DEF Good
<1>4. ServerShape'
  BY <1>1 DEF ServerShape
<1>5. header'[d] \in ResponsesSent /\ header'[d].part = "header"
  BY <1>1 DEF NoHeader, Header, ResponsesSent
<1>6. ClientShape(d)'
  BY <1>1, <1>2, <1>3, <1>5, EmptySeq DEF ClientShape
<1>7. Framed(d)'
  BY <1>1, <1>2, <1>3, NothingHeld DEF Framed
<1>8. Ordered(d)' /\ Counted(d)'
  BY <1>1, <1>2, <1>3, NothingHeld DEF Ordered, Counted
<1> QED
  BY <1>4, <1>6, <1>7, <1>8 DEF Good

(***************************************************************************)
(* The client sends.                                                       *)
(***************************************************************************)
(* The header of a command; after that of SPEAK its text is expected.      *)
LEMMA SendHeaderGood ==
    ASSUME IInv, NEW d \in Clients, SendHeader(d), Connected(d)
    PROVE  Good(d)' /\ ServerShape'
<1> USE DEF IInv, Functions, ByClient, serverVars
<1> DEFINE h == CommandHeader(d)
<1>1. /\ pc[d] = "send" /\ toServer'[d] = Append(toServer[d], h)
      /\ pc'[d] = IF op[d] = "speak" THEN "sendBody" ELSE "readHeader"
      /\ UNCHANGED <<op, pipe, stopped, header, utterance, heard, result, toClient, serverVars>>
  BY DEF SendHeader, Send, SendFails, Connected, Broken
<1>2. ClientShape(d) /\ Framed(d) /\ Ordered(d) /\ Counted(d)
  BY DEF Good
<1>3. /\ h \in CommandsSent /\ h.part = "header"
      /\ (IsType(h, "SPEAK") <=> op[d] = "speak")
      /\ Follows(h) = IF op[d] = "speak" THEN "text" ELSE "header"
  BY <1>2 DEF CommandHeader, Header, CommandsSent, IsType, Follows, ClientShape, Operations
<1> HIDE DEF h
<1>4. /\ ~Speaking(d) /\ ~Waiting(d) /\ ~Waiting(d)'
      /\ (Speaking(d)' <=> op[d] = "speak")
      /\ First(d) = "header" /\ First(d)' = "header"
      /\ conn = d /\ Connected(d)'
      /\ Handling' = Handling /\ ServerFirst' = ServerFirst
  BY <1>1 DEF Speaking, Waiting, First, Connected, Handling, ServerFirst
<1>5. ServerShape'
  BY <1>1 DEF ServerShape
<1>6. toServer[d] \in Seq(CommandsSent) /\ toServer'[d] \in Seq(CommandsSent)
  BY <1>1, <1>2, <1>3, Appended DEF ClientShape
<1>7. ClientShape(d)'
  BY <1>1, <1>2, <1>4, <1>6 DEF ClientShape
<1>8. Framed(d)'
  <2>1. Chained(toServer[d], ServerFirst) /\ Expected(toServer[d], ServerFirst) = "header"
    BY <1>1, <1>2, <1>4 DEF Framed
  <2>2. /\ Chained(toServer'[d], ServerFirst)
        /\ Expected(toServer'[d], ServerFirst) = Follows(h)
    BY <1>1, <1>3, <1>6, <2>1, ChainedAppend
  <2> QED
    BY <1>1, <1>2, <1>3, <1>4, <2>2 DEF Framed
<1>9. /\ Silent(toClient[d]) /\ Silent(out) /\ ~Handling /\ ~Holds(toServer[d], "SPEAK")
      /\ spc # "readText" /\ spc \notin {"synth", "audio"}
      /\ ~Holds(out, "AUDIO_END") /\ ~Holds(toClient[d], "AUDIO_END")
  BY <1>2, <1>4, SilentHolds DEF Ordered, Handling
<1>10. Holds(toServer'[d], "SPEAK") <=> op[d] = "speak"
  BY <1>1, <1>3, <1>6, <1>9, HoldsAppend
<1>11. Ordered(d)'
  <2>1. OneSpeak(toServer'[d])
    BY <1>1, <1>2, <1>3, <1>4, <1>6, <1>9, OneSpeakAppend DEF Ordered
  <2>2. op[d] = "speak" => heard[d] = <<>>
    BY <1>1, <1>2 DEF Counted
  <2> QED
    BY <1>1, <1>2, <1>4, <1>9, <1>10, <2>1, <2>2 DEF Ordered
<1>12. Counted(d)'
  <2>1. TextsOf(toServer'[d], utterance[d])
    BY <1>1, <1>2, <1>3, <1>6, TextsAppend DEF Counted
  <2>2. op[d] = "speak" => Sound(toClient[d], utterance[d], Len(heard[d]), 0)
    <3>1. op[d] = "speak" => Len(heard[d]) = 0
      BY <1>1, <1>2 DEF Counted
    <3> QED
      BY <1>2, <1>9, <3>1, SoundStarts DEF ClientShape
  <2>3. ~Sounding(d)'
    BY <1>1, <1>4, <1>9 DEF Sounding
  <2> QED
    BY <1>1, <1>2, <1>4, <1>9, <2>1, <2>2, <2>3 DEF Counted
<1> QED
  BY <1>5, <1>7, <1>8, <1>11, <1>12 DEF Good

(* The text, and CMD_STOP, in the middle of a speak call.                  *)
LEMMA SendMoreGood ==
    ASSUME IInv, NEW d \in Clients, SendBody(d) \/ SendStop(d), Connected(d)
    PROVE  Good(d)' /\ ServerShape'
<1> USE DEF IInv, Functions, ByClient, serverVars
<1> DEFINE e == IF pc[d] = "sendBody" THEN SpeakText(utterance[d]) ELSE Header("STOP", 0)
<1>1. /\ pc[d] \in {"sendBody", "sendStop"} /\ toServer'[d] = Append(toServer[d], e)
      /\ pc'[d] = "readHeader"
      /\ UNCHANGED <<op, pipe, stopped, header, utterance, heard, result, toClient, serverVars>>
  BY DEF SendBody, SendStop, Send, SendFails, Connected, Broken
<1>2. ClientShape(d) /\ Framed(d) /\ Ordered(d) /\ Counted(d)
  BY DEF Good
<1>3. /\ e \in CommandsSent /\ ~IsType(e, "SPEAK") /\ Follows(e) = "header"
      /\ e.part = IF pc[d] = "sendBody" THEN "text" ELSE "header"
      /\ e.part = "text" => e.utterance = utterance[d]
  <2>1. utterance[d] \in 1..MaxSpeaks
    BY <1>1, <1>2, BoundsAssumption DEF ClientShape
  <2>2. CASE pc[d] = "sendBody"
    <3>1. e = SpeakText(utterance[d])
      BY <2>2
    <3> QED
      BY <2>1, <2>2, <3>1 DEF SpeakText, CommandsSent, IsType, Follows
  <2>3. CASE pc[d] # "sendBody"
    <3>1. e = Header("STOP", 0)
      BY <2>3
    <3> QED
      BY <2>3, <3>1 DEF Header, CommandsSent, IsType, Follows
  <2> QED
    BY <2>2, <2>3
<1> HIDE DEF e
<1>4. /\ Speaking(d) /\ Speaking(d)' /\ ~Waiting(d) /\ ~Waiting(d)'
      /\ First(d) = "header" /\ First(d)' = "header"
      /\ conn = d /\ Connected(d)'
      /\ Handling' = Handling /\ ServerFirst' = ServerFirst
  BY <1>1, <1>2 DEF Speaking, Waiting, First, Connected, Handling, ServerFirst, ClientShape
<1>5. ServerShape'
  BY <1>1 DEF ServerShape
<1>6. toServer[d] \in Seq(CommandsSent) /\ toServer'[d] \in Seq(CommandsSent)
  BY <1>1, <1>2, <1>3, Appended DEF ClientShape
<1>7. ClientShape(d)'
  BY <1>1, <1>2, <1>4, <1>6 DEF ClientShape
<1>8. Framed(d)'
  <2>1. Chained(toServer[d], ServerFirst) /\ Expected(toServer[d], ServerFirst) = e.part
    BY <1>1, <1>2, <1>3, <1>4 DEF Framed
  <2>2. /\ Chained(toServer'[d], ServerFirst)
        /\ Expected(toServer'[d], ServerFirst) = Follows(e)
    BY <1>1, <1>3, <1>6, <2>1, ChainedAppend
  <2> QED
    BY <1>1, <1>2, <1>3, <1>4, <2>2 DEF Framed
<1>9. Holds(toServer'[d], "SPEAK") <=> Holds(toServer[d], "SPEAK")
  BY <1>1, <1>3, <1>6, HoldsAppend
<1>10. Ordered(d)'
  <2>1. OneSpeak(toServer'[d])
    BY <1>1, <1>2, <1>3, <1>4, <1>6, OneSpeakAppend DEF Ordered
  <2> QED
    BY <1>1, <1>2, <1>4, <1>9, <2>1 DEF Ordered
<1>11. Counted(d)'
  <2>1. TextsOf(toServer'[d], utterance[d])
    BY <1>1, <1>2, <1>3, <1>4, <1>6, TextsAppend DEF Counted
  <2>2. Sounding(d)' <=> Sounding(d)
    BY <1>1, <1>4 DEF Sounding, Connected
  <2> QED
    BY <1>1, <1>2, <1>4, <2>1, <2>2 DEF Counted
<1> QED
  BY <1>5, <1>7, <1>8, <1>10, <1>11 DEF Good

(* On a broken handle commands fail; that CMD_STOP does is not noticed.    *)
LEMMA SendBrokenGood ==
    ASSUME IInv, NEW d \in Clients, SendHeader(d) \/ SendBody(d) \/ SendStop(d),
           ~Connected(d)
    PROVE  Good(d)' /\ ServerShape'
<1>1. CASE SendHeader(d) \/ SendBody(d)
  <2>1. /\ Fail(d) /\ ~Waiting(d)
        /\ UNCHANGED <<op, stopped, header, utterance, heard, toServer, serverVars>>
    BY <1>1 DEF SendHeader, SendBody, Send, SendFails, Waiting
  <2> QED
    BY <2>1, FailGood
<1>2. CASE SendStop(d)
  <2> USE DEF IInv, Functions, ByClient, serverVars
  <2>1. /\ pc[d] = "sendStop" /\ pc'[d] = "readHeader"
        /\ UNCHANGED <<op, pipe, stopped, header, utterance, heard, result,
                       toServer, toClient, serverVars>>
    BY <1>2 DEF SendStop
  <2>2. ClientShape(d) /\ Framed(d) /\ Ordered(d) /\ Counted(d)
    BY DEF Good
  <2>3. /\ Speaking(d) /\ Speaking(d)' /\ ~Waiting(d)' /\ First(d)' = First(d)
        /\ ~Connected(d)' /\ ~Sounding(d) /\ ~Sounding(d)' /\ ServerFirst' = ServerFirst
    BY <2>1, <2>2
       DEF Speaking, Waiting, First, Connected, Sounding, ServerFirst, ClientShape
  <2>4. ServerShape'
    BY <2>1 DEF ServerShape
  <2>5. ClientShape(d)'
    BY <2>1, <2>2, <2>3 DEF ClientShape
  <2>6. Framed(d)' /\ Ordered(d)' /\ Counted(d)'
    BY <2>1, <2>2, <2>3 DEF Framed, Ordered, Counted
  <2> QED
    BY <2>4, <2>5, <2>6 DEF Good
<1> QED
  BY <1>1, <1>2

(***************************************************************************)
(* The client reads.                                                       *)
(***************************************************************************)
(* What one unit leaves of a stream of responses, and what two leave.      *)
Rest(s, first, t, next) ==
    /\ t \in Seq(ResponsesSent)
    /\ Chained(t, next) /\ Expected(t, next) = Expected(s, first)
    /\ EndsLast(t) /\ (Silent(s) => Silent(t))
    /\ Holds(t, "AUDIO_END") => Holds(s, "AUDIO_END")

LEMMA RestOfTail ==
    ASSUME NEW s \in Seq(ResponsesSent), s # <<>>, NEW first, Chained(s, first), EndsLast(s)
    PROVE  /\ Rest(s, first, Tail(s), Follows(Head(s)))
           /\ Head(s) \in ResponsesSent /\ Head(s).part = first
           /\ SubSeq(s, 2, Len(s)) = Tail(s)
<1>1. Head(s) \in ResponsesSent /\ Tail(s) \in Seq(ResponsesSent)
  BY Taken
<1>2. /\ Head(s).part = first /\ Chained(Tail(s), Follows(Head(s)))
      /\ Expected(Tail(s), Follows(Head(s))) = Expected(s, first)
  BY ChainedTail
<1>3. EndsLast(Tail(s)) /\ (Silent(s) => Silent(Tail(s)))
  BY EndsLastTail, SilentTail
<1>4. Holds(Tail(s), "AUDIO_END") => Holds(s, "AUDIO_END")
  BY HoldsTail
<1>5. SubSeq(s, 2, Len(s)) = Tail(s)
  BY TailIsSubSeq
<1> QED
  BY <1>1, <1>2, <1>3, <1>4, <1>5 DEF Rest

LEMMA TwoTaken ==
    ASSUME NEW s \in Seq(ResponsesSent), Len(s) >= 2
    PROVE  /\ s # <<>> /\ Tail(s) # <<>>
           /\ SubSeq(s, 3, Len(s)) = Tail(Tail(s))
           /\ SubSeq(s, 1, 2)[Len(SubSeq(s, 1, 2))] = Head(Tail(s))
<1>1. s # <<>> /\ Len(s) \in Nat
  BY EmptySeq, LenProperties
<1>2. /\ Tail(s) \in Seq(ResponsesSent) /\ Len(Tail(s)) = Len(s) - 1
      /\ \A i \in 1..Len(Tail(s)) : Tail(s)[i] = s[i + 1]
  BY <1>1, Taken
<1>3. Tail(s) # <<>>
  BY <1>1, <1>2, EmptySeq
<1>4. /\ Head(Tail(s)) = s[2]
      /\ Tail(Tail(s)) \in Seq(ResponsesSent) /\ Len(Tail(Tail(s))) = Len(s) - 2
      /\ \A i \in 1..Len(Tail(Tail(s))) : Tail(Tail(s))[i] = s[i + 2]
  BY <1>1, <1>2, <1>3, Taken
<1>5. \A i \in 1..Len(s) : s[i] \in ResponsesSent
  BY ElementOfSeq
<1>6. /\ SubSeq(s, 3, Len(s)) \in Seq(ResponsesSent)
      /\ Len(SubSeq(s, 3, Len(s))) = Len(s) - 2
      /\ \A i \in 1..(Len(s) - 2) : SubSeq(s, 3, Len(s))[i] = s[i + 2]
  <2>1. \A i \in 3..Len(s) : s[i] \in ResponsesSent
    BY <1>1, <1>5
  <2>2. /\ SubSeq(s, 3, Len(s)) \in Seq(ResponsesSent)
        /\ Len(SubSeq(s, 3, Len(s))) = IF 3 <= Len(s) THEN Len(s) - 3 + 1 ELSE 0
        /\ \A i \in 1..(Len(s) - 3 + 1) : SubSeq(s, 3, Len(s))[i] = s[3 + i - 1]
    BY <1>1, <2>1, SubSeqProperties
  <2>3. \A i \in Int : 3 + i - 1 = i + 2
    OBVIOUS
  <2>4. Len(s) - 3 + 1 = Len(s) - 2
    BY <1>1
  <2> QED
    BY <1>1, <2>2, <2>3, <2>4
<1>7. SubSeq(s, 3, Len(s)) = Tail(Tail(s))
  BY <1>4, <1>6, SeqEqual
<1>8. Len(SubSeq(s, 1, 2)) = 2 /\ SubSeq(s, 1, 2)[2] = s[2]
  BY <1>1, <1>5, SubSeqProperties
<1> QED
  BY <1>1, <1>3, <1>4, <1>7, <1>8

(* The call goes on.                                                       *)
LEMMA ReadOnGood ==
    ASSUME IInv, NEW d \in Clients, pc[d] \in {"readHeader", "readBody"},
           pc'[d] \in {"readHeader", "readBody", "sendStop"},
           UNCHANGED <<op, pipe, utterance, result, toServer, serverVars>>,
           Rest(toClient[d], First(d), toClient'[d], First(d)'),
           header'[d] \in ResponsesSent, header'[d].part = "header",
           Waiting(d)' => header'[d].size > 0,
           Waiting(d)' /\ IsType(header'[d], "AUDIO_DATA") => ~Silent(toClient[d]),
           pc'[d] = "sendStop" => op[d] = "speak",
           stopped'[d] \in BOOLEAN, heard'[d] \in Seq(SamplesUnit),
           \A i \in 1..Len(heard'[d]) : heard'[d][i] = Samples(utterance[d], i),
           heard'[d] # heard[d] => Waiting(d) /\ IsType(header[d], "AUDIO_DATA"),
           Speaking(d) /\ ~stopped'[d] =>
             /\ ~stopped[d]
             /\ \A n \in Nat : Sound(toClient[d], utterance[d], Len(heard[d]), n) =>
                               Sound(toClient'[d], utterance[d], Len(heard'[d]), n)
    PROVE  Good(d)' /\ ServerShape'
<1> USE DEF IInv, Functions, ByClient, serverVars
<1>1. ClientShape(d) /\ Framed(d) /\ Ordered(d) /\ Counted(d)
  BY DEF Good
<1>2. /\ toClient'[d] \in Seq(ResponsesSent)
      /\ Chained(toClient'[d], First(d)')
      /\ Expected(toClient'[d], First(d)') = Expected(toClient[d], First(d))
      /\ EndsLast(toClient'[d]) /\ (Silent(toClient[d]) => Silent(toClient'[d]))
      /\ Holds(toClient'[d], "AUDIO_END") => Holds(toClient[d], "AUDIO_END")
  BY DEF Rest
<1>3. /\ pipe[d] /\ Speaking(d)' = Speaking(d)
      /\ Connected(d)' = Connected(d) /\ (Connected(d) => conn = d)
      /\ Handling' = Handling /\ ServerFirst' = ServerFirst /\ Sounding(d)' = Sounding(d)
  BY <1>1 DEF Speaking, Connected, Handling, ServerFirst, Sounding, ClientShape
<1>4. ServerShape'
  BY DEF ServerShape
<1>5. ClientShape(d)'
  BY <1>1, <1>2, <1>3 DEF ClientShape, Speaking
<1>6. Framed(d)'
  BY <1>1, <1>2, <1>3 DEF Framed
<1>7. Ordered(d)'
  BY <1>1, <1>2, <1>3 DEF Ordered
<1>8. Counted(d)'
  <2>1. Speaking(d)' /\ ~stopped'[d] => \E n \in Nat :
          /\ Sound(toClient'[d], utterance'[d], Len(heard'[d]), n)
          /\ Sounding(d)' => Sound(out', utterance'[d], n, made'[d])
          /\ Holds(toClient'[d], "AUDIO_END") => n = made'[d]
    <3> SUFFICES ASSUME Speaking(d), ~stopped'[d]
                 PROVE  \E n \in Nat :
                          /\ Sound(toClient'[d], utterance[d], Len(heard'[d]), n)
                          /\ Sounding(d) => Sound(out, utterance[d], n, made[d])
                          /\ Holds(toClient'[d], "AUDIO_END") => n = made[d]
      BY <1>3
    <3>1. PICK n \in Nat : /\ Sound(toClient[d], utterance[d], Len(heard[d]), n)
                           /\ Sounding(d) => Sound(out, utterance[d], n, made[d])
                           /\ Holds(toClient[d], "AUDIO_END") => n = made[d]
      BY <1>1 DEF Counted
    <3> QED
      BY <1>2, <3>1
  <2> QED
    BY <1>1, <1>3, <2>1 DEF Counted
<1> QED
  BY <1>4, <1>5, <1>6, <1>7, <1>8 DEF Good

(* The call returns and the handle stays open: getVoices with its answer,  *)
(* or speak at the end of the sound.                                       *)
LEMMA AnswerGood ==
    ASSUME IInv, NEW d \in Clients, pc[d] \in {"readHeader", "readBody"},
           pc'[d] = "idle", result'[d] \in {"true", "false"},
           UNCHANGED <<op, pipe, utterance, stopped, heard, toServer, serverVars>>,
           Rest(toClient[d], First(d), toClient'[d], "header"),
           header'[d] \in ResponsesSent, header'[d].part = "header",
           \/ op[d] = "getVoices"
           \/ /\ pc[d] = "readHeader" /\ toClient[d] # <<>> /\ toClient'[d] = Tail(toClient[d])
              /\ IsType(Head(toClient[d]), "AUDIO_END")
    PROVE  Good(d)' /\ ServerShape'
<1> USE DEF IInv, Functions, ByClient, serverVars
<1>1. ClientShape(d) /\ Framed(d) /\ Ordered(d) /\ Counted(d)
  BY DEF Good
<1>2. /\ toClient'[d] \in Seq(ResponsesSent)
      /\ Chained(toClient'[d], "header")
      /\ Expected(toClient'[d], "header") = Expected(toClient[d], First(d))
      /\ EndsLast(toClient'[d]) /\ (Silent(toClient[d]) => Silent(toClient'[d]))
  BY DEF Rest
<1>3. /\ pipe[d] /\ ~Speaking(d)' /\ ~Waiting(d)' /\ First(d)' = "header"
      /\ Connected(d)' = Connected(d) /\ (Connected(d) => conn = d)
      /\ Handling' = Handling /\ ServerFirst' = ServerFirst
      /\ pc[d] # "sendBody"
  BY <1>1 DEF Speaking, Waiting, First, Connected, Handling, ServerFirst, ClientShape
<1>4. ServerShape'
  BY DEF ServerShape
<1>5. ClientShape(d)'
  BY <1>1, <1>2, <1>3 DEF ClientShape
<1>6. Framed(d)'
  BY <1>1, <1>2, <1>3 DEF Framed
<1>7. CASE op[d] = "getVoices"
  <2>1. ~Speaking(d)
    BY <1>7 DEF Speaking
  <2>2. Ordered(d)'
    <3>1. Silent(toClient'[d]) /\ ~Holds(toClient'[d], "AUDIO_END")
      BY <1>1, <1>2, <2>1, SilentHolds DEF Ordered
    <3>2. Connected(d) => spc # "readText"
      BY <1>1, <2>1 DEF Ordered, Handling
    <3> QED
      BY <1>1, <1>2, <1>3, <2>1, <3>1, <3>2 DEF Ordered
  <2>3. Counted(d)'
    BY <1>1, <1>3, <1>7 DEF Counted
  <2> QED
    BY <1>4, <1>5, <1>6, <2>2, <2>3 DEF Good
<1>8. CASE op[d] # "getVoices"
  <2>1. /\ toClient[d] # <<>> /\ toClient'[d] = Tail(toClient[d])
        /\ IsType(Head(toClient[d]), "AUDIO_END") /\ pc[d] = "readHeader"
        /\ toClient[d] \in Seq(ResponsesSent)
    BY <1>1, <1>8 DEF ClientShape
  <2>2. Holds(toClient[d], "AUDIO_END") /\ ~Silent(toClient[d])
    BY <2>1, HoldsTail, SilentHolds
  <2>3. Silent(toClient'[d])
    BY <1>1, <2>1, EndsLastTail DEF Ordered
  <2>4. Speaking(d)
    BY <1>1, <2>2 DEF Ordered
  <2>5. Connected(d) =>
          /\ ~Handling /\ ~Holds(out, "AUDIO_END")
          /\ ~Holds(toServer[d], "SPEAK") /\ spc # "readText" /\ spc \notin {"synth", "audio"}
    BY <1>1, <2>2 DEF Ordered, Handling
  <2>6. Connected(d) => Silent(out)
    BY <2>5 DEF ServerShape
  <2>7. Ordered(d)'
    BY <1>1, <1>2, <1>3, <2>3, <2>5, <2>6 DEF Ordered
  <2>8. ~stopped[d] => Len(heard[d]) = made[d]
    <3> SUFFICES ASSUME ~stopped[d] PROVE Len(heard[d]) = made[d]
      OBVIOUS
    <3>1. PICK n \in Nat : Sound(toClient[d], utterance[d], Len(heard[d]), n) /\ n = made[d]
      BY <1>1, <2>2, <2>4 DEF Counted
    <3>2. Len(heard[d]) \in Nat
      BY <1>1, LenProperties DEF ClientShape
    <3>3. Head(toClient[d]).part # "samples"
      BY <2>1 DEF IsType
    <3>4. Sound(toClient'[d], utterance[d], Len(heard[d]), n)
      BY <2>1, <3>1, <3>2, <3>3, SoundTail
    <3> QED
      BY <2>3, <3>1, <3>2, <3>4, SoundEnds
  <2>9. Counted(d)'
    BY <1>1, <1>3, <2>5, <2>8 DEF Counted
  <2> QED
    BY <1>4, <1>5, <1>6, <2>7, <2>9 DEF Good
<1> QED
  BY <1>7, <1>8

(* shutdownServer gives up its handle whatever it has read.                *)
LEMMA LeaveGood ==
    ASSUME IInv, NEW d \in Clients, op[d] = "shutdownServer",
           pc'[d] = "idle", result'[d] = "true", pipe'[d] = FALSE, toClient'[d] = <<>>,
           UNCHANGED <<op, utterance, stopped, heard, toServer, serverVars>>,
           header'[d] \in ResponsesSent, header'[d].part = "header"
    PROVE  Good(d)' /\ ServerShape'
<1> USE DEF IInv, Functions, ByClient, serverVars
<1>1. ClientShape(d) /\ Framed(d) /\ Ordered(d) /\ Counted(d)
  BY DEF Good
<1>2. /\ ~Speaking(d)' /\ ~Waiting(d)' /\ ~Connected(d)' /\ First(d)' = "header"
      /\ ServerFirst' = ServerFirst
  BY DEF Speaking, Waiting, First, Connected, ServerFirst
<1>3. ServerShape'
  BY DEF ServerShape
<1>4. ClientShape(d)'
  BY <1>1, <1>2, EmptySeq DEF ClientShape
<1>5. Framed(d)'
  BY <1>1, <1>2, NothingHeld DEF Framed
<1>6. Ordered(d)' /\ Counted(d)'
  BY <1>1, <1>2, NothingHeld DEF Ordered, Counted
<1> QED
  BY <1>3, <1>4, <1>5, <1>6 DEF Good

LEMMA ReadHeaderGood ==
    ASSUME IInv, NEW d \in Clients, ReadHeader(d)
    PROVE  Good(d)' /\ ServerShape'
<1> USE DEF IInv, Functions, ByClient
<1>1. ClientShape(d) /\ Framed(d) /\ Ordered(d) /\ Counted(d)
  BY DEF Good
<1>2. /\ pc[d] = "readHeader" /\ pipe[d] /\ First(d) = "header" /\ ~Waiting(d)
      /\ toClient[d] \in Seq(ResponsesSent) /\ pipe[d] \in BOOLEAN
      /\ UNCHANGED <<op, utterance, toServer, serverVars>>
  BY <1>1 DEF ReadHeader, First, Waiting, ClientShape
<1>3. CASE ReadFails(d) /\ UNCHANGED header
  <2>1. ~Connected(d) /\ toClient[d] = <<>> /\ Fail(d) /\ UNCHANGED <<stopped, heard>>
    BY <1>3 DEF ReadFails, Broken, Connected
  <2> QED
    BY <1>2, <1>3, <2>1, FailGood
<1>4. CASE toClient[d] # <<>> /\ Consume(d, 1) /\ ~ReadFails(d)
  <2> DEFINE h == Head(toClient[d])
  <2>1. /\ Rest(toClient[d], First(d), Tail(toClient[d]), Follows(h))
        /\ h \in ResponsesSent /\ h.part = "header"
        /\ SubSeq(toClient[d], 2, Len(toClient[d])) = Tail(toClient[d])
    BY <1>1, <1>2, <1>4, RestOfTail DEF Framed, Ordered
  <2>2. /\ h.size > 0 <=> Follows(h) # "header"
        /\ h.size \in 0..2 /\ (h.size = 2 <=> h.type = "AUDIO_DATA")
        /\ (h.size = 1 <=> h.type = "VOICES")
    BY <2>1, ResponseFacts
  <2>3. toClient'[d] = IF pipe'[d] THEN Tail(toClient[d]) ELSE <<>>
    <3>1. toClient'[d] = IF pipe'[d] THEN SubSeq(toClient[d], 1 + 1, Len(toClient[d]))
                                     ELSE <<>>
      BY <1>4, Zenon DEF Consume
    <3>2. 1 + 1 = 2
      OBVIOUS
    <3>3. SubSeq(toClient[d], 1 + 1, Len(toClient[d])) = Tail(toClient[d])
      BY <2>1, <3>2, Zenon
    <3> QED
      BY <3>1, <3>3, Zenon
  <2>4. CASE h.size > 0
    <3>1. /\ header'[d] = h /\ pc'[d] = "readBody"
          /\ UNCHANGED <<pipe, result, stopped, heard>>
      BY <1>2, <1>4, <2>4 DEF ReadHeader
    <3>2. Waiting(d)' /\ First(d)' = Follows(h) /\ toClient'[d] = Tail(toClient[d])
      BY <1>2, <2>3, <3>1 DEF Waiting, First
    <3>3. IsType(h, "AUDIO_DATA") => ~Silent(toClient[d])
      BY <1>2, <1>4, SilentTail DEF OfSpeak
    <3>4. h.part # "samples"
      BY <2>1
    <3>5. Speaking(d) => \A n \in Nat :
            Sound(toClient[d], utterance[d], Len(heard[d]), n) =>
            Sound(toClient'[d], utterance[d], Len(heard'[d]), n)
      <4>1. Len(heard[d]) \in Nat
        BY <1>1, LenProperties DEF ClientShape
      <4> QED
        BY <1>2, <1>4, <3>1, <3>2, <3>4, <4>1, SoundTail
    <3>6. /\ stopped'[d] \in BOOLEAN /\ heard'[d] \in Seq(SamplesUnit)
          /\ \A i \in 1..Len(heard'[d]) : heard'[d][i] = Samples(utterance[d], i)
      BY <1>1, <3>1 DEF ClientShape, Counted
    <3> HIDE DEF h
    <3> QED
      BY <1>2, <2>1, <2>4, <3>1, <3>2, <3>3, <3>5, <3>6, ReadOnGood
  <2>5. CASE ~(h.size > 0)
    <3>1. Respond(d, h, <<>>) /\ UNCHANGED header
      BY <1>2, <1>4, <2>5 DEF ReadHeader
    <3>2. Follows(h) = "header" /\ h.type # "AUDIO_DATA" /\ h.type # "VOICES"
      BY <2>2, <2>5
    <3>3. header'[d] \in ResponsesSent /\ header'[d].part = "header"
      BY <1>1, <3>1 DEF ClientShape
    <3>4. h.type = "AUDIO_END" <=> IsType(h, "AUDIO_END")
      BY <2>1 DEF IsType
    <3>5. h.part # "samples"
      BY <2>1
    <3>6. CASE op[d] = "speak" /\ h.type = "AUDIO_END"
      <4>1. /\ pc'[d] = "idle" /\ result'[d] = "true" /\ UNCHANGED <<pipe, stopped, heard>>
        BY <3>1, <3>6 DEF Respond, SpeakResponse, EndsSpeak, Return
      <4>2. toClient'[d] = Tail(toClient[d])
        BY <1>2, <2>3, <4>1
      <4> HIDE DEF h
      <4>3. Rest(toClient[d], First(d), toClient'[d], "header")
        BY <2>1, <3>2, <4>2
      <4>4. IsType(Head(toClient[d]), "AUDIO_END")
        BY <3>4, <3>6 DEF h
      <4> QED
        BY <1>2, <1>4, <3>3, <4>1, <4>2, <4>3, <4>4, AnswerGood
    <3>7. CASE op[d] = "speak" /\ h.type # "AUDIO_END"
      <4>1. pc'[d] = "readHeader" /\ UNCHANGED <<pipe, result, stopped, heard>>
        BY <3>1, <3>2, <3>7 DEF Respond, SpeakResponse, EndsSpeak
      <4>2. toClient'[d] = Tail(toClient[d]) /\ ~Waiting(d)' /\ First(d)' = "header"
        BY <1>2, <2>3, <4>1 DEF Waiting, First
      <4>3. Rest(toClient[d], First(d), toClient'[d], First(d)')
        BY <2>1, <3>2, <4>2
      <4>4. \A n \in Nat : Sound(toClient[d], utterance[d], Len(heard[d]), n) =>
                           Sound(toClient'[d], utterance[d], Len(heard'[d]), n)
        <5>1. Len(heard[d]) \in Nat
          BY <1>1, LenProperties DEF ClientShape
        <5> QED
          BY <1>2, <1>4, <3>5, <4>1, <4>2, <5>1, SoundTail
      <4>5. /\ stopped'[d] \in BOOLEAN /\ heard'[d] \in Seq(SamplesUnit)
            /\ \A i \in 1..Len(heard'[d]) : heard'[d][i] = Samples(utterance[d], i)
        BY <1>1, <4>1 DEF ClientShape, Counted
      <4> QED
        BY <1>2, <3>3, <4>1, <4>2, <4>3, <4>4, <4>5, ReadOnGood
    <3>8. CASE op[d] = "getVoices"
      <4>1. /\ pc'[d] = "idle" /\ result'[d] \in {"true", "false"}
            /\ UNCHANGED <<pipe, stopped, heard>>
        BY <3>1, <3>8 DEF Respond, Return
      <4>2. toClient'[d] = Tail(toClient[d])
        BY <1>2, <2>3, <4>1
      <4>3. Rest(toClient[d], First(d), toClient'[d], "header")
        BY <2>1, <3>2, <4>2
      <4> QED
        BY <1>2, <3>3, <3>8, <4>1, <4>3, AnswerGood
    <3>9. CASE op[d] = "shutdownServer"
      <4>1. /\ pc'[d] = "idle" /\ result'[d] = "true" /\ pipe'[d] = FALSE
            /\ UNCHANGED <<stopped, heard>>
        BY <3>1, <3>9 DEF Respond, Return
      <4>2. toClient'[d] = <<>>
        BY <2>3, <4>1
      <4> QED
        BY <1>2, <3>3, <3>9, <4>1, <4>2, LeaveGood
    <3> QED
      BY <1>1, <3>6, <3>7, <3>8, <3>9 DEF ClientShape, Operations
  <2> QED
    BY <2>4, <2>5
<1>5. CASE toClient[d] # <<>> /\ ReadFails(d)
  BY <1>5 DEF ReadFails
<1> QED
  BY <1>3, <1>4, <1>5 DEF ReadHeader

(* What Consume leaves.                                                    *)
LEMMA Consumed ==
    ASSUME ByClient(toClient), NEW d \in Clients, NEW n, Consume(d, n)
    PROVE  toClient'[d] = IF pipe'[d] THEN SubSeq(toClient[d], n + 1, Len(toClient[d]))
                                      ELSE <<>>
BY Zenon DEF Consume, ByClient

(* A whole body of samples: it goes to the callback, or is dropped.        *)
LEMMA SamplesGood ==
    ASSUME IInv, NEW d \in Clients, ReadBody(d),
           header[d].size = 2, Len(toClient[d]) >= 2,
           Respond(d, header[d], SubSeq(toClient[d], 1, 2)), Consume(d, 2)
    PROVE  Good(d)' /\ ServerShape'
<1> USE DEF IInv, Functions, ByClient
<1> DEFINE s == toClient[d]
           t == Tail(s)
           p == Head(t)
<1>1. ClientShape(d) /\ Framed(d) /\ Ordered(d) /\ Counted(d)
  BY DEF Good
<1>2. /\ pc[d] = "readBody" /\ pipe[d] /\ First(d) = Follows(header[d]) /\ Waiting(d)
      /\ s \in Seq(ResponsesSent) /\ header'[d] = NoHeader
      /\ UNCHANGED <<op, utterance, toServer, serverVars>>
  BY <1>1 DEF ReadBody, First, Waiting, ClientShape
<1>3. IsType(header[d], "AUDIO_DATA") /\ Follows(header[d]) = "size"
  <2>1. header[d].type = "AUDIO_DATA"
    BY <1>1, ResponseFacts DEF ClientShape
  <2> QED
    BY <1>1, <2>1 DEF ClientShape, IsType, Follows
<1>4. Speaking(d) /\ op[d] = "speak"
  BY <1>1, <1>2, <1>3 DEF Ordered, Speaking
<1>5. /\ s # <<>> /\ t # <<>> /\ SubSeq(s, 3, Len(s)) = Tail(t)
      /\ SubSeq(s, 1, 2)[Len(SubSeq(s, 1, 2))] = p
  BY <1>2, TwoTaken
<1>6. /\ Rest(s, First(d), t, Follows(Head(s))) /\ Head(s) \in ResponsesSent
      /\ Head(s).part = "size"
  BY <1>1, <1>2, <1>3, <1>5, RestOfTail DEF Framed, Ordered
<1>7. Follows(Head(s)) = "samples"
  BY <1>6, ResponseFacts
<1>8. /\ Rest(t, "samples", Tail(t), Follows(p)) /\ p \in ResponsesSent
      /\ p.part = "samples"
  BY <1>5, <1>6, <1>7, RestOfTail DEF Rest
<1>9. Follows(p) = "header" /\ p \in SamplesUnit /\ p = Samples(p.utterance, p.index)
  BY <1>8, ResponseFacts
<1>10. Rest(s, First(d), Tail(t), "header")
  BY <1>6, <1>7, <1>8, <1>9 DEF Rest
<1>11. ~Silent(s)
  <2>1. ~Silent(t)
    BY <1>5, <1>6, <1>8, SilentTail DEF Rest, OfSpeak
  <2> QED
    BY <1>6, <2>1 DEF Rest
<1>12. ASSUME NEW n \in Nat, Sound(s, utterance[d], Len(heard[d]), n)
       PROVE  /\ p.utterance = utterance[d] /\ p.index = Len(heard[d]) + 1
              /\ Sound(Tail(t), utterance[d], Len(heard[d]) + 1, n)
  <2>1. Len(heard[d]) \in Nat
    BY <1>1, LenProperties DEF ClientShape
  <2>2. Head(s).part # "samples"
    BY <1>6
  <2>3. Sound(t, utterance[d], Len(heard[d]), n)
    BY <1>2, <1>5, <1>12, <2>1, <2>2, SoundTail
  <2>4. t \in Seq(ResponsesSent)
    BY <1>6 DEF Rest
  <2> QED
    BY <1>5, <1>8, <2>1, <2>3, <2>4, SoundTail
<1>13. header'[d] \in ResponsesSent /\ header'[d].part = "header"
  BY <1>2 DEF NoHeader, Header, ResponsesSent
<1> HIDE DEF s, t, p
<1>14. CASE ~stopped[d]
  <2>1. PICK goOn \in BOOLEAN :
          /\ heard'[d] = Append(heard[d], p) /\ stopped'[d] = ~goOn
          /\ pc'[d] = IF goOn THEN "readHeader" ELSE "sendStop"
          /\ UNCHANGED <<pipe, result>>
    <3>1. Deliver(d, SubSeq(s, 1, 2))
      BY <1>3, <1>4, <1>14
         DEF Respond, SpeakResponse, EndsSpeak, WantsAudio, IsType, s
    <3> QED
      BY <1>5, <3>1 DEF Deliver
  <2>2. toClient'[d] = Tail(t) /\ ~Waiting(d)' /\ First(d)' = "header"
    <3>1. toClient'[d] = SubSeq(s, 2 + 1, Len(s))
      BY <1>2, <2>1, Consumed DEF s
    <3>2. 2 + 1 = 3
      OBVIOUS
    <3> QED
      BY <1>5, <2>1, <3>1, <3>2 DEF Waiting, First
  <2>3. Rest(toClient[d], First(d), toClient'[d], First(d)')
    BY <1>10, <2>2 DEF s
  <2>4. PICK m \in Nat : Sound(s, utterance[d], Len(heard[d]), m)
    BY <1>1, <1>4, <1>14 DEF Counted, s
  <2>5. p.utterance = utterance[d] /\ p.index = Len(heard[d]) + 1
    BY <1>12, <2>4
  <2>6. heard'[d] \in Seq(SamplesUnit) /\ Len(heard'[d]) = Len(heard[d]) + 1
    BY <1>1, <1>9, <2>1, Appended DEF ClientShape
  <2>7. \A i \in 1..Len(heard'[d]) : heard'[d][i] = Samples(utterance[d], i)
    <3>1. heard[d] \in Seq(SamplesUnit)
      BY <1>1 DEF ClientShape
    <3>2. /\ Len(heard[d]) \in Nat
          /\ \A i \in 1..Len(heard[d]) : heard'[d][i] = heard[d][i]
          /\ heard'[d][Len(heard[d]) + 1] = p
      BY <1>9, <2>1, <3>1, Appended
    <3>3. \A i \in 1..Len(heard'[d]) : i \in 1..Len(heard[d]) \/ i = Len(heard[d]) + 1
      BY <2>6, <3>2
    <3>4. p = Samples(utterance[d], Len(heard[d]) + 1)
      BY <1>9, <2>5
    <3>5. \A i \in 1..Len(heard[d]) : heard[d][i] = Samples(utterance[d], i)
      BY <1>1 DEF Counted
    <3> QED
      BY <3>2, <3>3, <3>4, <3>5
  <2>8. \A n \in Nat : Sound(toClient[d], utterance[d], Len(heard[d]), n) =>
                       Sound(toClient'[d], utterance[d], Len(heard'[d]), n)
    BY <1>12, <2>2, <2>6 DEF s
  <2>9. stopped'[d] \in BOOLEAN
    BY <2>1
  <2>10. pc'[d] \in {"readHeader", "sendStop"}
    BY <2>1
  <2> QED
    BY <1>2, <1>3, <1>4, <1>13, <1>14, <2>1, <2>2, <2>3, <2>6, <2>7, <2>8, <2>9, <2>10,
       ReadOnGood
<1>15. CASE stopped[d]
  <2>1. pc'[d] = "readHeader" /\ UNCHANGED <<pipe, result, stopped, heard>>
    BY <1>3, <1>4, <1>15 DEF Respond, SpeakResponse, EndsSpeak, WantsAudio, IsType
  <2>2. toClient'[d] = Tail(t) /\ ~Waiting(d)' /\ First(d)' = "header"
    <3>1. toClient'[d] = SubSeq(s, 2 + 1, Len(s))
      BY <1>2, <2>1, Consumed DEF s
    <3>2. 2 + 1 = 3
      OBVIOUS
    <3> QED
      BY <1>5, <2>1, <3>1, <3>2 DEF Waiting, First
  <2>3. Rest(toClient[d], First(d), toClient'[d], First(d)')
    BY <1>10, <2>2 DEF s
  <2>4. /\ stopped'[d] \in BOOLEAN /\ stopped'[d] /\ heard'[d] \in Seq(SamplesUnit)
        /\ \A i \in 1..Len(heard'[d]) : heard'[d][i] = Samples(utterance[d], i)
    BY <1>1, <1>15, <2>1 DEF ClientShape, Counted
  <2> QED
    BY <1>2, <1>13, <2>1, <2>2, <2>3, <2>4, ReadOnGood
<1> QED
  BY <1>14, <1>15

(* A list of voices: getVoices takes it, the others pass over it.          *)
LEMMA VoicesGood ==
    ASSUME IInv, NEW d \in Clients, ReadBody(d), header[d].size = 1, toClient[d] # <<>>,
           Respond(d, header[d], SubSeq(toClient[d], 1, 1)), Consume(d, 1)
    PROVE  Good(d)' /\ ServerShape'
<1> USE DEF IInv, Functions, ByClient
<1> DEFINE s == toClient[d]
<1>1. ClientShape(d) /\ Framed(d) /\ Ordered(d) /\ Counted(d)
  BY DEF Good
<1>2. /\ pc[d] = "readBody" /\ pipe[d] /\ First(d) = Follows(header[d]) /\ Waiting(d)
      /\ s \in Seq(ResponsesSent) /\ s # <<>> /\ header'[d] = NoHeader
      /\ UNCHANGED <<op, utterance, toServer, serverVars>>
  BY <1>1 DEF ReadBody, First, Waiting, ClientShape
<1>3. header[d].type = "VOICES" /\ Follows(header[d]) = "voices"
  <2>1. header[d].type = "VOICES" /\ header[d].part = "header"
    BY <1>1, ResponseFacts DEF ClientShape
  <2> QED
    BY <2>1 DEF IsType, Follows
<1>4. /\ Rest(s, First(d), Tail(s), Follows(Head(s))) /\ Head(s) \in ResponsesSent
      /\ Head(s).part = "voices" /\ SubSeq(s, 2, Len(s)) = Tail(s)
  BY <1>1, <1>2, <1>3, RestOfTail DEF Framed, Ordered
<1>5. Rest(s, First(d), Tail(s), "header")
  <2>1. Follows(Head(s)) = "header"
    BY <1>4, ResponseFacts
  <2> QED
    BY <1>4, <2>1
<1>6. header'[d] \in ResponsesSent /\ header'[d].part = "header"
  BY <1>2 DEF NoHeader, Header, ResponsesSent
<1> HIDE DEF s
<1>7. toClient'[d] = IF pipe'[d] THEN Tail(s) ELSE <<>>
  <2>1. toClient'[d] = IF pipe'[d] THEN SubSeq(s, 1 + 1, Len(s)) ELSE <<>>
    BY Consumed, Zenon DEF s
  <2>2. 1 + 1 = 2
    OBVIOUS
  <2>3. SubSeq(s, 1 + 1, Len(s)) = Tail(s)
    BY <1>4, <2>2, Zenon
  <2> QED
    BY <2>1, <2>3, Zenon
<1>8. CASE op[d] = "speak"
  <2>1. pc'[d] = "readHeader" /\ UNCHANGED <<pipe, result, stopped, heard>>
    BY <1>3, <1>8 DEF Respond, SpeakResponse, EndsSpeak
  <2>2. toClient'[d] = Tail(s) /\ ~Waiting(d)' /\ First(d)' = "header"
    BY <1>2, <1>7, <2>1 DEF Waiting, First
  <2>3. Rest(toClient[d], First(d), toClient'[d], First(d)')
    BY <1>5, <2>2 DEF s
  <2>4. ASSUME NEW n \in Nat, Sound(toClient[d], utterance[d], Len(heard[d]), n)
        PROVE  Sound(toClient'[d], utterance[d], Len(heard'[d]), n)
    <3>1. Len(heard[d]) \in Nat
      BY <1>1, LenProperties DEF ClientShape
    <3>2. Head(s).part # "samples"
      BY <1>4
    <3>3. Sound(Tail(s), utterance[d], Len(heard[d]), n)
      BY <1>2, <2>4, <3>1, <3>2, SoundTail DEF s
    <3> QED
      BY <2>1, <2>2, <3>3
  <2>5. /\ stopped'[d] \in BOOLEAN /\ heard'[d] \in Seq(SamplesUnit)
        /\ \A i \in 1..Len(heard'[d]) : heard'[d][i] = Samples(utterance[d], i)
    BY <1>1, <2>1 DEF ClientShape, Counted
  <2> QED
    BY <1>2, <1>6, <2>1, <2>2, <2>3, <2>4, <2>5, ReadOnGood
<1>9. CASE op[d] = "getVoices"
  <2>1. /\ pc'[d] = "idle" /\ result'[d] \in {"true", "false"}
        /\ UNCHANGED <<pipe, stopped, heard>>
    BY <1>9 DEF Respond, Return
  <2>2. toClient'[d] = Tail(s)
    BY <1>2, <1>7, <2>1
  <2>3. Rest(toClient[d], First(d), toClient'[d], "header")
    BY <1>5, <2>2 DEF s
  <2> QED
    BY <1>2, <1>6, <1>9, <2>1, <2>3, AnswerGood
<1>10. CASE op[d] = "shutdownServer"
  <2>1. /\ pc'[d] = "idle" /\ result'[d] = "true" /\ pipe'[d] = FALSE
        /\ UNCHANGED <<stopped, heard>>
    BY <1>10 DEF Respond, Return
  <2>2. toClient'[d] = <<>>
    BY <1>7, <2>1
  <2> QED
    BY <1>2, <1>6, <1>10, <2>1, <2>2, LeaveGood
<1> QED
  BY <1>1, <1>8, <1>9, <1>10 DEF ClientShape, Operations

LEMMA ReadBodyGood ==
    ASSUME IInv, NEW d \in Clients, ReadBody(d)
    PROVE  Good(d)' /\ ServerShape'
<1>1. ClientShape(d) /\ Framed(d) /\ Ordered(d) /\ Counted(d)
  BY DEF IInv, Good
<1>2. /\ pc[d] = "readBody" /\ Waiting(d) /\ toClient[d] \in Seq(ResponsesSent)
      /\ header'[d] = NoHeader
      /\ UNCHANGED <<op, utterance, toServer, serverVars>>
  BY <1>1 DEF ReadBody, Waiting, ClientShape, IInv, Functions, ByClient
<1>3. Len(toClient[d]) \in Nat /\ (toClient[d] # <<>> => Len(toClient[d]) > 0)
  BY <1>2, EmptySeq, LenProperties
<1>4. /\ header[d].size \in 1..2 /\ header[d].part = "header"
      /\ header[d].size = 2 => header[d].type = "AUDIO_DATA"
  BY <1>1, <1>2, ResponseFacts DEF ClientShape
<1>5. CASE ReadFails(d)
  <2>1. ~Connected(d) /\ toClient[d] = <<>> /\ Fail(d) /\ UNCHANGED <<stopped, heard>>
    BY <1>5 DEF ReadFails, Broken, Connected
  <2> QED
    BY <1>2, <2>1, FailGood
<1>6. CASE ~ReadFails(d) /\ Len(toClient[d]) < header[d].size
  <2>1. Fail(d) /\ UNCHANGED <<stopped, heard>> /\ Len(toClient[d]) > 0
    BY <1>6 DEF ReadBody, ShortRead
  <2>2. IsType(header[d], "AUDIO_DATA")
    BY <1>3, <1>4, <1>6, <2>1 DEF IsType
  <2>3. op[d] = "speak"
    BY <1>1, <1>2, <2>2 DEF Ordered, Speaking
  <2> QED
    BY <1>2, <2>1, <2>3, FailGood
<1>7. CASE ~ReadFails(d) /\ ~(Len(toClient[d]) < header[d].size)
  <2>1. /\ Respond(d, header[d], SubSeq(toClient[d], 1, header[d].size))
        /\ Consume(d, header[d].size)
    BY <1>3, <1>4, <1>7 DEF ReadBody, ShortRead
  <2>2. CASE header[d].size = 2
    BY <1>3, <1>7, <2>1, <2>2, SamplesGood
  <2>3. CASE header[d].size = 1
    <3>1. toClient[d] # <<>>
      BY <1>2, <1>3, <1>7, <2>3, EmptySeq
    <3> QED
      BY <2>1, <2>3, <3>1, VoicesGood
  <2> QED
    BY <1>4, <2>2, <2>3
<1> QED
  BY <1>5, <1>6, <1>7

LEMMA ClientStepGood ==
    ASSUME IInv, NEW d \in Clients,
           Call(d) \/ ClientStep(d) \/ ConnectRefused(d) \/ ClientExit(d)
    PROVE  IInv'
<1>1. Good(d)' /\ ServerShape'
  BY CallGood, ConnectGood, AttemptGood, ConnectFailsGood, SendHeaderGood, SendMoreGood,
     SendBrokenGood, ReadHeaderGood, ReadBodyGood, ExitGood DEF ClientStep
<1>2. op[d] \in Operations
  BY DEF IInv, Good, ClientShape
<1>3. Functions' /\ \A c \in Clients \ {d} : Same(c)
  BY <1>2, ClientStepSame DEF IInv
<1>4. \A c \in Clients \ {d} : Good(c)'
  BY <1>3, SameKeeps DEF IInv
<1> QED
  BY <1>1, <1>3, <1>4 DEF IInv

(***************************************************************************)
(* The server's steps.                                                     *)
(***************************************************************************)
(* Of a client that is gone nothing is asked but its stream of commands.   *)
LEMMA GoneGood ==
    ASSUME IInv, NEW c \in Clients, conn = c, ~pipe[c], UNCHANGED <<clientVars, toClient, conn>>,
           toServer'[c] \in Seq(CommandsSent), Chained(toServer'[c], ServerFirst'),
           made'[c] \in 0..MaxChunks
    PROVE  Good(c)'
<1> USE DEF clientVars
<1>1. ClientShape(c) /\ Framed(c) /\ Ordered(c) /\ Counted(c)
  BY DEF IInv, Good
<1>2. /\ ~Connected(c)' /\ Waiting(c)' = Waiting(c) /\ First(c)' = First(c)
      /\ ~Speaking(c)' /\ ~Speaking(c)
  BY <1>1 DEF Connected, Speaking, Waiting, First, ClientShape
<1>3. ClientShape(c)'
  BY <1>1, <1>2 DEF ClientShape
<1>4. Framed(c)' /\ Ordered(c)'
  BY <1>1, <1>2 DEF Framed, Ordered
<1>5. Counted(c)'
  BY <1>1, <1>2 DEF Counted
<1> QED
  BY <1>3, <1>4, <1>5 DEF Good

LEMMA Served ==
    ASSUME IInv, spc \notin {"down", "create", "listen"}
    PROVE  /\ conn \in Clients /\ Good(conn)
           /\ conn # NoClient
           /\ ClientGone <=> ~pipe[conn]
           /\ pipe[conn] <=> Connected(conn)
BY NoClientAssumption DEF IInv, ServerShape, ClientGone, Connected

LEMMA ServerReadHeaderGood ==
    ASSUME IInv, ServerReadHeader, NEW c \in Clients, conn = c
    PROVE  Good(c)' /\ ServerShape'
<1> USE DEF IInv, Functions, ByClient
<1> DEFINE s == toServer[c]
           h == Head(s)
<1>1. spc = "read" /\ UNCHANGED <<clientVars, toClient, conn, crashes>>
  BY DEF ServerReadHeader
<1>2. /\ c \in Clients /\ Good(c) /\ (ClientGone <=> ~pipe[c]) /\ (pipe[c] <=> Connected(c))
      /\ c # NoClient
  BY <1>1, Served
<1>3. ClientShape(c) /\ Framed(c) /\ Ordered(c) /\ Counted(c) /\ conn' = c
  BY <1>1, <1>2 DEF Good
<1>4. s \in Seq(CommandsSent) /\ Chained(s, "header") /\ out = <<>> /\ ServerFirst = "header"
  BY <1>1, <1>3 DEF ClientShape, Framed, ServerFirst, ServerShape
<1>5. CASE ServerReadFails
  <2>1. /\ ~pipe[c] /\ spc' = "close" /\ UNCHANGED <<toServer, out, gStop, quitting, text, made>>
    BY <1>2, <1>5 DEF ServerReadFails, AfterFailedRead
  <2>2. ServerShape'
    BY <1>1, <1>4, <2>1 DEF ServerShape
  <2>3. ServerFirst' = "header"
    BY <2>1 DEF ServerFirst
  <2>4. Good(c)'
    BY <1>1, <1>2, <1>3, <1>4, <2>1, <2>3, GoneGood DEF ClientShape
  <2> QED
    BY <1>3, <2>2, <2>4
<1>6. CASE s # <<>> /\ ~ServerReadFails
  <2>1. /\ toServer'[c] = Tail(s) /\ UNCHANGED <<text, made>>
        /\ CASE h.type = "SPEAK"      -> spc' = "readText" /\ UNCHANGED out
             [] h.type = "GET_VOICES" -> Reply(VoicesReply)
             [] h.type \in {"STOP", "SHUTDOWN"} -> Reply(<<Header("OK", 0)>>)
        /\ gStop' = (gStop \/ h.type = "STOP")
        /\ quitting' = (quitting \/ h.type = "SHUTDOWN")
    BY <1>2, <1>3, <1>6 DEF ServerReadHeader
  <2>2. /\ h \in CommandsSent /\ Tail(s) \in Seq(CommandsSent) /\ h.part = "header"
        /\ Chained(Tail(s), Follows(h)) /\ Expected(Tail(s), Follows(h)) = Expected(s, "header")
    BY <1>4, <1>6, Taken, ChainedTail
  <2>3. h.type \in Commands /\ Follows(h) = IF h.type = "SPEAK" THEN "text" ELSE "header"
    BY <2>2, CommandFacts DEF IsType
  <2>4. IsType(h, "SPEAK") <=> h.type = "SPEAK"
    BY <2>2 DEF IsType
  <2>5. /\ Holds(s, "SPEAK") <=> h.type = "SPEAK" \/ Holds(Tail(s), "SPEAK")
        /\ OneSpeak(s) => /\ OneSpeak(Tail(s))
                          /\ (h.type = "SPEAK" => ~Holds(Tail(s), "SPEAK"))
    BY <1>4, <1>6, <2>4, HoldsTail, OneSpeakTail
  <2>6. TextsOf(s, utterance[c]) => TextsOf(Tail(s), utterance[c])
    BY <1>4, <1>6, TextsTail
  <2> HIDE DEF h
  <2>7. gStop' \in BOOLEAN /\ quitting' \in BOOLEAN
    BY <2>1
  <2>8. /\ Speaking(c)' = Speaking(c) /\ Waiting(c)' = Waiting(c) /\ First(c)' = First(c)
        /\ Connected(c)' = Connected(c)
        /\ spc' = (IF h.type = "SPEAK" THEN "readText" ELSE "reply")
        /\ ServerFirst' = Follows(h) /\ (Handling' <=> h.type = "SPEAK") /\ ~Handling
    BY <1>1, <1>3, <2>1, <2>3
       DEF Speaking, Waiting, First, Connected, ServerFirst, Handling, clientVars, Commands, Reply
  <2>9. /\ out' \in Seq(ResponsesSent) /\ (out' # <<>> <=> h.type # "SPEAK")
        /\ EndsLast(out') /\ Silent(out')
        /\ Chained(out', "header") /\ Expected(out', "header") = "header"
    <3>1. CASE h.type = "SPEAK"
      BY <1>4, <2>1, <3>1, NothingHeld, EmptySeq
    <3>2. CASE h.type = "GET_VOICES"
      BY <2>1, <3>2, ReplyVoices DEF Reply
    <3>3. CASE h.type \in {"STOP", "SHUTDOWN"}
      BY <2>1, <3>3, ReplyShort DEF Reply
    <3> QED
      BY <2>3, <3>1, <3>2, <3>3 DEF Commands
  <2>10. ~Holds(out', "AUDIO_END")
    BY <2>9, SilentHolds
  <2>11. ServerShape'
    BY <1>1, <1>2, <1>3, <2>1, <2>7, <2>8, <2>9, <2>10 DEF ServerShape
  <2>12. ClientShape(c)'
    BY <1>1, <1>3, <2>1, <2>2, <2>8 DEF ClientShape, clientVars
  <2>13. Framed(c)'
    <3>1. Connected(c) => Expected(toClient[c], First(c)) = "header"
      BY <1>3, <1>4, NothingHeld DEF Framed
    <3> QED
      BY <1>1, <1>3, <1>4, <2>1, <2>2, <2>8, <2>9, <3>1 DEF Framed, clientVars
  <2>14. Ordered(c)'
    BY <1>1, <1>3, <2>1, <2>5, <2>8, <2>9, <2>10, SilentHolds DEF Ordered, clientVars
  <2>15. Counted(c)'
    <3>1. ~Sounding(c)'
      BY <2>8, <2>10 DEF Sounding
    <3>2. spc' \notin {"synth", "audio"}
      BY <2>8
    <3> QED
      BY <1>1, <1>3, <2>1, <2>6, <2>8, <3>1, <3>2 DEF Counted, clientVars
  <2> QED
    BY <1>3, <2>11, <2>12, <2>13, <2>14, <2>15 DEF Good
<1> QED
  BY <1>3, <1>5, <1>6 DEF ServerReadHeader

LEMMA ServerKeeps ==
    ASSUME NEW c \in Clients, UNCHANGED clientVars, conn' = conn
    PROVE  /\ Speaking(c)' = Speaking(c) /\ Waiting(c)' = Waiting(c) /\ First(c)' = First(c)
           /\ Connected(c)' = Connected(c)
BY DEF Speaking, Waiting, First, Connected, clientVars

LEMMA HandleSpeakGood ==
    ASSUME IInv, HandleSpeak, NEW c \in Clients, conn = c
    PROVE  Good(c)' /\ ServerShape'
<1> USE DEF IInv, Functions, ByClient
<1> DEFINE s == toServer[c]
           h == Head(s)
<1>1. spc = "readText" /\ UNCHANGED <<clientVars, toClient, conn, crashes>>
  BY DEF HandleSpeak
<1>2. /\ Good(c) /\ (ClientGone <=> ~pipe[c]) /\ (pipe[c] <=> Connected(c))
      /\ c # NoClient
  BY <1>1, Served
<1>3. ClientShape(c) /\ Framed(c) /\ Ordered(c) /\ Counted(c) /\ conn' = c
  BY <1>1, <1>2 DEF Good
<1>4. s \in Seq(CommandsSent) /\ Chained(s, "text") /\ out = <<>> /\ ServerFirst = "text"
  BY <1>1, <1>3 DEF ClientShape, Framed, ServerFirst, ServerShape
<1>5. CASE ServerReadFails
  <2>1. /\ ~pipe[c] /\ spc' = "close" /\ UNCHANGED <<toServer, out, gStop, quitting, text, made>>
        /\ s = <<>>
    BY <1>2, <1>5 DEF ServerReadFails, AfterFailedRead
  <2>2. ServerShape'
    BY <1>1, <1>4, <2>1 DEF ServerShape
  <2>3. Chained(toServer'[c], ServerFirst')
    BY <2>1, NothingHeld
  <2>4. Good(c)'
    BY <1>1, <1>2, <1>3, <1>4, <2>1, <2>3, GoneGood DEF ClientShape
  <2> QED
    BY <2>2, <2>4
<1>6. CASE s # <<>> /\ ~ServerReadFails
  <2>1. /\ toServer'[c] = Tail(s) /\ text' = h.utterance /\ made'[c] = 0 /\ gStop' = FALSE
        /\ spc' = "synth" /\ UNCHANGED <<out, quitting>>
    BY <1>2, <1>3, <1>6 DEF HandleSpeak, StopFlagAtSpeak
  <2>2. /\ h \in CommandsSent /\ Tail(s) \in Seq(CommandsSent) /\ h.part = "text"
        /\ Chained(Tail(s), Follows(h)) /\ Expected(Tail(s), Follows(h)) = Expected(s, "text")
    BY <1>4, <1>6, Taken, ChainedTail
  <2>3. h.utterance \in 1..MaxSpeaks /\ Follows(h) = "header" /\ ~IsType(h, "SPEAK")
    BY <2>2, CommandFacts DEF IsType
  <2>4. ServerShape'
    <3>1. h.utterance \in 0..MaxSpeaks /\ h.utterance \in 1..MaxSpeaks
      BY <2>3, BoundsAssumption
    <3>2. text' \in 0..MaxSpeaks /\ text' \in 1..MaxSpeaks
      BY <2>1, <3>1
    <3>3. conn # NoClient /\ spc' \notin {"audio", "reply", "down", "create", "listen"}
      BY <1>2, <2>1
    <3> HIDE DEF h
    <3> QED
      BY <1>1, <1>4, <2>1, <3>2, <3>3, NothingHeld DEF ServerShape
  <2>5. ServerFirst' = "header" /\ Handling /\ Handling'
    BY <1>1, <2>1 DEF ServerFirst, Handling
  <2>6. CASE ~pipe[c]
    <3>1. Chained(toServer'[c], ServerFirst') /\ toServer'[c] \in Seq(CommandsSent)
      BY <2>1, <2>2, <2>3, <2>5
    <3>2. made'[c] \in 0..MaxChunks
      BY <2>1, BoundsAssumption
    <3> QED
      BY <1>1, <2>4, <2>6, <3>1, <3>2, GoneGood
  <2>7. CASE pipe[c]
    <3>1. Connected(c) /\ Speaking(c) /\ ~Holds(s, "SPEAK") /\ Silent(toClient[c])
          /\ heard[c] = <<>> /\ ~(Waiting(c) /\ IsType(header[c], "AUDIO_DATA"))
      BY <1>1, <1>2, <1>3, <2>5, <2>7 DEF Ordered
    <3>2. ~Holds(Tail(s), "SPEAK") /\ OneSpeak(Tail(s))
      BY <1>2, <1>3, <1>4, <1>6, <2>7, <3>1, HoldsTail, OneSpeakTail DEF Ordered
    <3>3. TextsOf(Tail(s), utterance[c]) /\ text' = utterance[c]
      <4>1. TextsOf(s, utterance[c])
        BY <1>3, <3>1 DEF Counted
      <4> QED
        BY <1>4, <1>6, <2>1, <2>2, <4>1, TextsTail
    <3>4. /\ Speaking(c)' = Speaking(c) /\ Waiting(c)' = Waiting(c) /\ First(c)' = First(c)
          /\ Connected(c)' = Connected(c)
      BY <1>1, ServerKeeps
    <3>5. ClientShape(c)'
      BY <1>1, <1>3, <2>1, <2>2, <3>4, BoundsAssumption DEF ClientShape, clientVars
    <3>6. Framed(c)'
      BY <1>1, <1>3, <1>4, <2>1, <2>2, <2>3, <2>5, <3>4 DEF Framed, clientVars
    <3>7. ~Holds(toClient[c], "AUDIO_END") /\ EndsLast(toClient[c])
      BY <3>1, SilentHolds
    <3>8. Ordered(c)'
      BY <1>1, <1>4, <2>1, <3>1, <3>2, <3>4, <3>7 DEF Ordered, clientVars
    <3>9. Sound(toClient[c], utterance[c], 0, 0) /\ Sound(<<>>, utterance[c], 0, 0)
          /\ Len(heard[c]) = 0
      <4>1. toClient[c] \in Seq(ResponsesSent) /\ <<>> \in Seq(ResponsesSent) /\ 0 \in Nat
        BY <1>3, EmptySeq DEF ClientShape
      <4> QED
        BY <3>1, <4>1, SoundStarts, NothingHeld, EmptySeq
    <3>10. Counted(c)'
      <4>1. pc[c] \notin {"idle", "connect", "retry", "send"} \/ heard[c] = <<>>
        BY <3>1
      <4>2. pc[c] # "idle"
        BY <3>1 DEF Speaking
      <4> QED
        BY <1>1, <1>3, <1>4, <2>1, <3>1, <3>3, <3>4, <3>7, <3>9, <4>1, <4>2
           DEF Counted, Sounding, clientVars
    <3> QED
      BY <2>4, <3>5, <3>6, <3>8, <3>10 DEF Good
  <2> QED
    BY <2>6, <2>7
<1> QED
  BY <1>2, <1>5, <1>6 DEF HandleSpeak, ServerReadFails

(* The engine makes a chunk or is done: what is to be written next.        *)
LEMMA SynthesisGood ==
    ASSUME IInv, NEW c \in Clients, conn = c, spc = "synth",
           UNCHANGED <<clientVars, toServer, toClient, conn, text, gStop, quitting, crashes>>,
           spc' \in {"audio", "reply"}, Holds(out', "AUDIO_END") <=> spc' = "reply",
           out' \in Seq(ResponsesSent), out' # <<>>, EndsLast(out'),
           Chained(out', "header"), Expected(out', "header") = "header",
           made'[c] \in 0..MaxChunks, Sound(out', text, made[c], made'[c])
    PROVE  Good(c)' /\ ServerShape'
<1> USE DEF IInv
<1>1. /\ Good(c) /\ (ClientGone <=> ~pipe[c]) /\ (pipe[c] <=> Connected(c))
      /\ c # NoClient
  BY Served
<1>2. ClientShape(c) /\ Framed(c) /\ Ordered(c) /\ Counted(c) /\ conn' = c /\ out = <<>>
  BY <1>1 DEF Good, ServerShape
<1>3. ServerShape'
  <2>1. text \in 1..MaxSpeaks /\ ~gStop
    BY DEF ServerShape
  <2> QED
    BY <1>1, <2>1 DEF ServerShape
<1>4. ServerFirst' = "header" /\ ServerFirst = "header" /\ Handling
      /\ toServer'[c] = toServer[c] /\ toClient'[c] = toClient[c]
  BY DEF ServerFirst, Handling
<1>5. CASE ~pipe[c]
  <2>1. Chained(toServer'[c], ServerFirst') /\ toServer'[c] \in Seq(CommandsSent)
    BY <1>2, <1>4 DEF Framed, ClientShape
  <2> QED
    BY <1>3, <1>5, <2>1, GoneGood
<1>6. CASE pipe[c]
  <2>1. Connected(c) /\ Speaking(c) /\ ~Holds(toServer[c], "SPEAK")
        /\ ~Holds(toClient[c], "AUDIO_END")
    BY <1>1, <1>2, <1>4, <1>6 DEF Ordered
  <2>2. /\ Speaking(c)' = Speaking(c) /\ Waiting(c)' = Waiting(c) /\ First(c)' = First(c)
        /\ Connected(c)' = Connected(c)
    BY ServerKeeps
  <2>3. ClientShape(c)'
    BY <1>2, <1>4, <2>2 DEF ClientShape, clientVars
  <2>4. Expected(toClient[c], First(c)) = "header"
    BY <1>2, <2>1, NothingHeld DEF Framed
  <2>5. Framed(c)'
    BY <1>2, <1>4, <2>1, <2>2, <2>4 DEF Framed, clientVars
  <2>6. Ordered(c)'
    BY <1>2, <1>4, <2>1, <2>2 DEF Ordered, clientVars
  <2>7. text = utterance[c]
    BY <1>2, <2>1 DEF Counted
  <2>8. ASSUME ~stopped[c]
        PROVE  Sound(toClient[c], utterance[c], Len(heard[c]), made[c])
    <3>1. PICK n \in Nat : /\ Sound(toClient[c], utterance[c], Len(heard[c]), n)
                           /\ Sounding(c) => Sound(out, utterance[c], n, made[c])
      BY <1>2, <2>1, <2>8 DEF Counted
    <3>2. Sound(<<>>, utterance[c], n, made[c]) /\ Silent(<<>>) /\ made[c] \in Nat
      BY <1>2, <2>1, <3>1, NothingHeld DEF Sounding, ClientShape
    <3>3. n = made[c]
      BY <3>1, <3>2, SoundEnds
    <3> QED
      BY <3>1, <3>3
  <2>9. Counted(c)'
    <3>1. Speaking(c)' /\ ~stopped'[c] => \E n \in Nat :
            /\ Sound(toClient'[c], utterance'[c], Len(heard'[c]), n)
            /\ Sounding(c)' => Sound(out', utterance'[c], n, made'[c])
            /\ Holds(toClient'[c], "AUDIO_END") => n = made'[c]
      <4>1. made[c] \in Nat
        BY <1>2 DEF ClientShape
      <4> QED
        BY <1>4, <2>1, <2>7, <2>8, <4>1 DEF clientVars
    <3>2. pc[c] # "idle" /\ spc' # "synth"
      BY <2>1 DEF Speaking
    <3> QED
      BY <1>2, <1>4, <2>1, <2>2, <2>7, <3>1, <3>2 DEF Counted, clientVars
  <2> QED
    BY <1>3, <2>3, <2>5, <2>6, <2>9 DEF Good
<1> QED
  BY <1>1, <1>2, <1>5, <1>6 DEF ClientShape

LEMMA MakeChunkGood ==
    ASSUME IInv, MakeChunk \/ FinishSpeak, NEW c \in Clients, conn = c
    PROVE  Good(c)' /\ ServerShape'
<1> USE DEF IInv, Functions, ByClient
<1>1. /\ spc = "synth" /\ ~gStop /\ text \in 1..MaxSpeaks
      /\ UNCHANGED <<clientVars, toServer, toClient, conn, text, gStop, quitting, crashes>>
  BY DEF MakeChunk, FinishSpeak, ServerShape
<1>2. made[c] \in 0..MaxChunks /\ MaxChunks \in Nat
  BY BoundsAssumption DEF Good, ClientShape
<1>3. CASE MakeChunk
  <2> DEFINE i == made[c] + 1
  <2>1. /\ made'[c] = i /\ i \in 1..MaxChunks /\ spc' = "audio"
        /\ out' = <<AudioHeader, SizeField, Samples(text, i)>>
    BY <1>1, <1>2, <1>3 DEF MakeChunk
  <2>2. i - 1 = made[c] /\ i \in 0..MaxChunks
    BY <1>2, <2>1
  <2> HIDE DEF i
  <2>3. /\ out' \in Seq(ResponsesSent) /\ out' # <<>> /\ EndsLast(out')
        /\ ~Holds(out', "AUDIO_END") /\ Chained(out', "header")
        /\ Expected(out', "header") = "header" /\ Sound(out', text, i - 1, i)
    BY <1>1, <2>1, ReplyAudio
  <2> QED
    BY <1>1, <2>1, <2>2, <2>3, SynthesisGood
<1>4. CASE FinishSpeak
  <2>1. made' = made /\ spc' = "reply" /\ out' = <<Header("AUDIO_END", 0)>>
    BY <1>4 DEF FinishSpeak, Reply, AfterSynthesis
  <2>2. made[c] \in Nat
    BY <1>2
  <2>3. /\ out' \in Seq(ResponsesSent) /\ out' # <<>> /\ EndsLast(out')
        /\ Holds(out', "AUDIO_END") /\ Chained(out', "header")
        /\ Expected(out', "header") = "header" /\ Sound(out', text, made[c], made[c])
    BY <2>1, <2>2, ReplyShort
  <2> QED
    BY <1>1, <1>2, <2>1, <2>3, SynthesisGood
<1> QED
  BY <1>3, <1>4

(* One unit of the reply goes to the client's stream.                      *)
LEMMA ServerWriteGood ==
    ASSUME IInv, ServerWrite, NEW c \in Clients, conn = c
    PROVE  Good(c)' /\ ServerShape'
<1> USE DEF IInv, Functions, ByClient
<1> DEFINE s == toClient[c]
           e == Head(out)
           u == utterance[c]
<1>1. /\ spc \in {"audio", "reply"} /\ out # <<>> /\ ~ClientGone
      /\ toClient'[c] = Append(s, e) /\ out' = Tail(out)
      /\ spc' = IF Len(out) = 1 THEN AfterWrites ELSE spc
      /\ UNCHANGED <<clientVars, toServer, conn, text, made, gStop, quitting, crashes>>
  BY DEF ServerWrite
<1>2. /\ Good(c) /\ Connected(c) /\ c # NoClient /\ conn' = c
  BY <1>1, Served
<1>3. ClientShape(c) /\ Framed(c) /\ Ordered(c) /\ Counted(c)
  BY <1>2 DEF Good
<1>4. /\ out \in Seq(ResponsesSent) /\ s \in Seq(ResponsesSent) /\ EndsLast(out)
      /\ quitting \in BOOLEAN
  BY <1>3 DEF ServerShape, ClientShape
<1>5. /\ e \in ResponsesSent /\ Tail(out) \in Seq(ResponsesSent)
      /\ Append(s, e) \in Seq(ResponsesSent) /\ (Tail(out) = <<>> <=> Len(out) = 1)
  BY <1>1, <1>4, Taken, Appended
<1>6. /\ Holds(out, "AUDIO_END") <=> IsType(e, "AUDIO_END") \/ Holds(Tail(out), "AUDIO_END")
      /\ Holds(Append(s, e), "AUDIO_END") <=> Holds(s, "AUDIO_END") \/ IsType(e, "AUDIO_END")
      /\ Silent(out) <=> ~OfSpeak(e) /\ Silent(Tail(out))
      /\ Silent(Append(s, e)) <=> Silent(s) /\ ~OfSpeak(e)
      /\ EndsLast(Tail(out)) /\ (IsType(e, "AUDIO_END") => Silent(Tail(out)))
  BY <1>1, <1>4, <1>5, HoldsTail, HoldsAppend, SilentTail, SilentAppend, EndsLastTail
<1>7. /\ Silent(Tail(out)) => ~Holds(Tail(out), "AUDIO_END")
      /\ Tail(out) = <<>> => Silent(Tail(out)) /\ ~Holds(Tail(out), "AUDIO_END")
  BY SilentHolds, NothingHeld
<1>8. /\ Holds(out, "AUDIO_END") => spc = "reply"
      /\ Silent(out) \/ Holds(out, "AUDIO_END") \/ spc = "audio"
      /\ OfSpeak(e) <=> e.part = "samples" \/ IsType(e, "AUDIO_DATA") \/ IsType(e, "AUDIO_END")
  BY DEF ServerShape, OfSpeak
<1> HIDE DEF e, s
<1>9. /\ Tail(out) # <<>> => spc' = spc
      /\ Tail(out) = <<>> /\ spc = "audio" => spc' = "synth"
      /\ Tail(out) = <<>> /\ spc = "reply" => spc' \in {"close", "read"}
  BY <1>1, <1>4, <1>5 DEF AfterWrites
<1>10. ServerFirst' = "header" /\ ServerFirst = "header" /\ (Handling' <=> spc = "audio")
       /\ (Handling <=> spc = "audio") /\ spc' # "readText"
       /\ (spc' \in {"synth", "audio"} <=> spc = "audio")
  BY <1>1, <1>9 DEF ServerFirst, Handling
<1>11. /\ Speaking(c)' = Speaking(c) /\ Waiting(c)' = Waiting(c) /\ First(c)' = First(c)
       /\ Connected(c)' = Connected(c)
  BY <1>1, ServerKeeps
<1>12. ServerShape'
  <2>1. /\ out' # <<>> <=> spc' \in {"audio", "reply"}
        /\ spc' \in {"synth", "audio", "close", "read", "reply"}
    BY <1>1, <1>9
  <2>2. Holds(out', "AUDIO_END") => spc' = "reply"
    BY <1>1, <1>6, <1>7, <1>8, <1>9
  <2>3. Silent(out') \/ Holds(out', "AUDIO_END") \/ spc' = "audio"
    BY <1>1, <1>6, <1>7, <1>8, <1>9
  <2>4. spc' \in {"synth", "audio"} => text \in 1..MaxSpeaks /\ ~gStop
    BY <1>10 DEF ServerShape
  <2> QED
    BY <1>1, <1>2, <1>5, <1>6, <2>1, <2>2, <2>3, <2>4 DEF ServerShape
<1>13. ClientShape(c)'
  BY <1>1, <1>2, <1>3, <1>5, <1>11 DEF ClientShape, Connected, clientVars
<1>14. Framed(c)'
  <2>1. /\ Chained(s, First(c)) /\ Chained(out, Expected(s, First(c)))
        /\ Expected(out, Expected(s, First(c))) = "header"
    BY <1>2, <1>3 DEF Framed, s
  <2>2. /\ e.part = Expected(s, First(c)) /\ Chained(Tail(out), Follows(e))
        /\ Expected(Tail(out), Follows(e)) = "header"
    BY <1>1, <1>4, <2>1, ChainedTail DEF e
  <2>3. Chained(Append(s, e), First(c)) /\ Expected(Append(s, e), First(c)) = Follows(e)
    BY <1>4, <1>5, <2>1, <2>2, ChainedAppend
  <2> QED
    BY <1>1, <1>2, <1>3, <1>10, <1>11, <2>2, <2>3 DEF Framed, clientVars
<1>15. Ordered(c)'
  <2>1. EndsLast(Append(s, e))
    <3>1. Holds(s, "AUDIO_END") => ~OfSpeak(e)
      BY <1>2, <1>3, <1>6, <1>8, <1>10 DEF Ordered, s
    <3>2. EndsLast(s)
      BY <1>3 DEF Ordered, s
    <3> QED
      BY <1>4, <1>5, <3>1, <3>2, EndsLastAppend
  <2>2. Handling' \/ Holds(out', "AUDIO_END") => ~Holds(toClient'[c], "AUDIO_END")
    BY <1>1, <1>2, <1>3, <1>6, <1>7, <1>8, <1>10 DEF Ordered, s
  <2>3. Speaking(c) \/ (Silent(Append(s, e)) /\ Silent(Tail(out)))
    BY <1>2, <1>3, <1>6 DEF Ordered, s
  <2>4. Holds(toServer[c], "SPEAK") => Silent(Append(s, e)) /\ Silent(Tail(out)) /\ ~Handling'
    BY <1>2, <1>3, <1>6, <1>10 DEF Ordered, s
  <2> QED
    BY <1>1, <1>2, <1>3, <1>10, <1>11, <2>1, <2>2, <2>3, <2>4 DEF Ordered, clientVars
<1>16. Counted(c)'
  <2>1. ASSUME Speaking(c), ~stopped[c]
        PROVE  \E n \in Nat :
                 /\ Sound(Append(s, e), u, Len(heard[c]), n)
                 /\ Sounding(c)' => Sound(Tail(out), u, n, made[c])
                 /\ Holds(Append(s, e), "AUDIO_END") => n = made[c]
    <3>1. PICK n \in Nat : /\ Sound(s, u, Len(heard[c]), n)
                           /\ Sounding(c) => Sound(out, u, n, made[c])
                           /\ Holds(s, "AUDIO_END") => n = made[c]
      BY <1>3, <2>1 DEF Counted, s
    <3>2. Len(heard[c]) \in Nat /\ made[c] \in Nat
      BY <1>3, LenProperties DEF ClientShape
    <3> HIDE DEF u
    <3>3. CASE Sounding(c) /\ e.part = "samples"
      <4>1. e.utterance = u /\ e.index = n + 1 /\ Sound(Tail(out), u, n + 1, made[c])
        BY <1>1, <1>4, <3>1, <3>2, <3>3, SoundTail DEF e
      <4>2. e = Samples(u, n + 1)
        BY <1>5, <3>3, <4>1, ResponseFacts
      <4>3. Sound(Append(s, e), u, Len(heard[c]), n + 1)
        BY <1>4, <1>5, <3>1, <3>2, <4>2, SoundAppend
      <4>4. ~Holds(Append(s, e), "AUDIO_END")
        <5>1. ~IsType(e, "AUDIO_END")
          BY <3>3 DEF IsType
        <5>2. ~Holds(s, "AUDIO_END")
          BY <1>2, <1>3, <3>3 DEF Ordered, Sounding, Handling, s
        <5> QED
          BY <1>6, <5>1, <5>2
      <4>5. n + 1 \in Nat
        OBVIOUS
      <4> QED
        BY <4>1, <4>3, <4>4, <4>5
    <3>4. CASE Sounding(c) /\ e.part # "samples"
      <4>1. Sound(Tail(out), u, n, made[c])
        BY <1>1, <1>4, <3>1, <3>2, <3>4, SoundTail DEF e
      <4>2. Sound(Append(s, e), u, Len(heard[c]), n)
        BY <1>4, <1>5, <3>1, <3>2, <3>4, SoundAppend
      <4>3. ~Holds(s, "AUDIO_END")
        BY <1>2, <1>3, <3>4 DEF Ordered, Sounding, Handling, s
      <4>4. IsType(e, "AUDIO_END") => n = made[c]
        BY <1>6, <3>2, <4>1, SoundEnds
      <4> QED
        BY <1>6, <4>1, <4>2, <4>3, <4>4
    <3>5. CASE ~Sounding(c)
      <4>1. ~Holds(out, "AUDIO_END") /\ spc = "reply" /\ Silent(out)
        BY <1>1, <1>2, <1>8, <3>5 DEF Sounding
      <4>2. ~OfSpeak(e) /\ ~Sounding(c)'
        BY <1>1, <1>6, <1>10, <4>1 DEF Sounding
      <4>3. Sound(Append(s, e), u, Len(heard[c]), n)
        BY <1>4, <1>5, <1>8, <3>1, <3>2, <4>2, SoundAppend
      <4>4. Holds(Append(s, e), "AUDIO_END") => n = made[c]
        BY <1>6, <3>1, <4>1
      <4> QED
        BY <4>2, <4>3, <4>4
    <3> QED
      BY <3>3, <3>4, <3>5
  <2>2. Speaking(c)' /\ ~stopped'[c] => \E n \in Nat :
          /\ Sound(toClient'[c], utterance'[c], Len(heard'[c]), n)
          /\ Sounding(c)' => Sound(out', utterance'[c], n, made'[c])
          /\ Holds(toClient'[c], "AUDIO_END") => n = made'[c]
    BY <1>1, <1>11, <2>1 DEF clientVars
  <2>3. spc' \in {"synth", "audio"} => text = utterance[c]
    BY <1>2, <1>3, <1>10 DEF Counted
  <2> QED
    BY <1>1, <1>2, <1>3, <1>11, <2>2, <2>3 DEF Counted, clientVars
<1> QED
  BY <1>12, <1>13, <1>14, <1>15, <1>16 DEF Good

(* The client is gone: the rest of the reply is dropped.                   *)
LEMMA ServerWriteFailsGood ==
    ASSUME IInv, ServerWriteFails, NEW c \in Clients, conn = c
    PROVE  Good(c)' /\ ServerShape'
<1> USE DEF IInv
<1>1. /\ spc \in {"audio", "reply"} /\ ClientGone
      /\ UNCHANGED <<clientVars, toServer, toClient, conn, text, made, gStop, quitting, crashes>>
  BY DEF ServerWriteFails
<1>2. /\ Good(c) /\ c # NoClient /\ ~pipe[c] /\ conn' = c
  BY <1>1, Served
<1>3. /\ toServer'[c] \in Seq(CommandsSent) /\ Chained(toServer'[c], "header")
      /\ made'[c] \in 0..MaxChunks /\ ServerFirst = "header"
  BY <1>1, <1>2 DEF Good, ClientShape, Framed, ServerFirst
<1>4. CASE spc = "audio"
  <2>1. spc' = "reply" /\ out' = <<Header("AUDIO_END", 0)>>
    BY <1>4 DEF ServerWriteFails, Reply, AfterSynthesis
  <2>2. out' \in Seq(ResponsesSent) /\ out' # <<>> /\ EndsLast(out') /\ Holds(out', "AUDIO_END")
    BY <2>1, ReplyShort
  <2>3. ServerShape'
    BY <1>1, <1>2, <2>1, <2>2 DEF ServerShape
  <2>4. ServerFirst' = "header"
    BY <2>1 DEF ServerFirst
  <2> QED
    BY <1>1, <1>2, <1>3, <2>3, <2>4, GoneGood
<1>5. CASE spc = "reply"
  <2>1. spc' \in {"close", "read"} /\ out' = <<>>
    BY <1>5 DEF ServerWriteFails, AfterWrites, ServerShape
  <2>2. ServerShape'
    BY <1>1, <1>2, <2>1, NothingHeld, EmptySeq DEF ServerShape
  <2>3. ServerFirst' = "header"
    BY <2>1 DEF ServerFirst
  <2> QED
    BY <1>1, <1>2, <1>3, <2>2, <2>3, GoneGood
<1> QED
  BY <1>1, <1>4, <1>5

(* The connection of a client ends: the server takes the commands with it, *)
(* and maybe the responses.                                                *)
LEMMA CutOffGood ==
    ASSUME IInv, NEW c \in Clients, UNCHANGED clientVars, UNCHANGED made, conn' = NoClient,
           toServer'[c] = <<>>,
           toClient'[c] = toClient[c] \/ (toClient'[c] = <<>> /\ spc = "close" /\ conn = c)
    PROVE  Good(c)'
<1> USE DEF clientVars
<1>1. ClientShape(c) /\ Framed(c) /\ Ordered(c) /\ Counted(c)
  BY DEF IInv, Good
<1>2. /\ Speaking(c)' = Speaking(c) /\ Waiting(c)' = Waiting(c) /\ First(c)' = First(c)
      /\ ~Connected(c)' /\ conn' # c /\ ~Sounding(c)'
  BY NoClientAssumption DEF Speaking, Waiting, First, Connected, Sounding
<1>3. toServer'[c] \in Seq(CommandsSent) /\ toClient'[c] \in Seq(ResponsesSent)
  BY <1>1, EmptySeq DEF ClientShape
<1>4. ClientShape(c)'
  BY <1>1, <1>2, <1>3 DEF ClientShape
<1>5. Framed(c)'
  BY <1>1, <1>2, NothingHeld DEF Framed
<1>6. Ordered(c)'
  BY <1>1, <1>2, NothingHeld DEF Ordered
<1>7. Speaking(c) /\ ~stopped[c] => \E n \in Nat :
        /\ Sound(toClient'[c], utterance[c], Len(heard[c]), n)
        /\ Holds(toClient'[c], "AUDIO_END") => n = made[c]
  <2>1. CASE toClient'[c] = toClient[c]
    BY <1>1, <2>1 DEF Counted
  <2>2. CASE toClient'[c] = <<>>
    <3>1. Len(heard[c]) \in Nat
      BY <1>1, LenProperties DEF ClientShape
    <3>2. /\ Sound(toClient'[c], utterance[c], Len(heard[c]), Len(heard[c]))
          /\ ~Holds(toClient'[c], "AUDIO_END")
      BY <2>2, <3>1, NothingHeld, SoundStarts, EmptySeq
    <3> QED
      BY <3>1, <3>2
  <2> QED
    BY <2>1, <2>2
<1>8. Counted(c)'
  BY <1>1, <1>2, <1>7 DEF Counted
<1> QED
  BY <1>4, <1>5, <1>6, <1>8 DEF Good

LEMMA ServerCloseGood ==
    ASSUME IInv, ServerClose, NEW c \in Clients, conn = c
    PROVE  Good(c)' /\ ServerShape'
<1> USE DEF IInv, Functions, ByClient
<1>1. /\ spc = "close" /\ conn' = NoClient /\ toServer'[c] = <<>> /\ toClient'[c] = <<>>
      /\ spc' = (IF quitting THEN "down" ELSE "create")
      /\ UNCHANGED <<clientVars, out, text, made, gStop, quitting, crashes>>
  BY DEF ServerClose
<1>2. Good(c)'
  BY <1>1, CutOffGood
<1>3. ServerShape'
  BY <1>1 DEF ServerShape
<1> QED
  BY <1>2, <1>3

LEMMA ServerStepGood ==
    ASSUME IInv, ServerStep
    PROVE  IInv'
<1>1. Functions'
  BY ServerStepFunctions DEF IInv
<1>2. CASE ServerListen
  <2>1. ServerShape'
    BY <1>2 DEF ServerListen, ServerShape, IInv
  <2>2. ASSUME NEW c \in Clients PROVE Good(c)'
    <3>1. conn # c
      BY <1>2, NoClientAssumption DEF ServerListen, ServerShape, IInv
    <3> QED
      BY <3>1, ServerStepSame, SameKeeps DEF IInv
  <2> QED
    BY <1>1, <2>1, <2>2 DEF IInv
<1>3. CASE ~ServerListen
  <2>1. conn \in Clients
    <3>1. spc \notin {"down", "create", "listen"}
      BY <1>3 DEF ServerStep, ServerReadHeader, HandleSpeak, MakeChunk, FinishSpeak,
                  ServerWrite, ServerWriteFails, ServerClose
    <3> QED
      BY <3>1, Served
  <2>2. PICK d \in Clients : conn = d
    BY <2>1
  <2>3. Good(d)' /\ ServerShape'
    BY <1>3, <2>2, ServerReadHeaderGood, HandleSpeakGood, MakeChunkGood, ServerWriteGood,
       ServerWriteFailsGood, ServerCloseGood DEF ServerStep
  <2>4. ASSUME NEW c \in Clients, c # d PROVE Good(c)'
    BY <2>2, <2>4, ServerStepSame, SameKeeps DEF IInv
  <2> QED
    BY <1>1, <2>3, <2>4 DEF IInv
<1> QED
  BY <1>2, <1>3

LEMMA CrashGood ==
    ASSUME IInv, ServerCrash
    PROVE  IInv'
<1>1. Functions'
  BY ServerStepFunctions DEF IInv
<1>2. /\ spc' = "down" /\ conn' = NoClient /\ out' = <<>> /\ crashes' = crashes + 1
      /\ crashes < MaxCrashes /\ toServer' = [c \in Clients |-> <<>>]
      /\ UNCHANGED <<clientVars, toClient, text, made, gStop, quitting>>
  BY DEF ServerCrash
<1>3. crashes' \in 0..MaxCrashes
  <2>1. crashes \in 0..MaxCrashes
    BY DEF IInv, ServerShape
  <2> QED
    BY <1>2, <2>1, BoundsAssumption
<1>4. ServerShape'
  BY <1>2, <1>3, NothingHeld, EmptySeq DEF IInv, ServerShape
<1>5. ASSUME NEW c \in Clients PROVE Good(c)'
  BY <1>2, CutOffGood
<1> QED
  BY <1>1, <1>4, <1>5 DEF IInv

LEMMA StutterGood ==
    ASSUME IInv, UNCHANGED vars
    PROVE  IInv'
<1> USE DEF vars, clientVars, serverVars
<1>1. Functions' /\ ServerShape'
  BY DEF IInv, Functions, ByClient, ServerShape
<1>2. ASSUME NEW c \in Clients PROVE Same(c)
  BY DEF Same
<1> QED
  BY <1>1, <1>2, SameKeeps DEF IInv

LEMMA InitGood == Init => IInv
<1> SUFFICES ASSUME Init PROVE IInv
  OBVIOUS
<1>1. Functions
  BY DEF Init, Functions, ByClient
<1>2. ServerShape
  <2>1. 0 \in 0..MaxSpeaks /\ 0 \in 0..MaxCrashes
    BY BoundsAssumption
  <2>2. <<>> \in Seq(ResponsesSent) /\ EndsLast(<<>>) /\ Silent(<<>>)
        /\ ~Holds(<<>>, "AUDIO_END")
    BY NothingHeld, EmptySeq
  <2>3. /\ spc = "down" /\ conn = NoClient /\ out = <<>> /\ text = 0
        /\ gStop = FALSE /\ quitting = FALSE /\ crashes = 0
    BY DEF Init
  <2> QED
    BY <2>1, <2>2, <2>3 DEF ServerShape
<1>3. ASSUME NEW c \in Clients PROVE Good(c)
  <2>1. /\ pc[c] = "idle" /\ op[c] = "speak" /\ pipe[c] = FALSE /\ stopped[c] = FALSE
        /\ header[c] = NoHeader /\ utterance[c] = 0 /\ heard[c] = <<>> /\ result[c] = "none"
        /\ toServer[c] = <<>> /\ toClient[c] = <<>> /\ made[c] = 0
    BY DEF Init
  <2>2. NoHeader \in ResponsesSent /\ NoHeader.part = "header"
    BY DEF NoHeader, Header, ResponsesSent
  <2>3. /\ ~Connected(c) /\ ~Speaking(c) /\ ~Waiting(c) /\ First(c) = "header"
        /\ Len(heard[c]) = 0
    BY <2>1, EmptySeq DEF Connected, Speaking, Waiting, First
  <2>4. ClientShape(c)
    <3>1. 0 \in 0..MaxSpeaks /\ 0 \in 0..MaxChunks
      BY BoundsAssumption
    <3>2. <<>> \in Seq(ResponsesSent) /\ <<>> \in Seq(CommandsSent) /\ <<>> \in Seq(SamplesUnit)
      BY EmptySeq
    <3> QED
      BY <2>1, <2>2, <2>3, <3>1, <3>2 DEF ClientShape, Operations
  <2>5. Framed(c) /\ Ordered(c)
    BY <2>1, <2>3, NothingHeld DEF Framed, Ordered
  <2>6. Counted(c)
    BY <2>1, <2>3 DEF Counted
  <2> QED
    BY <2>4, <2>5, <2>6 DEF Good
<1> QED
  BY <1>1, <1>2, <1>3 DEF IInv

LEMMA Invariance == Spec => []IInv
<1>1. ASSUME IInv, [Next]_vars PROVE IInv'
  BY <1>1, ClientStepGood, ServerStepGood, CrashGood, StutterGood DEF Next
<1> QED
  BY <1>1, InitGood, PTL DEF Spec

(***************************************************************************)
(* The theorems.                                                           *)
(***************************************************************************)
(* Every variable of the client, of the streams and of the server keeps    *)
(* its type; a stream never holds a unit its writer could not have sent.   *)
THEOREM TypeCorrect == Spec => []TypeOK
<1>1. ASSUME NEW S, NEW T, S \subseteq T PROVE Seq(S) \subseteq Seq(T)
  BY <1>1, SeqMonotonic
<1>2. CommandsSent \subseteq CommandUnit /\ ResponsesSent \subseteq ResponseUnit
  BY CommandFacts, ResponseFacts
<1>3. ASSUME IInv PROVE TypeOK
  <2> USE <1>3 DEF IInv, Good
  <2>1. /\ pc \in [Clients -> {"idle", "connect", "retry", "send", "sendBody",
                               "readHeader", "readBody", "sendStop"}]
        /\ op \in [Clients -> Operations]
        /\ pipe \in [Clients -> BOOLEAN] /\ stopped \in [Clients -> BOOLEAN]
        /\ result \in [Clients -> {"none", "true", "false"}]
    BY DEF Functions, ByClient, ClientShape
  <2>2. /\ utterance \in [Clients -> 0..MaxSpeaks] /\ made \in [Clients -> 0..MaxChunks]
        /\ heard \in [Clients -> Seq(SamplesUnit)]
    BY DEF Functions, ByClient, ClientShape
  <2>3. header \in [Clients -> ResponseHeader]
    <3>1. \A c \in Clients : header[c] \in ResponseHeader
      BY ResponseFacts DEF ClientShape
    <3> QED
      BY <3>1 DEF Functions, ByClient
  <2>4. /\ toServer \in [Clients -> Seq(CommandUnit)]
        /\ toClient \in [Clients -> Seq(ResponseUnit)]
    <3>1. \A c \in Clients : toServer[c] \in Seq(CommandUnit) /\ toClient[c] \in Seq(ResponseUnit)
      BY <1>1, <1>2 DEF ClientShape
    <3> QED
      BY <3>1 DEF Functions, ByClient
  <2>5. out \in Seq(ResponseUnit)
    BY <1>1, <1>2 DEF ServerShape
  <2> QED
    BY <2>1, <2>2, <2>3, <2>4, <2>5 DEF TypeOK, ServerShape
<1> QED
  BY <1>3, Invariance, PTL

(* No reader, client or server, ever takes the middle of a message for its *)
(* beginning, whatever was abandoned on a handle that stays open.          *)
THEOREM MessagesStayWhole == Spec => []Framing
<1>1. ASSUME IInv PROVE Framing
  <2> USE <1>1 DEF IInv, Good
  <2>1. ASSUME NEW c \in Clients, toClient[c] # <<>>
        PROVE  IsHeader(Head(toClient[c])) <=> pc[c] # "readBody"
    <3>1. Head(toClient[c]).part = First(c)
      BY <2>1, ChainedTail DEF Framed, ClientShape
    <3>2. Waiting(c) => First(c) # "header"
      BY ResponseFacts DEF ClientShape, First
    <3> QED
      BY <3>1, <3>2 DEF IsHeader, First, Waiting
  <2>2. ASSUME conn # NoClient, toServer[conn] # <<>>
        PROVE  /\ spc = "readText" => ~IsHeader(Head(toServer[conn]))
               /\ spc = "read" => IsHeader(Head(toServer[conn]))
    <3>1. conn \in Clients
      BY <2>2 DEF ServerShape
    <3>2. Head(toServer[conn]).part = ServerFirst
      BY <2>2, <3>1, ChainedTail DEF Framed, ClientShape
    <3> QED
      BY <3>2 DEF IsHeader, ServerFirst
  <2> QED
    BY <2>1, <2>2 DEF Framing
<1> QED
  BY <1>1, Invariance, PTL

(* While the server synthesizes an utterance no stop flag is up, neither   *)
(* an earlier one nor one meant for the utterance itself.                  *)
THEOREM StopIsSpent == Spec => []NoStaleStop
<1>1. IInv => NoStaleStop
  BY DEF IInv, ServerShape, NoStaleStop
<1> QED
  BY <1>1, Invariance, PTL

(* A speak call that answers true and was not stopped has given the        *)
(* callback as many chunks as the engine made of its utterance.            *)
THEOREM NothingMissing == Spec => []Complete
<1>1. IInv => Complete
  BY DEF IInv, Good, Counted, Complete
<1> QED
  BY <1>1, Invariance, PTL

(* What the callback of a client has got is the chunks 1, 2, ... of that   *)
(* client's own utterance: none of another client's or of an earlier call, *)
(* none twice, and none left out.                                          *)
OwnChunks ==
    \A c \in Clients : \A i \in 1..Len(heard[c]) : heard[c][i] = Samples(utterance[c], i)

THEOREM HearsItsOwn == Spec => []OwnChunks
<1>1. IInv => OwnChunks
  BY DEF IInv, Good, Counted, OwnChunks
<1> QED
  BY <1>1, Invariance, PTL
=============================================================================

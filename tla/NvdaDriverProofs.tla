------------------------- MODULE NvdaDriverProofs -------------------------
(***************************************************************************)
(* Proofs about NvdaDriver, for any number of requests, pieces of sound,   *)
(* indexes and pauses, and any room in the player.                         *)
(***************************************************************************)
EXTENDS NvdaDriver, SequenceTheorems, TLAPS

(***************************************************************************)
(* The parts of the invariant.                                             *)
(***************************************************************************)
Types ==
    /\ main \in {"free", "drain", "stop", "end", "join", "freed"}
    /\ requests \in Nat /\ bgQueue \in Seq(Nat)
    /\ bg \in {"get", "begin", "synth", "feed", "finish", "idle", "ended"}
    /\ late \in Nat /\ cancelled \subseteq 1..requests

(* From the moment the queue was found empty, what is put into it is newer *)
(* than the cancel.                                                        *)
Fresh == main # "drain" => \A i \in 1..Len(bgQueue) : bgQueue[i] \notin cancelled

(* The flag is down once a cancel has reached the utterance being spoken;  *)
(* a piece that is fed all the same is the last.                           *)
Reached ==
    bg \in {"synth", "feed"} /\ current \in cancelled /\ ~missed => ~speaking
LastPiece ==
    /\ late <= 1
    /\ late = 1 => bg # "feed" /\ (bg = "synth" => ~speaking)

IInv == Types /\ Fresh /\ Reached /\ LastPiece

(***************************************************************************)
(* The order in which NVDA is told.                                        *)
(***************************************************************************)
(* What NVDA is told: indexes, counted from one, and ends.                 *)
Notes ==
    ((1..MaxRequests) \X {"index"} \X (Nat \ {0})) \cup ((1..MaxRequests) \X {"done"} \X {0})

Sorted(s, lost) ==
    \A i, j \in 1..Len(s) : i < j => Before(s[i], s[j]) \/ s[j][1] \in lost
UpTo(s, u, rank) ==
    \A i \in 1..Len(s) : s[i][1] < u \/ (s[i][1] = u /\ Rank(s[i]) <= rank)
HasDone == \E i \in 1..Len(player) : player[i][2] = "done" /\ player[i][1] = current

TurnTypes ==
    /\ requests \in 0..MaxRequests /\ current \in 0..requests
    /\ bg \in {"begin", "synth", "feed", "finish", "idle"} => current # 0
    /\ fed \in Nat /\ player \in Seq(Nat \X {"sound", "done"} \X Nat)
    /\ notified \in Seq(Notes)
    /\ failed \subseteq 1..current
    /\ bg \in {"begin", "synth", "feed", "finish", "idle"} => current \notin failed

(* The requests that wait are later than the one that is spoken.           *)
Ascending ==
    /\ \A i \in 1..Len(bgQueue) :
          bgQueue[i] # EndOfThread => current < bgQueue[i] /\ bgQueue[i] <= requests
    /\ \A i, j \in 1..Len(bgQueue) :
          i < j /\ bgQueue[i] # EndOfThread /\ bgQueue[j] # EndOfThread
             => bgQueue[i] < bgQueue[j]

(* The player has no end but that of the utterance the thread waits for,   *)
(* and nothing after it; and those of which idle has lost sight.           *)
OneDone ==
    \A i \in 1..Len(player) :
       player[i][2] = "done" =>
          \/ player[i][1] \in failed
          \/ bg = "idle" /\ player[i][1] = current /\ i = Len(player)

(* How far NVDA has been told of the current utterance.                    *)
Told ==
    /\ Sorted(notified, failed)
    /\ \A i \in 1..Len(notified) : notified[i][1] <= current
    /\ bg = "begin" => UpTo(notified, current, 0)
    /\ bg \in {"synth", "feed", "finish"} \/ (bg = "idle" /\ HasDone)
          => UpTo(notified, current, EarlyIndexes(current))

Turns == TurnTypes /\ Ascending /\ OneDone /\ Told

(***************************************************************************)
(* What a queue that is appended to or taken from holds.                   *)
(***************************************************************************)
LEMMA QueueAppended ==
    ASSUME NEW q \in Seq(Nat), NEW r \in Nat
    PROVE  /\ Append(q, r) \in Seq(Nat)
           /\ \A i \in 1..Len(Append(q, r)) :
                 Append(q, r)[i] = r \/ \E j \in 1..Len(q) : Append(q, r)[i] = q[j]
<1>1. Append(q, r) \in Seq(Nat) /\ Len(Append(q, r)) = Len(q) + 1 /\ Len(q) \in Nat
  BY AppendProperties
<1>2. \A i \in 1..Len(q) : Append(q, r)[i] = q[i]
  BY AppendProperties
<1>3. Append(q, r)[Len(q) + 1] = r
  BY AppendProperties
<1> QED
  BY <1>1, <1>2, <1>3

LEMMA QueueTaken ==
    ASSUME NEW q \in Seq(Nat), q # <<>>
    PROVE  /\ Head(q) \in Nat /\ Tail(q) \in Seq(Nat)
           /\ \A i \in 1..Len(Tail(q)) : \E j \in 1..Len(q) : Tail(q)[i] = q[j]
<1>1. Head(q) \in Nat /\ Tail(q) \in Seq(Nat) /\ Len(Tail(q)) = Len(q) - 1 /\ Len(q) \in Nat
  BY HeadTailProperties
<1>2. \A i \in 1..Len(Tail(q)) : Tail(q)[i] = q[i + 1] /\ i + 1 \in 1..Len(q)
  BY <1>1, HeadTailProperties
<1> QED
  BY <1>1, <1>2

(***************************************************************************)
(* Types.                                                                  *)
(***************************************************************************)
LEMMA TypesStep == Types /\ [Next]_vars => Types'
<1> SUFFICES ASSUME Types, [Next]_vars PROVE Types'
  OBVIOUS
<1> USE DEF Types
<1>1. CASE Speak
  BY <1>1, QueueAppended DEF Speak, ExecWhenDone, history
<1>2. CASE Cancel
  BY <1>2 DEF Cancel
<1>3. CASE Drain
  BY <1>3, QueueTaken DEF Drain, history
<1>4. CASE EndThread
  BY <1>4, QueueAppended DEF EndThread, LastRequest, EndOfThread, history
<1>5. CASE StopPlayer \/ Free \/ \E switch \in BOOLEAN : Pause(switch)
  BY <1>5 DEF StopPlayer, Free, Pause, mainVars, history
<1>6. CASE Get
  BY <1>6, QueueTaken DEF Get, mainVars, history
<1>7. CASE Begin
  BY <1>7 DEF Begin, mainVars
<1>8. CASE OnAudio \/ SynthReturns \/ Finish \/ Idle \/ Play
  BY <1>8 DEF OnAudio, SynthReturns, Finish, Idle, Play, mainVars, history
<1>9. CASE Feed
  BY <1>9 DEF Feed, mainVars
<1>11. CASE FeedFails
  BY <1>11 DEF FeedFails, mainVars, history
<1>12. CASE Raises
  BY <1>12 DEF Raises, Caught, mainVars
<1>10. CASE UNCHANGED vars
  BY <1>10 DEF vars, mainVars, history
<1> QED
  BY <1>1, <1>2, <1>3, <1>4, <1>5, <1>6, <1>7, <1>8, <1>9, <1>10, <1>11, <1>12
     DEF Next, MainStep, BgStep

(***************************************************************************)
(* Cancel and the queue.                                                   *)
(***************************************************************************)
LEMMA FreshStep == Types /\ Fresh /\ [Next]_vars => Fresh'
<1> SUFFICES ASSUME Types, Fresh, [Next]_vars PROVE Fresh'
  OBVIOUS
<1> USE DEF Fresh
<1>1. CASE Speak
  <2>1. requests + 1 \notin cancelled /\ requests + 1 \in Nat /\ bgQueue \in Seq(Nat)
    BY DEF Types
  <2> QED
    BY <1>1, <2>1, QueueAppended DEF Speak, ExecWhenDone, history
<1>2. CASE Cancel
  BY <1>2 DEF Cancel
<1>3. CASE Drain
  <2>1. CASE bgQueue = <<>>
    BY <1>3, <2>1 DEF Drain
  <2>2. CASE bgQueue # <<>>
    BY <1>3, <2>2 DEF Drain, Drained
  <2> QED
    BY <2>1, <2>2
<1>4. CASE EndThread
  <2>1. EndOfThread \notin cancelled /\ EndOfThread \in Nat /\ bgQueue \in Seq(Nat)
    BY DEF Types, EndOfThread
  <2> QED
    BY <1>4, <2>1, QueueAppended DEF EndThread, LastRequest, history
<1>5. CASE StopPlayer \/ Free \/ \E switch \in BOOLEAN : Pause(switch)
  BY <1>5 DEF StopPlayer, Free, Pause, mainVars, history
<1>6. CASE Get
  BY <1>6, QueueTaken DEF Types, Get, mainVars, history
<1>7. CASE Begin \/ OnAudio \/ Feed \/ SynthReturns \/ Finish \/ Idle \/ Play
  BY <1>7 DEF Begin, OnAudio, Feed, SynthReturns, Finish, Idle, Play, mainVars, history
<1>9. CASE FeedFails \/ Raises
  BY <1>9 DEF FeedFails, Raises, mainVars, history
<1>8. CASE UNCHANGED vars
  BY <1>8 DEF vars, mainVars, history
<1> QED
  BY <1>1, <1>2, <1>3, <1>4, <1>5, <1>6, <1>7, <1>8, <1>9 DEF Next, MainStep, BgStep

(***************************************************************************)
(* Cancel and the utterance being spoken.                                  *)
(***************************************************************************)
LEMMA ReachedStep == Types /\ Reached /\ [Next]_vars => Reached'
<1> SUFFICES ASSUME Types, Reached, [Next]_vars PROVE Reached'
  OBVIOUS
<1> USE DEF Reached
<1>1. CASE Speak \/ Cancel
  BY <1>1 DEF Speak, Cancel, FlagAfterRequest, history
<1>2. CASE MainStep \/ Play \/ \E switch \in BOOLEAN : Pause(switch)
  BY <1>2 DEF MainStep, Drain, StopPlayer, EndThread, Free, Play, Pause, history
<1>3. CASE Begin
  BY <1>3 DEF Begin
<1>4. CASE Get \/ OnAudio \/ SynthReturns \/ Finish \/ Idle
  BY <1>4 DEF Get, OnAudio, SynthReturns, Finish, Idle, history
<1>5. CASE Feed \/ FeedFails \/ Raises
  BY <1>5 DEF Feed, FeedFails, Raises, Caught, history
<1>6. CASE UNCHANGED vars
  BY <1>6 DEF vars, history
<1> QED
  BY <1>1, <1>2, <1>3, <1>4, <1>5, <1>6 DEF Next, BgStep

LEMMA LastPieceStep == Types /\ Reached /\ LastPiece /\ [Next]_vars => LastPiece'
<1> SUFFICES ASSUME Types, Reached, LastPiece, [Next]_vars PROVE LastPiece'
  OBVIOUS
<1> USE DEF LastPiece
<1>1. CASE Speak \/ Cancel
  BY <1>1 DEF Speak, Cancel, FlagAfterRequest, history
<1>2. CASE MainStep \/ Play \/ \E switch \in BOOLEAN : Pause(switch)
  BY <1>2 DEF MainStep, Drain, StopPlayer, EndThread, Free, Play, Pause, history
<1>3. CASE Begin
  BY <1>3 DEF Begin
<1>4. CASE OnAudio
  BY <1>4 DEF OnAudio, Refuses, history
<1>5. CASE Get \/ SynthReturns \/ Finish \/ Idle \/ FeedFails \/ Raises
  BY <1>5 DEF Get, SynthReturns, Finish, Idle, FeedFails, Raises, Caught, history
<1>6. CASE Feed
  <2>1. late = 0 /\ bg' = "synth" /\ speaking' = speaking
    BY <1>6 DEF Feed, Types
  <2>2. CASE current \in cancelled /\ ~missed
    BY <1>6, <2>1, <2>2 DEF Feed, Reached
  <2>3. CASE ~(current \in cancelled /\ ~missed)
    BY <1>6, <2>1, <2>3 DEF Feed
  <2> QED
    BY <2>2, <2>3
<1>7. CASE UNCHANGED vars
  BY <1>7 DEF vars, history
<1> QED
  BY <1>1, <1>2, <1>3, <1>4, <1>5, <1>6, <1>7 DEF Next, BgStep

(***************************************************************************)
(* What NVDA is told at a time comes after what it has been told.          *)
(***************************************************************************)
LEMMA NoteRanks ==
    ASSUME NEW n \in Notes
    PROVE  /\ n[1] \in 1..MaxRequests /\ Rank(n) \in Nat \ {0}
           /\ Rank(n) = IF n[2] = "done" THEN Indexes[n[1]] + 1 ELSE n[3]
  BY BoundsAssumption DEF Notes, Rank

LEMMA Reaching ==
    ASSUME NEW u \in 1..MaxRequests, NEW from \in Nat \ {0}, NEW to \in Nat,
           from <= to + 1
    PROVE  \E t \in Seq(Notes) :
              /\ t = IndexesReached(u, from, to) /\ Len(t) = to - from + 1
              /\ \A i \in 1..Len(t) : t[i][1] = u /\ Rank(t[i]) = from + i - 1
<1>0. PICK t : t = IndexesReached(u, from, to)
  OBVIOUS
<1>1. PICK k \in Nat : k = to - from + 1
  OBVIOUS
<1>2. ASSUME NEW i \in 1..k
      PROVE  <<u, "index", from + i - 1>> \in Notes
  BY <1>1 DEF Notes
<1>3. t = [i \in 1..k |-> <<u, "index", from + i - 1>>]
  BY <1>0, <1>1 DEF IndexesReached
<1>4. t \in [1..k -> Notes]
  BY <1>2, <1>3
<1>5. t \in Seq(Notes) /\ Len(t) = k
  BY <1>4, SeqDef, LenProperties
<1>6. ASSUME NEW i \in 1..Len(t) PROVE t[i][1] = u /\ Rank(t[i]) = from + i - 1
  <2>1. t[i] = <<u, "index", from + i - 1>>
    BY <1>3, <1>5
  <2> QED
    BY <2>1 DEF Rank
<1> QED
  BY <1>0, <1>1, <1>5, <1>6

(* Two sorted parts, one before the other.                                 *)
LEMMA SortedJoin ==
    ASSUME NEW s \in Seq(Notes), NEW t \in Seq(Notes), NEW u \in 1..MaxRequests,
           NEW low \in Nat, NEW high \in Nat, NEW lost,
           Sorted(s, lost), Sorted(t, lost), low <= high,
           UpTo(s, u, low),
           \A i \in 1..Len(t) : t[i][1] = u /\ low < Rank(t[i]) /\ Rank(t[i]) <= high
    PROVE  s \o t \in Seq(Notes) /\ Sorted(s \o t, lost) /\ UpTo(s \o t, u, high)
<1> DEFINE st == s \o t
<1>1. /\ st \in Seq(Notes) /\ Len(st) = Len(s) + Len(t)
      /\ \A i \in 1..(Len(s) + Len(t)) :
            st[i] = IF i <= Len(s) THEN s[i] ELSE t[i - Len(s)]
  BY ConcatProperties
<1>2. Len(s) \in Nat /\ Len(t) \in Nat
  OBVIOUS
<1> HIDE DEF st
<1>3. ASSUME NEW i \in 1..Len(st)
      PROVE  \/ i \in 1..Len(s) /\ st[i] = s[i]
             \/ i > Len(s) /\ i - Len(s) \in 1..Len(t) /\ st[i] = t[i - Len(s)]
  BY <1>1, <1>2
<1>4. \A i \in 1..Len(st) : st[i] \in Notes
  BY <1>1
<1>5. \A i \in 1..Len(st) : st[i][1] \in Nat /\ Rank(st[i]) \in Nat
  BY <1>4, NoteRanks
<1>6. UpTo(st, u, high)
  <2> SUFFICES ASSUME NEW i \in 1..Len(st)
               PROVE  st[i][1] < u \/ (st[i][1] = u /\ Rank(st[i]) <= high)
    BY DEF UpTo
  <2>1. CASE i \in 1..Len(s) /\ st[i] = s[i]
    <3>1. st[i][1] < u \/ (st[i][1] = u /\ Rank(st[i]) <= low)
      BY <2>1 DEF UpTo
    <3> QED
      BY <1>5, <3>1
  <2>2. CASE i - Len(s) \in 1..Len(t) /\ st[i] = t[i - Len(s)]
    BY <2>2
  <2> QED
    BY <1>3, <2>1, <2>2
<1>7. Sorted(st, lost)
  <2> SUFFICES ASSUME NEW i \in 1..Len(st), NEW j \in 1..Len(st), i < j
               PROVE  Before(st[i], st[j]) \/ st[j][1] \in lost
    BY DEF Sorted
  <2>1. CASE j \in 1..Len(s) /\ st[j] = s[j]
    <3>1. i \in 1..Len(s) /\ st[i] = s[i]
      BY <1>2, <1>3, <2>1
    <3> QED
      BY <2>1, <3>1 DEF Sorted
  <2>2. CASE j > Len(s) /\ j - Len(s) \in 1..Len(t) /\ st[j] = t[j - Len(s)]
    <3>1. CASE i \in 1..Len(s) /\ st[i] = s[i]
      <4>1. st[i][1] < u \/ (st[i][1] = u /\ Rank(st[i]) <= low)
        BY <3>1 DEF UpTo
      <4>2. st[j][1] = u /\ low < Rank(st[j])
        BY <2>2
      <4> QED
        BY <1>5, <4>1, <4>2 DEF Before
    <3>2. CASE i > Len(s) /\ i - Len(s) \in 1..Len(t) /\ st[i] = t[i - Len(s)]
      <4>1. i - Len(s) < j - Len(s)
        BY <1>2
      <4> QED
        BY <2>2, <3>2, <4>1 DEF Sorted
    <3> QED
      BY <1>3, <3>1, <3>2
  <2> QED
    BY <1>3, <2>1, <2>2
<1> QED
  BY <1>1, <1>6, <1>7 DEF st

LEMMA IndexesFollow ==
    ASSUME NEW s \in Seq(Notes), NEW u \in 1..MaxRequests,
           NEW low \in Nat, NEW to \in Nat, NEW lost, low <= to,
           Sorted(s, lost), UpTo(s, u, low),
           NEW t, t = IndexesReached(u, low + 1, to)
    PROVE  s \o t \in Seq(Notes) /\ Sorted(s \o t, lost) /\ UpTo(s \o t, u, to)
<1>1. PICK from \in Nat \ {0} : from = low + 1
  OBVIOUS
<1>2. from <= to + 1 /\ t = IndexesReached(u, from, to)
  BY <1>1
<1>3. /\ t \in Seq(Notes) /\ Len(t) = to - from + 1
      /\ \A i \in 1..Len(t) : t[i][1] = u /\ Rank(t[i]) = from + i - 1
  <2>1. \E x \in Seq(Notes) :
           /\ x = IndexesReached(u, from, to) /\ Len(x) = to - from + 1
           /\ \A i \in 1..Len(x) : x[i][1] = u /\ Rank(x[i]) = from + i - 1
    BY <1>1, <1>2, Reaching
  <2> QED
    BY <1>2, <2>1
<1>4. Sorted(t, lost)
  BY <1>3 DEF Sorted, Before
<1>5. \A i \in 1..Len(t) : t[i][1] = u /\ low < Rank(t[i]) /\ Rank(t[i]) <= to
  BY <1>1, <1>3
<1> QED
  BY <1>3, <1>4, <1>5, SortedJoin

LEMMA DoneFollows ==
    ASSUME NEW s \in Seq(Notes), NEW u \in 1..MaxRequests, NEW lost,
           Sorted(s, lost), UpTo(s, u, Indexes[u]),
           NEW t, t = <<<<u, "done", 0>>>>
    PROVE  /\ s \o t \in Seq(Notes) /\ Sorted(s \o t, lost)
           /\ UpTo(s \o t, u, Indexes[u] + 1)
<1>1. Indexes[u] \in Nat /\ Indexes[u] <= Indexes[u] + 1 /\ Indexes[u] + 1 \in Nat
  BY BoundsAssumption
<1>2. PICK n \in Notes : n = <<u, "done", 0>>
  BY DEF Notes
<1>3. n[1] = u /\ Rank(n) = Indexes[u] + 1
  BY <1>2 DEF Rank
<1>4. t \in Seq(Notes) /\ Len(t) = 1 /\ t[1] = n
  BY <1>2
<1>5. Sorted(t, lost)
  BY <1>4 DEF Sorted
<1>6. ASSUME NEW i \in 1..Len(t)
      PROVE  t[i][1] = u /\ Indexes[u] < Rank(t[i]) /\ Rank(t[i]) <= Indexes[u] + 1
  <2>1. t[i] = n
    BY <1>4
  <2> QED
    BY <1>1, <1>3, <2>1
<1> QED
  BY <1>1, <1>4, <1>5, <1>6, SortedJoin

LEMMA EarlyAtMostAll ==
    ASSUME NEW u \in 1..MaxRequests
    PROVE  EarlyIndexes(u) \in Nat /\ Indexes[u] \in Nat /\ EarlyIndexes(u) <= Indexes[u]
<1>1. Indexes[u] \in Nat
  BY BoundsAssumption
<1> QED
  BY <1>1 DEF EarlyIndexes

(* What Begin adds.                                                        *)
LEMMA BeginTells ==
    ASSUME Turns, Begin
    PROVE  /\ notified' \in Seq(Notes) /\ Sorted(notified', failed)
           /\ UpTo(notified', current, EarlyIndexes(current))
<1>1. /\ current \in 1..MaxRequests /\ notified \in Seq(Notes)
      /\ Sorted(notified, failed) /\ UpTo(notified, current, 0)
  BY BoundsAssumption DEF Turns, TurnTypes, Told, Begin
<1>2. PICK t : t = IndexesReached(current, 1, EarlyIndexes(current))
  OBVIOUS
<1>3. notified' = notified \o t
  BY <1>2 DEF Begin
<1>4. EarlyIndexes(current) \in Nat /\ 0 <= EarlyIndexes(current)
  BY <1>1, EarlyAtMostAll
<1>5. t = IndexesReached(current, 0 + 1, EarlyIndexes(current))
  BY <1>2
<1> QED
  BY <1>1, <1>3, <1>4, <1>5, IndexesFollow

(* What the player adds at the end of an utterance that no exception has   *)
(* ended: it is the current one, and the player has nothing after it.      *)
LEMMA EndTells ==
    ASSUME Turns, Play, Head(player)[2] = "done", Head(player)[1] \notin failed
    PROVE  /\ notified' \in Seq(Notes) /\ Sorted(notified', failed)
           /\ UpTo(notified', current, Indexes[current] + 1)
           /\ bg = "idle" /\ player' = <<>> /\ current \in 1..MaxRequests
<1>1. player \in Seq(Nat \X {"sound", "done"} \X Nat) /\ player # <<>>
  BY DEF Turns, TurnTypes, Play
<1>2. Len(player) \in Nat \ {0} /\ Head(player) = player[1]
  BY <1>1
<1>3. bg = "idle" /\ player[1][1] = current /\ Len(player) = 1
  <2>1. 1 \in 1..Len(player) /\ player[1][2] = "done" /\ OneDone /\ player[1][1] \notin failed
    BY <1>2 DEF Turns
  <2> QED
    BY <2>1 DEF OneDone
<1>4. player' = <<>>
  <2>1. Tail(player) \in Seq(Nat \X {"sound", "done"} \X Nat) /\ Len(Tail(player)) = 0
    BY <1>1, <1>3, HeadTailProperties
  <2>2. Tail(player) = <<>>
    BY <2>1, EmptySeq
  <2> QED
    BY <2>2 DEF Play
<1>5. /\ current \in 1..MaxRequests /\ notified \in Seq(Notes)
      /\ Sorted(notified, failed) /\ UpTo(notified, current, EarlyIndexes(current))
  <2>1. HasDone
    BY <1>2, <1>3 DEF HasDone
  <2> QED
    BY <1>3, <2>1, BoundsAssumption DEF Turns, TurnTypes, Told
<1>6. /\ EarlyIndexes(current) \in Nat /\ Indexes[current] \in Nat
      /\ EarlyIndexes(current) <= Indexes[current]
  BY <1>5, EarlyAtMostAll
<1>7. PICK t : t = IndexesReached(current, EarlyIndexes(current) + 1, Indexes[current])
  OBVIOUS
<1>8. PICK s : s = notified \o t
  OBVIOUS
<1>9. PICK d : d = <<<<current, "done", 0>>>>
  OBVIOUS
<1>10. s \in Seq(Notes) /\ Sorted(s, failed) /\ UpTo(s, current, Indexes[current])
  BY <1>5, <1>6, <1>7, <1>8, IndexesFollow
<1>11. s \o d \in Seq(Notes) /\ Sorted(s \o d, failed) /\ UpTo(s \o d, current, Indexes[current] + 1)
  BY <1>5, <1>9, <1>10, DoneFollows
<1>12. notified' = s \o d
  BY <1>2, <1>3, <1>7, <1>8, <1>9 DEF Play, Done
<1> QED
  BY <1>3, <1>4, <1>5, <1>11, <1>12

(* What it adds at the end of one that idle has lost sight of.             *)
LEMMA LateEndTells ==
    ASSUME Turns, Play, Head(player)[2] = "done", Head(player)[1] \in failed
    PROVE  /\ notified' \in Seq(Notes) /\ Sorted(notified', failed)
           /\ \A i \in 1..Len(notified') :
                 \/ i \in 1..Len(notified) /\ notified'[i] = notified[i]
                 \/ notified'[i][1] \in failed
<1>1. PICK u : u = Head(player)[1]
  OBVIOUS
<1>2. /\ u \in failed /\ u \in 1..MaxRequests /\ notified \in Seq(Notes)
      /\ Sorted(notified, failed)
  <2>1. /\ u \in failed /\ failed \subseteq 1..current /\ current \in 0..requests
        /\ requests \in 0..MaxRequests
    BY <1>1 DEF Turns, TurnTypes
  <2>2. u \in 1..MaxRequests
    BY <2>1, BoundsAssumption
  <2>3. notified \in Seq(Notes) /\ Sorted(notified, failed)
    BY DEF Turns, TurnTypes, Told
  <2> QED
    BY <2>1, <2>2, <2>3
<1>3. /\ EarlyIndexes(u) + 1 \in Nat \ {0} /\ Indexes[u] \in Nat
      /\ EarlyIndexes(u) + 1 <= Indexes[u] + 1
  BY <1>2, EarlyAtMostAll
<1>4. PICK from \in Nat \ {0} : from = EarlyIndexes(u) + 1
  BY <1>3
<1>5. PICK to \in Nat : to = Indexes[u]
  BY <1>3
<1>6. PICK t \in Seq(Notes) :
         t = IndexesReached(u, from, to) /\ \A i \in 1..Len(t) : t[i][1] = u
  <2>1. from <= to + 1
    BY <1>3, <1>4, <1>5
  <2>2. \E x \in Seq(Notes) :
           /\ x = IndexesReached(u, from, to) /\ Len(x) = to - from + 1
           /\ \A i \in 1..Len(x) : x[i][1] = u /\ Rank(x[i]) = from + i - 1
    BY <1>2, <2>1, Reaching
  <2> QED
    BY <2>2
<1>7. PICK n \in Notes : n = <<u, "done", 0>> /\ n[1] = u
  <2>1. u \in 1..MaxRequests
    BY <1>2
  <2>2. <<u, "done", 0>> \in Notes
    BY <2>1 DEF Notes
  <2>3. <<u, "done", 0>>[1] = u
    OBVIOUS
  <2> QED
    BY <2>2, <2>3
<1>8. PICK st : st = notified \o t
  OBVIOUS
<1>9. /\ st \in Seq(Notes) /\ Len(st) = Len(notified) + Len(t)
      /\ \A i \in 1..(Len(notified) + Len(t)) :
            st[i] = IF i <= Len(notified) THEN notified[i] ELSE t[i - Len(notified)]
  BY <1>2, <1>6, <1>8, ConcatProperties
<1>10. Len(notified) \in Nat /\ Len(t) \in Nat
  BY <1>2, <1>6
<1>11. \A i \in 1..Len(st) :
          (i \in 1..Len(notified) /\ st[i] = notified[i]) \/ st[i][1] = u
  BY <1>6, <1>9, <1>10
<1>12. notified' = st \o <<n>>
  BY <1>1, <1>4, <1>5, <1>6, <1>7, <1>8 DEF Play, Done
<1>13. /\ <<n>> \in Seq(Notes) /\ Len(<<n>>) = 1 /\ <<n>>[1] = n
  OBVIOUS
<1>14. /\ notified' \in Seq(Notes) /\ Len(notified') = Len(st) + 1
       /\ \A i \in 1..(Len(st) + 1) :
             notified'[i] = IF i <= Len(st) THEN st[i] ELSE n
  <2>1. /\ st \o <<n>> \in Seq(Notes) /\ Len(st \o <<n>>) = Len(st) + 1
        /\ \A i \in 1..(Len(st) + 1) :
              (st \o <<n>>)[i] = IF i <= Len(st) THEN st[i] ELSE <<n>>[i - Len(st)]
    BY <1>9, <1>13, ConcatProperties
  <2>2. Len(st) \in Nat
    BY <1>9
  <2>3. \A i \in 1..(Len(st) + 1) : ~(i <= Len(st)) => i - Len(st) = 1
    BY <2>2
  <2> QED
    BY <1>12, <1>13, <2>1, <2>3
<1>15. \A i \in 1..Len(notified') :
          (i \in 1..Len(notified) /\ notified'[i] = notified[i]) \/ notified'[i][1] = u
  <2>1. Len(st) \in Nat
    BY <1>9
  <2> QED
    BY <1>7, <1>11, <1>14, <2>1
<1>16. Sorted(notified', failed)
  <2> SUFFICES ASSUME NEW i \in 1..Len(notified'), NEW j \in 1..Len(notified'), i < j,
                      notified'[j][1] \notin failed
               PROVE  Before(notified'[i], notified'[j])
    BY DEF Sorted
  <2>1. j \in 1..Len(notified) /\ notified'[j] = notified[j]
    BY <1>2, <1>15
  <2>2. i \in 1..Len(notified)
    BY <1>10, <2>1
  <2>3. notified'[i] = notified[i]
    BY <1>9, <1>10, <1>14, <2>2
  <2> QED
    BY <1>2, <2>1, <2>2, <2>3 DEF Sorted
<1> QED
  BY <1>2, <1>14, <1>15, <1>16

(***************************************************************************)
(* The turns of the requests are kept by every step.                       *)
(***************************************************************************)
LEMMA TurnTypesStep == Types /\ Turns /\ [Next]_vars => TurnTypes'
<1> SUFFICES ASSUME Types, Turns, [Next]_vars PROVE TurnTypes'
  OBVIOUS
<1>0. TurnTypes
  BY DEF Turns
<1> USE BoundsAssumption, <1>0 DEF TurnTypes
<1>1. CASE Speak
  BY <1>1 DEF Speak, history
<1>2. CASE Cancel \/ Drain \/ EndThread \/ Free \/ \E switch \in BOOLEAN : Pause(switch)
  BY <1>2 DEF Cancel, Drain, EndThread, Free, Pause, mainVars, history
<1>3. CASE StopPlayer
  BY <1>3 DEF StopPlayer, history
<1>4. CASE Get
  <2>1. Head(bgQueue) = bgQueue[1] /\ 1 \in 1..Len(bgQueue) /\ bgQueue[1] \in Nat
    BY <1>4 DEF Types, Get
  <2>2. Head(bgQueue) # EndOfThread => Head(bgQueue) \in 1..requests
    BY <2>1 DEF Turns, Ascending, EndOfThread
  <2>3. current \in Nat /\ failed \subseteq 1..current /\ failed' = failed
    BY <1>4 DEF Get, history
  <2>4. CASE Head(bgQueue) # EndOfThread
    <3>1. current < current' /\ current' \in 1..requests /\ current' = Head(bgQueue)
      BY <1>4, <2>1, <2>2, <2>4 DEF Get, Turns, Ascending
    <3>2. failed' \subseteq 1..current' /\ current' \notin failed'
      BY <2>3, <3>1
    <3> QED
      BY <1>4, <3>1, <3>2 DEF Get, mainVars
  <2>5. CASE Head(bgQueue) = EndOfThread
    BY <1>4, <2>3, <2>5 DEF Get, mainVars
  <2> QED
    BY <2>4, <2>5
<1>5. CASE Begin
  BY <1>5, BeginTells DEF Begin, mainVars
<1>6. CASE OnAudio
  BY <1>6 DEF OnAudio, mainVars, history
<1>12. CASE SynthReturns \/ Idle
  BY <1>12 DEF SynthReturns, Idle, mainVars, history
<1>13. CASE FeedFails
  BY <1>13 DEF FeedFails, mainVars, history
<1>7. CASE Feed
  BY <1>7 DEF Feed, FeedPlayer, mainVars
<1>8. CASE Finish
  BY <1>8 DEF Finish, FeedPlayer, mainVars, history
<1>11. CASE Raises
  BY <1>11 DEF Raises, Caught, mainVars
<1>9. CASE Play
  <2>1. player' \in Seq(Nat \X {"sound", "done"} \X Nat)
    BY <1>9, HeadTailProperties DEF Play
  <2>2. notified' \in Seq(Notes)
    BY <1>9, EndTells, LateEndTells DEF Play
  <2> QED
    BY <1>9, <2>1, <2>2 DEF Play, mainVars, history
<1>10. CASE UNCHANGED vars
  BY <1>10 DEF vars, mainVars, history
<1> QED
  BY <1>1, <1>2, <1>3, <1>4, <1>5, <1>6, <1>7, <1>8, <1>9, <1>10, <1>11, <1>12, <1>13
     DEF Next, MainStep, BgStep

LEMMA AscendingStep == Types /\ Turns /\ [Next]_vars => Ascending'
<1> SUFFICES ASSUME Types, Turns, [Next]_vars PROVE Ascending'
  OBVIOUS
<1>0. /\ bgQueue \in Seq(Nat) /\ Len(bgQueue) \in Nat
      /\ \A i \in 1..Len(bgQueue) : bgQueue[i] \in Nat
      /\ requests \in Nat /\ current \in 0..requests /\ Ascending
  BY DEF Types, Turns, TurnTypes
<1>1. CASE Speak
  <2>1. /\ Len(bgQueue') = Len(bgQueue) + 1 /\ bgQueue'[Len(bgQueue) + 1] = requests + 1
        /\ \A i \in 1..Len(bgQueue) : bgQueue'[i] = bgQueue[i]
    BY <1>0, <1>1, AppendProperties DEF Speak, ExecWhenDone
  <2>2. requests' = requests + 1 /\ current' = current
    BY <1>1 DEF Speak
  <2>3. \A i \in 1..Len(bgQueue') : i \in 1..Len(bgQueue) \/ i = Len(bgQueue) + 1
    BY <1>0, <2>1
  <2>4. ASSUME NEW i \in 1..Len(bgQueue'), bgQueue'[i] # EndOfThread
        PROVE  current' < bgQueue'[i] /\ bgQueue'[i] <= requests'
    BY <1>0, <2>1, <2>2, <2>3, <2>4 DEF Ascending
  <2>5. ASSUME NEW i \in 1..Len(bgQueue'), NEW j \in 1..Len(bgQueue'), i < j,
               bgQueue'[i] # EndOfThread, bgQueue'[j] # EndOfThread
        PROVE  bgQueue'[i] < bgQueue'[j]
    <3>1. i \in 1..Len(bgQueue)
      BY <1>0, <2>1, <2>5
    <3>2. CASE j \in 1..Len(bgQueue)
      BY <1>0, <2>1, <2>5, <3>1, <3>2 DEF Ascending
    <3>3. CASE j = Len(bgQueue) + 1
      BY <1>0, <2>1, <2>5, <3>1, <3>3 DEF Ascending
    <3> QED
      BY <2>3, <3>2, <3>3
  <2> QED
    BY <2>4, <2>5 DEF Ascending, EndOfThread
<1>2. ASSUME bgQueue # <<>>, bgQueue' = Tail(bgQueue), requests' = requests,
             current' = current \/ (current' = Head(bgQueue) /\ Head(bgQueue) # EndOfThread)
      PROVE  Ascending'
  <2>1. /\ Len(bgQueue') = Len(bgQueue) - 1 /\ Head(bgQueue) = bgQueue[1]
        /\ \A i \in 1..Len(bgQueue') : bgQueue'[i] = bgQueue[i + 1]
    BY <1>0, <1>2, HeadTailProperties
  <2>2. \A i \in 1..Len(bgQueue') : i + 1 \in 1..Len(bgQueue) /\ 1 < i + 1
    BY <1>0, <2>1
  <2>3. 1 \in 1..Len(bgQueue)
    BY <1>0, <1>2
  <2>4. \A i \in 1..Len(bgQueue') :
           bgQueue'[i] # EndOfThread => current' < bgQueue'[i] /\ bgQueue'[i] <= requests'
    BY <1>0, <1>2, <2>1, <2>2, <2>3 DEF Ascending
  <2>5. \A i, j \in 1..Len(bgQueue') : i < j => i + 1 < j + 1
    BY <1>0, <2>1
  <2>6. \A i, j \in 1..Len(bgQueue') :
           i < j /\ bgQueue'[i] # EndOfThread /\ bgQueue'[j] # EndOfThread
              => bgQueue'[i] < bgQueue'[j]
    BY <2>1, <2>2, <2>5, <1>0 DEF Ascending
  <2> QED
    BY <2>4, <2>6 DEF Ascending, EndOfThread
<1>3. CASE Drain
  <2>1. CASE bgQueue = <<>>
    BY <1>0, <1>3, <2>1 DEF Drain, Ascending, EndOfThread
  <2>2. CASE bgQueue # <<>>
    BY <1>2, <1>3, <2>2 DEF Drain
  <2> QED
    BY <2>1, <2>2
<1>4. CASE Get
  BY <1>2, <1>4 DEF Get, mainVars
<1>5. CASE EndThread
  <2>1. /\ Len(bgQueue') = Len(bgQueue) + 1 /\ bgQueue'[Len(bgQueue) + 1] = EndOfThread
        /\ \A i \in 1..Len(bgQueue) : bgQueue'[i] = bgQueue[i]
    BY <1>0, <1>5, AppendProperties DEF EndThread, LastRequest, EndOfThread
  <2>2. requests' = requests /\ current' = current
    BY <1>5 DEF EndThread
  <2>3. \A i \in 1..Len(bgQueue') : bgQueue'[i] # EndOfThread => i \in 1..Len(bgQueue)
    BY <1>0, <2>1
  <2> QED
    BY <1>0, <2>1, <2>2, <2>3 DEF Ascending, EndOfThread
<1>6. CASE Cancel \/ StopPlayer \/ Free \/ \E switch \in BOOLEAN : Pause(switch)
  BY <1>0, <1>6 DEF Cancel, StopPlayer, Free, Pause, mainVars, Ascending, EndOfThread
<1>7. CASE Begin \/ OnAudio \/ Feed \/ SynthReturns \/ Finish \/ Idle \/ Play
  BY <1>0, <1>7 DEF Begin, OnAudio, Feed, SynthReturns, Finish, Idle, Play, mainVars,
                    Ascending, EndOfThread
<1>9. CASE FeedFails \/ Raises
  BY <1>0, <1>9 DEF FeedFails, Raises, mainVars, Ascending, EndOfThread
<1>8. CASE UNCHANGED vars
  BY <1>0, <1>8 DEF vars, mainVars, Ascending, EndOfThread
<1> QED
  BY <1>1, <1>3, <1>4, <1>5, <1>6, <1>7, <1>8, <1>9 DEF Next, MainStep, BgStep

LEMMA OneDoneStep == Turns /\ [Next]_vars => OneDone'
<1> SUFFICES ASSUME Turns, [Next]_vars PROVE OneDone'
  OBVIOUS
<1>0. /\ player \in Seq(Nat \X {"sound", "done"} \X Nat) /\ Len(player) \in Nat
      /\ current \in Nat /\ OneDone
  BY DEF Turns, TurnTypes
<1>1. CASE Speak \/ Cancel \/ Drain \/ EndThread \/ Free \/ \E switch \in BOOLEAN : Pause(switch)
  BY <1>0, <1>1 DEF Speak, Cancel, Drain, EndThread, Free, Pause, mainVars, history, OneDone
<1>2. CASE StopPlayer
  <2>1. Len(player') = 0
    BY <1>2 DEF StopPlayer
  <2> QED
    BY <2>1 DEF OneDone
<1>3. CASE Get \/ Begin \/ OnAudio \/ SynthReturns \/ FeedFails
  BY <1>0, <1>3 DEF Get, Begin, OnAudio, SynthReturns, FeedFails, history, OneDone
<1>8. CASE Raises
  BY <1>0, <1>8 DEF Raises, OneDone
<1>4. CASE Feed \/ Finish
  <2>1. PICK n \in Nat \X {"sound", "done"} \X Nat :
           /\ player' = Append(player, n)
           /\ n[2] = "done" => bg' = "idle" /\ n[1] = current
    <3>1. CASE Feed
      <4>1. <<current, "sound", fed>> \in Nat \X {"sound", "done"} \X Nat
        BY <1>0 DEF Turns, TurnTypes
      <4> QED
        BY <3>1, <4>1 DEF Feed, FeedPlayer
    <3>2. CASE Finish
      <4>1. <<current, "done", 0>> \in Nat \X {"sound", "done"} \X Nat
        BY <1>0
      <4> QED
        BY <3>2, <4>1 DEF Finish, FeedPlayer
    <3> QED
      BY <1>4, <3>1, <3>2
  <2>2. /\ Len(player') = Len(player) + 1 /\ player'[Len(player) + 1] = n
        /\ \A i \in 1..Len(player) : player'[i] = player[i]
    BY <1>0, <2>1, AppendProperties
  <2>3. current' = current /\ bg # "idle" /\ failed' = failed
    BY <1>4 DEF Feed, Finish, history
  <2> QED
    BY <1>0, <2>1, <2>2, <2>3 DEF OneDone
<1>5. CASE Idle
  <2>1. Len(player') = 0
    BY <1>5 DEF Idle, Silent
  <2> QED
    BY <2>1 DEF OneDone
<1>6. CASE Play
  <2>1. /\ Len(player') = Len(player) - 1
        /\ \A i \in 1..Len(player') : player'[i] = player[i + 1]
    BY <1>0, <1>6, HeadTailProperties DEF Play
  <2>2. bg' = bg /\ current' = current /\ failed' = failed
    BY <1>6 DEF Play, history
  <2>3. \A i \in 1..Len(player') :
           i + 1 \in 1..Len(player) /\ (i + 1 = Len(player) => i = Len(player'))
    BY <1>0, <2>1
  <2> QED
    BY <1>0, <2>1, <2>2, <2>3, ZenonT(30) DEF OneDone
<1>7. CASE UNCHANGED vars
  BY <1>0, <1>7 DEF vars, history, OneDone
<1> QED
  BY <1>1, <1>2, <1>3, <1>4, <1>5, <1>6, <1>7, <1>8 DEF Next, MainStep, BgStep

(* A step that tells NVDA nothing and does not change what is current.     *)
LEMMA ToldKept ==
    ASSUME Told, notified' = notified, current' = current, failed \subseteq failed',
           bg' = "begin" => bg = "begin",
           bg' \in {"synth", "feed", "finish"} \/ (bg' = "idle" /\ HasDone')
              => bg \in {"synth", "feed", "finish"} \/ (bg = "idle" /\ HasDone)
    PROVE  Told'
BY DEF Told, Sorted, UpTo, EarlyIndexes

LEMMA ToldStep == Types /\ Turns /\ [Next]_vars => Told'
<1> SUFFICES ASSUME Types, Turns, [Next]_vars PROVE Told'
  OBVIOUS
<1>0. /\ player \in Seq(Nat \X {"sound", "done"} \X Nat) /\ Len(player) \in Nat
      /\ current \in 0..MaxRequests /\ notified \in Seq(Notes) /\ OneDone /\ Told
  BY BoundsAssumption DEF Turns, TurnTypes
<1>1. CASE Speak \/ Cancel \/ Drain \/ EndThread \/ Free \/ \E switch \in BOOLEAN : Pause(switch)
  <2>1. HasDone' => HasDone
    BY <1>1 DEF Speak, Cancel, Drain, EndThread, Free, Pause, HasDone
  <2> QED
    BY <1>0, <1>1, <2>1, ToldKept DEF Speak, Cancel, Drain, EndThread, Free, Pause, history
<1>2. CASE StopPlayer
  <2>1. ~HasDone'
    BY <1>2 DEF StopPlayer, HasDone
  <2> QED
    BY <1>0, <1>2, <2>1, ToldKept DEF StopPlayer, history
<1>3. CASE OnAudio \/ SynthReturns \/ Idle \/ FeedFails \/ Raises
  <2>1. HasDone' => HasDone
    BY <1>3 DEF OnAudio, SynthReturns, Idle, FeedFails, Raises, HasDone
  <2> QED
    BY <1>0, <1>3, <2>1, ToldKept
       DEF OnAudio, SynthReturns, Idle, FeedFails, Raises, Caught, history
<1>4. CASE Feed \/ Finish
  BY <1>0, <1>4, ToldKept DEF Feed, Finish, history
<1>5. CASE Get
  <2>2. notified' = notified /\ failed' = failed
    BY <1>5 DEF Get, history
  <2>3. CASE Head(bgQueue) = EndOfThread
    BY <1>0, <1>5, <2>2, <2>3, ToldKept DEF Get
  <2>4. CASE Head(bgQueue) # EndOfThread
    <3>1. Head(bgQueue) = bgQueue[1] /\ 1 \in 1..Len(bgQueue) /\ bgQueue[1] \in Nat
      BY <1>5 DEF Types, Get
    <3>2. current' \in Nat /\ current < current' /\ bg' = "begin"
      BY <1>5, <2>4, <3>1 DEF Get, Turns, Ascending
    <3>3. \A i \in 1..Len(notified) : notified[i][1] \in Nat /\ notified[i][1] <= current
      BY <1>0, NoteRanks DEF Told
    <3>4. \A i \in 1..Len(notified) : notified[i][1] < current'
      BY <1>0, <3>2, <3>3
    <3>5. UpTo(notified', current', 0)
      BY <2>2, <3>4 DEF UpTo
    <3>6. Sorted(notified', failed')
      BY <1>0, <2>2 DEF Told
    <3>7. \A i \in 1..Len(notified') : notified'[i][1] <= current'
      BY <2>2, <3>2, <3>3, <3>4
    <3> QED
      BY <3>2, <3>5, <3>6, <3>7 DEF Told
  <2> QED
    BY <2>3, <2>4
<1>6. CASE Begin
  <2>1. /\ notified' \in Seq(Notes) /\ Sorted(notified', failed)
        /\ UpTo(notified', current, EarlyIndexes(current))
    BY <1>6, BeginTells
  <2>2. /\ current' = current /\ bg' = "synth" /\ failed' = failed
        /\ EarlyIndexes(current') = EarlyIndexes(current)
    BY <1>6 DEF Begin
  <2>3. \A i \in 1..Len(notified') : notified'[i][1] <= current'
    <3>1. \A i \in 1..Len(notified') : notified'[i] \in Notes
      BY <2>1
    <3>2. \A i \in 1..Len(notified') : notified'[i][1] \in Nat
      BY <3>1, NoteRanks
    <3> QED
      BY <1>0, <2>1, <2>2, <3>2, SMTT(30) DEF UpTo
  <2> QED
    BY <2>1, <2>2, <2>3 DEF Told
<1>7. CASE Play
  <2>1. bg' = bg /\ current' = current /\ failed' = failed
    BY <1>7 DEF Play, history
  <2>4. HasDone' => HasDone
    <3>1. /\ Len(player') = Len(player) - 1
          /\ \A i \in 1..Len(player') : player'[i] = player[i + 1]
      BY <1>0, <1>7, HeadTailProperties DEF Play
    <3>2. \A i \in 1..Len(player') : i + 1 \in 1..Len(player)
      BY <1>0, <3>1
    <3> QED
      BY <2>1, <3>1, <3>2 DEF HasDone
  <2>2. CASE Head(player)[2] = "done" /\ Head(player)[1] \notin failed
    <3>1. /\ notified' \in Seq(Notes) /\ Sorted(notified', failed)
          /\ UpTo(notified', current, Indexes[current] + 1)
          /\ bg = "idle" /\ player' = <<>>
      BY <1>7, <2>2, EndTells
    <3>2. ~HasDone'
      BY <3>1 DEF HasDone
    <3>3. \A i \in 1..Len(notified') : notified'[i][1] <= current'
      <4>1. \A i \in 1..Len(notified') : notified'[i] \in Notes
        BY <3>1
      <4>2. \A i \in 1..Len(notified') : notified'[i][1] \in Nat
        BY <4>1, NoteRanks
      <4> QED
        BY <1>0, <2>1, <3>1, <4>2, SMTT(30) DEF UpTo
    <3> QED
      BY <2>1, <3>1, <3>2, <3>3 DEF Told
  <2>3. CASE Head(player)[2] # "done"
    BY <1>0, <1>7, <2>1, <2>3, <2>4, ToldKept DEF Play
  <2>5. CASE Head(player)[2] = "done" /\ Head(player)[1] \in failed
    <3>1. /\ notified' \in Seq(Notes) /\ Sorted(notified', failed)
          /\ \A i \in 1..Len(notified') :
                \/ i \in 1..Len(notified) /\ notified'[i] = notified[i]
                \/ notified'[i][1] \in failed
      BY <1>7, <2>5, LateEndTells
    <3>2. failed \subseteq 1..current /\ current \in Nat
      BY <1>0 DEF Turns, TurnTypes
    <3>3. \A i \in 1..Len(notified') : notified'[i][1] <= current
      <4>1. \A i \in 1..Len(notified) : notified[i][1] <= current
        BY <1>0 DEF Told
      <4>2. \A u \in failed : u <= current
        BY <3>2
      <4> QED
        BY <3>1, <4>1, <4>2
    <3>4. ASSUME NEW rank, UpTo(notified, current, rank), current \notin failed
          PROVE  UpTo(notified', current, rank)
      <4>1. \A u \in failed : u < current
        BY <3>2, <3>4
      <4> QED
        BY <3>1, <3>4, <4>1 DEF UpTo
    <3>5. bg \in {"begin", "synth", "feed", "finish", "idle"} => current \notin failed
      BY DEF Turns, TurnTypes
    <3>6. EarlyIndexes(current') = EarlyIndexes(current)
      BY <2>1
    <3> QED
      BY <1>0, <2>1, <2>4, <3>1, <3>3, <3>4, <3>5, <3>6 DEF Told
  <2> QED
    BY <2>2, <2>3, <2>5
<1>8. CASE UNCHANGED vars
  <2>1. HasDone' => HasDone
    BY <1>8 DEF vars, HasDone
  <2> QED
    BY <1>0, <1>8, <2>1, ToldKept DEF vars, history
<1> QED
  BY <1>1, <1>2, <1>3, <1>4, <1>5, <1>6, <1>7, <1>8 DEF Next, MainStep, BgStep

LEMMA TurnsInit == Init => Turns
<1> SUFFICES ASSUME Init PROVE Turns
  OBVIOUS
<1>1. Len(bgQueue) = 0 /\ Len(player) = 0 /\ Len(notified) = 0
  BY DEF Init
<1>2. TurnTypes
  BY BoundsAssumption DEF Init, TurnTypes
<1>3. Ascending /\ OneDone
  BY <1>1 DEF Ascending, OneDone
<1>4. Told
  BY <1>1 DEF Told, Sorted, UpTo, Init, HasDone
<1> QED
  BY <1>2, <1>3, <1>4 DEF Turns

(***************************************************************************)
(* The theorems.                                                           *)
(***************************************************************************)
LEMMA IInvInit == Init => IInv
BY DEF Init, IInv, Types, Fresh, Reached, LastPiece

LEMMA Invariance == Spec => []IInv
<1>1. IInv /\ [Next]_vars => IInv'
  BY TypesStep, FreshStep, ReachedStep, LastPieceStep DEF IInv
<1> QED
  BY <1>1, IInvInit, PTL DEF Spec

(* When cancel has returned, no request from before it is in the queue.    *)
THEOREM CancelEmpties == Spec => []NothingLeftWaiting
<1>1. IInv => NothingLeftWaiting
  <2> SUFFICES ASSUME IInv PROVE NothingLeftWaiting
    OBVIOUS
  <2>1. DOMAIN bgQueue = 1..Len(bgQueue)
    BY DEF IInv, Types
  <2> QED
    BY <2>1 DEF IInv, Fresh, NothingLeftWaiting
<1> QED
  BY <1>1, Invariance, PTL

(* Of an utterance that a cancel has reached, one piece at most is fed     *)
(* after it, whatever is asked for next.                                   *)
THEOREM OnePieceLate == Spec => []AtMostOneLate
<1>1. IInv => AtMostOneLate
  BY DEF IInv, LastPiece, AtMostOneLate
<1> QED
  BY <1>1, Invariance, PTL

(* NVDA hears of indexes and ends in the order of the text, each once: the *)
(* thread takes the next utterance when the player has no end of the last  *)
(* one left to report, unless idle has raised, and a cancel empties the    *)
(* player.                                                                 *)
THEOREM ToldInOrder == Spec => []InOrder
<1>1. Types /\ Turns /\ [Next]_vars => Turns'
  BY TurnTypesStep, AscendingStep, OneDoneStep, ToldStep DEF Turns
<1>2. IInv => Types
  BY DEF IInv
<1>3. Turns => InOrder
  <2> SUFFICES ASSUME Turns PROVE InOrder
    OBVIOUS
  <2>1. DOMAIN notified = 1..Len(notified)
    BY DEF Turns, TurnTypes
  <2> QED
    BY <2>1 DEF Turns, Told, Sorted, InOrder
<1> QED
  BY <1>1, <1>2, <1>3, TurnsInit, Invariance, PTL DEF Spec
=============================================================================

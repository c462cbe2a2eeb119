---------------------------- MODULE NvdaDriver ----------------------------
(***************************************************************************)
(* The NVDA speech driver: the main thread of the screen reader asks to    *)
(* speak, to cancel and to terminate; one background thread takes the      *)
(* requests from a queue and speaks them.  The two share the queue and the *)
(* flag speaking, and no lock.                                             *)
(*                                                                         *)
(* The audio player belongs to NVDA.  It is modelled by how the driver     *)
(* uses it: it plays what it was fed in order, calls onDone when it gets   *)
(* there, and idle returns when nothing is left.  feed waits for room,     *)
(* and nothing is played while NVDA has paused it, so both may keep the    *)
(* background thread; stop forgets what was fed, and the pause with it.    *)
(* feed and idle may also raise, as the engine may; the thread logs what   *)
(* it catches and takes the next request.                                  *)
(***************************************************************************)
EXTENDS Integers, Sequences

CONSTANTS
    MaxRequests,   \* bound: utterances the screen reader asks for
    MaxChunks,     \* bound: pieces of sound of an utterance
    MaxPauses,     \* bound: times the screen reader pauses the player
    Room,          \* what the player holds before feed waits
    Indexes        \* how many IndexCommands an utterance has

ASSUME BoundsAssumption ==
    /\ MaxRequests \in Nat \ {0} /\ MaxChunks \in Nat
    /\ MaxPauses \in Nat /\ Room \in Nat \ {0}
    /\ Indexes \in [1..MaxRequests -> Nat]

VARIABLES
    main,       \* what the main thread is doing
    ending,     \* the cancel in progress is part of terminate
    requests,   \* utterances asked for so far
    bgQueue,    \* requests waiting; 0 is the request to end the thread
    bg,         \* where the background thread stands
    current,    \* the utterance it speaks
    fed,        \* pieces of it the engine has made
    refused,    \* on_audio has answered False
    speaking,   \* self.speaking
    player,     \* what the player has still to play
    paused,     \* it has been told to pause
    pauses,     \* pauses so far
    notified,   \* what NVDA has been told, in order
    cancelled,  \* utterances asked for before the last cancel
    missed,     \* the last cancel came before the current one had begun
    late,       \* pieces of the current utterance fed after its cancel
    failed      \* utterances that an exception has ended

mainVars == <<main, ending, requests>>
history == <<cancelled, missed, late, failed>>
pauseVars == <<paused, pauses>>
vars == <<mainVars, bgQueue, bg, current, fed, refused, speaking, player,
          pauseVars, notified, history>>

Utterances == 1..MaxRequests
EndOfThread == 0

(***************************************************************************)
(* The main thread.                                                        *)
(***************************************************************************)
\* Defect: the flag is raised by the request already.
RaisedByRequest == TRUE
FlagAfterRequest == speaking

(* Requests to speak are always put in the queue, even when it is empty.   *)
ExecWhenDone(request) == bgQueue' = Append(bgQueue, request)

Speak ==
    /\ main = "free" /\ requests < MaxRequests
    /\ requests' = requests + 1
    /\ ExecWhenDone(requests + 1)
    /\ speaking' = FlagAfterRequest
    /\ UNCHANGED <<main, ending, bg, current, fed, refused, player, notified, history, pauseVars>>

(* The first line of cancel.  A request that the background thread takes,  *)
(* or has taken, and whose flag it raises after this is missed.            *)
Cancel ==
    /\ main = "free"
    /\ main' = "drain"
    /\ \E terminating \in BOOLEAN : ending' = terminating
    /\ speaking' = FALSE
    /\ cancelled' = 1..requests
    /\ missed' = FALSE
    /\ UNCHANGED <<requests, bgQueue, bg, current, fed, refused, player, notified,
                   late, failed, pauseVars>>

(* get_nowait until the queue is empty.                                    *)
\* Defect: the loop ends after the first request.
DrainOnce == TRUE
Drained == bgQueue = <<>>

Drain ==
    /\ main = "drain"
    /\ main' = IF Drained THEN "stop" ELSE main
    /\ bgQueue' = IF bgQueue = <<>> THEN bgQueue ELSE Tail(bgQueue)
    /\ UNCHANGED <<ending, requests, bg, current, fed, refused, speaking, player,
                   notified, history, pauseVars>>

StopPlayer ==
    /\ main = "stop"
    /\ player' = <<>> /\ paused' = FALSE
    /\ main' = IF ending THEN "end" ELSE "free"
    /\ UNCHANGED <<ending, requests, bgQueue, bg, current, fed, refused, speaking,
                   pauses, notified, history>>

Pause(switch) ==
    /\ main = "free" /\ paused # switch
    /\ paused' = switch
    /\ pauses' = pauses + (IF switch THEN 1 ELSE 0) /\ pauses' <= MaxPauses
    /\ UNCHANGED <<mainVars, bgQueue, bg, current, fed, refused, speaking, player,
                   notified, history>>

(* terminate after its cancel: ask the thread to end.                      *)
\* Defect: nobody asks it to.
NoRequest == bgQueue
LastRequest == Append(bgQueue, EndOfThread)

EndThread ==
    /\ main = "end"
    /\ bgQueue' = LastRequest
    /\ main' = "join"
    /\ UNCHANGED <<ending, requests, bg, current, fed, refused, speaking, player,
                   notified, history, pauseVars>>

(* join returns when the thread has ended; then bst_free.                  *)
ThreadEnded == bg = "ended"

Free ==
    /\ main = "join" /\ ThreadEnded
    /\ main' = "freed"
    /\ UNCHANGED <<ending, requests, bgQueue, bg, current, fed, refused, speaking,
                   player, notified, history, pauseVars>>

(***************************************************************************)
(* The background thread: BgThread.run and _speakBg.                       *)
(***************************************************************************)
Get ==
    /\ bg = "get" /\ bgQueue # <<>>
    /\ bgQueue' = Tail(bgQueue)
    /\ IF Head(bgQueue) = EndOfThread
         THEN bg' = "ended" /\ UNCHANGED current
         ELSE bg' = "begin" /\ current' = Head(bgQueue)
    /\ UNCHANGED <<mainVars, fed, refused, speaking, player, notified, history, pauseVars>>

(* The first of several indexes is reported before anything is spoken.     *)
EarlyIndexes(u) == IF Indexes[u] > 1 THEN 1 ELSE 0
IndexesReached(u, from, to) ==
    [i \in 1..(to - from + 1) |-> <<u, "index", from + i - 1>>]

Begin ==
    /\ bg = "begin"
    /\ speaking' = TRUE
    /\ notified' = notified \o IndexesReached(current, 1, EarlyIndexes(current))
    /\ fed' = 0 /\ refused' = FALSE
    /\ late' = 0 /\ missed' = (current \in cancelled)
    /\ bg' = "synth"
    /\ UNCHANGED <<mainVars, bgQueue, current, player, cancelled, failed, pauseVars>>

(* The engine has a piece of sound and calls on_audio, unless it has been  *)
(* refused one before.                                                     *)
\* Defect: the flag is not looked at.
NeverRefuses == FALSE
Refuses == ~speaking

OnAudio ==
    /\ bg = "synth" /\ ~refused /\ fed < MaxChunks
    /\ fed' = fed + 1
    /\ IF Refuses THEN refused' = TRUE /\ UNCHANGED bg
                  ELSE bg' = "feed" /\ UNCHANGED refused
    /\ UNCHANGED <<mainVars, bgQueue, current, speaking, player, notified, history, pauseVars>>

FeedPlayer(piece) == Len(player) < Room /\ player' = Append(player, piece)

Feed ==
    /\ bg = "feed"
    /\ FeedPlayer(<<current, "sound", fed>>)
    /\ late' = IF current \in cancelled /\ ~missed THEN late + 1 ELSE late
    /\ bg' = "synth"
    /\ UNCHANGED <<mainVars, bgQueue, current, fed, refused, speaking, notified,
                   cancelled, missed, failed, pauseVars>>

(* feed raises: the exception does not pass through the engine, which gets *)
(* whatever answer was left for it.                                        *)
FeedFails ==
    /\ bg = "feed"
    /\ refused' \in BOOLEAN
    /\ bg' = "synth"
    /\ UNCHANGED <<mainVars, bgQueue, current, fed, speaking, player, notified,
                   history, pauseVars>>

(* bst_speak_async returns: the end is reported unless it was cancelled.   *)
\* Defect: an utterance without sound is not reported.
EndsWithSound == speaking /\ fed > 0
ReportsEnd == speaking

SynthReturns ==
    /\ bg = "synth"
    /\ bg' = IF ReportsEnd THEN "finish" ELSE "get"
    /\ UNCHANGED <<mainVars, bgQueue, current, fed, refused, speaking, player,
                   notified, history, pauseVars>>

Finish ==
    /\ bg = "finish"
    /\ FeedPlayer(<<current, "done", 0>>)
    /\ bg' = "idle"
    /\ UNCHANGED <<mainVars, bgQueue, current, fed, refused, speaking, notified, history, pauseVars>>

(* player.idle                                                             *)
\* Defect: it is left out.
NotAwaited == TRUE
Silent == player = <<>>

Idle ==
    /\ bg = "idle" /\ Silent
    /\ bg' = "get"
    /\ UNCHANGED <<mainVars, bgQueue, current, fed, refused, speaking, player,
                   notified, history, pauseVars>>

(* The encoding of the text, the call of the engine, the last feed or idle *)
(* raises: run logs the exception and goes on; what the player was fed     *)
(* stays in it.                                                            *)
\* Defect: the exception is not caught, and ends the thread.
NotCaught == "ended"
Caught == "get"

Raises ==
    /\ bg \in {"synth", "finish", "idle"}
    /\ bg' = Caught
    /\ failed' = failed \cup {current}
    /\ UNCHANGED <<mainVars, bgQueue, current, fed, refused, speaking, player, notified,
                   cancelled, missed, late, pauseVars>>

(***************************************************************************)
(* The player; done is what it calls at the end of an utterance.           *)
(***************************************************************************)
Done(u) ==
    notified' = notified \o IndexesReached(u, EarlyIndexes(u) + 1, Indexes[u])
                         \o <<<<u, "done", 0>>>>

Play ==
    /\ player # <<>> /\ ~paused
    /\ player' = Tail(player)
    /\ IF Head(player)[2] = "done" THEN Done(Head(player)[1]) ELSE UNCHANGED notified
    /\ UNCHANGED <<mainVars, bgQueue, bg, current, fed, refused, speaking, history, pauseVars>>

(***************************************************************************)
(* The specification.                                                      *)
(***************************************************************************)
Init ==
    /\ main = "free" /\ ending = FALSE /\ requests = 0
    /\ bgQueue = <<>> /\ bg = "get" /\ current = 0
    /\ fed = 0 /\ refused = FALSE /\ speaking = FALSE
    /\ player = <<>> /\ paused = FALSE /\ pauses = 0 /\ notified = <<>>
    /\ cancelled = {} /\ missed = FALSE /\ late = 0 /\ failed = {}

MainStep == Drain \/ StopPlayer \/ EndThread \/ Free
BgStep ==
    \/ Get \/ Begin \/ OnAudio \/ Feed \/ SynthReturns \/ Finish \/ Idle
    \/ FeedFails \/ Raises

Next ==
    \/ Speak \/ Cancel \/ \E switch \in BOOLEAN : Pause(switch)
    \/ MainStep \/ BgStep \/ Play

Spec == Init /\ [][Next]_vars

(* Both threads keep running, the engine makes an end of every utterance   *)
(* and the player plays; nothing makes NVDA ask for anything.              *)
FairSpec == Spec /\ WF_vars(MainStep) /\ WF_vars(BgStep) /\ WF_vars(Play)

(***************************************************************************)
(* Properties.                                                             *)
(***************************************************************************)
TypeOK ==
    /\ main \in {"free", "drain", "stop", "end", "join", "freed"}
    /\ ending \in BOOLEAN /\ requests \in 0..MaxRequests
    /\ bgQueue \in Seq(Utterances \cup {EndOfThread})
    /\ bg \in {"get", "begin", "synth", "feed", "finish", "idle", "ended"}
    /\ current \in 0..MaxRequests /\ fed \in 0..MaxChunks
    /\ refused \in BOOLEAN /\ speaking \in BOOLEAN
    /\ paused \in BOOLEAN /\ pauses \in 0..MaxPauses
    /\ player \in Seq(Utterances \X {"sound", "done"} \X (0..MaxChunks))
    /\ \A i \in DOMAIN notified :
          \E u \in Utterances :
             notified[i] \in {<<u, "done", 0>>} \cup {<<u, "index", j>> : j \in 1..Indexes[u]}
    /\ cancelled \subseteq Utterances /\ missed \in BOOLEAN
    /\ late \in 0..MaxChunks /\ failed \subseteq Utterances

(* When cancel has returned, nothing that was asked for before it is still *)
(* waiting to be spoken.                                                   *)
NothingLeftWaiting ==
    main = "free" => \A i \in DOMAIN bgQueue : bgQueue[i] \notin cancelled

(* A cancelled utterance whose flag the cancel did reach is not revived by *)
(* a request that follows: at most the piece of sound that on_audio was    *)
(* feeding comes after the cancel.                                         *)
AtMostOneLate == late <= 1

(* NVDA hears of indexes and ends in the order of the text, each once,     *)
(* whatever was cancelled in between.  Only the end of an utterance that   *)
(* idle did not see through, because it raised, may come late.             *)
Rank(n) == IF n[2] = "done" THEN Indexes[n[1]] + 1 ELSE n[3]
Before(m, n) == m[1] < n[1] \/ (m[1] = n[1] /\ Rank(m) < Rank(n))
InOrder ==
    \A i, j \in DOMAIN notified :
       i < j => Before(notified[i], notified[j]) \/ notified[j][1] \in failed

(* An utterance that is asked for is spoken to its end, or cancelled, or   *)
(* an exception has ended that very utterance, unless the player stays     *)
(* paused for ever: what one request raises does not stop the next.        *)
IsDone(u) == \E i \in DOMAIN notified : notified[i] = <<u, "done", 0>>
EveryRequestEnds ==
    \A u \in Utterances :
       (requests >= u) ~> (IsDone(u) \/ u \in cancelled \/ u \in failed \/ []paused)

(* terminate returns, whatever the background thread was doing: it may be  *)
(* held by a paused player that nobody will resume.                        *)
TerminateEnds == ending ~> (main = "freed")
=============================================================================

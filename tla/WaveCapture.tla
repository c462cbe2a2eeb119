---------------------------- MODULE WaveCapture ----------------------------
(***************************************************************************)
(* speak_async of b32_wrapper: the hooks that catch what the b32 engine    *)
(* would play, the message window through which its buffers are handed     *)
(* back, the Sonic stream that changes the speed, and the callback that    *)
(* gets the sound.                                                         *)
(*                                                                         *)
(* The engine is outside the repository.  It is modelled from the comment  *)
(* above on_rel_buf: TtsWav writes buffers with waveOutWrite, pumps the    *)
(* messages of the thread it runs on, and returns once bstRelBuf has been  *)
(* called as often as waveOutWrite.  A message window belongs to the       *)
(* thread that created it, and only that thread gets its messages; those   *)
(* posted to no window at all are lost.  Nothing keeps an engine on one    *)
(* thread.                                                                 *)
(***************************************************************************)
EXTENDS Integers

CONSTANTS
    Threads,
    Engines,      \* State objects, one per SAPI engine object
    None,
    MaxBuffers,   \* bound: buffers of one utterance
    Pool,         \* buffers the engine has before it waits for one to return
    SystemFails   \* whether Windows may refuse a class, a window or a hook

ASSUME NoneAssumption == None \notin Threads \cup Engines
ASSUME BuffersAssumption == MaxBuffers \in Nat /\ Pool \in Nat \ {0}
ASSUME SystemAssumption == SystemFails \in BOOLEAN

VARIABLES
    pc,         \* where a thread stands in speak_async
    hooked,     \* winmm_hooked_state, one per thread
    alive,      \* whether there is a State object for an engine
    winmmHooked, \* winmm_hooked, one for the process
    enabled,    \* the hooks are in effect
    refused,    \* Windows has refused a hook
    registered, \* the class of the message windows is registered
    posted,     \* WM_REL_BUF messages waiting for the window of a State
    strays,     \* those waiting on a thread for windows of deleted States
    crossed,    \* the threads that have got messages from another thread
    user,       \* the thread an engine speaks on
    window,     \* the thread that created message_window
    written,    \* waveOutWrite calls of the current or last utterance
    released,   \* bstRelBuf calls for the current or last utterance
    stop,       \* async_stop_speaking
    sonic,      \* the utterance goes through a Sonic stream
    buffered,   \* sound in the Sonic stream
    delivered   \* sound the callback accepted or refused, in buffers

threadVars == <<pc, hooked>>
hookVars == <<winmmHooked, enabled, refused>>
soundVars == <<stop, sonic, buffered, delivered>>
countVars == <<written, released, soundVars>>
windowVars == <<registered, posted, strays, crossed>>
engineVars == <<alive, user, window, countVars, windowVars>>
vars == <<threadVars, hookVars, engineVars>>

GoTo(t, s) == pc' = [pc EXCEPT ![t] = s]

(***************************************************************************)
(* State objects.                                                          *)
(***************************************************************************)
(* init: an engine object makes its State when it first speaks (nothing    *)
(* happens here when the library cannot be loaded).                        *)
InitState(e) ==
    /\ ~alive[e]
    /\ alive' = [alive EXCEPT ![e] = TRUE]
    /\ UNCHANGED <<threadVars, hookVars, user, window, countVars, windowVars>>

(* StateDeleter: DestroyWindow takes the window, and the messages that     *)
(* wait for it, on the thread of the window only.  On another it fails,    *)
(* and the window is left.                                                 *)
DeleteState(t, e) ==
    /\ alive[e] /\ user[e] = None /\ pc[t] = "idle"
    /\ alive' = [alive EXCEPT ![e] = FALSE]
    /\ window' = [window EXCEPT ![e] = None]
    /\ posted' = [posted EXCEPT ![e] = 0]
    /\ strays' = IF window[e] \in {None, t} THEN strays
                   ELSE [strays EXCEPT ![window[e]] = @ + posted[e]]
    /\ UNCHANGED <<threadVars, hookVars, user, countVars, registered, crossed>>

(***************************************************************************)
(* speak_async up to the call of TtsWav.                                   *)
(***************************************************************************)
(* create_message_window, at the first call and at any later one that has  *)
(* no window: GetClassInfo, and RegisterClass if there is no class, have   *)
(* no lock, and RegisterClass refuses a class that somebody has registered *)
(* in between.  Without a class, or without a window of it, the call goes  *)
(* on with none.                                                           *)
SpeakAsync(t, e) ==
    /\ pc[t] = "idle" /\ alive[e] /\ user[e] = None
    /\ user' = [user EXCEPT ![e] = t]
    /\ \/ window[e] # None /\ GoTo(t, "prepare")
       \/ window[e] = None /\ registered /\ GoTo(t, "create")
       \/ window[e] = None /\ ~registered /\ GoTo(t, "register")
    /\ UNCHANGED <<hooked, hookVars, alive, window, countVars, windowVars>>

RegisterClass(t) ==
    /\ pc[t] = "register"
    /\ \/ ~registered /\ registered' = TRUE /\ GoTo(t, "create")
       \/ (registered \/ SystemFails) /\ GoTo(t, "prepare") /\ UNCHANGED registered
    /\ UNCHANGED <<hooked, hookVars, alive, user, window, countVars, posted, strays, crossed>>

CreateWindow(t, e) ==
    /\ pc[t] = "create" /\ user[e] = t
    /\ \/ window' = [window EXCEPT ![e] = t]
       \/ SystemFails /\ UNCHANGED window
    /\ GoTo(t, "prepare")
    /\ UNCHANGED <<hooked, hookVars, alive, user, countVars, windowVars>>

CallTtsWav(t, e) ==
    /\ GoTo(t, "tts")
    /\ hooked' = [hooked EXCEPT ![t] = e]

(* The Sonic stream is made anew when the multiplier is not 1 (and can be  *)
(* allocated).                                                             *)
Prepare(t, e) ==
    /\ pc[t] = "prepare" /\ user[e] = t
    /\ IF winmmHooked THEN CallTtsWav(t, e) ELSE GoTo(t, "install") /\ UNCHANGED hooked
    /\ stop' = [stop EXCEPT ![e] = FALSE]
    /\ \E s \in BOOLEAN : sonic' = [sonic EXCEPT ![e] = s]
    /\ buffered' = [buffered EXCEPT ![e] = 0]
    /\ written' = [written EXCEPT ![e] = 0]
    /\ released' = [released EXCEPT ![e] = 0]
    /\ delivered' = [delivered EXCEPT ![e] = 0]
    /\ UNCHANGED <<hookVars, alive, user, window, windowVars>>

(* install_winmm_hooks: the hooks are for the whole process, and threads   *)
(* that speak for the first time may install them at the same time, as the *)
(* flag has no lock.  Every thread that finds it down enables the hooks    *)
(* itself.  Nobody looks at what MinHook answers: that a hook exists, or   *)
(* that there is none.                                                     *)
InstallHooks(t) ==
    /\ pc[t] = "install"
    /\ \/ enabled' = TRUE /\ UNCHANGED refused
       \/ SystemFails /\ refused' = TRUE /\ UNCHANGED enabled
    /\ GoTo(t, "installed")
    /\ UNCHANGED <<hooked, winmmHooked, engineVars>>

HooksInstalled(t, e) ==
    /\ pc[t] = "installed" /\ user[e] = t
    /\ winmmHooked' = TRUE
    /\ CallTtsWav(t, e)
    /\ UNCHANGED <<enabled, refused, engineVars>>

(***************************************************************************)
(* The hooks.                                                              *)
(***************************************************************************)
(* A device is caught by the hooks on the thread that speaks with the      *)
(* State it was opened for; any other goes to the real waveOut functions.  *)
Captured(t, e) == enabled /\ pc[t] = "tts" /\ hooked[t] = e

(* One WM_REL_BUF for every write, posted before the stop flag is looked   *)
(* at.                                                                     *)
\* Defects: a stopped utterance posts none; the stop posts another one.
PostsUnlessStopped(e) == IF stop[e] THEN 0 ELSE 1
PostsOnStopToo(e) == IF stop[e] THEN 2 ELSE 1
Posts(e) == 1

(* n buffers' worth of sound reach the callback, which may refuse it.      *)
Deliver(e, n) ==
    /\ delivered' = [delivered EXCEPT ![e] = @ + n]
    /\ \E refuse \in BOOLEAN : stop' = [stop EXCEPT ![e] = refuse]

Passthrough(e) == Deliver(e, 1) /\ UNCHANGED buffered

(* Sonic gives back as much as it has made of what it was given.           *)
ThroughSonic(e) ==
    \E n \in 0..(buffered[e] + 1) :
        /\ buffered' = [buffered EXCEPT ![e] = @ + 1 - n]
        /\ IF n > 0 THEN Deliver(e, n) ELSE UNCHANGED <<delivered, stop>>

WaveOutWrite(t, e) ==
    /\ Captured(t, e)
    /\ written[e] < MaxBuffers /\ written[e] - released[e] < Pool
    /\ written' = [written EXCEPT ![e] = @ + 1]
    /\ posted' = IF window[e] = None THEN posted
                   ELSE [posted EXCEPT ![e] = @ + Posts(e)]
    /\ crossed' = crossed \cup ({window[e]} \ {None, t})
    /\ CASE stop[e]              -> UNCHANGED <<stop, buffered, delivered>>
         [] ~stop[e] /\ sonic[e]  -> ThroughSonic(e)
         [] ~stop[e] /\ ~sonic[e] -> Passthrough(e)
    /\ UNCHANGED <<threadVars, hookVars, alive, user, window, released, sonic,
                   registered, strays>>

(***************************************************************************)
(* on_rel_buf: the window procedure knows no State, it takes that of the   *)
(* thread it runs on.                                                      *)
(***************************************************************************)
OnRelBuf(t) ==
    released' = IF hooked[t] = None THEN released
                  ELSE [released EXCEPT ![hooked[t]] = @ + 1]

(* TtsWav pumps the messages of its thread; the application may do so when *)
(* the thread is not speaking.                                             *)
Pump(t) ==
    /\ pc[t] \in {"idle", "tts"}
    /\ \/ /\ strays[t] > 0
          /\ strays' = [strays EXCEPT ![t] = @ - 1] /\ UNCHANGED posted
       \/ \E e \in Engines :
             /\ window[e] = t /\ posted[e] > 0
             /\ posted' = [posted EXCEPT ![e] = @ - 1] /\ UNCHANGED strays
    /\ OnRelBuf(t)
    /\ UNCHANGED <<threadVars, hookVars, alive, user, window, written, soundVars,
                   registered, crossed>>

(* TtsWav has nothing more to write and all its buffers back.              *)
TtsWavReturns(t, e) ==
    /\ Captured(t, e)
    /\ released[e] >= written[e]
    /\ GoTo(t, "flush")
    /\ UNCHANGED <<hooked, hookVars, engineVars>>

(* An engine that has opened its device before there were hooks plays the  *)
(* text by itself.                                                         *)
TtsWavPlays(t, e) ==
    /\ refused /\ pc[t] = "tts" /\ hooked[t] = e /\ written[e] = 0
    /\ GoTo(t, "flush")
    /\ UNCHANGED <<hooked, hookVars, engineVars>>

(***************************************************************************)
(* speak_async after TtsWav: the rest of the Sonic stream, then return.    *)
(***************************************************************************)
(* A stopped utterance is flushed into nothing.  What the callback answers *)
(* to the last piece does not matter any more.                             *)
\* Defects: the flush does not look at the flag; there is no flush.
FlushesAll(e) == sonic[e]
NoFlush(e) == FALSE
FlushesToCallback(e) == sonic[e] /\ ~stop[e]

SpeakReturns(t, e) ==
    /\ pc[t] = "flush" /\ hooked[t] = e
    /\ delivered' = [delivered EXCEPT ![e] =
                       IF FlushesToCallback(e) THEN @ + buffered[e] ELSE @]
    /\ buffered' = [buffered EXCEPT ![e] = 0]
    /\ sonic' = [sonic EXCEPT ![e] = FALSE]
    /\ hooked' = [hooked EXCEPT ![t] = None]
    /\ GoTo(t, "idle")
    /\ user' = [user EXCEPT ![e] = None]
    /\ UNCHANGED <<hookVars, alive, window, written, released, stop, windowVars>>

(***************************************************************************)
(* The specification.                                                      *)
(***************************************************************************)
Init ==
    /\ pc = [t \in Threads |-> "idle"]
    /\ hooked = [t \in Threads |-> None]
    /\ winmmHooked = FALSE /\ enabled = FALSE /\ refused = FALSE
    /\ registered = FALSE /\ strays = [t \in Threads |-> 0] /\ crossed = {}
    /\ alive = [e \in Engines |-> FALSE]
    /\ posted = [e \in Engines |-> 0]
    /\ user = [e \in Engines |-> None]
    /\ window = [e \in Engines |-> None]
    /\ written = [e \in Engines |-> 0]
    /\ released = [e \in Engines |-> 0]
    /\ stop = [e \in Engines |-> FALSE]
    /\ sonic = [e \in Engines |-> FALSE]
    /\ buffered = [e \in Engines |-> 0]
    /\ delivered = [e \in Engines |-> 0]

Speaks(t, e) ==
    \/ CreateWindow(t, e) \/ Prepare(t, e) \/ HooksInstalled(t, e)
    \/ WaveOutWrite(t, e) \/ TtsWavReturns(t, e) \/ TtsWavPlays(t, e) \/ SpeakReturns(t, e)

Next ==
    \E t \in Threads :
        \/ Pump(t) \/ RegisterClass(t) \/ InstallHooks(t)
        \/ \E e \in Engines :
              InitState(e) \/ SpeakAsync(t, e) \/ Speaks(t, e) \/ DeleteState(t, e)

Spec == Init /\ [][Next]_vars

(* A thread inside speak_async keeps running; one that is idle may never   *)
(* pump a message.                                                         *)
Speaking(t) ==
    \/ pc[t] = "tts" /\ Pump(t)
    \/ RegisterClass(t) \/ InstallHooks(t) \/ \E e \in Engines : Speaks(t, e)
FairSpec == Spec /\ \A t \in Threads : WF_vars(Speaking(t))

(***************************************************************************)
(* Properties.                                                             *)
(***************************************************************************)
TypeOK ==
    /\ pc \in [Threads -> {"idle", "register", "create", "prepare", "install", "installed",
                           "tts", "flush"}]
    /\ winmmHooked \in BOOLEAN /\ enabled \in BOOLEAN /\ refused \in BOOLEAN
    /\ registered \in BOOLEAN /\ crossed \subseteq Threads
    /\ strays \in [Threads -> Nat]
    /\ hooked \in [Threads -> Engines \cup {None}]
    /\ alive \in [Engines -> BOOLEAN]
    /\ posted \in [Engines -> Nat]
    /\ user \in [Engines -> Threads \cup {None}]
    /\ window \in [Engines -> Threads \cup {None}]
    /\ written \in [Engines -> 0..MaxBuffers]
    /\ released \in [Engines -> Nat]
    /\ stop \in [Engines -> BOOLEAN]
    /\ sonic \in [Engines -> BOOLEAN]
    /\ buffered \in [Engines -> 0..MaxBuffers]
    /\ delivered \in [Engines -> 0..MaxBuffers]

(* While TtsWav runs on the thread of the engine's window, every buffer it *)
(* has written is given back or has a message waiting on that thread,      *)
(* whatever other engines and threads do.                                  *)
BuffersComeBack ==
    \A e \in Engines :
        user[e] # None /\ window[e] = user[e] /\ pc[user[e]] = "tts"
            => released[e] + posted[e] >= written[e]

(* On a thread no other has sent messages to, none is left over for a      *)
(* later utterance, or for another engine there, to mistake for one of its *)
(* own, and no buffer is given back that was not written.                  *)
NoStaleMessage ==
    \A e \in Engines :
        window[e] \in Threads \ crossed =>
            IF user[e] = window[e] /\ pc[user[e]] = "tts"
              THEN released[e] <= written[e] ELSE posted[e] = 0

(* Sound is neither lost nor made up: an utterance nobody stopped is       *)
(* delivered whole, the tail that Sonic held back included, and nothing    *)
(* is played instead of being caught, whichever thread installs the hooks, *)
(* unless Windows has refused one.                                         *)
NothingLost ==
    /\ \A e \in Engines : user[e] = None /\ ~stop[e] => delivered[e] = written[e]
    /\ \A t \in Threads : pc[t] = "tts" => enabled \/ refused

(* Once the callback has refused, it is not called again for this          *)
(* utterance, not by the flush either.                                     *)
SilentAfterStop ==
    [][\A e \in Engines :
          user[e] # None /\ pc[user[e]] \in {"tts", "flush"} /\ stop[e]
              => delivered'[e] = delivered[e]]_vars

(* speak_async returns when the engine has its window and it is one of the *)
(* thread that speaks: every buffer is given back to the engine, those of  *)
(* a stopped utterance too, and whatever else arrives at the thread.       *)
EverySpeakReturns ==
    \A t \in Threads, e \in Engines :
        (user[e] = t /\ window[e] = t) ~> (user[e] = None)

(* It would return on any thread, if it has a window; and it would have    *)
(* one, if it has none of another thread.                                  *)
ReturnsOnAnyThread ==
    \A t \in Threads, e \in Engines :
        (user[e] = t /\ window[e] # None) ~> (user[e] = None)

ReturnsOnOwnThread ==
    \A t \in Threads, e \in Engines :
        (user[e] = t /\ window[e] \in {None, t}) ~> (user[e] = None)
=============================================================================

# A verification development of BeSTspeak

BeSTspeak makes the BeSTspeech synthesizer of the nineties, a set of 32-bit
Windows libraries, usable today: as a SAPI 5 voice for 32-bit and 64-bit
programs, as an NVDA driver, as a console library, and through a small window
with hot keys.  The synthesizer itself is a binary; the code of this repository
is the plumbing around it, and the plumbing is where threads, processes,
callbacks and messages meet.  The modules here model that plumbing from the
code, TLC checks them on small instances, and TLAPS proves every safety invariant
they check, and more, for every instance.

Paths below are relative to the repository (`sapi/` is short for
`misc/BstSpeech-sapi/src/`, `console/` for `misc/b32_bin_2025.5/b32tts_wrapper/`).

## 1. Inventory

| Part | State it keeps | Operations | Interacts by |
|---|---|---|---|
| SAPI engine `sapi/ISpTTSEngineImpl.cpp` | voice, token, and within a call: rate, gain, bytes written, aborted | Speak, its callback, GetOutputFormat, SetObjectToken, GetObjectToken | calls of the output site, which another thread changes; calls the wrapper (32 bit) or the pipe client (64 bit), which all engines of a process share |
| Pipe client `sapi/pipe_client.cpp` | the pipe handle, a critical section | speak, getVoices, shutdownServer, the connection, launching the server | a byte-mode named pipe, two named mutexes, CreateProcess |
| Pipe server `sapi/bestspeech_server.cpp` | the stop and the shutdown flag, the engine | the command loop and its handlers, start and exit | the pipe, the server mutex |
| Engine wrapper `sapi/b32_wrapper.cpp` | a State per engine, one pointer per thread, a message window, the hooks of the process | init, speak_async, six hooks of winmm, release of buffers | posted window messages, a callback in the middle of the synthesis |
| Console wrapper `console/src/b32_wrapper.cpp` | a growing buffer, a callback, a Sonic stream that outlives the call | bst_init, bst_speak, bst_speak_async, bst_free | as above |
| NVDA driver `console/nvda/synthDrivers/bestspeech.py` | a queue, a thread, the `speaking` flag, indexes | speak, cancel, terminate, pause, parameters | two threads, a queue, player callbacks |
| Speak window `src/BeSTspeak.cpp` | the selected voice, three prefix strings, pitch, rate, gain, the engine | hot keys, menu commands, SpeakText | its own message queue, an engine made anew for every text |
| Voice tokens, data keys, enumerator `sapi/*Impl.cpp, voice_*` | a cursor, a vector of voices | Next, Item, Skip, Reset, Clone, OpenKey, GetValue | COM calls |
| COM support and registration `sapi/com.*, sapi_main.cpp, registry.*` | reference counts, one counter of objects and locks, the registry | class factories, QueryInterface, Release, LockServer, DllCanUnloadNow, DllRegisterServer, DllUnregisterServer | COM calls, the registry |
| Console tools, debug log, vendored code (Sonic, argparse, MinHook), engine libraries, older programs, installer | none that another part reads | | |

### What is hard here

* **Two processes over one stream.**  The server serves one client at a time in
  one thread, so the thread that would read a stop command is the one that
  synthesizes; answers to stops arrive when nobody waits for them any more; a
  read in byte mode may return half a message; either end may vanish.
* **Processes that start each other.**  Any number of clients may find no server
  at once, each looks at a mutex that exists as long as anybody has a handle on
  it, and looking creates such a handle.
* **Messages as flow control.**  The engine writes a buffer and waits, inside the
  call, for a window message that hands the buffer back; the window belongs to
  one thread and knows neither the engine nor the utterance, its class is registered
  without a lock, and Windows may refuse any part of it.
* **Re-entrancy and cancellation.**  The SAPI site raises abort, skip, rate and
  volume while the engine is between two lines of a callback; NVDA cancels while
  its background thread is anywhere.
* **Shared objects.**  Any thread may release the last reference to an object, or
  unload the library, while another one creates or enumerates.
* **Failures in the middle.**  The fourth token of a Next, an object that is counted and
  then cannot be filled, the third write to the registry, a piece of sound the site took
  half of, an exception in a background thread.
* **Two copies of one fact.**  The window keeps the selected voice and the pitch
  in two places each.

Every place where one of these bites is a `hazards` entry of `PROJECT.json`, with
the source line and the properties that cover it, or the reason why none does.

### What makes the parts correct

| Part | Properties |
|---|---|
| Pipe bridge | messages stay framed (`Framing`); a stop never reaches another utterance (`NoStaleStop`); a true answer means a whole utterance (`Complete`); a voice is missed only after a stop or without a server, whichever engine asks (`VoiceMissed`); every call returns (`CallReturns`, `ServerRecovers`); the bridge behaves like a speech session that is behind by one answer at most (`ImplementsSession`) |
| Server processes | one server in charge (`AtMostOneServer`, `HandlesAccounted`); launches exclude each other (`LaunchExclusive`); a launch leads to a pipe (`LaunchServes`); waits end (`WaitsEnd`) |
| Engine wrapper | a call on the thread of its window gets every buffer back (`BuffersComeBack`); no release message is left to the wrong utterance (`NoStaleMessage`); no sound is lost or played past the hooks (`NothingLost`) or delivered after a refusal (`SilentAfterStop`); the call returns (`EverySpeakReturns`) |
| Console wrapper | the buffer is not overrun (`InBounds`), holds the whole utterance and no other (`WholeUtterance`); a refusal is final (`SilentAfterRefusal`) |
| SAPI engine | events lie where their fragment begins (`EventsAligned`); stops stop, once (`AbortStopsWrites`, `SkipEndsCall`, `AbortReturns`); settings are not lost and become the speed and the gain asked for (`SettingsCurrent`) |
| COM objects | what is held lives (`HeldAlive`); the library stays while it is needed (`ModuleNeeded`); failed calls leave nothing behind (`NothingLeaks`); a failed Next loses no voice (`EveryVoiceOnce`) |
| Registration | SAPI is not told of an enumerator it cannot create (`ListedUsable`) |
| NVDA driver | cancel leaves nothing waiting (`NothingLeftWaiting`) and lets at most one piece through (`AtMostOneLate`); indexes and ends in order (`InOrder`); requests and terminate end (`EveryRequestEnds`, `TerminateEnds`) |
| Speak window | the pitch spoken is the one the keys move (`PitchFollowsKeys`); the selection follows the voice (`SelectionMatches`); settings survive the engine (`SettingsSurvive`) |

## 2. Modules

`map` in `PROJECT.json` gives, for every definition that models code, the lines it
stands for.  Operators that a comment marks as a *defect* are plausible bugs; no
action uses them.  They exist so that each property can be seen to fail on a
model with the bug in it (`mutants`).

| Module | Models |
|---|---|
| `SpeechSession` | abstract: what the bridge promises a client process: its calls, its connection and their answers |
| `PipeBridge` | pipe client, stream, pipe server; implements `SpeechSession` |
| `PipeBridgeProofs` | theorems about `PipeBridge` |
| `VoiceHost`, `MCVoiceHost` | the engines of one process over the connection they share: SetObjectToken, Speak, abort, the critical section |
| `ServerLifecycle` | connection attempts, launchServer, main() of the server, shutdownServer |
| `MCServerLifecycle` | the same with a record of whether anything has failed yet |
| `ServerLifecycleProofs` | theorems about `ServerLifecycle` |
| `WaveCapture` | State objects, speak_async, hooks and their installation, message windows and their class, Sonic |
| `WaveCaptureProofs` | theorems about `WaveCapture` |
| `WaveBuffer` | bst_speak and bst_speak_async of the console wrapper: the buffer and the stream |
| `WaveBufferProofs` | theorems about `WaveBuffer` |
| `SpeakFragments`, `MCSpeakFragments` | ISpTTSEngineImpl::Speak, speak_callback and the output site |
| `SpeakFragmentsProofs` | theorems about `SpeakFragments` |
| `ComServer` | factories, engines, enumerators, tokens, keys; references, locks, DllCanUnloadNow |
| `Registration` | DllRegisterServer and DllUnregisterServer, write by write |
| `MCComServer` | `ComServer` and `Registration` composed, and `ComServer` from where two threads share an engine and two tokens |
| `ComServerProofs` | theorems about `ComServer` and `Registration` |
| `NvdaDriver`, `MCNvdaDriver` | the NVDA driver's two threads |
| `NvdaDriverProofs` | theorems about `NvdaDriver` |
| `SpeakWindow`, `MCSpeakWindow` | the window, its message queue and the prefixes |
| `SpeakWindowProofs` | theorems about `SpeakWindow` |

### PipeBridge

A client is one sequential caller, because every public method holds the critical
section to its return; `pc` is the system call it is about to make, and every
action is one such call with the code up to the next.  `toServer` and `toClient`
are the two directions of the pipe in units of one WriteFile: a header says how
many units follow it, and an audio chunk is a header, a size field and samples,
because `audio_callback` writes three times.  A read takes what is there.  `spc`
is the server's position; `out` what its handler has yet to write.
`ServerReadHeader` handles a command as `handle_client` does; STOP raises `gStop`
exactly there, and nowhere else, which is why a stop never reaches the utterance
it was meant for (`NoStaleStop` says that it does not reach another one either).
A crash of the server, an exit of the client, a full stream (`Quota`), a busy pipe,
failed attempts and a CreateFile that is refused outright (`ConnectRefused`: no further
attempt) are all in the model.  A CreateNamedPipe that fails changes nothing and is tried
again a second later, so it is a stutter.  `Disconnect`, and who calls it after a
failure, follows the code: speak and shutdownServer do, getVoices does not.

### SpeechSession, the abstract specification

`SpeechSession` knows no stream, message or server.  A client process has a call in
progress or none, a link that is closed, open or broken, and on an open link the
list `behind` of answers to earlier calls that are still to come.  It promises that
speak's callback hears the chunks of its own text, in order, without a gap, and none
after it has refused one; that a speak call which fails leaves no link; that
a stopped speak leaves exactly one answer behind; and that getVoices reads the first
answer there is, so on an open link it fails only if that is not its own, and then
leaves its own behind.  Hence `behind` is never longer than one between two calls, although
nothing in the bridge counts it.

`ImplementsSession` is the refinement.  `calling`, `heard`, `silenced` and `answer`
follow `pc`, `op`, `heard`, `stopped` and `result`; `link` follows the two ends of the
pipe instance; `Behind` computes the list from what is on the stream in both directions, what
the server's handler has still to write and the commands it has not read.  Every action of
the bridge is an action of `SpeechSession` or leaves all of that alone.

### VoiceHost

`VoiceHost` extends `PipeBridge` with the callers of one client process: engines, each in a
thread of its own, which share one PipeClient, and the thread that unregisters
the library.  The calls of `PipeBridge` become steps of an engine (`EnterGetVoices`,
`EnterSpeak`, `EnterShutdown`) that take the critical section `cs_`, and `PipeCall` is a step
of the call in progress, whose return releases it and is acted upon by the engine
in the same step (`BackInEngine`).  Speak makes one call of the pipe client for each
text fragment, so other engines get between two fragments; the callback refuses if
the site of the engine has raised abort (`Callback`), and may refuse otherwise.
`voice` says whether SetObjectToken found the token's name in the list
or has kept the first voice.  `VoiceMissed` says when that happens: if the
last call of the pipe client, *by any engine*, was a stopped speak, or there is no server
behind the handle.

### ServerLifecycle

`holders` is the set of processes with a handle on the server mutex; the mutex
exists while it is not empty, which is all anyone asks.  `isServerRunning` is two
steps, opening and closing the handle, since a server that starts in between
takes the looker for a server.  The launch mutex is abandoned, hence free, when its
owner exits.  The counters of the two loops are in the model with the limits as
parameters (`Attempts` 5 and `Polls` 20 in the code).  `MCServerLifecycle` adds
`calm`, true until the first exit, crash, refused connection, failed initialisation or
shutdown: `LaunchServes` promises a pipe only while it is true, so one run can have faults
and still say that a launch works when there are none.

`shutdownServer` looks for the server first and returns if there is none (`ProbeUp`); then it
takes the open pipe or runs the loop of attempts, which may launch a server only to end it
(`closing`); and it waits for the end of the mutex whether it got a connection or not
(`NotConnected`, `WaitDown`).  `Unregisters` says which clients may call it; in the run one does
while the other one may launch.

A look at the server mutex keeps it alive.  If that happens while a server is just leaving,
the next server takes itself for a duplicate and exits; the call that launched it fails after
its attempts, and the next call launches again.  The model contains this; `WaitsEnd` holds in it,
`LaunchServes` says nothing of it.

### WaveCapture

A State object is made when an engine object first speaks and deleted with it
(`InitState`, `DeleteState`; DestroyWindow works on the window's thread only, elsewhere it
fails and the window with its messages stays, `strays`).  Any thread may speak with any engine
that no other thread speaks with: the library is registered for that (`sapi/com.hpp:365`).  A
State has a message window from its first call on, which belongs to that thread; `posted`
counts the WM_REL_BUF messages that wait for it, and `hooked` is the State a thread speaks with,
which the window procedure takes for the owner of every message.  `crossed` is the set of threads
that have got messages posted by another thread.

`create_message_window` is two steps, since GetClassInfo and RegisterClass have no lock: of two
threads that find no class the second is refused (`RegisterClass`), has no window and goes on; the
messages of its buffers are lost.  `SystemFails` says whether Windows may also refuse a class, a
window (`CreateWindow`) or a hook (`InstallHooks`): the code looks at none of these answers.  The
hooks are installed once for the process, by a flag without a lock, so two threads may both do it;
where Windows has refused them the engine plays by itself (`TtsWavPlays`).
The engine is external: it writes at most `Pool` buffers ahead, pumps the messages
of its thread and returns when all its buffers came back, as the comment above
`on_rel_buf` says.  Sonic is a store that gives back any part of what it has.

### WaveBuffer

Sizes are in samples.  The buffer starts with `InitialCapacity` and doubles once per
piece, whatever the piece's length (`Full`, `Output`).  The Sonic stream is created
by the first call with a multiplier and kept, so what one utterance leaves in it
would be heard in the next; `WaveOutClose` and `FlushPiece` are the loop that
empties it.  `result` is what `bst_speak` returned, with the byte count of the header.
A buffer that Sonic does not take is output as it is (`Passthrough`).  The engine may open no
device at all; then `bst_speak` has no buffer, and with a header asked for it writes through a null
pointer, which ends the process (`Return`, "crashed").

### SpeakFragments

A fragment is a kind (text to speak, bookmark, passed over) and its rate adjustment.
The site may raise each action before any step of the engine.  `audio` records for
every byte taken its fragment, `events` the offset the code computes, and
`EventsAligned` compares the two.  The speed 2^(rate/8) is split between the engine's
own rate, from -100 to 100, and Sonic (`SpeechRates`); both are counted in
steps of SAPI's rate, in which the code's arithmetic is exact except for the
rounding of a half, which is left open.  `SettingsCurrent` says that the two parts
make up the speed asked for, and the gain (`FragmentGain`) is that of the user's volume and the
fragment's together, up to the rounding of each.  An exception while a fragment is prepared or
in the bridge ends the call with an error (`Throw`), between any two stops.  The pitch is not
modelled.

### ComServer, Registration and their composition

Every access to a reference count or to the counter of objects is an atomic
operation of the code and so an action of its own; a call is a sequence of them
(`call[c].pc`), among which other threads act.  A creation may fail at `operator new`
(`NewFails`), at QueryInterface, or, in Clone and OpenKey, where the object that has been made and
counted is filled (`QueryFails`); `Next` of the enumerator is the loop
`FetchOne`–`New`–…–`Unref`, with `Drop` and `FetchFails` when a token cannot be made.
The SpObjectToken that SAPI wraps around a data key owns one reference to the key
and is the same thing as the key here.  SAPI does not call one enumerator from two
threads at once, and the model does not either (`Busy`); the code would not notice.

`token_` of an engine is a smart pointer without a lock, and two threads may share the engine.
SetObjectToken is four steps, reading the old pointer, storing the new one, adding a reference to
what is stored then, and releasing the old one; GetObjectToken reads the pointer for AddRef and once
more for what it gives out.  Two such calls that meet on one engine, one of them to replace the token,
make `overlapped` true for good: after that a token may be deleted too early, or never, and
the properties promise nothing more.  `com_tokens_race` shows it (section 6); up to that moment every
property holds, whatever other steps come between.

`Registration` has one action for every write to the registry, each of which may
fail or be the last.  Removing the enumerator's entry is tried, and a failure is
ignored (`GoOn`): then the classes go, the entry stays and the call answers S_OK.
`leftBehind` records this, and `ListedUsable` says that it is the only way to a
dangling entry.  The model also shows that an unregistration which failed half-way
cannot be completed by repeating it once the first class is gone, since removing
a missing key is an error (`Write` demands something to remove).

`MCComServer` composes the two: applications use the library while it is registered
whole, the registration changes while nobody uses it.

### NvdaDriver

Requests are numbers; every step of the background thread that another thread can
observe is an action.  The model contains the code's behaviour that a cancel which
falls between the dequeue and `self.speaking = True` is undone (`missed`), and
`AtMostOneLate` is about the utterances a cancel does reach.  The player is external: `Room`
pieces fit into it, `feed` waits for room and `idle` for silence, both for ever while the
player is paused; `stop` empties it and ends the pause.  The engine, `feed` and `idle` may raise:
inside `on_audio` the exception does not pass through the engine (`FeedFails`), elsewhere
`BgThread.run` logs it and takes the next request (`Raises`), and `failed` keeps the utterance, whose
end NVDA may never hear of or hear of late, as the player still has what it was fed.

### SpeakWindow

The message queue is a sequence; a hot key is one message that may post another, and comes
before or behind the rest.  The window is destroyed by the exit command or by WM_CLOSE, at
any time, also by a loop inside TtsWav (`Destroy`).
The prefixes are records of the numbers the strings hold, and of which number it is.

## 3. Runs

| Run | Instance | Shows |
|---|---|---|
| `one_client` | 1 client with 2 engines, 3 utterances of at most 2 chunks, Speak calls of 1 or 2 fragments, 3 units per stream, 1 crash | `Framing`, `Complete`, `VoiceMissed`, `ImplementsSession` |
| `two_clients` | 2 clients, 1 utterance and 1 chunk each, 2 units per stream, 1 crash | `NoStaleStop`, `CallReturns`, `ServerRecovers` |
| `lifecycle` | 2 clients, 3 server processes, 2 attempts, 1 poll, exits, crashes, one client that shuts the server down | `TypeOK`, `HandlesAccounted`, `AtMostOneServer`, `LaunchExclusive`, `WaitsEnd`, `LaunchServes` |
| `wave_capture` | 2 engines that any of 2 threads may use; 2 buffers, 2 in the pool; classes, windows and hooks refused; fairness | `BuffersComeBack`, `NoStaleMessage`, `NothingLost`, `SilentAfterStop`, `EverySpeakReturns` |
| `wave_any_thread` | 1 engine, 2 threads, nothing refused | violation of `ReturnsOnAnyThread` |
| `wave_first_windows` | 2 engines, 2 threads, nothing refused | violation of `ReturnsOnOwnThread` |
| `window_keys` | 4 voices, 4 presses of any key or menu choices | `TypeOK`, `PitchFollowsKeys`, `SelectionMatches`, `SettingsSurvive` |
| `speak_call` | 2 fragments of every kind, 2 pieces of 2 bytes, 2 changes by the site, exceptions, two rates and two adjustments, two volumes of either kind | `EventsAligned`, `AbortStopsWrites`, `SettingsCurrent`, `SkipEndsCall`, `AbortReturns` |
| `nvda_threads` | 3 utterances with 1, 3 and 0 indexes, 2 pieces each, room for 2 pieces, 2 pauses, any cancels and exceptions, one terminate | `NothingLeftWaiting`, `AtMostOneLate`, `InOrder`, `EveryRequestEnds`, `TerminateEnds` |
| `buffer_calls` | 3 calls of either kind, 3 buffers of at most 2 samples, capacity 4 | `InBounds`, `WholeUtterance`, `SilentAfterRefusal` |
| `com_objects` | 2 threads, 4 objects, 2 voices, registration with failures; a second beginning with an engine and two tokens shared; `NoOverlap` | `HeldAlive`, `ModuleNeeded`, `NothingLeaks`, `EveryVoiceOnce`, `ListedUsable` |
| `com_tokens_race` | the second beginning of `com_objects` alone, without `NoOverlap` | violation of `NeverDangling` |

Why the bounds are enough.

* *Bridge.*  Two utterances are needed to see something left over from the first
  harm the second, and a third adds no kind of left-over, as the server keeps one
  flag.  Two chunks are needed for a gap and for a chunk after a stop.  A stream of
  three units holds a whole audio message; a stream of two, the least in which a
  chunk can be read whole, blocks its writers often.  Two clients compete for the
  one instance.  Two engines are what one can leave for the other; with three utterances one
  of them can be stopped, another spoken after a look-up and a third stopped again.  Engines
  are interchangeable, and the run uses that symmetry: it checks invariants
  and what single steps may do, no liveness.
* *Lifecycle.*  Two clients race to launch; two server processes race for the mutex;
  a third lets a launch fail and be repeated.  Two attempts tell the first, which
  launches, from the others; one poll is the least that can find or miss the mutex.
* *Wave.*  Two threads and two engines are what one message can be mistaken between, and
  what a race for the window class or for the hooks takes; with two buffers in the pool two messages
  may be on their way at once.  That the engine waits in the middle of an utterance, which takes
  one buffer more, makes the run five minutes long; the safety properties are proved
  for every pool and every number of buffers.
* *Buffer.*  The capacity of four is the least that `InBounds` allows for the
  header and pieces of four samples (a longer piece is excluded, by the same assumption as
  in `NeverOverruns`), and two calls are what a rest in the stream needs, a third one comes after both.
* *Speak.*  Two fragments separate "ends this fragment" from "ends the call"; pieces
  of two bytes can be taken in part.  The rates are one beyond the lower limit of
  the engine's own rate, one within, one between two of its values, and one above
  SAPI's maximum.  The volume of 51 is one whose half is rounded, for both volumes.
* *COM.*  Two voices are the least with which a second token can fail after the first.
  Four objects are what an engine with a token that gets another one takes (a
  key must be open at that time); `LastObject` allows the fourth only while one
  thread uses the library, `Settled` and `Unused` keep the
  registry still while somebody does.  Threads and objects are interchangeable, so
  the run uses symmetry, and it checks invariants only.  `NoOverlap` stops where two calls have
  met in `token_`, after which every property would be true by its exemption.
  The second beginning (`TokensInit`, `sharing`) is where two threads hold an engine, both tokens and a
  key, and make nothing more, so that both replace tokens, which `LastObject` keeps out of the first.
* *Window.*  Four voices: an ordinary one, the one nearest each pitch limit, and
  GHOST.  Four presses are a hot key overtaking the command of another one and two
  more.
* *NVDA.*  Three utterances: one playing (or raising), one cancelled, one that follows.  A single index
  is not reported early, several are.  With room for two pieces the thread meets a paused
  player in feed and in idle; two pauses let a second one fall into the next utterance.

Each bound is a CONSTANT that occurs in a guard and is marked as a bound where it
is declared, or a definition of the MC module.

Deadlock is not checked where the bounds on calls make the system stop, or where it
really may (every client idle, the program ended), which is every run here.

## 4. Fairness

`PipeBridge` and `ServerLifecycle`: weak fairness of each client's current call and of
each server's thread, that is, the operating system schedules threads that can
run.  No fairness makes a client call, leave or crash, and none makes a peer
answer: an answer comes because the server's thread runs.  In `ServerLifecycle` the
attempt to connect and the attempt's failure share one fairness condition, so
nothing says that a client ever gets the pipe, only that its call ends.
`WaveCapture`: a thread in speak_async runs; the engine's writing, pumping and
returning are in the same condition, since the engine decides which it does.  A thread
that is idle need never pump a message.
`SpeakFragments`: the engine's thread runs; the site may take no byte for ever.
`NvdaDriver`: both threads run; the player plays what it was fed while it is not paused.  Nobody need ever resume it:
`EveryRequestEnds` allows for a player that stays paused, `TerminateEnds` does not need to.
The other modules check safety only and assume no fairness.

## 5. Proofs

All theorems are about the specification without fairness, for any values of the
constants that satisfy the assumptions of the module.  Every invariant was checked
by TLC, with its strengthening, before it was proved.  Where a strengthening is a
large conjunction, it has one part for what an actor knows by itself and one for what
ties two actors together; the lemmas then say which objects a step touches and
that all others keep their part, so that an action is looked at only where
it acts.

### PipeBridgeProofs

For any number of clients, calls and chunks, any quota of the streams and any number of
crashes:

* `TypeCorrect`: `TypeOK`.
* `MessagesStayWhole`: `Framing`.
* `StopIsSpent`: `NoStaleStop`.
* `NothingMissing`: `Complete`.
* `HearsItsOwn`: what a callback has heard are the chunks 1, 2, ... of its own text
  (`OwnChunks`; the part of `ImplementsSession` about `heard`).

The argument.  `Framing` speaks of the first unit of a stream, so its proof has to
know the second, and so on: `Framed` says of every unit in either stream that it is the
one that has to follow its predecessor (`Follows`, `Chained`), the first one
depending on whether the reader waits for a body; and of the units the handler has yet to write,
and those the client has yet to send, that they continue the stream.  `NoStaleStop` holds
because the flag is lowered before a synthesis and only a header read raises it.
`Complete` needs the way of one utterance through all places it may be in: its command in one
stream, its text with the handler, its chunks in `out` and in the other stream, its
end.  `Ordered` says that there is one SPEAK at a time and
nothing of an utterance behind its end or outside a speak call; a failed speak closes the
pipe, which is what makes this true.  `Counted` says that the chunks heard are the
first m, those in the stream m + 1 to n, those with the handler n + 1 to the last made
(`Sound`), so that the end is read when none is missing.
Assumptions: `NoClientAssumption`, `BoundsAssumption`.

### ServerLifecycleProofs

For any number of clients and server processes and any limits, `IInv` is an
invariant of `ServerLifecycle`, and with it `TypeOK` (`TypeCorrect`),
`AtMostOneServer` (`OneServer`), `HandlesAccounted` (`NoHandleLost`),
`LaunchExclusive` (`OneLauncher`) and `PipeNeedsMutex` (`PipeImpliesMutex`).

The argument.  A server is in charge only if it saw no mutex, that is, `holders` was
empty; so one server only, *provided* every server in charge stays in `holders`.
That is `HandlesAccounted`, which counts the handles of the lookers too and so needs
every action.  With it `AtMostOneServer` is inductive: at the step of
`CreateServerMutex` an empty `holders` means that no server is in charge.
`PipeNeedsMutex` follows without induction.  `LaunchExclusive` is inductive with the
type of `launchOwner`.  `TypeOK` needs `LimitsKept` (a client at an attempt has one
left, a client at a poll has not passed the limit), and the steps that look at
`client[s]` need `ClientServed` (a server serves a client exactly at "serving").
Each preservation lemma has one step per action; `ClientStepFrame` and
`ServerStepFrame` say what the actions leave alone.
Assumptions: clients and servers are different processes, `Nobody` is no client,
the limits are numbers (`ActorsAssumption`, `LimitsAssumption`).

### WaveCaptureProofs

For any engine objects, threads, buffers and pool, any use of the engines by the threads, and
whatever Windows refuses:

* `TypeCorrect`: `TypeOK`.
* `NoBufferIsLost`: `BuffersComeBack`, for TtsWav on the thread of the engine's window.
* `EveryMessageHandled`: `NoStaleMessage`, for threads that have got no messages from others.
* `SoundIsKept`: `NothingLost`.
* `RefusalHolds`: the action property `SilentAfterStop`.

The conditions in `BuffersComeBack` and `NoStaleMessage` are part of the properties and not
assumptions: which thread uses which engine, and which thread has sent messages to which other, is
free.  The runs `wave_any_thread` and `wave_first_windows` show that without the conditions they
would be false (section 6).

The argument.  `Returned` says that the messages waiting for a State's window are at least as
many as the buffers its call has written there and not got back, and exactly as many on a thread
that has none from others; a call returns when that
number is zero, so nothing is left to the next.  This needs the window procedure to take
the right State for the owner of a message, which is `Callers`: a State that is hooked is that
of the thread that calls, and no two threads speak with one State.  `Unmixed` says that windows left
behind by deleted States have messages only on threads that have got some from others.  `Caught`
says that a thread in the engine has passed the installation of the hooks, or Windows has refused
one, and `Sounded` follows what was written through the Sonic stream to the callback.
Assumptions: `NoneAssumption`, `BuffersAssumption`, `SystemAssumption`.

### SpeakWindowProofs

For any voices within the limits of the pitch and any number of presses:

* `TypeCorrect`, `PitchInStep` (`PitchFollowsKeys`), `SelectionInStep` (`SelectionMatches`).
* `SettingsOutliveEngines`: the action property `SettingsSurvive`.

The argument.  The three invariants are inductive together; the two about the pitch and the
selection need the types.  `Limits` says that no key takes a setting out of its range.
`SelectionMatches` speaks of a voice that is chosen and one that is still to be chosen by a message
in the queue: `Posted` and `Dispatched` say when the queue holds such a message.  `Recreated` says
what an engine that is made anew for a text keeps of the one destroyed: the volume, and the
speed unless the text has a voice's parameters in front.
Assumptions: `VoiceAssumption`, `RangeAssumption`.

### WaveBufferProofs

For any engine, any sizes and any number of calls:

* `TypeCorrect`: every size stays a number; the count in the header is never negative.
* `NeverOverruns`: `InBounds`, *under the assumption* `PiecesFit` that the first
  capacity is no smaller than the header and the longest piece stored at once.  In the
  code the longest piece is what Sonic may return for one buffer of the engine, or the
  1024 samples of the flush, against 8192 samples; the length of the engine's buffers
  is not in the repository, hence the assumption.
* `ReturnsItsOwn`: `WholeUtterance`, and no call leaves sound in the stream.
* `RefusalIsFinal`: the action property `SilentAfterRefusal`.

The strengthenings: `Base` (types, and the size counts the header, `Sized`); `Room`
(besides the bound, the capacity is never below the longest piece, which is why
doubling once suffices: a buffer that is not yet full has at most its capacity,
and what is added is at most its capacity); `Contents` (`Accounted`: what was made is
what was stored and what the stream still holds).  Each was model-checked before it
was proved.

### SpeakFragmentsProofs

For any fragments, any sounds, any settings and a site that does what it likes:

* `EventsLieRight`: `EventsAligned`.
* `AbortStops`: `AbortStopsWrites`.
* `SettingsKept`: `SettingsCurrent`.
* `SkipIsFinal`: the action property `SkipEndsCall`.

The argument.  An event is put at `written`, so it is right if `written` counts the
bytes the site took, and if no byte of a later fragment has come yet and none of an
earlier one comes after it.  That is `Counted`; with it `Aligned`, which is
`EventsAligned` for all pairs of a byte and an event, is inductive: both are appended
to, never changed.  `Quiet` says that at "write" the decision was made before any
abort, so that the Write under way is the only late one.  `SkipsCounted` makes a
pending skip and a completed one exclude each other, and `SkipEnds` says where the
call is once one is completed: returned, or in an engine whose callback has
refused.  `SettingsCurrent` is inductive with the types; `RatesMeet` shows that the two
parts of `SpeechRates` make up the rate, with half a step of the engine's rate left to
rounding, and `GainRounds` that of the gain.
Assumptions: `BoundsAssumption`, `SettingsAssumption` (rates are integers,
volumes are in 0..100).

### ComServerProofs

For any threads, objects and voices, each up to the moment in which two calls meet in `token_` of
one engine, one of them to replace it (`overlapped`):

* `TypeCorrect`: `TypeOK`; no count falls below zero.
* `ReferencesLive`: `HeldAlive`.
* `UnloadIsSafe`: `ModuleNeeded`.  It speaks of references and locks; a thread that has neither is
  in the library with a zero counter at two places (section 7).
* `AllGivenBack`: `NothingLeaks`.
* `VoicesInOrder`: `EveryVoiceOnce`.

The exemption is in the properties themselves, since the code does not do better:
`com_tokens_race` violates `NeverDangling`, which is `HeldAlive` without it.

The argument.  A count is right if it is a cardinality: `refs[o]` is the number of threads
that hold o and of engines that count for it (`Referred`), `count` that of the objects whose
constructor has counted them in and whose destructor has not counted them out, and of
the locks (`CountedIn`).  An engine counts for the token it has, and while SetObjectToken is between
its steps for the old one still, and for the new one only when it has added its reference
(`Pointed`).  The first is false while a call has an object for itself: one that is
being created has one or two references that nobody holds, the tokens that Next has
collected have one, an object that is deleted has none.  `Owned` says so call by call, and that
nobody else has a reference to such an object; `Exclusive` that no two calls have the same
one.  `CallSound` says what each position of a call implies about its fields, `TokenSound` what it
implies about `token_` while no other call is in its way.  A
release that finds a count of one is then that of the only holder (`LastOne`), and what it
deletes is nobody's.  `Numbers(0, index)` is the list of voices an enumerator has
passed, in every state, since a Next that fails leaves both alone.  `Inv` is all of this, unless
`overlapped`.
Assumptions: `ObjectsAssumption`, `VoicesAssumption`; the calls on one enumerator do not
overlap (`Busy` in the model).

For the composition with `Registration`:

* `EnumeratorUsable`: `ListedUsable`.

A registration in progress has written, or will have written, every entry of both
classes when it comes to the enumerator's (`ClassesBefore`); an unregistration comes to an entry of
a class only when the enumerator's is gone or left behind (`ListBefore`).  Both are
kept by every write and by an end at any place, since the calls only add or only remove.

### NvdaDriverProofs

For any number of requests, pieces, indexes and pauses and any room in the player:

* `CancelEmpties`: `NothingLeftWaiting`.
* `OnePieceLate`: `AtMostOneLate`.
* `ToldInOrder`: `InOrder`.

The argument.  `NothingLeftWaiting` speaks of the moment after the cancel; it is inductive
as `Fresh`, which says it of every state in which the main thread is past its loop, as
only the main thread puts anything into the queue.  `AtMostOneLate` needs to know
that the flag stays down for an utterance a cancel has reached: `Reached` says so in the
engine and in feed, and holds because only the background thread raises the flag, before an
utterance; `missed` marks the one whose cancel came before that.  `LastPiece` then says that
after the late piece the engine finds the flag down.
`InOrder` needs to know that the requests in the queue ascend and are later than the current
one (`Ascending`); that the player's only end is that of the utterance the thread waits for, and
comes last, besides the ends of those that raised in idle (`OneDone`), which is why the thread waits
for the player to be idle; and how far NVDA has been told of the current one at each position of the
thread (`Told`).

### Not proved

* Liveness under fairness: `CallReturns`, `ServerRecovers`, `WaitsEnd`, `LaunchServes`,
  `EverySpeakReturns`, `AbortReturns`, `EveryRequestEnds`, `TerminateEnds`.  It needs ENABLED,
  which is out of the prover's reach.
* `ImplementsSession` as a whole, and `VoiceMissed`, which rests on the same list of answers.
  `Behind` selects the answers from the streams, and what a selection makes of
  a sequence that is appended to or taken from is an induction over data, which is
  out of reach too.  `OwnChunks`, `Framing` and the one SPEAK at a time of `Ordered` are the
  parts of the refinement that are proved.

No module declares a RECURSIVE operator.  Every other property that a passing run
checks is stated by a theorem.

## 6. Findings

* `wave_any_thread`: the message window belongs to the first thread that speaks,
  the voice is registered for any (`sapi/b32_wrapper.cpp:326`, `sapi/com.hpp:365`);
  a call on another thread does not return.
* `wave_first_windows`: two engines that speak for the first time on two threads at once; the second
  thread to register the window class is refused (`sapi/b32_wrapper.cpp:107`), goes on without a
  window, and does not return.
* `com_tokens_race`: two threads that set, or set and get, the token of one engine at the same time
  leave it, or a caller, with a token that is deleted (`sapi/ISpTTSEngineImpl.cpp:200`, `:225`).  SAPI
  sets the token once, before it gives the engine to anybody.

Two more disagreements stood out while modelling; they are single lines that need no run:

* choosing GHOST writes the voice's pitch into the rate prefix (`src/BeSTspeak.cpp:128`), so it is
  spoken without its rate and with the pitch of the voice before, against the comment at
  line 81; `SetVoice` has it so, and `PitchFollowsKeys` excepts GHOST;
* the hook of the console wrapper asks Sonic for as many samples as the engine's buffer has bytes
  (`console/src/b32_wrapper.cpp:146`); with a stream that holds enough, up to twice the buffer is
  written.  `ThroughSonic` has it so, and `InBounds` counts on pieces twice as long.

Behaviours that are in the models and that nothing in the repository forbids:

* a stop does not shorten the synthesis of its own utterance;
* getVoices fails once after a stopped speak, whichever engine was stopped, and for as long
  as its broken handle is kept after a crash; SetObjectToken then silently chooses voice 0;
* the list that such a getVoices leaves unread answers the next getVoices, and so on until a
  speak call comes (`behind` in `SpeechSession`);
* a cancel of NVDA between the dequeue and the flag is undone;
* an utterance of NVDA that raised is not reported as done, or only when the player comes to it;
* a text of the window whose engine cannot be created loses volume and speed for those after it
  (`SettingsSurvive` exempts it);
* a look at the server mutex while a server leaves makes the next server exit (`sapi/pipe_client.cpp:70`);
* fast presses of F11 are lost: WM_HOTKEY counts at once, and the WM_COMMAND it
  posts sets the count back when it is handled (`src/BeSTspeak.cpp:446`);
* Speak answers S_OK in silence when no server can be reached;
* an unregistration may leave the enumerator's entry behind and answer S_OK.

## 7. Not modelled

* The text prefix of the engine wrapper and its sanitising, the pitch of a fragment (powers in
  floating point) and the words of a text: conversions that no state depends on.
* Loading and freeing the libraries (`init`, `bst_init`, `bst_free` beyond the State object).
* The first call of the voice lists.  `count_voices` (`sapi/b32_wrapper.cpp:239`) has no lock, so
  two first calls may count the voices twice or lose counts; the number stays what it became,
  and the lists and the prefix rely on it.
* The look-up of values in a data key: it changes nothing.
* NVDA's settings, which store numbers.  Two things a reader of the code may want to know:
  `rateBoost` is read when an utterance begins, every other setting when it is asked for
  (`bestspeech.py:269` and `:255`); and `self.voice = "fred"` is said to set all other
  parameters (`:119`), but passes over those that cannot be read yet, which in `__init__` are
  all of them (`:210`).
* Dialogs and the edit control of the window; which window has the focus; what the engine and its
  unloaded library do when a hot key dispatched inside TtsWav destroys them under it.
* Messages that nobody sends.  No client sends CMD_PING, so there is no PONG.  RESP_ERROR answers a
  SPEAK shorter than its own length or an unknown command (`sapi/bestspeech_server.cpp:91`, `:98`,
  `:161`), which PipeClient cannot write as long as messages stay framed, and `Framing` holds; so the
  branch that reads it (`sapi/pipe_client.cpp:278`) is not there either.
* The quit message that the end of a message window posts to its thread (`sapi/b32_wrapper.cpp:94`):
  what it does to the loops of the application and the engine is outside the repository.
* Memory that runs out in the wrappers.  In the SAPI wrapper the result of the Sonic write is ignored
  (`sapi/b32_wrapper.cpp:155`), so that buffer would be lost, and `speak_async` is noexcept, so an
  exception ends the 32-bit process; in the console wrapper `malloc` and `realloc` are not looked at
  (`console/src/b32_wrapper.cpp:114`, `:133`).
* When the engine opens no device, `bst_speak` writes its header through a null pointer
  (`console/src/b32_wrapper.cpp:262`).  The model lets it happen and ends there (`crashed`); nothing in
  the repository says when the engine does so, and no property forbids it.
* A piece of sound longer than the first capacity of the console wrapper's buffer, which would overrun
  it (`:131`): the engine decides how long its buffers are.
* `stop` and `pause` of NVDA's player raising in the main thread, and an exception of NVDA's own
  handlers of indexes.
* Two places where a thread is in the library with a zero counter: DllGetClassObject before the
  factory is counted, and Release after the last object is.  That COM waits for both before it unloads
  a library is COM's rule; the counter cannot see them.
* The debug log, the vendored libraries, and the console tools, which call the engine once.

`components` in `PROJECT.json` lists what of each part is missing.

## 8. Plan

Done, in this order: `PipeBridge` with `SpeechSession`, `ServerLifecycle` with its
proofs, `WaveCapture`, `SpeakWindow`, `SpeakFragments`, `NvdaDriver`, `WaveBuffer` with
its proofs, `ComServer`, `Registration`, `VoiceHost` with the present `SpeechSession`, the
volume of a fragment, the pause of the player, `SpeakFragmentsProofs`,
`NvdaDriverProofs`, `PipeBridgeProofs`, `WaveCaptureProofs`, `SpeakWindowProofs`,
`ComServerProofs` and `InOrder`; then the race for the window class and the refusals of Windows
in `WaveCapture`, the steps of `token_` and the failures of filling in `ComServer`, the exceptions in
`NvdaDriver` and `SpeakFragments`, and shutdownServer's own look and wait in `ServerLifecycle`.  Next:

1. The step simulation of `SpeechSession`.  The answers still to come are never more than
   two; a definition of `Behind` from the positions of the answers and their number, instead of a
   selection, could be reasoned about with facts on finite sets.  It belongs into
   `PipeBridgeProofs`.
2. With it `VoiceMissed`, and in `VoiceHost` that `owner` is the thread whose call is in
   progress.
3. In `Registration`, that a failed unregistration cannot be completed by repeating it, as
   a property of its own.

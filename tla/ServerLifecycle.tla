-------------------------- MODULE ServerLifecycle --------------------------
(***************************************************************************)
(* How BestspeechServer processes come and go: the connection attempts of  *)
(* the clients, launchServer, and main() of the server.  Two named mutexes *)
(* keep order.  The launch mutex is locked by its owner.  The server mutex *)
(* is never waited for: it exists while any process has a handle on it,    *)
(* and its existence is all that matters.  A client that asks whether the  *)
(* server runs has a handle on it for an instant, too.                     *)
(***************************************************************************)
EXTENDS Integers, FiniteSets

CONSTANTS
    Clients,
    Servers,     \* the server processes there can be, one per CreateProcess
    Nobody,      \* the launch mutex is free
    Attempts,    \* iterations of ensureConnected's loop (5 in the code)
    Polls,       \* waits of 100 ms for the server mutex (20 in the code)
    Faults,      \* whether clients exit, servers crash, initialisation fails
    Unregisters  \* the clients that may unregister the library, which shuts
                 \* the server down

ASSUME ActorsAssumption == Clients \cap Servers = {} /\ Nobody \notin Clients
ASSUME LimitsAssumption == Attempts \in Nat \ {0} /\ Polls \in Nat
ASSUME SwitchesAssumption == Faults \in BOOLEAN /\ Unregisters \subseteq Clients

VARIABLES
    cpc,          \* where a client stands
    attempt,      \* ensureConnected's loop counter
    closing,      \* it is shutdownServer that has called ensureConnected
    polled,       \* launchServer's or shutdownServer's loop counter
    launchOwner,  \* who has locked the launch mutex
    holders,      \* processes with a handle on the server mutex
    spc,          \* where a server process stands
    client        \* the client a server serves, or Nobody

clientVars == <<cpc, attempt, closing, polled, launchOwner>>
vars == <<clientVars, holders, spc, client>>

MutexExists == holders # {}

(* Servers past the ERROR_ALREADY_EXISTS test, and those with an instance  *)
(* of the pipe.                                                            *)
InCharge == {"loading", "noPipe", "listening", "serving", "leaving"}
HasPipe == {"listening", "serving"}
PipeExists == \E s \in Servers : spc[s] \in HasPipe

(* Client states with a handle on the server mutex, states that own the    *)
(* launch mutex.                                                           *)
Looking == {"seen1", "seen2", "seenPoll", "seenDown", "seenUp", "seenOpen"}
Launching == {"probe2", "seen2", "spawn", "poll", "seenPoll"}

(* Client states with an open pipe: between calls, or in shutdownServer.   *)
PipeOpen == {"connected", "seenOpen", "shutting"}

(* A loop counter is set back when its loop ends.                          *)
GoTo(c, s) == cpc' = [cpc EXCEPT ![c] = s]

(***************************************************************************)
(* The client: ensureConnected.                                            *)
(***************************************************************************)
Ensure(c) ==
    /\ cpc[c] = "idle"
    /\ GoTo(c, "attempt")
    /\ UNCHANGED <<attempt, closing, polled, launchOwner, holders, spc, client>>

Connect(c, s) ==
    /\ cpc[c] = "attempt" /\ spc[s] = "listening"
    /\ GoTo(c, IF closing[c] THEN "shutting" ELSE "connected")
    /\ spc' = [spc EXCEPT ![s] = "serving"]
    /\ client' = [client EXCEPT ![s] = c]
    /\ attempt' = [attempt EXCEPT ![c] = 0]
    /\ UNCHANGED <<closing, polled, launchOwner, holders>>

(* There is no connection, or none any more: the call ends, except that of *)
(* shutdownServer, which waits for the end of the server all the same.     *)
NotConnected(c) ==
    /\ GoTo(c, IF closing[c] THEN "waitDown" ELSE "idle")
    /\ attempt' = [attempt EXCEPT ![c] = 0]

(* The next iteration, or false after the last.                            *)
\* Defect: <= for <.
OneAttemptMore(n) == n > Attempts
NoAttemptLeft(n) == n = Attempts

NextAttempt(c) ==
    /\ IF NoAttemptLeft(attempt[c] + 1)
         THEN NotConnected(c)
         ELSE GoTo(c, "attempt") /\ attempt' = [attempt EXCEPT ![c] = @ + 1]
    /\ UNCHANGED closing

(* ERROR_PIPE_BUSY, and the second given to WaitNamedPipe passes; or       *)
(* ERROR_FILE_NOT_FOUND on an attempt that is not the first.               *)
AttemptFails(c) ==
    /\ cpc[c] = "attempt"
    /\ \A s \in Servers : spc[s] # "listening"
    /\ PipeExists \/ attempt[c] > 0
    /\ NextAttempt(c)
    /\ UNCHANGED <<polled, launchOwner, holders, spc, client>>

(* Any other error: no further attempt.                                    *)
ConnectRefused(c) ==
    /\ Faults /\ cpc[c] = "attempt"
    /\ NotConnected(c)
    /\ UNCHANGED <<closing, polled, launchOwner, holders, spc, client>>

(* ERROR_FILE_NOT_FOUND on the first attempt: launchServer is called.      *)
NoPipe(c) ==
    /\ cpc[c] = "attempt" /\ attempt[c] = 0 /\ ~PipeExists
    /\ GoTo(c, "probe1")
    /\ UNCHANGED <<attempt, closing, polled, launchOwner, holders, spc, client>>

(* launchServer returns; its result is ignored.                            *)
LaunchReturns(c) ==
    /\ NextAttempt(c)
    /\ polled' = [polled EXCEPT ![c] = 0]
    /\ UNCHANGED <<spc, client>>

Release(c) == launchOwner' = Nobody

(* isServerRunning closes the handle it has opened.                        *)
\* Defect: it does not.
HandleLeaked(c) == UNCHANGED holders
CloseHandle(c) == holders' = holders \ {c}

(***************************************************************************)
(* The client: launchServer.                                               *)
(***************************************************************************)
(* isServerRunning before the launch mutex is taken.                       *)
Probe1(c) ==
    /\ cpc[c] = "probe1"
    /\ \/ MutexExists /\ holders' = holders \cup {c} /\ GoTo(c, "seen1")
       \/ ~MutexExists /\ UNCHANGED holders /\ GoTo(c, "want")
    /\ UNCHANGED <<attempt, closing, polled, launchOwner, spc, client>>

Seen1(c) ==
    /\ cpc[c] = "seen1"
    /\ CloseHandle(c)
    /\ LaunchReturns(c)
    /\ UNCHANGED launchOwner

(* WaitForSingleObject on the launch mutex; a mutex abandoned by a process *)
(* that exited is free.                                                    *)
\* Defect: the answer of the wait is not looked at.
LaunchMutexUnchecked == TRUE
LaunchMutexFree == launchOwner = Nobody

TakeLaunchMutex(c) ==
    /\ cpc[c] = "want" /\ LaunchMutexFree
    /\ launchOwner' = c
    /\ GoTo(c, "probe2")
    /\ UNCHANGED <<attempt, closing, polled, holders, spc, client>>

(* The five seconds pass, or the executable is not there.                  *)
GiveUpLaunch(c) ==
    /\ cpc[c] = "want"
    /\ LaunchReturns(c)
    /\ UNCHANGED <<launchOwner, holders>>

(* isServerRunning again, now as the owner of the launch mutex.            *)
Probe2(c) ==
    /\ cpc[c] = "probe2"
    /\ \/ MutexExists /\ holders' = holders \cup {c} /\ GoTo(c, "seen2")
       \/ ~MutexExists /\ UNCHANGED holders /\ GoTo(c, "spawn")
    /\ UNCHANGED <<attempt, closing, polled, launchOwner, spc, client>>

Seen2(c) ==
    /\ cpc[c] = "seen2"
    /\ CloseHandle(c)
    /\ Release(c)
    /\ LaunchReturns(c)

Spawn(c) ==
    /\ cpc[c] = "spawn"
    /\ \E s \in Servers :
          spc[s] = "unborn" /\ spc' = [spc EXCEPT ![s] = "starting"]
    /\ GoTo(c, "poll")
    /\ UNCHANGED <<attempt, closing, polled, launchOwner, holders, client>>

(* CreateProcess fails (here also: the bound on processes is reached).     *)
SpawnFails(c) ==
    /\ cpc[c] = "spawn"
    /\ Release(c)
    /\ LaunchReturns(c)
    /\ UNCHANGED holders

\* Defect: the loop variable is not incremented.
SamePoll(n) == n
NextPoll(n) == n + 1

(* Up to twenty looks for the server mutex, 100 ms apart.                  *)
Poll(c) ==
    /\ cpc[c] = "poll" /\ polled[c] < Polls
    /\ \/ MutexExists /\ holders' = holders \cup {c} /\ GoTo(c, "seenPoll")
          /\ UNCHANGED polled
       \/ ~MutexExists /\ polled' = [polled EXCEPT ![c] = NextPoll(@)]
          /\ UNCHANGED <<holders, cpc>>
    /\ UNCHANGED <<attempt, closing, launchOwner, spc, client>>

SeenPoll(c) ==
    /\ cpc[c] = "seenPoll"
    /\ CloseHandle(c)
    /\ Release(c)
    /\ LaunchReturns(c)

PollsOver(c) ==
    /\ cpc[c] = "poll" /\ polled[c] = Polls
    /\ Release(c)
    /\ LaunchReturns(c)
    /\ UNCHANGED holders

(* A client process exits: its handles close, a mutex it owned is          *)
(* abandoned, its server's next read fails.                                *)
ClientExit(c) ==
    /\ Faults /\ cpc[c] # "idle"
    /\ GoTo(c, "idle")
    /\ holders' = holders \ {c}
    /\ launchOwner' = IF launchOwner = c THEN Nobody ELSE launchOwner
    /\ attempt' = [attempt EXCEPT ![c] = 0]
    /\ closing' = [closing EXCEPT ![c] = FALSE]
    /\ polled' = [polled EXCEPT ![c] = 0]
    /\ UNCHANGED <<spc, client>>

(***************************************************************************)
(* The server: main().                                                     *)
(***************************************************************************)
(* CreateMutex always yields a handle; ERROR_ALREADY_EXISTS makes the      *)
(* process close it and exit.                                              *)
\* Defects: the error code is not tested; it is an old one that is tested.
NeverADuplicate == FALSE
AlwaysADuplicate == TRUE
AlreadyExists == MutexExists

CreateServerMutex(s) ==
    /\ spc[s] = "starting"
    /\ holders' = holders \cup {s}
    /\ spc' = [spc EXCEPT ![s] = IF AlreadyExists THEN "duplicate" ELSE "loading"]
    /\ UNCHANGED <<clientVars, client>>

(* CloseHandle and exit: of a duplicate, of a server that could not load   *)
(* the engine, and of one that leaves its loop.                            *)
CloseServerMutex(s) ==
    /\ \/ spc[s] = "duplicate"
       \/ spc[s] = "loading" /\ Faults
       \/ spc[s] = "leaving"
    /\ holders' = holders \ {s}
    /\ spc' = [spc EXCEPT ![s] = "gone"]
    /\ UNCHANGED <<clientVars, client>>

EngineLoaded(s) ==
    /\ spc[s] = "loading"
    /\ spc' = [spc EXCEPT ![s] = "noPipe"]
    /\ UNCHANGED <<clientVars, holders, client>>

(* A failure of CreateNamedPipe changes nothing and is tried again after a *)
(* second, hence is no step.                                               *)
CreatePipe(s) ==
    /\ spc[s] = "noPipe"
    /\ spc' = [spc EXCEPT ![s] = "listening"]
    /\ UNCHANGED <<clientVars, holders, client>>

(* The client closes its end: the server offers the next instance.         *)
Disconnect(c, s) ==
    /\ cpc[c] = "connected" /\ client[s] = c
    /\ GoTo(c, "idle")
    /\ spc' = [spc EXCEPT ![s] = "noPipe"]
    /\ client' = [client EXCEPT ![s] = Nobody]
    /\ UNCHANGED <<attempt, closing, polled, launchOwner, holders>>

(***************************************************************************)
(* The client: shutdownServer, called with or without an open pipe.        *)
(***************************************************************************)
(* It asks whether the server runs, and returns at once if it does not.    *)
ProbeUp(c) ==
    /\ c \in Unregisters
    /\ cpc[c] \in {"idle", "connected"} /\ MutexExists
    /\ holders' = holders \cup {c}
    /\ GoTo(c, IF cpc[c] = "idle" THEN "seenUp" ELSE "seenOpen")
    /\ UNCHANGED <<attempt, closing, polled, launchOwner, spc, client>>

(* ensureConnected: the pipe that is open, or the loop of attempts, which  *)
(* may launch a server only to shut it down.                               *)
SeenUp(c) ==
    /\ cpc[c] \in {"seenUp", "seenOpen"}
    /\ CloseHandle(c)
    /\ GoTo(c, IF cpc[c] = "seenUp" THEN "attempt" ELSE "shutting")
    /\ closing' = [closing EXCEPT ![c] = TRUE]
    /\ UNCHANGED <<attempt, polled, launchOwner, spc, client>>

(* CMD_SHUTDOWN and its answer; the server's loop ends.                    *)
CloseInstance(s) ==
    /\ spc' = [spc EXCEPT ![s] = "leaving"]
    /\ UNCHANGED holders

Shutdown(c, s) ==
    /\ cpc[c] = "shutting" /\ client[s] = c
    /\ NotConnected(c)
    /\ CloseInstance(s)
    /\ client' = [client EXCEPT ![s] = Nobody]
    /\ UNCHANGED <<closing, polled, launchOwner>>

(* shutdownServer waits until the mutex is gone, twenty times 100 ms.      *)
WaitDown(c) ==
    /\ cpc[c] = "waitDown"
    /\ \/ MutexExists /\ polled[c] < Polls
          /\ holders' = holders \cup {c} /\ GoTo(c, "seenDown")
          /\ UNCHANGED <<closing, polled>>
       \/ ~(MutexExists /\ polled[c] < Polls)
          /\ GoTo(c, "idle") /\ UNCHANGED holders
          /\ closing' = [closing EXCEPT ![c] = FALSE]
          /\ polled' = [polled EXCEPT ![c] = 0]
    /\ UNCHANGED <<attempt, launchOwner, spc, client>>

SeenDown(c) ==
    /\ cpc[c] = "seenDown"
    /\ CloseHandle(c)
    /\ polled' = [polled EXCEPT ![c] = @ + 1]
    /\ GoTo(c, "waitDown")
    /\ UNCHANGED <<attempt, closing, launchOwner, spc, client>>

(* The client of this instance is gone: read fails, the instance is closed.*)
ClientLost(s) ==
    /\ spc[s] = "serving" /\ cpc[client[s]] \notin PipeOpen
    /\ spc' = [spc EXCEPT ![s] = "noPipe"]
    /\ client' = [client EXCEPT ![s] = Nobody]
    /\ UNCHANGED <<clientVars, holders>>

(* A server process dies; its client finds out at its next write or read.  *)
ServerCrash(s) ==
    /\ Faults /\ spc[s] \notin {"unborn", "gone"}
    /\ holders' = holders \ {s}
    /\ spc' = [spc EXCEPT ![s] = "gone"]
    /\ client' = [client EXCEPT ![s] = Nobody]
    /\ UNCHANGED clientVars

PipeBroken(c) ==
    /\ cpc[c] \in {"connected", "shutting"}
    /\ \A s \in Servers : client[s] # c
    /\ NotConnected(c)
    /\ UNCHANGED <<closing, polled, launchOwner, holders, spc, client>>

(***************************************************************************)
(* The specification.                                                      *)
(***************************************************************************)
Init ==
    /\ cpc = [c \in Clients |-> "idle"]
    /\ attempt = [c \in Clients |-> 0]
    /\ closing = [c \in Clients |-> FALSE]
    /\ polled = [c \in Clients |-> 0]
    /\ launchOwner = Nobody
    /\ holders = {}
    /\ spc = [s \in Servers |-> "unborn"]
    /\ client = [s \in Servers |-> Nobody]

ClientStep(c) ==
    \/ AttemptFails(c) \/ NoPipe(c)
    \/ Probe1(c) \/ Seen1(c) \/ TakeLaunchMutex(c) \/ GiveUpLaunch(c)
    \/ Probe2(c) \/ Seen2(c) \/ Spawn(c) \/ SpawnFails(c)
    \/ Poll(c) \/ SeenPoll(c) \/ PollsOver(c)
    \/ PipeBroken(c) \/ SeenUp(c) \/ WaitDown(c) \/ SeenDown(c)

ServerStep(s) ==
    \/ CreateServerMutex(s) \/ CloseServerMutex(s)
    \/ EngineLoaded(s) \/ CreatePipe(s) \/ ClientLost(s)

Next ==
    \/ \E c \in Clients :
          Ensure(c) \/ ProbeUp(c) \/ ClientStep(c) \/ ConnectRefused(c) \/ ClientExit(c)
    \/ \E s \in Servers : ServerStep(s) \/ ServerCrash(s)
    \/ \E c \in Clients, s \in Servers :
          Connect(c, s) \/ Disconnect(c, s) \/ Shutdown(c, s)

Spec == Init /\ [][Next]_vars

(* A call in progress and a living server process keep running; a call in  *)
(* progress takes an instance of the pipe or spends its attempts, and a    *)
(* pipe can be made in the end.                                            *)
FairSpec ==
    /\ Spec
    /\ \A c \in Clients :
          WF_vars(ClientStep(c) \/ \E s \in Servers : Connect(c, s) \/ Shutdown(c, s))
    /\ \A s \in Servers : WF_vars(ServerStep(s))

(***************************************************************************)
(* Properties.                                                             *)
(***************************************************************************)
TypeOK ==
    /\ cpc \in [Clients -> {"idle", "attempt", "connected", "probe1", "seen1",
                             "want", "probe2", "seen2", "spawn", "poll", "seenPoll",
                             "waitDown", "seenDown", "seenUp", "seenOpen", "shutting"}]
    /\ closing \in [Clients -> BOOLEAN]
    /\ attempt \in [Clients -> 0..(Attempts - 1)]
    /\ polled \in [Clients -> 0..Polls]
    /\ launchOwner \in Clients \cup {Nobody}
    /\ holders \in SUBSET (Clients \cup Servers)
    /\ spc \in [Servers -> {"unborn", "starting", "duplicate", "gone"} \cup InCharge]
    /\ client \in [Servers -> Clients \cup {Nobody}]

(* The handles on the server mutex are those of the processes that have    *)
(* not closed theirs yet: a handle that stayed open would make every later *)
(* server exit as a duplicate and every client think that one runs.        *)
HandlesAccounted ==
    holders = {c \in Clients : cpc[c] \in Looking}
                \cup {s \in Servers : spc[s] \in InCharge \cup {"duplicate"}}

(* However many clients launch one, and however slowly they start, at most *)
(* one server process gets past the test for another one.                  *)
AtMostOneServer ==
    \A s, t \in Servers : spc[s] \in InCharge /\ spc[t] \in InCharge => s = t

(* The second look for a server, the start of a process and the wait for   *)
(* its mutex are done by one client at a time.                             *)
LaunchExclusive ==
    \A c \in Clients : cpc[c] \in Launching => launchOwner = c

(* shutdownServer and the installer take the absence of the server mutex   *)
(* for the absence of the server: while there is a pipe, the mutex exists. *)
PipeNeedsMutex == PipeExists => MutexExists

(* ensureConnected and shutdownServer return: neither the launch mutex nor *)
(* a server that starts too slowly, exits or is busy keeps a caller        *)
(* forever.                                                                *)
WaitsEnd ==
    \A c \in Clients :
        cpc[c] \notin {"idle", "connected"} ~> cpc[c] \in {"idle", "connected"}
=============================================================================

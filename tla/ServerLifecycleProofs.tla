----------------------- MODULE ServerLifecycleProofs -----------------------
(***************************************************************************)
(* Proofs about ServerLifecycle, for any number of clients and of server   *)
(* processes, any number of attempts and polls, with or without faults.    *)
(***************************************************************************)
EXTENDS ServerLifecycle, TLAPS

(* A client that waits for the end of a server and has a handle open has a *)
(* poll left.                                                              *)
LimitsKept == \A c \in Clients : cpc[c] = "seenDown" => polled[c] < Polls

(* A server that has a client has an instance of the pipe in use.          *)
ClientServed == \A s \in Servers : client[s] # Nobody => spc[s] = "serving"

IInv ==
    /\ TypeOK
    /\ LimitsKept
    /\ ClientServed
    /\ HandlesAccounted
    /\ AtMostOneServer
    /\ LaunchExclusive

(* What a client does that no fairness forces.                             *)
ClientMove(c) == Ensure(c) \/ ProbeUp(c) \/ ConnectRefused(c) \/ ClientExit(c)

USE ActorsAssumption, LimitsAssumption, SwitchesAssumption

(***************************************************************************)
(* What the steps of one side leave alone.                                 *)
(***************************************************************************)
LEMMA ClientStepFrame ==
    ASSUME NEW c \in Clients, ClientStep(c) \/ ClientMove(c)
    PROVE  UNCHANGED client /\ (UNCHANGED spc \/ Spawn(c))
BY DEF ClientStep, ClientMove, Ensure, ProbeUp, ConnectRefused, ClientExit, SeenUp, NextAttempt, AttemptFails, NoPipe, Probe1, Seen1,
       TakeLaunchMutex, GiveUpLaunch, Probe2, Seen2, SpawnFails, Poll, SeenPoll,
       PollsOver, PipeBroken, WaitDown, SeenDown, Spawn, LaunchReturns

LEMMA ServerStepFrame ==
    ASSUME NEW s \in Servers, ServerStep(s) \/ ServerCrash(s)
    PROVE  UNCHANGED clientVars
BY DEF ServerStep, ServerCrash, CreateServerMutex, CloseServerMutex,
       EngineLoaded, CreatePipe, ClientLost, clientVars

(***************************************************************************)
(* One lemma per part of the invariant: what it needs of the other parts,  *)
(* and that every step keeps it.                                           *)
(***************************************************************************)
LEMMA TypePreserved ==
    ASSUME TypeOK, LimitsKept, [Next]_vars
    PROVE  TypeOK' /\ LimitsKept'
<1> USE DEF TypeOK, LimitsKept, InCharge, GoTo
<1>1. ASSUME NEW c \in Clients, ClientStep(c)
      PROVE  TypeOK' /\ LimitsKept'
  <2>1. CASE AttemptFails(c)
      BY <2>1 DEF AttemptFails, NextAttempt, NotConnected, NoAttemptLeft
  <2>2. CASE NoPipe(c)
      BY <2>2 DEF NoPipe
  <2>3. CASE Probe1(c)
      BY <2>3 DEF Probe1
  <2>4. CASE Seen1(c)
      BY <2>4 DEF Seen1, LaunchReturns, NextAttempt, NotConnected, NoAttemptLeft,
         CloseHandle
  <2>5. CASE TakeLaunchMutex(c)
      BY <2>5 DEF TakeLaunchMutex, LaunchMutexFree
  <2>6. CASE GiveUpLaunch(c)
      BY <2>6 DEF GiveUpLaunch, LaunchReturns, NextAttempt, NotConnected, NoAttemptLeft
  <2>7. CASE Probe2(c)
      BY <2>7 DEF Probe2
  <2>8. CASE Seen2(c)
      BY <2>8 DEF Seen2, LaunchReturns, NextAttempt, NotConnected, NoAttemptLeft,
         CloseHandle, Release
  <2>9. CASE Spawn(c)
      BY <2>9 DEF Spawn
  <2>10. CASE SpawnFails(c)
      BY <2>10 DEF SpawnFails, LaunchReturns, NextAttempt, NotConnected, NoAttemptLeft,
         Release
  <2>11. CASE Poll(c)
      BY <2>11 DEF Poll, NextPoll
  <2>12. CASE SeenPoll(c)
      BY <2>12 DEF SeenPoll, LaunchReturns, NextAttempt, NotConnected, NoAttemptLeft,
         CloseHandle, Release
  <2>13. CASE PollsOver(c)
      BY <2>13 DEF PollsOver, LaunchReturns, NextAttempt, NotConnected, NoAttemptLeft,
         Release
  <2>14. CASE PipeBroken(c)
      BY <2>14 DEF PipeBroken, NotConnected
  <2>15. CASE WaitDown(c)
    <3>1. CASE MutexExists /\ polled[c] < Polls
      BY <2>15, <3>1 DEF WaitDown
    <3>2. CASE ~(MutexExists /\ polled[c] < Polls)
      <4>1. /\ cpc' = [cpc EXCEPT ![c] = "idle"]
            /\ polled' = [polled EXCEPT ![c] = 0]
            /\ closing' = [closing EXCEPT ![c] = FALSE]
            /\ UNCHANGED <<attempt, launchOwner, holders, spc, client>>
        BY <2>15, <3>2 DEF WaitDown
      <4>2. 0 \in 0..Polls
        OBVIOUS
      <4>3. TypeOK'
        BY <4>1, <4>2
      <4>4. LimitsKept'
        BY <4>1
      <4> QED
        BY <4>3, <4>4
    <3> QED
      BY <3>1, <3>2
  <2>16. CASE SeenDown(c)
      BY <2>16 DEF SeenDown, CloseHandle
  <2>17. CASE SeenUp(c)
      BY <2>17 DEF SeenUp, CloseHandle
  <2> QED BY <2>1, <2>2, <2>3, <2>4, <2>5, <2>6, <2>7, <2>8, <2>9, <2>10,
       <2>11, <2>12, <2>13, <2>14, <2>15, <2>16, <2>17, <1>1 DEF ClientStep
<1>2. ASSUME NEW c \in Clients, ClientMove(c)
      PROVE  TypeOK' /\ LimitsKept'
  <2>1. CASE Ensure(c) \/ ProbeUp(c)
    BY <2>1 DEF Ensure, ProbeUp
  <2>2. CASE ConnectRefused(c)
    BY <2>2 DEF ConnectRefused, NotConnected
  <2>3. CASE ClientExit(c)
    BY <2>3 DEF ClientExit
  <2> QED
    BY <1>2, <2>1, <2>2, <2>3 DEF ClientMove
<1>3. ASSUME NEW s \in Servers, ServerStep(s) \/ ServerCrash(s)
      PROVE  TypeOK' /\ LimitsKept'
  BY <1>3 DEF ServerStep, ServerCrash, CreateServerMutex, CloseServerMutex,
              EngineLoaded, CreatePipe, ClientLost, clientVars
<1>4. ASSUME NEW c \in Clients, NEW s \in Servers,
             Connect(c, s) \/ Disconnect(c, s) \/ Shutdown(c, s)
      PROVE  TypeOK' /\ LimitsKept'
  BY <1>4 DEF Connect, Disconnect, Shutdown, NotConnected, CloseInstance
<1>5. CASE UNCHANGED vars
  BY <1>5 DEF vars, clientVars
<1> QED BY <1>1, <1>2, <1>3, <1>4, <1>5 DEF Next, ClientMove

LEMMA ClientServedPreserved ==
    ASSUME TypeOK, ClientServed, [Next]_vars
    PROVE  ClientServed'
<1> USE DEF TypeOK, ClientServed
<1>1. ASSUME NEW c \in Clients, ClientStep(c) \/ ClientMove(c)
      PROVE  ClientServed'
  BY <1>1, ClientStepFrame DEF Spawn
<1>2. ASSUME NEW s \in Servers, ServerStep(s) \/ ServerCrash(s)
      PROVE  ClientServed'
  BY <1>2 DEF ServerStep, ServerCrash, CreateServerMutex, CloseServerMutex,
              EngineLoaded, CreatePipe, ClientLost
<1>3. ASSUME NEW c \in Clients, NEW s \in Servers,
             Connect(c, s) \/ Disconnect(c, s) \/ Shutdown(c, s)
      PROVE  ClientServed'
  BY <1>3 DEF Connect, Disconnect, Shutdown, NotConnected, CloseInstance
<1>4. CASE UNCHANGED vars
  BY <1>4 DEF vars
<1> QED BY <1>1, <1>2, <1>3, <1>4 DEF Next, ClientMove

(* A handle is opened by the step that enters a state that has one, and    *)
(* closed by the step that leaves it.  A server that has a client has a    *)
(* handle, so losing the client closes none.                               *)
LEMMA HandlesPreserved ==
    ASSUME TypeOK, ClientServed, HandlesAccounted, [Next]_vars
    PROVE  HandlesAccounted'
<1> USE DEF TypeOK, HandlesAccounted, Looking, InCharge
<1>1. ASSUME NEW c \in Clients, ClientStep(c)
      PROVE  HandlesAccounted'
  <2>1. CASE AttemptFails(c)
      BY <2>1 DEF AttemptFails, NextAttempt, NotConnected, NoAttemptLeft, GoTo
  <2>2. CASE NoPipe(c)
      BY <2>2 DEF NoPipe, GoTo
  <2>3. CASE Probe1(c)
      BY <2>3 DEF Probe1, GoTo
  <2>4. CASE Seen1(c)
      BY <2>4 DEF Seen1, LaunchReturns, NextAttempt, NotConnected, NoAttemptLeft,
         CloseHandle, GoTo
  <2>5. CASE TakeLaunchMutex(c)
      BY <2>5 DEF TakeLaunchMutex, LaunchMutexFree, GoTo
  <2>6. CASE GiveUpLaunch(c)
      BY <2>6 DEF GiveUpLaunch, LaunchReturns, NextAttempt, NotConnected, NoAttemptLeft,
         GoTo
  <2>7. CASE Probe2(c)
      BY <2>7 DEF Probe2, GoTo
  <2>8. CASE Seen2(c)
      BY <2>8 DEF Seen2, LaunchReturns, NextAttempt, NotConnected, NoAttemptLeft,
         CloseHandle, Release, GoTo
  <2>9. CASE Spawn(c)
      BY <2>9 DEF Spawn, GoTo
  <2>10. CASE SpawnFails(c)
      BY <2>10 DEF SpawnFails, LaunchReturns, NextAttempt, NotConnected, NoAttemptLeft,
         Release, GoTo
  <2>11. CASE Poll(c)
      BY <2>11 DEF Poll, NextPoll, GoTo
  <2>12. CASE SeenPoll(c)
      BY <2>12 DEF SeenPoll, LaunchReturns, NextAttempt, NotConnected, NoAttemptLeft,
         CloseHandle, Release, GoTo
  <2>13. CASE PollsOver(c)
      BY <2>13 DEF PollsOver, LaunchReturns, NextAttempt, NotConnected, NoAttemptLeft,
         Release, GoTo
  <2>14. CASE PipeBroken(c)
      BY <2>14 DEF PipeBroken, NotConnected, GoTo
  <2>15. CASE WaitDown(c)
      BY <2>15 DEF WaitDown, GoTo
  <2>16. CASE SeenDown(c)
      BY <2>16 DEF SeenDown, CloseHandle, GoTo
  <2>17. CASE SeenUp(c)
      BY <2>17 DEF SeenUp, CloseHandle, GoTo
  <2> QED BY <2>1, <2>2, <2>3, <2>4, <2>5, <2>6, <2>7, <2>8, <2>9, <2>10,
       <2>11, <2>12, <2>13, <2>14, <2>15, <2>16, <2>17, <1>1 DEF ClientStep
<1>2. ASSUME NEW c \in Clients, ClientMove(c)
      PROVE  HandlesAccounted'
  BY <1>2 DEF ClientMove, Ensure, ProbeUp, ConnectRefused, NotConnected, ClientExit, GoTo
<1>3. ASSUME NEW s \in Servers, ServerStep(s) \/ ServerCrash(s)
      PROVE  HandlesAccounted'
  <2>1. CASE CreateServerMutex(s)
    BY <2>1 DEF CreateServerMutex, AlreadyExists, clientVars
  <2>2. CASE CloseServerMutex(s) \/ ServerCrash(s)
    BY <2>2 DEF CloseServerMutex, ServerCrash, clientVars
  <2>3. CASE EngineLoaded(s) \/ CreatePipe(s) \/ ClientLost(s)
    BY <2>3 DEF EngineLoaded, CreatePipe, ClientLost, clientVars
  <2> QED BY <1>3, <2>1, <2>2, <2>3 DEF ServerStep
<1>4. ASSUME NEW c \in Clients, NEW s \in Servers,
             Connect(c, s) \/ Disconnect(c, s) \/ Shutdown(c, s)
      PROVE  HandlesAccounted'
  BY <1>4 DEF Connect, Disconnect, Shutdown, NotConnected, CloseInstance, ClientServed, GoTo
<1>5. CASE UNCHANGED vars
  BY <1>5 DEF vars, clientVars
<1> QED BY <1>1, <1>2, <1>3, <1>4, <1>5 DEF Next, ClientMove

(* Only CreateServerMutex puts a server in charge.  It does so when nobody *)
(* has a handle, and a server in charge would have one.                    *)
LEMMA OneServerPreserved ==
    ASSUME TypeOK, ClientServed, HandlesAccounted, AtMostOneServer, [Next]_vars
    PROVE  AtMostOneServer'
<1> USE DEF TypeOK, AtMostOneServer, InCharge
<1>1. ASSUME NEW c \in Clients, ClientStep(c) \/ ClientMove(c)
      PROVE  AtMostOneServer'
  BY <1>1, ClientStepFrame DEF Spawn
<1>2. ASSUME NEW s \in Servers, CreateServerMutex(s)
      PROVE  AtMostOneServer'
  <2>1. CASE MutexExists
    <3>1. spc' = [spc EXCEPT ![s] = "duplicate"]
      BY <1>2, <2>1 DEF CreateServerMutex, AlreadyExists
    <3> QED BY <3>1
  <2>2. CASE ~MutexExists
    <3>1. \A t \in Servers : spc[t] \notin InCharge
      BY <2>2 DEF MutexExists, HandlesAccounted
    <3>2. \A t \in Servers \ {s} : spc'[t] = spc[t]
      BY <1>2 DEF CreateServerMutex
    <3> QED BY <3>1, <3>2
  <2> QED BY <2>1, <2>2
<1>3. ASSUME NEW s \in Servers,
             \/ CloseServerMutex(s) \/ ServerCrash(s)
             \/ EngineLoaded(s) \/ CreatePipe(s) \/ ClientLost(s)
      PROVE  AtMostOneServer'
  BY <1>3 DEF CloseServerMutex, ServerCrash, EngineLoaded, CreatePipe, ClientLost
<1>4. ASSUME NEW c \in Clients, NEW s \in Servers,
             Connect(c, s) \/ Disconnect(c, s) \/ Shutdown(c, s)
      PROVE  AtMostOneServer'
  BY <1>4 DEF Connect, Disconnect, Shutdown, NotConnected, CloseInstance, ClientServed
<1>5. CASE UNCHANGED vars
  BY <1>5 DEF vars
<1> QED BY <1>1, <1>2, <1>3, <1>4, <1>5 DEF Next, ClientMove, ServerStep

(* The launch mutex is taken when it is free and released by its owner.    *)
LEMMA LaunchPreserved ==
    ASSUME TypeOK, LaunchExclusive, [Next]_vars
    PROVE  LaunchExclusive'
<1> USE DEF TypeOK, LaunchExclusive, Launching, GoTo
<1>1. ASSUME NEW c \in Clients, ClientStep(c)
      PROVE  LaunchExclusive'
  <2>1. CASE AttemptFails(c)
      BY <2>1 DEF AttemptFails, NextAttempt, NotConnected, NoAttemptLeft
  <2>2. CASE NoPipe(c)
      BY <2>2 DEF NoPipe
  <2>3. CASE Probe1(c)
      BY <2>3 DEF Probe1
  <2>4. CASE Seen1(c)
      BY <2>4 DEF Seen1, LaunchReturns, NextAttempt, NotConnected, NoAttemptLeft,
         CloseHandle
  <2>5. CASE TakeLaunchMutex(c)
      BY <2>5 DEF TakeLaunchMutex, LaunchMutexFree
  <2>6. CASE GiveUpLaunch(c)
      BY <2>6 DEF GiveUpLaunch, LaunchReturns, NextAttempt, NotConnected, NoAttemptLeft
  <2>7. CASE Probe2(c)
      BY <2>7 DEF Probe2
  <2>8. CASE Seen2(c)
      BY <2>8 DEF Seen2, LaunchReturns, NextAttempt, NotConnected, NoAttemptLeft,
         CloseHandle, Release
  <2>9. CASE Spawn(c)
      BY <2>9 DEF Spawn
  <2>10. CASE SpawnFails(c)
      BY <2>10 DEF SpawnFails, LaunchReturns, NextAttempt, NotConnected, NoAttemptLeft,
         Release
  <2>11. CASE Poll(c)
      BY <2>11 DEF Poll, NextPoll
  <2>12. CASE SeenPoll(c)
      BY <2>12 DEF SeenPoll, LaunchReturns, NextAttempt, NotConnected, NoAttemptLeft,
         CloseHandle, Release
  <2>13. CASE PollsOver(c)
      BY <2>13 DEF PollsOver, LaunchReturns, NextAttempt, NotConnected, NoAttemptLeft,
         Release
  <2>14. CASE PipeBroken(c)
      BY <2>14 DEF PipeBroken, NotConnected
  <2>15. CASE WaitDown(c)
      BY <2>15 DEF WaitDown
  <2>16. CASE SeenDown(c)
      BY <2>16 DEF SeenDown, CloseHandle
  <2>17. CASE SeenUp(c)
      BY <2>17 DEF SeenUp, CloseHandle
  <2> QED BY <2>1, <2>2, <2>3, <2>4, <2>5, <2>6, <2>7, <2>8, <2>9, <2>10,
       <2>11, <2>12, <2>13, <2>14, <2>15, <2>16, <2>17, <1>1 DEF ClientStep
<1>2. ASSUME NEW c \in Clients, ClientMove(c)
      PROVE  LaunchExclusive'
  BY <1>2 DEF ClientMove, Ensure, ProbeUp, ConnectRefused, NotConnected, ClientExit
<1>3. ASSUME NEW s \in Servers, ServerStep(s) \/ ServerCrash(s)
      PROVE  LaunchExclusive'
  BY <1>3, ServerStepFrame DEF clientVars
<1>4. ASSUME NEW c \in Clients, NEW s \in Servers,
             Connect(c, s) \/ Disconnect(c, s) \/ Shutdown(c, s)
      PROVE  LaunchExclusive'
  BY <1>4 DEF Connect, Disconnect, Shutdown, NotConnected
<1>5. CASE UNCHANGED vars
  BY <1>5 DEF vars, clientVars
<1> QED BY <1>1, <1>2, <1>3, <1>4, <1>5 DEF Next, ClientMove

(***************************************************************************)
(* The invariant and what follows from it.                                 *)
(***************************************************************************)
(* The inductive invariant holds in every state of every behaviour of the  *)
(* clients and the servers.                                                *)
THEOREM Invariance == Spec => []IInv
<1>1. Init => IInv
  BY DEF Init, IInv, TypeOK, LimitsKept, ClientServed, HandlesAccounted,
         AtMostOneServer, LaunchExclusive, Looking, Launching, InCharge
<1>2. IInv /\ [Next]_vars => IInv'
  BY TypePreserved, ClientServedPreserved, HandlesPreserved,
     OneServerPreserved, LaunchPreserved DEF IInv
<1> QED BY <1>1, <1>2, PTL DEF Spec

(* Every variable keeps its type: in particular no loop counter of         *)
(* ensureConnected, launchServer or shutdownServer passes its limit.       *)
THEOREM TypeCorrect == Spec => []TypeOK
<1>1. IInv => TypeOK
  BY DEF IInv
<1> QED BY Invariance, <1>1, PTL

(* The mutex test in the server's main() leaves at most one server in      *)
(* charge, for any number of clients that launch and processes that start. *)
THEOREM OneServer == Spec => []AtMostOneServer
<1>1. IInv => AtMostOneServer
  BY DEF IInv
<1> QED BY Invariance, <1>1, PTL

(* No path through isServerRunning, launchServer, shutdownServer or main() *)
(* forgets a handle on the server mutex.                                   *)
THEOREM NoHandleLost == Spec => []HandlesAccounted
<1>1. IInv => HandlesAccounted
  BY DEF IInv
<1> QED BY Invariance, <1>1, PTL

(* The launch mutex lets one client at a time start a server process.      *)
THEOREM OneLauncher == Spec => []LaunchExclusive
<1>1. IInv => LaunchExclusive
  BY DEF IInv
<1> QED BY Invariance, <1>1, PTL

(* While there is an instance of the pipe, the server mutex exists, which  *)
(* is what shutdownServer's wait for its absence relies on.                *)
THEOREM PipeImpliesMutex == Spec => []PipeNeedsMutex
<1>1. IInv => PipeNeedsMutex
  BY DEF IInv, HandlesAccounted, PipeNeedsMutex, PipeExists, HasPipe, InCharge,
         MutexExists
<1> QED BY Invariance, <1>1, PTL
=============================================================================

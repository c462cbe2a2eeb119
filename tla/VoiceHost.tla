----------------------------- MODULE VoiceHost -----------------------------
(***************************************************************************)
(* A process with several SAPI engines and the one PipeClient they share   *)
(* (g_pipeClient): PipeBridge with the callers put in.                     *)
(*                                                                         *)
(* Each engine runs in a thread of its own.  SetObjectToken looks its      *)
(* voice up by getVoices; Speak makes one speak call of each text          *)
(* fragment, so other engines get between the fragments; speak's callback  *)
(* refuses a chunk when the engine's site has raised abort or does not     *)
(* take the sound.  A public method of the PipeClient holds the critical   *)
(* section cs_ from its first line to its return.                          *)
(***************************************************************************)
EXTENDS PipeBridge

CONSTANTS
    Host,          \* the client process
    Engines,       \* its engine objects
    Registrar,     \* its thread that calls DllUnregisterServer
    Nobody,        \* the owner of a free critical section
    MaxFragments   \* bound: text fragments of a Speak call

ASSUME HostAssumption == Host \in Clients
ASSUME ThreadsAssumption ==
    Registrar \notin Engines /\ Nobody \notin Engines /\ Nobody # Registrar
ASSUME FragmentsAssumption == MaxFragments \in Nat \ {0}

VARIABLES
    thread,    \* where the call in progress of an engine stands
    voice,     \* what voice_index_ is: "named" by the token, or the "first"
    left,      \* fragments of the engine's Speak call still to be spoken
    abort,     \* its site has raised SPVES_ABORT during this call
    owner,     \* of cs_
    stopLast   \* history: the last call of the PipeClient was a stopped speak

hostVars == <<thread, voice, left, abort, owner, stopLast>>
allVars == <<vars, hostVars>>

Become(e, where) == thread' = [thread EXCEPT ![e] = where]

(***************************************************************************)
(* The engine.                                                             *)
(***************************************************************************)
(* voice_index_ is 0 until, and unless, the list names the token's voice.  *)
SetObjectToken(e) ==
    /\ thread[e] = "idle"
    /\ Become(e, "lookUp")
    /\ voice' = [voice EXCEPT ![e] = "first"]
    /\ UNCHANGED <<left, abort, owner, stopLast, vars>>

Speak(e, n) ==
    /\ thread[e] = "idle"
    /\ Become(e, "fragment")
    /\ left' = [left EXCEPT ![e] = n]
    /\ UNCHANGED <<voice, abort, owner, stopLast, vars>>

Abort(e) ==
    /\ thread[e] \in {"fragment", "speak", "speaking"} /\ ~abort[e]
    /\ abort' = [abort EXCEPT ![e] = TRUE]
    /\ UNCHANGED <<thread, voice, left, owner, stopLast, vars>>

(* The loop over the fragments looks at the actions first.  Whether the    *)
(* last fragment was spoken does not matter to it.                         *)
NextFragment(e) ==
    /\ thread[e] = "fragment"
    /\ IF abort[e] \/ left[e] = 0
         THEN /\ Become(e, "idle")
              /\ left' = [left EXCEPT ![e] = 0]
              /\ abort' = [abort EXCEPT ![e] = FALSE]
         ELSE /\ Become(e, "speak")
              /\ left' = [left EXCEPT ![e] = @ - 1]
              /\ UNCHANGED abort
    /\ UNCHANGED <<voice, owner, stopLast, vars>>

(***************************************************************************)
(* The critical section.                                                   *)
(***************************************************************************)
Enter(t) ==
    /\ owner = Nobody /\ owner' = t
    /\ UNCHANGED <<voice, left, abort, stopLast>>

EnterGetVoices(e) ==
    /\ thread[e] = "lookUp" /\ Become(e, "listing")
    /\ Enter(e) /\ CallGetVoices(Host)

EnterSpeak(e) ==
    /\ thread[e] = "speak" /\ Become(e, "speaking")
    /\ Enter(e) /\ CallSpeak(Host)

(* DllUnregisterServer: ShutdownPipeServer.                                *)
EnterShutdown == Enter(Registrar) /\ CallShutdown(Host) /\ UNCHANGED thread

(* speak_callback refuses when abort is up, and may when the site fails to *)
(* take the sound, after which Speak goes on with the next fragment.       *)
Callback == heard'[Host] # heard[Host] /\ abort[owner] => stopped'[Host]

(* Without a list the index stays 0.                                       *)
LookUp == IF result'[Host] = "true" THEN "named" ELSE "first"

(* What the engine does with the return of its pipe call.                  *)
BackInEngine ==
    CASE owner = Registrar -> UNCHANGED <<thread, voice>>
      [] owner # Registrar /\ op[Host] = "getVoices" ->
           /\ voice' = [voice EXCEPT ![owner] = LookUp]
           /\ Become(owner, "idle")
      [] owner # Registrar /\ op[Host] = "speak" ->
           Become(owner, "fragment") /\ UNCHANGED voice

PipeCall ==
    /\ ClientStep(Host) \/ ConnectRefused(Host)
    /\ Callback
    /\ IF pc'[Host] # "idle"
         THEN UNCHANGED <<thread, voice, owner, stopLast>>
         ELSE /\ BackInEngine
              /\ owner' = Nobody
              /\ stopLast' = (op[Host] = "speak" /\ stopped'[Host])
    /\ UNCHANGED <<left, abort>>

(* The process ends, or unloads the library: CleanupPipeClient.  The next  *)
(* one begins with InitPipeClient and new engines.                         *)
HostExit ==
    /\ ClientExit(Host)
    /\ thread' = [e \in Engines |-> "idle"]
    /\ voice' = [e \in Engines |-> "first"]
    /\ left' = [e \in Engines |-> 0]
    /\ abort' = [e \in Engines |-> FALSE]
    /\ owner' = Nobody
    /\ stopLast' = FALSE

(***************************************************************************)
(* The specification.                                                      *)
(***************************************************************************)
HostInit ==
    /\ Init
    /\ thread = [e \in Engines |-> "idle"]
    /\ voice = [e \in Engines |-> "first"]
    /\ left = [e \in Engines |-> 0]
    /\ abort = [e \in Engines |-> FALSE]
    /\ owner = Nobody
    /\ stopLast = FALSE

EngineCall(e) ==
    \/ SetObjectToken(e)
    \/ \E n \in 1..MaxFragments : Speak(e, n)
    \/ Abort(e)

EngineStep(e) == NextFragment(e) \/ EnterGetVoices(e) \/ EnterSpeak(e)

HostNext ==
    \/ \E e \in Engines : EngineCall(e) \/ EngineStep(e)
    \/ EnterShutdown \/ PipeCall \/ HostExit
    \/ (ServerStep \/ ServerCrash) /\ UNCHANGED hostVars

HostSpec == HostInit /\ [][HostNext]_allVars

(***************************************************************************)
(* Properties.                                                             *)
(***************************************************************************)
HostTypeOK ==
    /\ thread \in [Engines -> {"idle", "lookUp", "listing",
                               "fragment", "speak", "speaking"}]
    /\ voice \in [Engines -> {"named", "first"}]
    /\ left \in [Engines -> 0..MaxFragments]
    /\ abort \in [Engines -> BOOLEAN]
    /\ owner \in Engines \cup {Registrar, Nobody}
    /\ stopLast \in BOOLEAN

(* SetObjectToken silently settles for the first voice in two cases only:  *)
(* the call of the PipeClient before it, by whichever engine, was a speak  *)
(* that was stopped, whose answer it reads for its own; or there is no     *)
(* server at the other end of the handle.                                  *)
VoiceMissed ==
    [][\A e \in Engines :
         thread[e] = "listing" /\ thread'[e] = "idle" =>
           voice'[e] = "named" \/ stopLast \/ ~Connected(Host)']_allVars
=============================================================================

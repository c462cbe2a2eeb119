------------------------- MODULE WaveCaptureProofs -------------------------
(***************************************************************************)
(* Proofs about WaveCapture, for any threads and engines, any length of an *)
(* utterance and any number of buffers.                                    *)
(***************************************************************************)
EXTENDS WaveCapture, TLAPS

(***************************************************************************)
(* The parts of the invariant.                                             *)
(***************************************************************************)
Shape ==
    /\ pc \in [Threads -> {"idle", "register", "create", "prepare", "install", "installed",
                           "tts", "flush"}]
    /\ hooked \in [Threads -> Engines \cup {None}]
    /\ winmmHooked \in BOOLEAN /\ enabled \in BOOLEAN /\ refused \in BOOLEAN
    /\ registered \in BOOLEAN /\ crossed \subseteq Threads
    /\ strays \in [Threads -> Nat]
    /\ alive \in [Engines -> BOOLEAN]
    /\ posted \in [Engines -> Nat]
    /\ user \in [Engines -> Threads \cup {None}]
    /\ window \in [Engines -> Threads \cup {None}]
    /\ written \in [Engines -> 0..MaxBuffers]
    /\ released \in [Engines -> Nat]
    /\ stop \in [Engines -> BOOLEAN] /\ sonic \in [Engines -> BOOLEAN]
    /\ buffered \in [Engines -> Nat] /\ delivered \in [Engines -> Nat]

(* A thread speaks with one engine at a time, an engine on one thread, and *)
(* while TtsWav runs the thread's hook state is that of its engine.        *)
Callers ==
    /\ \A e \in Engines : user[e] # None => pc[user[e]] # "idle"
    /\ \A e, f \in Engines : user[e] # None /\ user[e] = user[f] => e = f
    /\ \A t \in Threads :
          IF pc[t] \in {"tts", "flush"}
            THEN hooked[t] \in Engines /\ user[hooked[t]] = t
            ELSE hooked[t] = None

(* Nobody is past install_winmm_hooks without the hooks in effect, unless  *)
(* Windows has refused them.                                               *)
Caught ==
    /\ winmmHooked => enabled \/ refused
    /\ \A t \in Threads : pc[t] \in {"installed", "tts", "flush"} => enabled \/ refused

(* What the callback got and what Sonic holds back is what was written.    *)
Sounded(e) ==
    /\ delivered[e] + buffered[e] <= written[e]
    /\ ~stop[e] => delivered[e] + buffered[e] = written[e]
    /\ ~sonic[e] => buffered[e] = 0
    /\ user[e] = None => ~sonic[e]

(* TtsWav runs on the thread of the engine's window.                       *)
AtHome(e) == user[e] # None /\ window[e] = user[e] /\ pc[user[e]] = "tts"

(* A buffer written there is given back or on its way, and exactly that on *)
(* a thread that has no messages from others.                              *)
Returned(e) ==
    /\ AtHome(e) => released[e] + posted[e] >= written[e]
    /\ window[e] = None => posted[e] = 0
    /\ user[e] # None /\ pc[user[e]] \in {"register", "create"} => window[e] = None
    /\ user[e] # None /\ pc[user[e]] \in {"install", "installed"}
          => written[e] = 0 /\ released[e] = 0
    /\ window[e] \in Threads \ crossed =>
          IF AtHome(e) THEN released[e] + posted[e] = written[e] ELSE posted[e] = 0

Unmixed == \A t \in Threads \ crossed : strays[t] = 0

IInv ==
    /\ Shape /\ Callers /\ Caught /\ Unmixed
    /\ \A e \in Engines : Sounded(e) /\ Returned(e)

(***************************************************************************)
(* The steps.                                                              *)
(***************************************************************************)
(* What a step leaves alone of an engine.                                  *)
Untouched(e) ==
    /\ posted'[e] = posted[e] /\ window'[e] = window[e] /\ user'[e] = user[e]
    /\ written'[e] = written[e] /\ released'[e] = released[e] /\ stop'[e] = stop[e]
    /\ sonic'[e] = sonic[e] /\ buffered'[e] = buffered[e] /\ delivered'[e] = delivered[e]

LEMMA OthersKeep ==
    ASSUME NEW e \in Engines, Untouched(e), Sounded(e), Returned(e), crossed \subseteq crossed',
           user[e] # None => pc'[user[e]] = pc[user[e]]
    PROVE  Sounded(e)' /\ Returned(e)'
<1>1. AtHome(e)' <=> AtHome(e)
  BY DEF Untouched, AtHome
<1>2. Sounded(e)'
  BY DEF Untouched, Sounded
<1>3. Returned(e)'
  BY <1>1 DEF Untouched, Returned
<1> QED
  BY <1>2, <1>3

LEMMA InitGood == Init => IInv
<1> SUFFICES ASSUME Init PROVE IInv
  OBVIOUS
<1>1. Shape
  <2>1. 0 \in 0..MaxBuffers
    BY BuffersAssumption
  <2> QED
    BY <2>1 DEF Init, Shape
<1>2. Callers /\ Caught /\ Unmixed
  BY DEF Init, Callers, Caught, Unmixed
<1>3. \A e \in Engines : Sounded(e) /\ Returned(e)
  BY DEF Init, Sounded, Returned, AtHome
<1> QED
  BY <1>1, <1>2, <1>3 DEF IInv

LEMMA InitStateGood ==
    ASSUME IInv, NEW e \in Engines, InitState(e)
    PROVE  IInv'
<1>1. \A f \in Engines : /\ Untouched(f)
                         /\ UNCHANGED <<pc, hooked, winmmHooked, enabled, refused, user, crossed,
                                        strays>>
  BY DEF InitState, Untouched, threadVars, hookVars, soundVars, countVars, windowVars
<1>2. Shape'
  BY DEF IInv, InitState, Shape, threadVars, hookVars, soundVars, countVars, windowVars
<1>3. Callers' /\ Caught' /\ Unmixed'
  BY <1>1 DEF IInv, Callers, Caught, Unmixed
<1>4. \A f \in Engines : Sounded(f)' /\ Returned(f)'
  BY <1>1, OthersKeep DEF IInv
<1> QED
  BY <1>2, <1>3, <1>4 DEF IInv

LEMMA DeleteStateGood ==
    ASSUME IInv, NEW t \in Threads, NEW e \in Engines, DeleteState(t, e)
    PROVE  IInv'
<1>1. /\ user[e] = None
      /\ UNCHANGED <<pc, hooked, winmmHooked, enabled, refused, user, written, released, stop,
                     sonic, buffered, delivered, registered, crossed>>
      /\ window' = [window EXCEPT ![e] = None] /\ posted' = [posted EXCEPT ![e] = 0]
      /\ strays' = IF window[e] \in {None, t} THEN strays
                     ELSE [strays EXCEPT ![window[e]] = strays[window[e]] + posted[e]]
  BY DEF DeleteState, threadVars, hookVars, soundVars, countVars
<1>2. /\ posted[e] \in Nat /\ window[e] \in Threads \cup {None}
      /\ ~AtHome(e) /\ \A u \in Threads : strays[u] \in Nat
  BY <1>1 DEF IInv, Shape, AtHome
<1>3. Shape'
  <2>1. strays' \in [Threads -> Nat]
    BY <1>1, <1>2 DEF IInv, Shape
  <2> QED
    BY <1>1, <2>1 DEF IInv, Shape, DeleteState
<1>4. Callers' /\ Caught'
  BY <1>1 DEF IInv, Callers, Caught
<1>5. Unmixed'
  <2>1. ASSUME NEW u \in Threads \ crossed PROVE strays'[u] = 0
    <3>1. strays[u] = 0
      BY DEF IInv, Unmixed
    <3>2. CASE window[e] = u
      <4>1. posted[e] = 0
        BY <1>2, <3>2 DEF IInv, Returned
      <4> QED
        BY <1>1, <1>2, <3>1, <3>2, <4>1 DEF IInv, Shape
    <3>3. CASE window[e] # u
      BY <1>1, <3>1, <3>3 DEF IInv, Shape
    <3> QED
      BY <3>2, <3>3
  <2> QED
    BY <1>1, <2>1 DEF Unmixed
<1>6. Sounded(e)' /\ Returned(e)'
  <2>1. window'[e] = None /\ posted'[e] = 0 /\ user'[e] = None
    BY <1>1 DEF IInv, Shape
  <2>2. Sounded(e)'
    BY <1>1 DEF IInv, Sounded
  <2>3. Returned(e)'
    BY <2>1, NoneAssumption DEF Returned, AtHome
  <2> QED
    BY <2>2, <2>3
<1>7. \A f \in Engines \ {e} : Sounded(f)' /\ Returned(f)'
  <2>1. \A f \in Engines \ {e} : Untouched(f)
    BY <1>1 DEF Untouched, IInv, Shape
  <2> QED
    BY <1>1, <2>1, OthersKeep DEF IInv
<1> QED
  BY <1>3, <1>4, <1>5, <1>6, <1>7 DEF IInv

LEMMA SpeakAsyncGood ==
    ASSUME IInv, NEW t \in Threads, NEW e \in Engines, SpeakAsync(t, e)
    PROVE  IInv'
<1>1. /\ pc[t] = "idle" /\ user[e] = None /\ t # None
      /\ user' = [user EXCEPT ![e] = t]
      /\ UNCHANGED <<hooked, winmmHooked, enabled, refused, alive, window, written, released,
                     stop, sonic, buffered, delivered, registered, posted, strays, crossed>>
      /\ \E p \in {"register", "create", "prepare"} :
            pc' = [pc EXCEPT ![t] = p] /\ (p # "prepare" => window[e] = None)
  BY NoneAssumption DEF SpeakAsync, GoTo, hookVars, countVars, soundVars, windowVars
<1>2. PICK p \in {"register", "create", "prepare"} :
         pc' = [pc EXCEPT ![t] = p] /\ (p # "prepare" => window[e] = None)
  BY <1>1
<1>3. Shape'
  BY <1>1, <1>2 DEF IInv, Shape
<1>4. /\ user'[e] = t /\ \A f \in Engines \ {e} : user'[f] = user[f] /\ user[f] \in Threads \cup {None}
      /\ pc'[t] = p /\ \A u \in Threads \ {t} : pc'[u] = pc[u]
  BY <1>1, <1>2 DEF IInv, Shape
<1>5. \A f \in Engines : user[f] # t
  BY <1>1 DEF IInv, Callers
<1>6. Callers'
  <2>1. \A f \in Engines : user'[f] # None => pc'[user'[f]] # "idle"
    BY <1>4, <1>5 DEF IInv, Callers
  <2>2. \A f, g \in Engines : user'[f] # None /\ user'[f] = user'[g] => f = g
    BY <1>4, <1>5 DEF IInv, Callers
  <2>3. ASSUME NEW u \in Threads
        PROVE  IF pc'[u] \in {"tts", "flush"}
                 THEN hooked'[u] \in Engines /\ user'[hooked'[u]] = u
                 ELSE hooked'[u] = None
    <3>1. CASE u = t
      BY <1>1, <1>4, <3>1 DEF IInv, Callers
    <3>2. CASE u # t
      <4>1. hooked[u] \in Engines /\ user[hooked[u]] = u => hooked[u] # e
        BY <1>1, <3>2, NoneAssumption
      <4> QED
        BY <1>1, <1>4, <3>2, <4>1 DEF IInv, Callers
    <3> QED
      BY <3>1, <3>2
  <2> QED
    BY <2>1, <2>2, <2>3 DEF Callers
<1>7. Caught' /\ Unmixed'
  BY <1>1, <1>4 DEF IInv, Caught, Unmixed
<1>8. Sounded(e)' /\ Returned(e)'
  <2>1. ~AtHome(e) /\ ~AtHome(e)'
    BY <1>1, <1>4 DEF AtHome
  <2>2. Sounded(e)'
    BY <1>1, <1>4 DEF IInv, Sounded
  <2>3. Returned(e)'
    BY <1>1, <1>2, <1>4, <2>1 DEF IInv, Returned
  <2> QED
    BY <2>2, <2>3
<1>9. \A f \in Engines \ {e} : Sounded(f)' /\ Returned(f)'
  <2>1. \A f \in Engines \ {e} : Untouched(f)
    BY <1>1, <1>4 DEF Untouched
  <2>2. \A f \in Engines : user[f] # None => pc'[user[f]] = pc[user[f]]
    BY <1>4, <1>5 DEF IInv, Shape
  <2> QED
    BY <1>1, <2>1, <2>2, OthersKeep DEF IInv
<1> QED
  BY <1>3, <1>6, <1>7, <1>8, <1>9 DEF IInv

(* A call goes from one place to another outside TtsWav.                   *)
LEMMA CallersMove ==
    ASSUME Shape, Callers, NEW t \in Threads, pc[t] \notin {"idle", "tts", "flush"},
           NEW p, p \notin {"idle", "tts", "flush"}, pc' = [pc EXCEPT ![t] = p],
           UNCHANGED <<hooked, user>>
    PROVE  Callers'
BY DEF Shape, Callers

LEMMA RegisterGood ==
    ASSUME IInv, NEW t \in Threads, RegisterClass(t)
    PROVE  IInv'
<1>1. /\ pc[t] = "register"
      /\ UNCHANGED <<hooked, winmmHooked, enabled, refused, alive, user, window, written,
                     released, stop, sonic, buffered, delivered, posted, strays, crossed>>
      /\ registered' \in BOOLEAN
      /\ \E p \in {"create", "prepare"} : pc' = [pc EXCEPT ![t] = p]
  BY DEF RegisterClass, GoTo, hookVars, countVars, soundVars, IInv, Shape
<1>2. PICK p \in {"create", "prepare"} : pc' = [pc EXCEPT ![t] = p]
  BY <1>1
<1>3. Shape'
  BY <1>1, <1>2 DEF IInv, Shape
<1>4. Callers'
  BY <1>1, <1>2, CallersMove DEF IInv
<1>5. Caught' /\ Unmixed'
  BY <1>1, <1>2 DEF IInv, Caught, Unmixed, Shape
<1>6. ASSUME NEW f \in Engines PROVE Sounded(f)' /\ Returned(f)'
  <2>1. user[f] # None => pc[user[f]] = pc'[user[f]] \/ user[f] = t
    BY <1>2 DEF IInv, Shape
  <2>2. AtHome(f)' <=> AtHome(f)
    BY <1>1, <1>2, <2>1 DEF AtHome, IInv, Shape
  <2>3. Sounded(f)'
    BY <1>1 DEF IInv, Sounded
  <2>4. Returned(f)'
    BY <1>1, <2>1, <2>2 DEF IInv, Returned
  <2> QED
    BY <2>3, <2>4
<1> QED
  BY <1>3, <1>4, <1>5, <1>6 DEF IInv

LEMMA CreateGood ==
    ASSUME IInv, NEW t \in Threads, NEW e \in Engines, CreateWindow(t, e)
    PROVE  IInv'
<1>1. /\ pc[t] = "create" /\ user[e] = t /\ t # None
      /\ UNCHANGED <<hooked, winmmHooked, enabled, refused, alive, user, written, released,
                     stop, sonic, buffered, delivered, registered, posted, strays, crossed>>
      /\ pc' = [pc EXCEPT ![t] = "prepare"]
      /\ window' = [window EXCEPT ![e] = t] \/ window' = window
  BY NoneAssumption DEF CreateWindow, GoTo, hookVars, countVars, soundVars, windowVars
<1>2. Shape'
  BY <1>1 DEF IInv, Shape
<1>3. Callers'
  BY <1>1, CallersMove DEF IInv
<1>4. Caught' /\ Unmixed'
  BY <1>1 DEF IInv, Caught, Unmixed, Shape
<1>5. posted[e] = 0 /\ window[e] = None /\ pc'[t] = "prepare"
  BY <1>1 DEF IInv, Returned, Shape
<1>6. Sounded(e)' /\ Returned(e)'
  <2>1. ~AtHome(e)'
    BY <1>1, <1>5 DEF AtHome
  <2>2. Sounded(e)'
    BY <1>1 DEF IInv, Sounded
  <2>3. Returned(e)'
    BY <1>1, <1>5, <2>1 DEF Returned
  <2> QED
    BY <2>2, <2>3
<1>7. \A f \in Engines \ {e} : Sounded(f)' /\ Returned(f)'
  <2>1. \A f \in Engines \ {e} : Untouched(f)
    BY <1>1 DEF Untouched, IInv, Shape
  <2>2. \A f \in Engines \ {e} : user[f] # None => pc'[user[f]] = pc[user[f]]
    BY <1>1 DEF IInv, Shape, Callers
  <2> QED
    BY <1>1, <2>1, <2>2, OthersKeep DEF IInv
<1> QED
  BY <1>2, <1>3, <1>4, <1>6, <1>7 DEF IInv

(* TtsWav is called: the hooks know the engine.                            *)
LEMMA CallersCall ==
    ASSUME Shape, Callers, NEW t \in Threads, NEW e \in Engines, user[e] = t,
           pc' = [pc EXCEPT ![t] = "tts"], hooked' = [hooked EXCEPT ![t] = e], UNCHANGED user
    PROVE  Callers'
BY DEF Shape, Callers

LEMMA PrepareGood ==
    ASSUME IInv, NEW t \in Threads, NEW e \in Engines, Prepare(t, e)
    PROVE  IInv'
<1>1. /\ pc[t] = "prepare" /\ user[e] = t /\ t # None
      /\ UNCHANGED <<winmmHooked, enabled, refused, alive, user, window, registered, posted,
                     strays, crossed>>
      /\ stop' = [stop EXCEPT ![e] = FALSE] /\ buffered' = [buffered EXCEPT ![e] = 0]
      /\ written' = [written EXCEPT ![e] = 0] /\ released' = [released EXCEPT ![e] = 0]
      /\ delivered' = [delivered EXCEPT ![e] = 0]
      /\ \E s \in BOOLEAN : sonic' = [sonic EXCEPT ![e] = s]
      /\ \/ winmmHooked /\ pc' = [pc EXCEPT ![t] = "tts"] /\ hooked' = [hooked EXCEPT ![t] = e]
         \/ pc' = [pc EXCEPT ![t] = "install"] /\ UNCHANGED hooked
  BY NoneAssumption DEF Prepare, CallTtsWav, GoTo, hookVars, windowVars
<1>2. Shape'
  <2>1. pc' \in [Threads -> {"idle", "register", "create", "prepare", "install", "installed",
                             "tts", "flush"}]
        /\ hooked' \in [Threads -> Engines \cup {None}]
    BY <1>1 DEF IInv, Shape
  <2> QED
    BY <1>1, <2>1, BuffersAssumption DEF IInv, Shape
<1>3. Callers'
  BY <1>1, CallersMove, CallersCall DEF IInv
<1>4. Caught' /\ Unmixed'
  BY <1>1 DEF IInv, Caught, Unmixed, Shape
<1>5. Sounded(e)' /\ Returned(e)'
  <2>1. /\ written'[e] = 0 /\ released'[e] = 0 /\ stop'[e] = FALSE /\ buffered'[e] = 0
        /\ delivered'[e] = 0 /\ posted'[e] = posted[e] /\ user'[e] = t /\ window'[e] = window[e]
        /\ pc'[t] \in {"tts", "install"} /\ posted[e] \in Nat
    BY <1>1 DEF IInv, Shape
  <2>2. ~AtHome(e)
    BY <1>1 DEF AtHome
  <2>3. Sounded(e)'
    BY <1>1, <2>1 DEF Sounded
  <2>4. window[e] \in Threads \ crossed => posted[e] = 0
    BY <2>2 DEF IInv, Returned
  <2>5. Returned(e)'
    BY <1>1, <2>1, <2>4 DEF IInv, Returned
  <2> QED
    BY <2>3, <2>5
<1>6. \A f \in Engines \ {e} : Sounded(f)' /\ Returned(f)'
  <2>1. \A f \in Engines \ {e} : Untouched(f)
    BY <1>1 DEF Untouched, IInv, Shape
  <2>2. \A f \in Engines \ {e} : user[f] # None => pc'[user[f]] = pc[user[f]]
    BY <1>1 DEF IInv, Shape, Callers
  <2> QED
    BY <1>1, <2>1, <2>2, OthersKeep DEF IInv
<1> QED
  BY <1>2, <1>3, <1>4, <1>5, <1>6 DEF IInv

LEMMA InstallGood ==
    ASSUME IInv, NEW t \in Threads, InstallHooks(t)
    PROVE  IInv'
<1>1. /\ pc[t] = "install" /\ enabled' \in BOOLEAN /\ refused' \in BOOLEAN
      /\ enabled' \/ refused'
      /\ enabled => enabled'
      /\ refused => refused'
      /\ pc' = [pc EXCEPT ![t] = "installed"]
      /\ UNCHANGED <<hooked, winmmHooked, alive, posted, user, window, written, released,
                     stop, sonic, buffered, delivered, registered, strays, crossed>>
  BY DEF InstallHooks, GoTo, engineVars, countVars, soundVars, windowVars, IInv, Shape
<1>2. Shape'
  BY <1>1 DEF IInv, Shape
<1>3. Caught' /\ Unmixed'
  BY <1>1 DEF IInv, Shape, Caught, Unmixed
<1>4. Callers'
  BY <1>1, CallersMove DEF IInv
<1>5. ASSUME NEW f \in Engines PROVE Sounded(f)' /\ Returned(f)'
  <2>1. user[f] # None => pc[user[f]] = pc'[user[f]] \/ user[f] = t
    BY <1>1 DEF IInv, Shape
  <2>2. AtHome(f)' <=> AtHome(f)
    BY <1>1, <2>1 DEF AtHome, IInv, Shape
  <2>3. Sounded(f)'
    BY <1>1 DEF IInv, Sounded
  <2>4. user[f] # None /\ pc'[user[f]] \in {"register", "create"}
           => pc[user[f]] \in {"register", "create"}
    BY <1>1, <2>1 DEF IInv, Shape
  <2>5. Returned(f)'
    BY <1>1, <2>2, <2>4 DEF IInv, Returned
  <2> QED
    BY <2>3, <2>5
<1> QED
  BY <1>2, <1>3, <1>4, <1>5 DEF IInv

LEMMA InstalledGood ==
    ASSUME IInv, NEW t \in Threads, NEW e \in Engines, HooksInstalled(t, e)
    PROVE  IInv'
<1>1. /\ pc[t] = "installed" /\ user[e] = t /\ t # None /\ winmmHooked' = TRUE
      /\ pc' = [pc EXCEPT ![t] = "tts"] /\ hooked' = [hooked EXCEPT ![t] = e]
      /\ UNCHANGED <<enabled, refused, alive, posted, user, window, written, released,
                     stop, sonic, buffered, delivered, registered, strays, crossed>>
  BY NoneAssumption
     DEF HooksInstalled, CallTtsWav, GoTo, engineVars, countVars, soundVars, windowVars
<1>2. Shape'
  BY <1>1 DEF IInv, Shape
<1>3. Caught' /\ Unmixed'
  BY <1>1 DEF IInv, Shape, Caught, Unmixed
<1>4. Callers'
  BY <1>1, CallersCall DEF IInv
<1>5. Sounded(e)' /\ Returned(e)'
  <2>1. /\ written[e] = 0 /\ released[e] = 0 /\ posted[e] \in Nat /\ pc'[t] = "tts"
    BY <1>1 DEF IInv, Returned, Shape
  <2>2. ~AtHome(e)
    BY <1>1 DEF AtHome
  <2>3. Sounded(e)'
    BY <1>1 DEF IInv, Sounded
  <2>4. Returned(e)'
    BY <1>1, <2>1, <2>2 DEF IInv, Returned, AtHome
  <2> QED
    BY <2>3, <2>4
<1>6. \A f \in Engines \ {e} : Sounded(f)' /\ Returned(f)'
  <2>1. \A f \in Engines \ {e} : Untouched(f)
    BY <1>1 DEF Untouched
  <2>2. \A f \in Engines \ {e} : user[f] # None => pc'[user[f]] = pc[user[f]]
    BY <1>1 DEF IInv, Shape, Callers
  <2> QED
    BY <1>1, <2>1, <2>2, OthersKeep DEF IInv
<1> QED
  BY <1>2, <1>3, <1>4, <1>5, <1>6 DEF IInv

LEMMA WriteGood ==
    ASSUME IInv, NEW t \in Threads, NEW e \in Engines, WaveOutWrite(t, e)
    PROVE  IInv'
<1>1. /\ pc[t] = "tts" /\ hooked[t] = e /\ user[e] = t /\ t # None
      /\ written[e] < MaxBuffers /\ written'[e] = written[e] + 1
      /\ posted' = (IF window[e] = None THEN posted ELSE [posted EXCEPT ![e] = posted[e] + 1])
      /\ crossed' = crossed \cup ({window[e]} \ {None, t})
      /\ UNCHANGED <<pc, hooked, winmmHooked, enabled, refused, alive, user, window, released,
                     sonic, registered, strays>>
  BY NoneAssumption DEF WaveOutWrite, Captured, Posts, IInv, Shape, Callers, threadVars, hookVars
<1>2. /\ written[e] \in Nat /\ posted[e] \in Nat /\ released[e] \in Nat /\ stop[e] \in BOOLEAN
      /\ buffered[e] \in Nat /\ delivered[e] \in Nat /\ sonic[e] \in BOOLEAN
      /\ window[e] \in Threads \cup {None} /\ MaxBuffers \in Nat
  BY BuffersAssumption DEF IInv, Shape
<1>3. /\ buffered' \in [Engines -> Nat] /\ delivered' \in [Engines -> Nat]
      /\ stop' \in [Engines -> BOOLEAN]
      /\ \A f \in Engines \ {e} : buffered'[f] = buffered[f] /\ delivered'[f] = delivered[f]
                                  /\ stop'[f] = stop[f]
      /\ delivered'[e] + buffered'[e] \in {delivered[e] + buffered[e],
                                            delivered[e] + buffered[e] + 1}
      /\ ~stop'[e] => ~stop[e] /\ delivered'[e] + buffered'[e] = delivered[e] + buffered[e] + 1
      /\ ~sonic[e] => buffered'[e] = buffered[e]
  <2> USE DEF IInv
  <2>1. CASE stop[e]
    BY <1>2, <2>1 DEF WaveOutWrite, Shape
  <2>2. CASE ~stop[e] /\ sonic[e]
    <3>1. PICK n \in 0..(buffered[e] + 1) :
            /\ buffered' = [buffered EXCEPT ![e] = @ + 1 - n]
            /\ IF n > 0 THEN Deliver(e, n) ELSE UNCHANGED <<delivered, stop>>
      BY <2>2 DEF WaveOutWrite, ThroughSonic
    <3>2. buffered'[e] = buffered[e] + 1 - n /\ buffered' \in [Engines -> Nat]
          /\ n \in Nat
      BY <1>2, <3>1 DEF Shape
    <3>3. delivered'[e] = delivered[e] + n /\ delivered' \in [Engines -> Nat]
          /\ stop' \in [Engines -> BOOLEAN]
      BY <1>2, <3>1, <3>2 DEF Deliver, Shape
    <3>4. \A f \in Engines \ {e} : buffered'[f] = buffered[f] /\ delivered'[f] = delivered[f]
                                   /\ stop'[f] = stop[f]
      BY <3>1 DEF Deliver, Shape
    <3>5. delivered[e] + n + (buffered[e] + 1 - n) = delivered[e] + buffered[e] + 1
      BY <1>2, <3>2
    <3> QED
      BY <2>2, <3>2, <3>3, <3>4, <3>5
  <2>3. CASE ~stop[e] /\ ~sonic[e]
    <3>1. Deliver(e, 1) /\ UNCHANGED buffered
      BY <2>3 DEF WaveOutWrite, Passthrough
    <3>2. delivered'[e] = delivered[e] + 1 /\ delivered' \in [Engines -> Nat]
          /\ stop' \in [Engines -> BOOLEAN]
      BY <1>2, <3>1 DEF Deliver, Shape
    <3>3. \A f \in Engines \ {e} : delivered'[f] = delivered[f] /\ stop'[f] = stop[f]
      BY <3>1 DEF Deliver, Shape
    <3> QED
      BY <1>2, <2>3, <3>1, <3>2, <3>3 DEF Shape
  <2> QED
    BY <1>2, <2>1, <2>2, <2>3
<1>4. Shape'
  <2>1. written' = [written EXCEPT ![e] = written[e] + 1]
    BY DEF WaveOutWrite
  <2>2. written[e] + 1 \in 0..MaxBuffers /\ posted[e] + 1 \in Nat
    BY <1>1, <1>2
  <2>3. written' \in [Engines -> 0..MaxBuffers] /\ posted' \in [Engines -> Nat]
    BY <1>1, <2>1, <2>2 DEF IInv, Shape
  <2>4. crossed' \subseteq Threads
    BY <1>1, <1>2 DEF IInv, Shape
  <2> QED
    BY <1>1, <1>3, <2>3, <2>4 DEF IInv, Shape
<1>5. Callers' /\ Caught' /\ Unmixed'
  BY <1>1 DEF IInv, Callers, Caught, Unmixed
<1>6. Sounded(e)' /\ Returned(e)'
  <2>1. Sounded(e)'
    <3>1. delivered'[e] \in Nat /\ buffered'[e] \in Nat
      BY <1>3
    <3>2. delivered'[e] + buffered'[e] <= written'[e]
      BY <1>1, <1>2, <1>3 DEF IInv, Sounded
    <3>3. ~stop'[e] => delivered'[e] + buffered'[e] = written'[e]
      BY <1>1, <1>3 DEF IInv, Sounded
    <3> QED
      BY <1>1, <1>3, <3>2, <3>3 DEF IInv, Sounded
  <2>2. /\ released'[e] = released[e] /\ user'[e] = t /\ pc'[t] = "tts"
        /\ window'[e] = window[e] /\ written'[e] = written[e] + 1
    BY <1>1
  <2>3. CASE window[e] = None
    <3>1. posted'[e] = posted[e] /\ ~AtHome(e)'
      BY <1>1, <2>3 DEF AtHome
    <3> QED
      BY <2>1, <2>2, <2>3, <3>1, NoneAssumption DEF IInv, Returned
  <2>4. CASE window[e] = t
    <3>1. posted'[e] = posted[e] + 1 /\ crossed' = crossed /\ AtHome(e) /\ AtHome(e)'
      BY <1>1, <2>4 DEF AtHome, IInv, Shape
    <3> QED
      BY <1>1, <1>2, <2>1, <2>2, <2>4, <3>1 DEF IInv, Returned
  <2>5. CASE window[e] \notin {None, t}
    <3>1. window[e] \in crossed' /\ ~AtHome(e)'
      BY <1>1, <2>5 DEF AtHome
    <3> QED
      BY <2>1, <2>2, <2>5, <3>1 DEF Returned
  <2> QED
    BY <2>3, <2>4, <2>5
<1>7. \A f \in Engines \ {e} : Sounded(f)' /\ Returned(f)'
  <2>1. \A f \in Engines \ {e} : Untouched(f)
    BY <1>1, <1>3 DEF WaveOutWrite, Untouched, IInv, Shape
  <2> QED
    BY <1>1, <2>1, OthersKeep DEF IInv
<1> QED
  BY <1>4, <1>5, <1>6, <1>7 DEF IInv

(* A message that a thread handles is, on a thread that has none from      *)
(* others, one of the engine it speaks with.                               *)
LEMMA PumpGood ==
    ASSUME IInv, NEW t \in Threads, Pump(t)
    PROVE  IInv'
<1>1. /\ UNCHANGED <<pc, hooked, winmmHooked, enabled, refused, alive, user, window, written,
                     stop, sonic, buffered, delivered, registered, crossed>>
      /\ released' = IF hooked[t] = None THEN released
                       ELSE [released EXCEPT ![hooked[t]] = released[hooked[t]] + 1]
      /\ hooked[t] \in Engines \cup {None} /\ t # None
  BY NoneAssumption DEF Pump, OnRelBuf, threadVars, hookVars, soundVars, IInv, Shape
<1>2. \A f \in Engines : /\ released[f] \in Nat /\ released'[f] \in Nat
                         /\ posted[f] \in Nat /\ written[f] \in Nat
                         /\ released'[f] = released[f] \/ (hooked[t] = f /\ user[f] = t
                               /\ pc[t] \in {"tts", "flush"} /\ released'[f] = released[f] + 1)
  BY <1>1, NoneAssumption, BuffersAssumption DEF IInv, Shape, Callers
<1>3. released' \in [Engines -> Nat]
  BY <1>1, <1>2 DEF IInv, Shape
<1>4. Callers' /\ Caught' /\ \A f \in Engines : Sounded(f)'
  BY <1>1 DEF IInv, Callers, Caught, Sounded
<1>5. \A f \in Engines : (AtHome(f)' <=> AtHome(f))
  BY <1>1 DEF AtHome
<1>6. pc[t] \in {"idle", "tts"}
  BY DEF Pump
<1>7. CASE strays[t] > 0 /\ strays' = [strays EXCEPT ![t] = strays[t] - 1] /\ UNCHANGED posted
  <2>1. t \in crossed
    BY <1>7 DEF IInv, Unmixed
  <2>2. strays' \in [Threads -> Nat] /\ Unmixed'
    BY <1>1, <1>7, <2>1 DEF IInv, Shape, Unmixed
  <2>3. ASSUME NEW f \in Engines PROVE Returned(f)'
    <3>1. AtHome(f) => released'[f] + posted'[f] >= written'[f]
      BY <1>1, <1>2, <1>7 DEF IInv, Returned
    <3>2. window[f] \in Threads \ crossed /\ AtHome(f) => released'[f] = released[f]
      BY <1>2, <2>1 DEF AtHome
    <3>3. user[f] # None /\ pc[user[f]] \in {"install", "installed"} => released'[f] = released[f]
      BY <1>2
    <3> QED
      BY <1>1, <1>5, <1>7, <3>1, <3>2, <3>3 DEF IInv, Returned
  <2> QED
    BY <1>1, <1>3, <1>4, <1>7, <2>2, <2>3 DEF IInv, Shape
<1>8. ASSUME NEW e \in Engines, window[e] = t, posted[e] > 0,
             posted' = [posted EXCEPT ![e] = posted[e] - 1], UNCHANGED strays
      PROVE  IInv'
  <2>1. posted' \in [Engines -> Nat] /\ posted'[e] = posted[e] - 1
        /\ \A f \in Engines \ {e} : posted'[f] = posted[f]
    BY <1>8 DEF IInv, Shape
  <2>2. Unmixed'
    BY <1>1, <1>8 DEF IInv, Unmixed
  <2>3. AtHome(e) => hooked[t] = e /\ released'[e] = released[e] + 1
    <3>1. ASSUME AtHome(e) PROVE hooked[t] = e
      BY <1>8, <3>1 DEF AtHome, IInv, Callers
    <3> QED
      BY <1>1, <1>2, <3>1, NoneAssumption DEF IInv, Shape
  <2>4. t \notin crossed => AtHome(e)
    BY <1>2, <1>8 DEF IInv, Returned
  <2>5. Returned(e)'
    <3>1. AtHome(e) => released'[e] + posted'[e] = released[e] + posted[e]
      BY <1>2, <2>1, <2>3
    <3>2. user[e] # None /\ pc[user[e]] \in {"install", "installed"} => released'[e] = released[e]
      BY <1>2
    <3> QED
      BY <1>1, <1>5, <1>8, <2>4, <3>1, <3>2, NoneAssumption DEF IInv, Returned
  <2>6. ASSUME NEW f \in Engines \ {e} PROVE Returned(f)'
    <3>1. posted'[f] = posted[f]
      BY <2>1
    <3>2. AtHome(f) => released'[f] + posted'[f] >= written'[f]
      BY <1>1, <1>2, <3>1 DEF IInv, Returned
    <3>3. window[f] \in Threads \ crossed /\ AtHome(f) => released'[f] = released[f]
      <4>1. ASSUME window[f] \in Threads \ crossed, AtHome(f), released'[f] # released[f]
            PROVE  FALSE
        <5>1. hooked[t] = f /\ window[f] = t
          BY <1>2, <4>1 DEF AtHome
        <5> QED
          BY <2>3, <2>4, <4>1, <5>1
      <4> QED
        BY <4>1
    <3>4. user[f] # None /\ pc[user[f]] \in {"install", "installed"} => released'[f] = released[f]
      BY <1>2
    <3> QED
      BY <1>1, <1>5, <3>1, <3>2, <3>3, <3>4 DEF IInv, Returned
  <2> QED
    BY <1>1, <1>3, <1>4, <1>8, <2>1, <2>2, <2>5, <2>6 DEF IInv, Shape
<1> QED
  BY <1>7, <1>8 DEF Pump

LEMMA TtsWavGood ==
    ASSUME IInv, NEW t \in Threads, NEW e \in Engines, TtsWavReturns(t, e) \/ TtsWavPlays(t, e)
    PROVE  IInv'
<1>1. /\ pc[t] = "tts" /\ hooked[t] = e /\ user[e] = t /\ t # None
      /\ pc' = [pc EXCEPT ![t] = "flush"]
      /\ UNCHANGED <<hooked, winmmHooked, enabled, refused, alive, posted, user, window, written,
                     released, stop, sonic, buffered, delivered, registered, strays, crossed>>
  BY NoneAssumption DEF TtsWavReturns, TtsWavPlays, GoTo, Captured, IInv, Callers, hookVars,
     engineVars, countVars, soundVars, windowVars
<1>2. Shape'
  BY <1>1 DEF IInv, Shape
<1>3. Caught' /\ Unmixed'
  BY <1>1 DEF IInv, Shape, Caught, Unmixed
<1>4. Callers'
  BY <1>1 DEF IInv, Callers, Shape
<1>5. \A f \in Engines : Sounded(f)'
  BY <1>1 DEF IInv, Sounded
<1>6. Returned(e)'
  <2>1. posted[e] \in Nat /\ released[e] \in Nat /\ written[e] \in Nat /\ released[e] >= written[e]
    BY BuffersAssumption DEF IInv, Shape, TtsWavReturns, TtsWavPlays
  <2>2. ~AtHome(e)' /\ pc'[t] = "flush"
    BY <1>1 DEF AtHome, IInv, Shape
  <2>3. window[e] \in Threads \ crossed => posted[e] = 0
    BY <2>1 DEF IInv, Returned
  <2> QED
    BY <1>1, <2>2, <2>3 DEF IInv, Returned
<1>7. \A f \in Engines \ {e} : Returned(f)'
  <2>1. \A f \in Engines \ {e} : Untouched(f)
    BY <1>1 DEF Untouched
  <2>2. \A f \in Engines \ {e} : user[f] # None => pc'[user[f]] = pc[user[f]]
    BY <1>1 DEF IInv, Shape, Callers
  <2> QED
    BY <1>1, <2>1, <2>2, OthersKeep DEF IInv
<1> QED
  BY <1>2, <1>3, <1>4, <1>5, <1>6, <1>7 DEF IInv

LEMMA SpeakReturnsGood ==
    ASSUME IInv, NEW t \in Threads, NEW e \in Engines, SpeakReturns(t, e)
    PROVE  IInv'
<1>1. /\ pc[t] = "flush" /\ hooked[t] = e /\ user[e] = t /\ t # None
      /\ pc' = [pc EXCEPT ![t] = "idle"] /\ hooked' = [hooked EXCEPT ![t] = None]
      /\ user' = [user EXCEPT ![e] = None]
      /\ UNCHANGED <<winmmHooked, enabled, refused, alive, window, written, released, stop,
                     registered, posted, strays, crossed>>
  BY NoneAssumption DEF SpeakReturns, GoTo, IInv, Callers, hookVars, windowVars
<1>2. /\ delivered'[e] = IF sonic[e] /\ ~stop[e] THEN delivered[e] + buffered[e]
                                                 ELSE delivered[e]
      /\ buffered'[e] = 0 /\ sonic'[e] = FALSE
  BY DEF SpeakReturns, FlushesToCallback, IInv, Shape
<1>3. /\ written[e] \in Nat /\ buffered[e] \in Nat /\ delivered[e] \in Nat
      /\ posted[e] \in Nat
  BY BuffersAssumption DEF IInv, Shape
<1>4. Shape'
  BY <1>1, <1>3 DEF SpeakReturns, IInv, Shape
<1>5. Caught' /\ Unmixed'
  BY <1>1 DEF IInv, Caught, Unmixed, Shape
<1>6. \A f \in Engines \ {e} : user[f] # t /\ user'[f] = user[f]
  BY <1>1 DEF IInv, Callers, Shape
<1>7. Callers'
  <2>1. user'[e] = None /\ pc'[t] = "idle" /\ hooked'[t] = None
        /\ \A u \in Threads \ {t} : pc'[u] = pc[u] /\ hooked'[u] = hooked[u]
    BY <1>1 DEF IInv, Shape
  <2>2. \A f \in Engines : user'[f] # None => pc'[user'[f]] # "idle"
    BY <1>6, <2>1 DEF IInv, Callers, Shape
  <2>3. \A f, g \in Engines : user'[f] # None /\ user'[f] = user'[g] => f = g
    BY <1>6, <2>1 DEF IInv, Callers
  <2>4. ASSUME NEW u \in Threads
        PROVE  IF pc'[u] \in {"tts", "flush"}
                 THEN hooked'[u] \in Engines /\ user'[hooked'[u]] = u
                 ELSE hooked'[u] = None
    <3>1. CASE u = t
      BY <2>1, <3>1
    <3>2. CASE u # t
      <4>1. user[hooked[u]] = u => hooked[u] # e
        BY <1>1, <3>2
      <4> QED
        BY <1>6, <2>1, <3>2, <4>1 DEF IInv, Callers
    <3> QED
      BY <3>1, <3>2
  <2> QED
    BY <2>2, <2>3, <2>4 DEF Callers
<1>8. Sounded(e)' /\ Returned(e)'
  <2>1. user'[e] = None /\ ~AtHome(e) /\ ~AtHome(e)'
    BY <1>1 DEF AtHome, IInv, Shape
  <2>2. Sounded(e)'
    BY <1>1, <1>2, <1>3, <2>1 DEF IInv, Sounded
  <2>3. Returned(e)'
    BY <1>1, <2>1 DEF IInv, Returned
  <2> QED
    BY <2>2, <2>3
<1>9. \A f \in Engines \ {e} : Sounded(f)' /\ Returned(f)'
  <2>1. \A f \in Engines \ {e} : Untouched(f)
    BY <1>1, <1>6 DEF SpeakReturns, Untouched, IInv, Shape
  <2>2. \A f \in Engines \ {e} : user[f] # None => pc'[user[f]] = pc[user[f]]
    BY <1>1, <1>6 DEF IInv, Shape
  <2> QED
    BY <1>1, <2>1, <2>2, OthersKeep DEF IInv
<1> QED
  BY <1>4, <1>5, <1>7, <1>8, <1>9 DEF IInv

LEMMA StepGood ==
    ASSUME IInv, [Next]_vars
    PROVE  IInv'
<1>1. CASE UNCHANGED vars
  BY <1>1 DEF vars, threadVars, hookVars, engineVars, countVars, soundVars, windowVars, IInv,
              Shape, Callers, Caught, Unmixed, Sounded, Returned, AtHome
<1>2. CASE Next
  BY <1>2, InitStateGood, DeleteStateGood, SpeakAsyncGood, RegisterGood, CreateGood, PrepareGood,
     InstallGood, InstalledGood, WriteGood, PumpGood, TtsWavGood, SpeakReturnsGood
     DEF Next, Speaks
<1> QED
  BY <1>1, <1>2

LEMMA Invariance == Spec => []IInv
BY InitGood, StepGood, PTL DEF Spec

(***************************************************************************)
(* The theorems.                                                           *)
(***************************************************************************)
(* The counters and tables of the wrapper keep their types, on whatever    *)
(* threads the engines are used: no more sound is held back or delivered   *)
(* than an utterance has.                                                  *)
THEOREM TypeCorrect == Spec => []TypeOK
<1>1. ASSUME IInv PROVE TypeOK
  <2>1. ASSUME NEW e \in Engines
        PROVE  buffered[e] \in 0..MaxBuffers /\ delivered[e] \in 0..MaxBuffers
    <3>1. /\ written[e] \in 0..MaxBuffers /\ MaxBuffers \in Nat
          /\ buffered[e] \in Nat /\ delivered[e] \in Nat
      BY <1>1, BuffersAssumption DEF IInv, Shape
    <3>2. delivered[e] + buffered[e] <= written[e]
      BY <1>1 DEF IInv, Sounded
    <3> QED
      BY <3>1, <3>2
  <2> QED
    BY <1>1, <2>1 DEF IInv, Shape, TypeOK
<1> QED
  BY <1>1, Invariance, PTL

(* On the thread of the engine's window TtsWav is never short of a buffer: *)
(* every one it has written is given back or will be when the thread pumps *)
(* its messages.  Other engines, other threads that use them, windows left *)
(* by deleted engines and failures of Windows do not change that.          *)
THEOREM NoBufferIsLost == Spec => []BuffersComeBack
<1>1. ASSUME IInv PROVE BuffersComeBack
  BY <1>1 DEF IInv, Returned, AtHome, BuffersComeBack
<1> QED
  BY <1>1, Invariance, PTL

(* A message can outlive its utterance, or give back a buffer of another   *)
(* one, only on a thread that has got messages from another thread.        *)
THEOREM EveryMessageHandled == Spec => []NoStaleMessage
<1>1. ASSUME IInv, NEW e \in Engines, window[e] \in Threads \ crossed
      PROVE  IF user[e] = window[e] /\ pc[user[e]] = "tts"
               THEN released[e] <= written[e] ELSE posted[e] = 0
  <2>1. AtHome(e) <=> user[e] = window[e] /\ pc[user[e]] = "tts"
    BY <1>1, NoneAssumption DEF AtHome
  <2>2. released[e] \in Nat /\ posted[e] \in Nat /\ written[e] \in Nat
    BY <1>1, BuffersAssumption DEF IInv, Shape
  <2>3. IF AtHome(e) THEN released[e] + posted[e] = written[e] ELSE posted[e] = 0
    BY <1>1 DEF IInv, Returned
  <2>4. AtHome(e) => released[e] <= written[e]
    BY <2>2, <2>3
  <2> QED
    BY <2>1, <2>3, <2>4
<1>2. IInv => NoStaleMessage
  BY <1>1 DEF NoStaleMessage
<1> QED
  BY <1>2, Invariance, PTL

(* Used on any threads or not, with the hooks installed by any number of   *)
(* them at once, an utterance that nobody stopped reaches the callback     *)
(* whole, and none is played instead of being caught while Windows has     *)
(* refused no hook.                                                        *)
THEOREM SoundIsKept == Spec => []NothingLost
<1>1. ASSUME IInv PROVE NothingLost
  <2>1. ASSUME NEW e \in Engines, user[e] = None, ~stop[e]
        PROVE  delivered[e] = written[e]
    <3>1. delivered[e] \in Nat /\ buffered[e] = 0 /\ delivered[e] + buffered[e] = written[e]
      BY <1>1, <2>1 DEF IInv, Shape, Sounded
    <3> QED
      BY <3>1
  <2> QED
    BY <1>1, <2>1 DEF IInv, Caught, NothingLost
<1> QED
  BY <1>1, Invariance, PTL

(* A refusal is final: no later write and no flush of the same utterance   *)
(* calls the callback again, whatever the other engines do.                *)
THEOREM RefusalHolds == Spec => SilentAfterStop
<1>1. ASSUME IInv, [Next]_vars, NEW e \in Engines, user[e] # None,
             pc[user[e]] \in {"tts", "flush"}, stop[e]
      PROVE  delivered'[e] = delivered[e]
  <2> USE <1>1 DEF IInv, Shape
  <2>1. CASE UNCHANGED vars
    BY <2>1 DEF vars, engineVars, countVars, soundVars
  <2>2. ASSUME NEW t \in Threads, Pump(t) \/ InstallHooks(t) \/ RegisterClass(t)
        PROVE  delivered' = delivered
    BY <2>2 DEF Pump, OnRelBuf, InstallHooks, RegisterClass, engineVars, countVars, soundVars
  <2>3. ASSUME NEW t \in Threads, NEW f \in Engines,
               \/ InitState(f) \/ HooksInstalled(t, f) \/ TtsWavReturns(t, f) \/ TtsWavPlays(t, f)
               \/ DeleteState(t, f) \/ SpeakAsync(t, f) \/ CreateWindow(t, f)
        PROVE  delivered' = delivered
    BY <2>3 DEF InitState, HooksInstalled, TtsWavReturns, TtsWavPlays, DeleteState, SpeakAsync,
       CreateWindow, engineVars, countVars, soundVars
  <2>4. ASSUME NEW t \in Threads, NEW f \in Engines, Prepare(t, f)
        PROVE  delivered'[e] = delivered[e]
    BY <2>4 DEF Prepare
  <2>5. ASSUME NEW t \in Threads, NEW f \in Engines, WaveOutWrite(t, f)
        PROVE  delivered'[e] = delivered[e]
    <3>1. CASE f = e
      BY <2>5, <3>1 DEF WaveOutWrite
    <3>2. CASE f # e
      BY <2>5, <3>2 DEF WaveOutWrite, ThroughSonic, Passthrough, Deliver
    <3> QED
      BY <3>1, <3>2
  <2>6. ASSUME NEW t \in Threads, NEW f \in Engines, SpeakReturns(t, f)
        PROVE  delivered'[e] = delivered[e]
    BY <2>6 DEF SpeakReturns, FlushesToCallback
  <2> QED
    BY <2>1, <2>2, <2>3, <2>4, <2>5, <2>6 DEF Next, Speaks
<1>2. IInv /\ [Next]_vars =>
        [\A e \in Engines : user[e] # None /\ pc[user[e]] \in {"tts", "flush"} /\ stop[e]
             => delivered'[e] = delivered[e]]_vars
  BY <1>1
<1> QED
  BY <1>2, Invariance, PTL DEF Spec, SilentAfterStop
=============================================================================

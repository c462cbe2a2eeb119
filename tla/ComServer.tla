----------------------------- MODULE ComServer -----------------------------
(***************************************************************************)
(* The voice library as a COM server: class factories, engines, the        *)
(* enumerator of voices, and the data keys behind its tokens.  Threads of  *)
(* the application create objects, share and release them; the number of   *)
(* objects and locks decides whether COM may unload the library.           *)
(*                                                                         *)
(* Reference counts and the object counter are atomic, so every access to  *)
(* one of them is a step, and so is every access to token_, the pointer an *)
(* engine keeps without a lock.  The SpObjectToken that SAPI wraps around  *)
(* a data key is external: it owns one reference to the key, and is here   *)
(* the same thing as the key.  The calls on one enumerator do not overlap, *)
(* as SAPI makes them; nothing in the enumerator sees to it.               *)
(***************************************************************************)
EXTENDS Integers, Sequences

CONSTANTS
    Clients,   \* threads of the application
    Objects,   \* bound: the objects there can be at once
    None,
    Voices     \* bst_voice_count (14 in the code)

ASSUME ObjectsAssumption == None \notin Objects
ASSUME VoicesAssumption == Voices \in Nat

VARIABLES
    kind,     \* the class of an object, or "free"
    refs,     \* ref_count_
    count,    \* object_counter::count_
    locks,    \* the clients that have locked the server
    holds,    \* the objects a client has a reference to
    call,     \* the call a client makes, or Idle
    index,    \* index_ of an enumerator
    seen,     \* voices it has handed out or skipped since its last Reset
    token,    \* token_ of an engine
    overlapped \* whether two threads have been in token_ of an engine at
              \* the same time, one of them to replace it

cursorVars == <<index, seen>>
vars == <<kind, refs, count, locks, holds, call, cursorVars, token, overlapped>>

(* Where a call stands, the class it creates, the object it creates or     *)
(* deletes, the object it is a method of, whether QueryInterface has given *)
(* out a reference, the tokens Next has collected, how many it wants, and  *)
(* the token SetObjectToken replaces.                                      *)
Idle == [pc |-> "idle", op |-> "none", obj |-> None, src |-> None,
         found |-> FALSE, tokens |-> <<>>, celt |-> 0, old |-> None]

At(c, s) == call[c].pc = s
GoTo(c, s) == call' = [call EXCEPT ![c].pc = s]
Return(c) == call' = [call EXCEPT ![c] = Idle]

Has(c, o, class) == At(c, "idle") /\ o \in holds[c] /\ kind[o] = class
Busy(o) == \E c \in Clients : call[c].src = o

(***************************************************************************)
(* Calls that create an object.                                            *)
(***************************************************************************)
Begin(c, class, o) ==
    /\ call' = [call EXCEPT ![c] = [Idle EXCEPT !.pc = "new", !.op = class, !.src = o]]
    /\ UNCHANGED <<kind, refs, count, locks, holds, cursorVars, token>>

DllGetClassObject(c) == At(c, "idle") /\ Begin(c, "factory", None)

CreateInstance(c, f) ==
    /\ Has(c, f, "factory")
    /\ Begin(c, "engine", f) \/ Begin(c, "enum", f)

Clone(c, e) == Has(c, e, "enum") /\ ~Busy(e) /\ Begin(c, "enum", e)

(* The "Attributes" of a token, as a key of their own.                     *)
OpenKey(c, t) == Has(c, t, "token") /\ Begin(c, "key", t)

(* object<T>: operator new, which may fail, and then the counter.          *)
New(c) ==
    /\ At(c, "new")
    /\ \E o \in Objects :
          /\ kind[o] = "free"
          /\ kind' = [kind EXCEPT ![o] = call[c].op]
          /\ refs' = [refs EXCEPT ![o] = 1]
          /\ call' = [call EXCEPT ![c].obj = o, ![c].pc = "count"]
    /\ UNCHANGED <<count, locks, holds, cursorVars, token>>

NewFails(c) ==
    /\ At(c, "new")
    /\ IF call[c].op = "token" THEN GoTo(c, "drop") ELSE Return(c)
    /\ UNCHANGED <<kind, refs, count, locks, holds, cursorVars, token>>

\* Defect: an object, or a reference, is given out and not counted.
NotCounted(n) == n
Counted(n) == n + 1

Increment(c) ==
    /\ At(c, "count")
    /\ count' = Counted(count)
    /\ GoTo(c, "query")
    /\ UNCHANGED <<kind, refs, locks, holds, cursorVars, token>>

(* QueryInterface.  The caller of DllGetClassObject and CreateInstance may *)
(* ask for an interface there is not.  Clone and OpenKey fill their object *)
(* before, voices and cursor or attributes, and may find no memory to.     *)
AddRef(n) == n + 1

FromFactory(c) == call[c].src # None => kind[call[c].src] = "factory"

CopyCursor(c) ==
    IF call[c].op = "enum" /\ ~FromFactory(c)
      THEN /\ index' = [index EXCEPT ![call[c].obj] = index[call[c].src]]
           /\ seen' = [seen EXCEPT ![call[c].obj] = seen[call[c].src]]
      ELSE UNCHANGED cursorVars

QueryInterface(c) ==
    /\ At(c, "query")
    /\ CopyCursor(c)
    /\ refs' = [refs EXCEPT ![call[c].obj] = AddRef(@)]
    /\ call' = [call EXCEPT ![c].found = TRUE,
                            ![c].pc = IF call[c].op = "token" THEN "init" ELSE "unref"]
    /\ UNCHANGED <<kind, count, locks, holds, token>>

QueryFails(c) ==
    /\ At(c, "query") /\ call[c].op # "token"
    /\ GoTo(c, "unref")
    /\ UNCHANGED <<kind, refs, count, locks, holds, cursorVars, token>>

(* InitFromDataKey: the SpObjectToken takes a reference and interface_ptr  *)
(* gives its own back; or there is no token, and only the latter happens.  *)
InitFromDataKey(c) ==
    /\ At(c, "init")
    /\ \/ GoTo(c, "unref") /\ UNCHANGED refs
       \/ /\ refs' = [refs EXCEPT ![call[c].obj] = @ - 1]
          /\ call' = [call EXCEPT ![c].found = FALSE, ![c].pc = "unref"]
    /\ UNCHANGED <<kind, count, locks, holds, cursorVars, token>>

(* ~object releases the first reference; the call returns, or Next goes on *)
(* with the next token.                                                    *)
Unref(c) ==
    /\ At(c, "unref")
    /\ LET o == call[c].obj
       IN  /\ refs' = [refs EXCEPT ![o] = @ - 1]
           /\ \/ /\ refs[o] = 1
                 /\ GoTo(c, "delete") /\ UNCHANGED holds
              \/ /\ refs[o] # 1 /\ call[c].op = "token"
                 /\ call' = [call EXCEPT ![c].tokens = Append(@, o), ![c].pc = "fetch"]
                 /\ UNCHANGED holds
              \/ /\ refs[o] # 1 /\ call[c].op # "token"
                 /\ Return(c)
                 /\ holds' = [holds EXCEPT ![c] = @ \cup {o}]
    /\ UNCHANGED <<kind, count, locks, cursorVars, token>>

(***************************************************************************)
(* References and locks.                                                   *)
(***************************************************************************)
(* An application hands a reference to another of its threads, which takes *)
(* it between its calls.                                                   *)
Share(c, d, o) ==
    /\ At(c, "idle") /\ At(d, "idle") /\ o \in holds[c] /\ o \notin holds[d]
    /\ refs' = [refs EXCEPT ![o] = AddRef(@)]
    /\ holds' = [holds EXCEPT ![d] = @ \cup {o}]
    /\ UNCHANGED <<kind, count, locks, call, cursorVars, token>>

(* Whoever takes the count to zero deletes the object.                     *)
StartDelete(c, o) == call' = [call EXCEPT ![c].pc = "delete", ![c].obj = o]

Release(c, o) ==
    /\ At(c, "idle") /\ o \in holds[c]
    /\ holds' = [holds EXCEPT ![c] = @ \ {o}]
    /\ refs' = [refs EXCEPT ![o] = @ - 1]
    /\ IF refs[o] = 1 THEN StartDelete(c, o) ELSE UNCHANGED call
    /\ UNCHANGED <<kind, count, locks, cursorVars, token>>

(* ~IUnknownImpl, before the destructor of the class.                      *)
\* Defect: an object that was never handed out is not counted out.
OnlyIfFound(c) == IF call[c].found \/ call[c].op = "none" THEN 1 ELSE 0
Decrement(c) == 1

Delete(c) ==
    /\ At(c, "delete")
    /\ count' = count - Decrement(c)
    /\ GoTo(c, "destroy")
    /\ UNCHANGED <<kind, refs, locks, holds, cursorVars, token>>

(* The destructor of an engine releases its token.                         *)
Destroy(c) ==
    /\ At(c, "destroy")
    /\ LET o == call[c].obj
           t == token[o]
       IN  /\ kind' = [kind EXCEPT ![o] = "free"]
           /\ index' = [index EXCEPT ![o] = 0] /\ seen' = [seen EXCEPT ![o] = <<>>]
           /\ token' = [token EXCEPT ![o] = None]
           /\ \/ /\ t # None
                 /\ refs' = [refs EXCEPT ![t] = @ - 1]
                 /\ IF refs[t] = 1 THEN StartDelete(c, t) ELSE Return(c)
              \/ /\ t = None /\ UNCHANGED refs
                 /\ IF call[c].op = "token" THEN GoTo(c, "drop") ELSE Return(c)
    /\ UNCHANGED <<count, locks, holds>>

LockServer(c) ==
    /\ \E f \in holds[c] : Has(c, f, "factory")
    /\ \/ c \notin locks /\ locks' = locks \cup {c} /\ count' = count + 1
       \/ c \in locks /\ locks' = locks \ {c} /\ count' = count - 1
    /\ UNCHANGED <<kind, refs, holds, call, cursorVars, token>>

DllCanUnloadNow == count = 0

(***************************************************************************)
(* The enumerator.                                                         *)
(***************************************************************************)
Fewest(m, n) == IF m < n THEN m ELSE n
Numbers(m, n) == [i \in 1..(n - m) |-> m + i]

FetchNext(c, e, n) ==
    /\ Has(c, e, "enum") /\ ~Busy(e)
    /\ call' = [call EXCEPT ![c] = [Idle EXCEPT !.pc = "fetch", !.op = "token",
                                                !.src = e, !.celt = n]]
    /\ UNCHANGED <<kind, refs, count, locks, holds, cursorVars, token>>

(* Item makes one token, whatever index_ is.                               *)
ItemCall == 0

Item(c, e) ==
    /\ Has(c, e, "enum") /\ ~Busy(e) /\ Voices > 0
    /\ call' = [call EXCEPT ![c] = [Idle EXCEPT !.pc = "new", !.op = "token",
                                                !.src = e, !.celt = ItemCall]]
    /\ UNCHANGED <<kind, refs, count, locks, holds, cursorVars, token>>

Wanted(c) == IF call[c].celt = ItemCall
               THEN 1 ELSE Fewest(call[c].celt, Voices - index[call[c].src])

(* The next token, or all tokens to the caller.                            *)
FetchOne(c) ==
    /\ At(c, "fetch") /\ Len(call[c].tokens) < Wanted(c)
    /\ call' = [call EXCEPT ![c].pc = "new", ![c].found = FALSE, ![c].obj = None]
    /\ UNCHANGED <<kind, refs, count, locks, holds, cursorVars, token>>

Advance(e, n) ==
    /\ index' = [index EXCEPT ![e] = @ + n]
    /\ seen' = [seen EXCEPT ![e] = @ \o Numbers(index[e], index[e] + n)]

FetchDone(c) ==
    /\ At(c, "fetch") /\ Len(call[c].tokens) = Wanted(c)
    /\ LET tokens == call[c].tokens
       IN  /\ Advance(call[c].src, IF call[c].celt = ItemCall THEN 0 ELSE Len(tokens))
           /\ holds' = [holds EXCEPT ![c] = @ \cup {tokens[i] : i \in DOMAIN tokens}]
    /\ Return(c)
    /\ UNCHANGED <<kind, refs, count, locks, token>>

(* A token could not be made: those collected are released, one by one,    *)
(* and the cursor stays.                                                   *)
\* Defect: the cursor is past those that were made.
PastThose(e) == index' = [index EXCEPT ![e] = @ + 1] /\ UNCHANGED seen
CursorStays(e) == UNCHANGED cursorVars

Drop(c) ==
    /\ At(c, "drop") /\ call[c].tokens # <<>>
    /\ LET t == Head(call[c].tokens)
       IN  /\ refs' = [refs EXCEPT ![t] = @ - 1]
           /\ call' = [call EXCEPT ![c].tokens = Tail(@), ![c].obj = t,
                                   ![c].pc = IF refs[t] = 1 THEN "delete" ELSE "drop"]
    /\ CursorStays(call[c].src)
    /\ UNCHANGED <<kind, count, locks, holds, token>>

FetchFails(c) ==
    /\ At(c, "drop") /\ call[c].tokens = <<>>
    /\ Return(c)
    /\ UNCHANGED <<kind, refs, count, locks, holds, cursorVars, token>>

Skip(c, e, n) ==
    /\ Has(c, e, "enum") /\ ~Busy(e)
    /\ Advance(e, Fewest(Voices - index[e], n))
    /\ UNCHANGED <<kind, refs, count, locks, holds, call, token>>

Reset(c, e) ==
    /\ Has(c, e, "enum") /\ ~Busy(e)
    /\ index' = [index EXCEPT ![e] = 0]
    /\ seen' = [seen EXCEPT ![e] = <<>>]
    /\ UNCHANGED <<kind, refs, count, locks, holds, call, token>>

(***************************************************************************)
(* The engine and its token.                                               *)
(***************************************************************************)
(* token_ = pToken: _com_ptr_t does nothing when it is the same pointer,   *)
(* or else reads the old one, stores the new one, adds a reference to what *)
(* is stored, and releases the old one.  The key SetObjectToken reads the  *)
(* name from is one the thread has opened with OpenKey and has yet to      *)
(* release.                                                                *)
SetObjectToken(c, e, t) ==
    /\ Has(c, e, "engine") /\ Has(c, t, "token") /\ token[e] # t
    /\ \E k \in holds[c] : kind[k] = "key"
    /\ call' = [call EXCEPT ![c] = [Idle EXCEPT !.pc = "store", !.src = e,
                                                !.obj = t, !.old = token[e]]]
    /\ UNCHANGED <<kind, refs, count, locks, holds, cursorVars, token>>

StoreToken(c) ==
    /\ At(c, "store")
    /\ token' = [token EXCEPT ![call[c].src] = call[c].obj]
    /\ GoTo(c, "addref")
    /\ UNCHANGED <<kind, refs, count, locks, holds, cursorVars>>

\* Defect: the reference to the old token is not given back.
KeepOld(c) == Return(c) /\ UNCHANGED refs
TokenAddRef(n) == n + 1

AddRefToken(c) ==
    /\ At(c, "addref")
    /\ refs' = [refs EXCEPT ![token[call[c].src]] = TokenAddRef(@)]
    /\ GoTo(c, "dropold")
    /\ UNCHANGED <<kind, count, locks, holds, cursorVars, token>>

DropOld(c) ==
    LET old == call[c].old
    IN  \/ old = None /\ Return(c) /\ UNCHANGED refs
        \/ /\ old # None
           /\ refs' = [refs EXCEPT ![old] = @ - 1]
           /\ IF refs[old] = 1 THEN StartDelete(c, old) ELSE Return(c)

ReleaseOld(c) ==
    /\ At(c, "dropold")
    /\ DropOld(c)
    /\ UNCHANGED <<kind, count, locks, holds, cursorVars, token>>

(* GetObjectToken reads token_ for AddRef, and once more for what it gives *)
(* to the caller.                                                          *)
GetObjectToken(c, e) ==
    /\ Has(c, e, "engine") /\ token[e] # None /\ token[e] \notin holds[c]
    /\ call' = [call EXCEPT ![c] = [Idle EXCEPT !.pc = "getref", !.src = e,
                                                !.obj = token[e]]]
    /\ UNCHANGED <<kind, refs, count, locks, holds, cursorVars, token>>

AddRefGot(c) ==
    /\ At(c, "getref")
    /\ LET t == call[c].obj
       IN  /\ refs' = [refs EXCEPT ![t] = TokenAddRef(@)]
           /\ holds' = [holds EXCEPT ![c] = @ \cup {t}]
    /\ GoTo(c, "give")
    /\ UNCHANGED <<kind, count, locks, cursorVars, token>>

GiveToken(c) ==
    /\ At(c, "give")
    /\ holds' = [holds EXCEPT ![c] = (@ \ {call[c].obj}) \cup {token[call[c].src]}]
    /\ Return(c)
    /\ UNCHANGED <<kind, refs, count, locks, cursorVars, token>>

(***************************************************************************)
(* The specification.                                                      *)
(***************************************************************************)
Init ==
    /\ kind = [o \in Objects |-> "free"] /\ refs = [o \in Objects |-> 0]
    /\ count = 0 /\ locks = {}
    /\ holds = [c \in Clients |-> {}] /\ call = [c \in Clients |-> Idle]
    /\ index = [o \in Objects |-> 0] /\ seen = [o \in Objects |-> <<>>]
    /\ token = [o \in Objects |-> None] /\ overlapped = FALSE

(* The steps of a call once it has begun.                                  *)
Step(c) ==
    \/ New(c) \/ NewFails(c) \/ Increment(c)
    \/ QueryInterface(c) \/ QueryFails(c) \/ InitFromDataKey(c)
    \/ Unref(c) \/ Delete(c) \/ Destroy(c)
    \/ FetchOne(c) \/ FetchDone(c) \/ Drop(c) \/ FetchFails(c)
    \/ StoreToken(c) \/ AddRefToken(c) \/ ReleaseOld(c)
    \/ AddRefGot(c) \/ GiveToken(c)

Begins(c) ==
    \/ DllGetClassObject(c) \/ LockServer(c)
    \/ \E o \in Objects :
          \/ CreateInstance(c, o) \/ Clone(c, o) \/ OpenKey(c, o)
          \/ Release(c, o) \/ Reset(c, o) \/ Item(c, o) \/ GetObjectToken(c, o)
          \/ \E n \in 1..(Voices + 1) : FetchNext(c, o, n) \/ Skip(c, o, n)
          \/ \E t \in Objects : SetObjectToken(c, o, t)
          \/ \E d \in Clients : Share(c, d, o)

(* Two threads are in token_ of one engine, one of them to replace it.     *)
Setting(c) == call[c].pc \in {"store", "addref", "dropold"}
Getting(c) == call[c].pc \in {"getref", "give"}
Overlapping ==
    \E c, d \in Clients :
        /\ c # d /\ Setting(c) /\ (Setting(d) \/ Getting(d))
        /\ call[c].src = call[d].src
Overlap == overlapped' = (overlapped \/ Overlapping')

Next == \E c \in Clients : (Step(c) \/ Begins(c)) /\ Overlap

Spec == Init /\ [][Next]_vars

(***************************************************************************)
(* Properties.                                                             *)
(***************************************************************************)
Classes == {"factory", "engine", "enum", "token", "key"}

(* What token_ of an engine costs: it has no lock, so that after two calls *)
(* have overlapped on it an object may be deleted too early or never, and  *)
(* nothing else is promised.  SAPI sets the token of an engine once, when  *)
(* it has made it, before it gives the engine to anybody.                  *)
TypeOK ==
    /\ overlapped \in BOOLEAN
    /\ \/ overlapped
       \/ /\ kind \in [Objects -> Classes \cup {"free"}]
          /\ refs \in [Objects -> Nat] /\ count \in Nat
          /\ locks \subseteq Clients /\ holds \in [Clients -> SUBSET Objects]
          /\ call \in [Clients ->
                         [pc : {"idle", "new", "count", "query", "init", "unref", "delete",
                                "destroy", "fetch", "drop", "store", "addref", "dropold",
                                "getref", "give"},
                          op : Classes \cup {"none"},
                          obj : Objects \cup {None}, src : Objects \cup {None},
                          found : BOOLEAN, tokens : Seq(Objects), celt : 0..(Voices + 1),
                          old : Objects \cup {None}]]
          /\ index \in [Objects -> 0..Voices]
          /\ seen \in [Objects -> Seq(1..Voices)]
          /\ token \in [Objects -> Objects \cup {None}]

(* Nobody has a pointer to an object that is deleted or about to be: not a *)
(* thread of the application, not a call that runs, not an engine.         *)
Dying(o) == \E c \in Clients : call[c].pc \in {"delete", "destroy"} /\ call[c].obj = o
Referenced(o) ==
    \/ \E c \in Clients :
          \/ o \in holds[c]
          \/ \E i \in DOMAIN call[c].tokens : call[c].tokens[i] = o
          \/ At(c, "getref") /\ call[c].obj = o
          \/ call[c].pc \in {"addref", "dropold"} /\ call[c].old = o
    \/ \E e \in Objects : token[e] = o
NeverDangling == \A o \in Objects : Referenced(o) => kind[o] # "free" /\ ~Dying(o)

(* The same, unless two threads have been in token_ of one engine.         *)
HeldAlive == overlapped \/ NeverDangling

(* DllCanUnloadNow does not let COM unload the library under a thread with *)
(* a reference or a lock.  (A thread that has neither is in the library    *)
(* with a zero counter at two places: in DllGetClassObject until the       *)
(* factory is counted, and in Release after the last object is.)           *)
ModuleNeeded ==
    overlapped \/
    (DllCanUnloadNow => \A c \in Clients : holds[c] = {} /\ c \notin locks)

(* When nothing is held, everything is gone again, what a failed call had  *)
(* created as well, and the library can be unloaded.                       *)
NothingLeaks ==
    overlapped \/
    ((\A c \in Clients : call[c] = Idle /\ holds[c] = {} /\ c \notin locks)
        => DllCanUnloadNow /\ \A o \in Objects : kind[o] = "free")

(* An enumerator passes every voice once, in their order, from its Reset   *)
(* on, or from that of the one it is a clone of, whatever fails meanwhile. *)
EveryVoiceOnce ==
    overlapped \/
    \A e \in Objects : seen[e] = Numbers(0, index[e]) /\ index[e] <= Voices
=============================================================================

-------------------------- MODULE ComServerProofs --------------------------
(***************************************************************************)
(* Proofs about ComServer, for any threads, objects and voices, and about  *)
(* the registry it is registered in.                                       *)
(***************************************************************************)
EXTENDS MCComServer, FiniteSetTheorems, SequenceTheorems, TLAPS

(* What a call in progress has an object for, and what it is left with.    *)
Making(c) == call[c].pc \in {"count", "query", "init", "unref"}
Deleting(c) == call[c].pc \in {"delete", "destroy"}
Working(c, o) == (Making(c) \/ Deleting(c)) /\ call[c].obj = o
Listed(c) == {call[c].tokens[i] : i \in DOMAIN call[c].tokens}
Private(c, o) == Working(c, o) \/ o \in Listed(c)

(* The references there are to an object that no call has for itself.      *)
Holders(o) == {c \in Clients : o \in holds[c]}

(* While SetObjectToken replaces a token, the engine still counts for the  *)
(* old one, and for the new one only when it has added its reference.      *)
Swapping(d) == call[d].pc \in {"addref", "dropold"}
Pointed(e, o) ==
    \/ \E d \in Clients : Swapping(d) /\ call[d].src = e /\ call[d].old = o
    \/ token[e] = o /\ \A d \in Clients : call[d].pc = "addref" => call[d].src # e
Engines(o) == {e \in Objects : Pointed(e, o)}
Unheld(o) == Holders(o) = {} /\ Engines(o) = {}

(* What the counter of the library counts besides the locks.               *)
Live == {o \in Objects :
           /\ kind[o] # "free"
           /\ \A c \in Clients : call[c].pc \in {"count", "destroy"} => call[c].obj # o}

Pcs == {"idle", "new", "count", "query", "init", "unref",
        "delete", "destroy", "fetch", "drop",
        "store", "addref", "dropold", "getref", "give"}
Calls == [pc : Pcs,
          op : Classes \cup {"none"},
          obj : Objects \cup {None}, src : Objects \cup {None},
          found : BOOLEAN, tokens : Seq(Objects), celt : 0..(Voices + 1),
          old : Objects \cup {None}]

(***************************************************************************)
(* The parts of the invariant.                                             *)
(***************************************************************************)
Shape ==
    /\ kind \in [Objects -> Classes \cup {"free"}]
    /\ refs \in [Objects -> Nat]
    /\ locks \subseteq Clients /\ holds \in [Clients -> SUBSET Objects]
    /\ call \in [Clients -> Calls]
    /\ index \in [Objects -> 0..Voices]
    /\ seen = [e \in Objects |-> Numbers(0, index[e])]
    /\ token \in [Objects -> Objects \cup {None}]

(* A call by itself: its object is what it says it is, and the object it   *)
(* is a method of is one its thread has a reference to.                    *)
CallSound(c) ==
    /\ At(c, "idle") => call[c] = Idle
    /\ At(c, "new") => call[c].op \in Classes
    /\ At(c, "fetch") => call[c].op = "token"
    /\ Making(c) \/ Deleting(c) => call[c].obj \in Objects
    /\ call[c].src # None => call[c].src \in holds[c]
    /\ call[c].op = "token" => call[c].src # None
    /\ call[c].op # "token" => call[c].tokens = <<>>
    /\ call[c].pc \in {"new", "count", "query"} => ~call[c].found
    /\ At(c, "init") => call[c].found

(* The objects a call has for itself: nobody else has a reference, and the *)
(* count is what the call itself owes.  Tokens are made for an enumerator. *)
Owned(c) ==
    /\ call[c].op = "token" => kind[call[c].src] = "enum"
    /\ Making(c) => refs[call[c].obj] = IF call[c].found THEN 2 ELSE 1
    /\ Deleting(c) => refs[call[c].obj] = 0
    /\ call[c].op = "token" /\ (Making(c) \/ Deleting(c)) => kind[call[c].obj] = "token"
    /\ Making(c) \/ Deleting(c) => call[c].obj \notin Listed(c)
    /\ \A i, j \in DOMAIN call[c].tokens :
          call[c].tokens[i] = call[c].tokens[j] => i = j
    /\ \A o \in Listed(c) : refs[o] = 1 /\ kind[o] = "token"
    /\ \A o \in Objects : Private(c, o) => kind[o] # "free" /\ Unheld(o)

Exclusive ==
    \A c, d \in Clients : \A o \in Objects : Private(c, o) /\ Private(d, o) => c = d

(* An object by itself: its count is that of the references to it.         *)
Shared(o) == kind[o] # "free" /\ \A c \in Clients : ~Private(c, o)
Referred(o) ==
    /\ kind[o] = "free" => Unheld(o)
    /\ Shared(o) =>
         /\ IsFiniteSet(Holders(o)) /\ IsFiniteSet(Engines(o))
         /\ refs[o] = Cardinality(Holders(o)) + Cardinality(Engines(o))
         /\ refs[o] > 0
    /\ token[o] # None => kind[o] = "engine" /\ kind[token[o]] = "token"

CountedIn ==
    /\ IsFiniteSet(Live) /\ IsFiniteSet(locks)
    /\ count = Cardinality(Live) + Cardinality(locks)

IInv ==
    /\ Shape
    /\ \A c \in Clients : CallSound(c) /\ Owned(c)
    /\ Exclusive
    /\ \A o \in Objects : Referred(o)
    /\ CountedIn

(* A call in token_ of an engine by itself, while no other is in its way.  *)
TokenSound(c) ==
    /\ Setting(c) \/ Getting(c) =>
         call[c].src \in Objects /\ call[c].obj \in Objects /\ call[c].op = "none"
    /\ Setting(c) => call[c].old # call[c].obj
    /\ At(c, "store") =>
         /\ token[call[c].src] = call[c].old /\ call[c].obj \in holds[c]
         /\ kind[call[c].src] = "engine" /\ kind[call[c].obj] = "token"
    /\ Swapping(c) \/ Getting(c) => token[call[c].src] = call[c].obj
    /\ At(c, "addref") \/ At(c, "give") => call[c].obj \in holds[c]
    /\ At(c, "getref") => call[c].obj \notin holds[c]
TInv == ~Overlapping /\ \A c \in Clients : TokenSound(c)

(* What is known while no two calls have met in token_ of an engine.       *)
Inv == overlapped \in BOOLEAN /\ (~overlapped => IInv /\ TInv)

(***************************************************************************)
(* Counting.                                                               *)
(***************************************************************************)
LEMMA Counts ==
    ASSUME NEW S, IsFiniteSet(S)
    PROVE  /\ Cardinality(S) \in Nat /\ (Cardinality(S) = 0 <=> S = {})
           /\ \A x : x \notin S =>
                IsFiniteSet(S \cup {x}) /\ Cardinality(S \cup {x}) = Cardinality(S) + 1
           /\ \A x : x \in S =>
                IsFiniteSet(S \ {x}) /\ Cardinality(S \ {x}) = Cardinality(S) - 1
<1>1. Cardinality(S) \in Nat /\ (Cardinality(S) = 0 <=> S = {})
  BY FS_EmptySet, FS_CardinalityType
<1>2. ASSUME NEW x, x \notin S
      PROVE  IsFiniteSet(S \cup {x}) /\ Cardinality(S \cup {x}) = Cardinality(S) + 1
  BY <1>2, FS_AddElement
<1>3. ASSUME NEW x, x \in S
      PROVE  IsFiniteSet(S \ {x}) /\ Cardinality(S \ {x}) = Cardinality(S) - 1
  BY <1>3, FS_RemoveElement
<1> QED
  BY <1>1, <1>2, <1>3

(* A reference more, a reference less, and the last one.                   *)
LEMMA OneMore ==
    ASSUME NEW S, NEW T, NEW n, NEW x, IsFiniteSet(S), IsFiniteSet(T),
           n = Cardinality(S) + Cardinality(T), x \notin S
    PROVE  /\ IsFiniteSet(S \cup {x}) /\ n + 1 \in Nat /\ n + 1 > 0
           /\ n + 1 = Cardinality(S \cup {x}) + Cardinality(T)
           /\ n + 1 = Cardinality(T) + Cardinality(S \cup {x})
<1>1. Cardinality(S) \in Nat /\ Cardinality(T) \in Nat
  BY Counts
<1>2. IsFiniteSet(S \cup {x}) /\ Cardinality(S \cup {x}) = Cardinality(S) + 1
  BY Counts
<1> QED
  BY <1>1, <1>2

LEMMA OneLess ==
    ASSUME NEW S, NEW T, NEW n, NEW x, IsFiniteSet(S), IsFiniteSet(T),
           n = Cardinality(S) + Cardinality(T), x \in S
    PROVE  /\ IsFiniteSet(S \ {x}) /\ n \in Nat /\ n > 0
           /\ n - 1 = Cardinality(S \ {x}) + Cardinality(T)
           /\ n - 1 = Cardinality(T) + Cardinality(S \ {x})
<1>1. Cardinality(S) \in Nat /\ Cardinality(T) \in Nat /\ (Cardinality(T) = 0 <=> T = {})
  BY Counts
<1>2. IsFiniteSet(S \ {x}) /\ Cardinality(S \ {x}) = Cardinality(S) - 1
  BY Counts
<1>3. Cardinality(S \ {x}) \in Nat /\ (Cardinality(S \ {x}) = 0 <=> S \ {x} = {})
  BY <1>2, Counts
<1> QED
  BY <1>1, <1>2, <1>3

LEMMA LastOne ==
    ASSUME NEW S, NEW T, NEW x, IsFiniteSet(S), IsFiniteSet(T), x \in S,
           Cardinality(S) + Cardinality(T) = 1
    PROVE  S \ {x} = {} /\ T = {}
<1>1. /\ Cardinality(S) \in Nat /\ Cardinality(T) \in Nat
      /\ (Cardinality(T) = 0 <=> T = {})
  BY Counts
<1>2. IsFiniteSet(S \ {x}) /\ Cardinality(S \ {x}) = Cardinality(S) - 1
  BY Counts
<1>3. Cardinality(S \ {x}) \in Nat /\ (Cardinality(S \ {x}) = 0 <=> S \ {x} = {})
  BY <1>2, Counts
<1>4. Cardinality(S \ {x}) = 0 /\ Cardinality(T) = 0
  BY <1>1, <1>2, <1>3
<1> QED
  BY <1>1, <1>3, <1>4

(***************************************************************************)
(* How a call moves on: to s, with this flag, object and tokens.           *)
(***************************************************************************)
LEMMA IdleCall == Idle \in Calls
  BY EmptySeq, VoicesAssumption DEF Calls, Pcs, Idle

Moved(c, s, f, o, ts) ==
    /\ call' \in [Clients -> Calls]
    /\ \A d \in Clients \ {c} : call'[d] = call[d]
    /\ call'[c].pc = s /\ call'[c].found = f /\ call'[c].obj = o /\ call'[c].tokens = ts
    /\ call'[c].op = call[c].op /\ call'[c].src = call[c].src /\ call'[c].celt = call[c].celt
    /\ call'[c].old = call[c].old

LEMMA Moving ==
    ASSUME call \in [Clients -> Calls], NEW c \in Clients, NEW s \in Pcs, NEW f \in BOOLEAN,
           NEW o \in Objects \cup {None}, NEW ts \in Seq(Objects)
    PROVE  /\ GoTo(c, s) => Moved(c, s, call[c].found, call[c].obj, call[c].tokens)
           /\ call' = [call EXCEPT ![c].obj = o, ![c].pc = s]
                => Moved(c, s, call[c].found, o, call[c].tokens)
           /\ call' = [call EXCEPT ![c].found = f, ![c].pc = s]
                => Moved(c, s, f, call[c].obj, call[c].tokens)
           /\ call' = [call EXCEPT ![c].tokens = ts, ![c].pc = s]
                => Moved(c, s, call[c].found, call[c].obj, ts)
           /\ call' = [call EXCEPT ![c].tokens = ts, ![c].obj = o, ![c].pc = s]
                => Moved(c, s, call[c].found, o, ts)
           /\ call' = [call EXCEPT ![c].pc = s, ![c].found = f, ![c].obj = o]
                => Moved(c, s, f, o, call[c].tokens)
           /\ StartDelete(c, o) => Moved(c, "delete", call[c].found, o, call[c].tokens)
<1> USE DEF Moved, Calls
<1>1. GoTo(c, s) => Moved(c, s, call[c].found, call[c].obj, call[c].tokens)
  <2> SUFFICES ASSUME call' = [call EXCEPT ![c].pc = s]
               PROVE  Moved(c, s, call[c].found, call[c].obj, call[c].tokens)
    BY DEF GoTo
  <2> QED
    OBVIOUS
<1>2. ASSUME call' = [call EXCEPT ![c].obj = o, ![c].pc = s]
                PROVE Moved(c, s, call[c].found, o, call[c].tokens)
  BY <1>2
<1>3. ASSUME call' = [call EXCEPT ![c].found = f, ![c].pc = s]
                PROVE Moved(c, s, f, call[c].obj, call[c].tokens)
  BY <1>3
<1>4. ASSUME call' = [call EXCEPT ![c].tokens = ts, ![c].pc = s]
                PROVE Moved(c, s, call[c].found, call[c].obj, ts)
  BY <1>4
<1>5. ASSUME call' = [call EXCEPT ![c].tokens = ts, ![c].obj = o, ![c].pc = s]
                PROVE Moved(c, s, call[c].found, o, ts)
  BY <1>5, ZenonT(30)
<1>6. ASSUME call' = [call EXCEPT ![c].pc = s, ![c].found = f, ![c].obj = o]
                PROVE Moved(c, s, f, o, call[c].tokens)
  BY <1>6, ZenonT(30)
<1>7. StartDelete(c, o) => Moved(c, "delete", call[c].found, o, call[c].tokens)
  <2> SUFFICES ASSUME call' = [call EXCEPT ![c].pc = "delete", ![c].obj = o]
               PROVE  Moved(c, "delete", call[c].found, o, call[c].tokens)
    BY DEF StartDelete
  <2>1. "delete" \in Pcs
    BY DEF Pcs
  <2> QED
    BY <2>1
<1> HIDE DEF Moved, Calls
<1> QED
  BY <1>1, <1>2, <1>3, <1>4, <1>5, <1>6, <1>7

(***************************************************************************)
(* What a step of one call leaves alone.                                   *)
(***************************************************************************)
Untouched(c, o) ==
    /\ kind'[o] = kind[o] /\ refs'[o] = refs[o] /\ token'[o] = token[o]
    /\ Holders(o)' = Holders(o) /\ Engines(o)' = Engines(o)
    /\ Private(c, o)' <=> Private(c, o)

(* A step of c that touches the objects in T only, none of them another    *)
(* call's own: what is left to show is about c and T.                      *)
LEMMA Frame ==
    ASSUME Shape, Shape', \A d \in Clients : CallSound(d) /\ Owned(d), Exclusive,
           \A o \in Objects : Referred(o),
           NEW c \in Clients, \A d \in Clients \ {c} : call'[d] = call[d],
           \A d \in Clients : holds[d] \subseteq holds'[d] \/ d = c,
           NEW T \in SUBSET Objects,
           \A o \in Objects \ T : Untouched(c, o),
           \A o \in Objects \ T : token[o] # None => kind'[token[o]] = "token",
           \A o \in Objects : Holders(o) # {} => kind'[o] = kind[o],
           \A o \in T : \A d \in Clients \ {c} : ~Private(d, o)
    PROVE  /\ Exclusive'
           /\ \A d \in Clients \ {c} : CallSound(d)' /\ Owned(d)'
           /\ \A o \in Objects \ T : Referred(o)'
<1>1. ASSUME NEW d \in Clients \ {c}
      PROVE  /\ Making(d)' = Making(d) /\ Deleting(d)' = Deleting(d) /\ Listed(d)' = Listed(d)
             /\ \A o : Private(d, o)' = Private(d, o)
  BY DEF Making, Deleting, Listed, Private, Working
<1>2. Exclusive'
  <2> SUFFICES ASSUME NEW a \in Clients, NEW b \in Clients, NEW o \in Objects,
                      Private(a, o)', Private(b, o)', a # b
               PROVE  FALSE
    BY DEF Exclusive
  <2>1. CASE a # c /\ b # c
    BY <1>1, <2>1 DEF Exclusive
  <2>2. ASSUME NEW d \in Clients \ {c}, Private(c, o)', Private(d, o)'
        PROVE  FALSE
    <3>1. Private(d, o)
      BY <1>1, <2>2
    <3>2. o \notin T
      BY <3>1
    <3>3. Private(c, o)
      BY <2>2, <3>2 DEF Untouched
    <3> QED
      BY <3>1, <3>3 DEF Exclusive
  <2> QED
    BY <2>1, <2>2
<1>3. ASSUME NEW d \in Clients \ {c} PROVE CallSound(d)'
  <2>1. CallSound(d) /\ call'[d] = call[d] /\ holds[d] \subseteq holds'[d]
    OBVIOUS
  <2> QED
    BY <1>1, <2>1 DEF CallSound, At
<1>4. ASSUME NEW d \in Clients \ {c} PROVE Owned(d)'
  <2>1. Owned(d) /\ CallSound(d) /\ call'[d] = call[d]
    OBVIOUS
  <2>2. ASSUME NEW o \in Objects, Private(d, o)
        PROVE  kind'[o] = kind[o] /\ refs'[o] = refs[o] /\ (Unheld(o) => Unheld(o)')
    BY <2>2 DEF Untouched, Unheld
  <2>3. Making(d) \/ Deleting(d) => call[d].obj \in Objects /\ Private(d, call[d].obj)
    BY <2>1 DEF CallSound, Private, Working
  <2>4. \A o \in Listed(d) : o \in Objects /\ Private(d, o)
    BY DEF Listed, Private, Shape, Calls
  <2>5. /\ Making(d) => refs'[call[d].obj] = IF call[d].found THEN 2 ELSE 1
        /\ Deleting(d) => refs'[call[d].obj] = 0
        /\ call[d].op = "token" /\ (Making(d) \/ Deleting(d)) => kind'[call[d].obj] = "token"
    BY <2>1, <2>2, <2>3 DEF Owned
  <2>6. /\ \A o \in Listed(d) : refs'[o] = 1 /\ kind'[o] = "token"
        /\ \A o \in Objects : Private(d, o) => kind'[o] # "free" /\ Unheld(o)'
    BY <2>1, <2>2, <2>4 DEF Owned
  <2>7. call[d].op = "token" => kind'[call[d].src] = "enum"
    <3> SUFFICES ASSUME call[d].op = "token"
                 PROVE  kind'[call[d].src] = "enum"
      OBVIOUS
    <3>1. /\ call[d].src \in Objects /\ call[d].src \in holds[d]
          /\ kind[call[d].src] = "enum"
      BY <2>1 DEF CallSound, Owned, Shape, Calls
    <3>2. Holders(call[d].src) # {}
      BY <3>1 DEF Holders
    <3> QED
      BY <3>1, <3>2
  <2> QED
    BY <1>1, <2>1, <2>5, <2>6, <2>7 DEF Owned
<1>5. ASSUME NEW o \in Objects \ T PROVE Referred(o)'
  <2>1. Untouched(c, o) /\ Referred(o)
    OBVIOUS
  <2>2. Shared(o)' = Shared(o)
    BY <1>1, <2>1 DEF Shared, Untouched
  <2>3. Unheld(o)' = Unheld(o)
    BY <2>1 DEF Untouched, Unheld
  <2>4. Shared(o)' =>
         /\ IsFiniteSet(Holders(o)') /\ IsFiniteSet(Engines(o)')
         /\ refs'[o] = Cardinality(Holders(o)') + Cardinality(Engines(o)')
         /\ refs'[o] > 0
    BY <2>1, <2>2 DEF Untouched, Referred
  <2>5. token'[o] # None => kind'[o] = "engine" /\ kind'[token'[o]] = "token"
    BY <2>1 DEF Untouched, Referred
  <2> QED
    BY <2>1, <2>3, <2>4, <2>5 DEF Referred, Untouched
<1> QED
  BY <1>2, <1>3, <1>4, <1>5

(* What engines count for changes with token_, and with who is in it.      *)
LEMMA EnginesKept ==
    ASSUME NEW c \in Clients, UNCHANGED token, \A d \in Clients \ {c} : call'[d] = call[d],
           call'[c] = call[c] \/ (~Swapping(c) /\ ~Swapping(c)')
    PROVE  \A p : Engines(p)' = Engines(p)
<1>1. ASSUME NEW d \in Clients
      PROVE  \/ call'[d] = call[d] /\ (Swapping(d)' <=> Swapping(d))
             \/ ~Swapping(d) /\ ~Swapping(d)'
  <2>1. CASE d = c
    BY <2>1 DEF Swapping
  <2>2. CASE d # c
    BY <2>2 DEF Swapping
  <2> QED
    BY <2>1, <2>2
<1>2. ASSUME NEW d \in Clients, NEW e, NEW p
      PROVE  /\ (Swapping(d)' /\ call'[d].src = e /\ call'[d].old = p)
                  <=> (Swapping(d) /\ call[d].src = e /\ call[d].old = p)
             /\ (call'[d].pc = "addref" => call'[d].src # e)
                  <=> (call[d].pc = "addref" => call[d].src # e)
  BY <1>1 DEF Swapping
<1>3. ASSUME NEW e, NEW p
      PROVE  Pointed(e, p)' <=> Pointed(e, p)
  <2>1. (\E d \in Clients : Swapping(d)' /\ call'[d].src = e /\ call'[d].old = p)
            <=> (\E d \in Clients : Swapping(d) /\ call[d].src = e /\ call[d].old = p)
    BY <1>2, Zenon
  <2>2. (\A d \in Clients : call'[d].pc = "addref" => call'[d].src # e)
            <=> (\A d \in Clients : call[d].pc = "addref" => call[d].src # e)
    BY <1>2, Zenon
  <2> QED
    BY <2>1, <2>2, Zenon DEF Pointed
<1> QED
  BY <1>3 DEF Engines

(***************************************************************************)
(* Steps that begin, or abandon, a call or are one: no object changes.     *)
(***************************************************************************)
LEMMA Quiet ==
    ASSUME IInv, Shape', NEW c \in Clients, UNCHANGED <<kind, refs, holds, token>>,
           ~Swapping(c), ~Swapping(c)',
           \A d \in Clients \ {c} : call'[d] = call[d],
           CallSound(c)', call'[c].tokens = call[c].tokens,
           call'[c].op = "token" => kind[call'[c].src] = "enum",
           ~Making(c), ~Deleting(c), ~Making(c)', ~Deleting(c)',
           IsFiniteSet(locks'), count' = Cardinality(Live) + Cardinality(locks')
    PROVE  IInv'
<1>1. Listed(c)' = Listed(c) /\ \A o : Private(c, o)' = Private(c, o)
  BY DEF Listed, Private, Working
<1>2. \A o : Holders(o)' = Holders(o) /\ Engines(o)' = Engines(o) /\ Unheld(o)' = Unheld(o)
  BY EnginesKept DEF Holders, Unheld
<1>3. \A o \in Objects : Untouched(c, o)
  BY <1>1, <1>2 DEF Untouched
<1>4. Owned(c)'
  BY <1>1, <1>2 DEF IInv, Owned
<1>5. \A o \in Objects : token[o] # None => kind'[token[o]] = "token"
  BY DEF IInv, Referred
<1>6. /\ Exclusive'
      /\ \A d \in Clients \ {c} : CallSound(d)' /\ Owned(d)'
      /\ \A o \in Objects : Referred(o)'
  <2>1. /\ \A d \in Clients : holds[d] \subseteq holds'[d] \/ d = c
        /\ {} \in SUBSET Objects /\ Objects \ {} = Objects
    OBVIOUS
  <2> QED
    BY <1>3, <1>5, <2>1, Frame DEF IInv
<1>7. CountedIn'
  <2>1. \A d \in Clients : \A o :
           (call'[d].pc \in {"count", "destroy"} => call'[d].obj # o)
              <=> (call[d].pc \in {"count", "destroy"} => call[d].obj # o)
    BY DEF Making, Deleting
  <2>2. Live' = Live
    BY <2>1 DEF Live
  <2> QED
    BY <2>2 DEF CountedIn, IInv
<1> QED
  BY <1>4, <1>6, <1>7 DEF IInv

(* A call is made anew.                                                    *)
LEMMA Called ==
    ASSUME IInv, NEW c \in Clients, NEW r \in Calls, call' = [call EXCEPT ![c] = r],
           UNCHANGED <<kind, refs, count, locks, holds, cursorVars, token>>
    PROVE  /\ Shape' /\ call'[c] = r
           /\ \A d \in Clients \ {c} : call'[d] = call[d]
<1> QED
  BY DEF IInv, Shape, cursorVars

LEMMA BeginGood ==
    ASSUME IInv, NEW c \in Clients, At(c, "idle"), NEW r \in Calls,
           r.pc \in {"new", "fetch", "store", "getref"}, r.pc = "new" => r.op \in Classes,
           ~r.found, r.tokens = <<>>,
           r.pc = "fetch" => r.op = "token", r.op = "token" => r.src # None,
           r.src # None => r.src \in holds[c],
           r.op = "token" => kind[r.src] = "enum",
           call' = [call EXCEPT ![c] = r],
           UNCHANGED <<kind, refs, count, locks, holds, cursorVars, token>>
    PROVE  IInv'
<1>1. Shape' /\ call'[c] = r /\ \A d \in Clients \ {c} : call'[d] = call[d]
  BY Called
<1>2. call[c] = Idle
  BY DEF IInv, CallSound
<1>3. CallSound(c)'
  BY <1>1 DEF CallSound, At, Making, Deleting
<1>4. /\ ~Making(c) /\ ~Deleting(c) /\ ~Making(c)' /\ ~Deleting(c)'
      /\ ~Swapping(c) /\ ~Swapping(c)'
  BY <1>1, <1>2 DEF Making, Deleting, Swapping, Idle
<1>5. call'[c].tokens = call[c].tokens
  BY <1>1, <1>2 DEF Idle
<1> QED
  BY <1>1, <1>3, <1>4, <1>5, Quiet DEF IInv, CountedIn

LEMMA BeginsGood ==
    ASSUME IInv, NEW c \in Clients,
           \/ DllGetClassObject(c)
           \/ \E o \in Objects :
                \/ CreateInstance(c, o) \/ Clone(c, o) \/ OpenKey(c, o) \/ Item(c, o)
                \/ \E n \in 1..(Voices + 1) : FetchNext(c, o, n)
    PROVE  IInv'
<1>1. ASSUME NEW o \in Objects \cup {None}, NEW class \in Classes \ {"token"},
             At(c, "idle"), o # None => o \in holds[c], Begin(c, class, o)
      PROVE  IInv'
  <2> DEFINE r == [Idle EXCEPT !.pc = "new", !.op = class, !.src = o]
  <2>1. /\ r \in Calls /\ r.pc = "new" /\ r.op = class /\ r.src = o
        /\ r.found = FALSE /\ r.tokens = <<>>
    BY IdleCall DEF Calls, Pcs, Idle
  <2>2. call' = [call EXCEPT ![c] = r]
    BY <1>1 DEF Begin
  <2> HIDE DEF r
  <2> QED
    BY <1>1, <2>1, <2>2, BeginGood DEF Begin
<1>2. \A class \in {"factory", "engine", "enum", "key"} : class \in Classes \ {"token"}
  BY DEF Classes
<1>3. CASE DllGetClassObject(c)
  BY <1>1, <1>2, <1>3 DEF DllGetClassObject
<1>4. ASSUME NEW o \in Objects, CreateInstance(c, o) \/ Clone(c, o) \/ OpenKey(c, o)
      PROVE  IInv'
  <2>1. \E class \in {"engine", "enum", "key"} :
           At(c, "idle") /\ o \in holds[c] /\ Begin(c, class, o)
    BY <1>4 DEF CreateInstance, Clone, OpenKey, Has
  <2> QED
    BY <1>1, <1>2, <2>1
<1>5. ASSUME NEW o \in Objects, NEW n \in 0..(Voices + 1), NEW p \in {"new", "fetch"},
             At(c, "idle"), o \in holds[c], kind[o] = "enum",
             call' = [call EXCEPT ![c] = [Idle EXCEPT !.pc = p, !.op = "token",
                                                      !.src = o, !.celt = n]],
             UNCHANGED <<kind, refs, count, locks, holds, cursorVars, token>>
      PROVE  IInv'
  <2> DEFINE r == [Idle EXCEPT !.pc = p, !.op = "token", !.src = o, !.celt = n]
  <2>1. /\ r \in Calls /\ r.pc = p /\ r.op = "token" /\ r.src = o
        /\ r.found = FALSE /\ r.tokens = <<>> /\ "token" \in Classes
    BY IdleCall DEF Calls, Pcs, Idle, Classes
  <2>2. call' = [call EXCEPT ![c] = r]
    BY <1>5
  <2>3. o # None
    BY ObjectsAssumption
  <2> HIDE DEF r
  <2> QED
    BY <1>5, <2>1, <2>2, <2>3, BeginGood
<1>6. ASSUME NEW o \in Objects, Item(c, o)
      PROVE  IInv'
  <2>1. 0 \in 0..(Voices + 1)
    BY VoicesAssumption
  <2> QED
    BY <1>5, <1>6, <2>1 DEF Item, Has, ItemCall
<1>7. ASSUME NEW o \in Objects, NEW n \in 1..(Voices + 1), FetchNext(c, o, n)
      PROVE  IInv'
  <2>1. n \in 0..(Voices + 1)
    BY VoicesAssumption
  <2> QED
    BY <1>5, <1>7, <2>1 DEF FetchNext, Has
<1> QED
  BY <1>3, <1>4, <1>6, <1>7

(* A call returns with nothing of its own; what it had, it has given away. *)
LEMMA Returned ==
    ASSUME NEW c \in Clients, call \in [Clients -> Calls], Return(c)
    PROVE  /\ call' \in [Clients -> Calls] /\ call'[c] = Idle
           /\ \A d \in Clients \ {c} : call'[d] = call[d]
           /\ CallSound(c)' /\ ~Making(c)' /\ ~Deleting(c)' /\ Listed(c)' = {}
           /\ \A o : ~Private(c, o)'
<1>1. /\ call' \in [Clients -> Calls] /\ call'[c] = Idle
      /\ \A d \in Clients \ {c} : call'[d] = call[d]
  BY IdleCall DEF Return
<1>2. ~Making(c)' /\ ~Deleting(c)' /\ Listed(c)' = {}
  BY <1>1 DEF Making, Deleting, Listed, Idle
<1>3. CallSound(c)' /\ \A o : ~Private(c, o)'
  BY <1>1, <1>2 DEF CallSound, At, Private, Working, Idle
<1> QED
  BY <1>1, <1>2, <1>3

(* A call goes on, or returns, with no object for itself.                  *)
LEMMA QuietCalls ==
    ASSUME IInv, NEW c \in Clients, NewFails(c) \/ FetchOne(c) \/ FetchFails(c)
    PROVE  IInv'
<1>1. call[c] \in Calls /\ CallSound(c) /\ Shape
  BY DEF IInv, Shape
<1>2. ~Making(c) /\ ~Deleting(c) /\ ~Swapping(c) /\ ~At(c, "idle")
  BY DEF Making, Deleting, Swapping, NewFails, FetchOne, FetchFails, At
<1>3. ASSUME NEW s \in {"new", "drop"}, NEW f \in BOOLEAN, NEW o \in Objects \cup {None},
             Moved(c, s, f, o, call[c].tokens), call[c].op = "token", s = "new" => ~f
      PROVE  IInv'
  <2>1. ~Making(c)' /\ ~Deleting(c)' /\ ~Swapping(c)'
    BY <1>3 DEF Moved, Making, Deleting, Swapping
  <2>2. CallSound(c)' /\ call' \in [Clients -> Calls]
    BY <1>1, <1>3, <2>1 DEF CallSound, At, Moved, NewFails, FetchOne, FetchFails, Classes
  <2>3. Shape'
    BY <1>1, <2>2 DEF Shape, NewFails, FetchOne, FetchFails, cursorVars
  <2>4. call'[c].op = "token" => kind[call'[c].src] = "enum"
    BY <1>3 DEF Moved, IInv, Owned
  <2> QED
    BY <1>2, <1>3, <2>1, <2>2, <2>3, <2>4, Quiet
       DEF Moved, IInv, CountedIn, NewFails, FetchOne, FetchFails
<1>4. ASSUME Return(c), call[c].tokens = <<>>
      PROVE  IInv'
  <2>1. call' \in [Clients -> Calls] /\ call'[c] = Idle
    BY <1>1, <1>4, Returned DEF Shape
  <2>2. Shape' /\ call'[c].tokens = <<>>
    BY <1>1, <2>1 DEF Shape, NewFails, FetchOne, FetchFails, cursorVars, Idle
  <2>3. call'[c].op # "token" /\ ~Swapping(c)'
    BY <2>1 DEF Idle, Swapping
  <2> QED
    BY <1>1, <1>2, <1>4, <2>2, <2>3, Returned, Quiet
       DEF Shape, IInv, CountedIn, NewFails, FetchOne, FetchFails
<1>5. /\ call[c].found \in BOOLEAN /\ call[c].obj \in Objects \cup {None}
      /\ call[c].tokens \in Seq(Objects) /\ call \in [Clients -> Calls]
  BY <1>1 DEF Calls, Shape
<1>6. CASE NewFails(c)
  <2>1. CASE call[c].op = "token"
    <3>1. GoTo(c, "drop") /\ "drop" \in Pcs
      BY <1>6, <2>1 DEF NewFails, Pcs
    <3> QED
      BY <1>3, <1>5, <2>1, <3>1, Moving
  <2>2. CASE call[c].op # "token"
    BY <1>1, <1>4, <1>6, <2>2 DEF NewFails, CallSound
  <2> QED
    BY <2>1, <2>2
<1>7. CASE FetchOne(c)
  <2>1. call' = [call EXCEPT ![c].pc = "new", ![c].found = FALSE, ![c].obj = None]
    BY <1>7 DEF FetchOne
  <2>2. call[c].op = "token" /\ "new" \in Pcs
    BY <1>1, <1>7 DEF FetchOne, CallSound, Pcs
  <2>3. Moved(c, "new", FALSE, None, call[c].tokens)
    BY <1>5, <2>1, <2>2, Moving
  <2> QED
    BY <1>3, <2>2, <2>3
<1>8. CASE FetchFails(c)
  BY <1>4, <1>8 DEF FetchFails
<1> QED
  BY <1>6, <1>7, <1>8

(***************************************************************************)
(* The cursor of an enumerator, and the locks.                             *)
(***************************************************************************)
LEMMA NumbersOn ==
    ASSUME NEW i \in Nat, NEW n \in Nat
    PROVE  /\ Numbers(0, 0) = <<>>
           /\ Numbers(0, i) \o Numbers(i, i + n) = Numbers(0, i + n)
<1>1. Numbers(0, 0) = <<>>
  BY DEF Numbers
<1>2. /\ Numbers(0, i) \in Seq(Nat) /\ Len(Numbers(0, i)) = i
      /\ \A k \in 1..i : Numbers(0, i)[k] = k
  <2>1. Numbers(0, i) = [k \in 1..i |-> k]
    BY DEF Numbers
  <2> QED
    BY <2>1
<1>3. /\ Numbers(i, i + n) \in Seq(Nat) /\ Len(Numbers(i, i + n)) = n
      /\ \A k \in 1..n : Numbers(i, i + n)[k] = i + k
  <2>1. Numbers(i, i + n) = [k \in 1..n |-> i + k]
    <3>1. (i + n) - i = n
      OBVIOUS
    <3> QED
      BY <3>1 DEF Numbers
  <2> QED
    BY <2>1
<1>4. /\ Numbers(0, i + n) \in Seq(Nat) /\ Len(Numbers(0, i + n)) = i + n
      /\ \A k \in 1..(i + n) : Numbers(0, i + n)[k] = k
  <2>1. Numbers(0, i + n) = [k \in 1..(i + n) |-> k]
    BY DEF Numbers
  <2> QED
    BY <2>1
<1>5. LET s == Numbers(0, i) \o Numbers(i, i + n)
      IN  s \in Seq(Nat) /\ Len(s) = i + n /\ \A k \in 1..(i + n) : s[k] = k
  <2> DEFINE a == Numbers(0, i)
             b == Numbers(i, i + n)
  <2>1. /\ a \in Seq(Nat) /\ b \in Seq(Nat) /\ Len(a) = i /\ Len(b) = n
        /\ \A k \in 1..i : a[k] = k
        /\ \A k \in 1..n : b[k] = i + k
    BY <1>2, <1>3
  <2> HIDE DEF a, b
  <2>2. a \o b \in Seq(Nat) /\ Len(a \o b) = i + n
    BY <2>1
  <2>3. ASSUME NEW k \in 1..(i + n)
        PROVE  (a \o b)[k] = k
    <3>1. (a \o b)[k] = IF k <= i THEN a[k] ELSE b[k - i]
      BY <2>1, ConcatProperties
    <3>2. k <= i => k \in 1..i
      OBVIOUS
    <3>3. ~(k <= i) => k - i \in 1..n /\ i + (k - i) = k
      OBVIOUS
    <3> QED
      BY <2>1, <3>1, <3>2, <3>3
  <2> QED
    BY <2>2, <2>3 DEF a, b
<1> QED
  BY <1>1, <1>4, <1>5, SeqEqual

LEMMA AdvanceGood ==
    ASSUME index \in [Objects -> 0..Voices],
           seen = [e \in Objects |-> Numbers(0, index[e])],
           NEW e \in Objects, NEW n \in Nat, index[e] + n <= Voices, Advance(e, n)
    PROVE  /\ index' \in [Objects -> 0..Voices]
           /\ seen' = [o \in Objects |-> Numbers(0, index'[o])]
<1>1. /\ index' = [index EXCEPT ![e] = index[e] + n]
      /\ seen' = [seen EXCEPT ![e] = seen[e] \o Numbers(index[e], index[e] + n)]
  BY DEF Advance
<1>2. index[e] \in Nat /\ index[e] + n \in 0..Voices
  BY VoicesAssumption
<1>3. seen[e] \o Numbers(index[e], index[e] + n) = Numbers(0, index[e] + n)
  BY <1>2, NumbersOn
<1>4. seen' = [o \in Objects |-> IF o = e THEN Numbers(0, index[e] + n) ELSE seen[o]]
  BY <1>1, <1>3
<1>5. \A o \in Objects : seen'[o] = Numbers(0, index'[o])
  BY <1>1, <1>4
<1> QED
  BY <1>1, <1>2, <1>4, <1>5

LEMMA CursorGood ==
    ASSUME IInv, NEW c \in Clients, NEW e \in Objects,
           Reset(c, e) \/ \E n \in 1..(Voices + 1) : Skip(c, e, n)
    PROVE  IInv'
<1>1. /\ index' \in [Objects -> 0..Voices]
      /\ seen' = [o \in Objects |-> Numbers(0, index'[o])]
  <2>1. CASE Reset(c, e)
    <3>1. /\ index' = [index EXCEPT ![e] = 0] /\ seen' = [seen EXCEPT ![e] = <<>>]
          /\ index \in [Objects -> 0..Voices]
          /\ seen = [o \in Objects |-> Numbers(0, index[o])]
      BY <2>1 DEF Reset, IInv, Shape
    <3>2. Numbers(0, 0) = <<>>
      BY NumbersOn
    <3>3. index' \in [Objects -> 0..Voices]
      BY <3>1, VoicesAssumption
    <3> QED
      BY <3>1, <3>2, <3>3
  <2>2. ASSUME NEW n \in 1..(Voices + 1), Skip(c, e, n)
        PROVE  /\ index' \in [Objects -> 0..Voices]
               /\ seen' = [o \in Objects |-> Numbers(0, index'[o])]
    <3>1. index[e] \in 0..Voices
      BY DEF IInv, Shape
    <3>2. /\ Fewest(Voices - index[e], n) \in Nat
          /\ index[e] + Fewest(Voices - index[e], n) <= Voices
      BY <3>1, VoicesAssumption DEF Fewest
    <3> QED
      BY <2>2, <3>2, AdvanceGood DEF Skip, IInv, Shape
  <2> QED
    BY <2>1, <2>2
<1>2. /\ UNCHANGED <<kind, refs, count, locks, holds, call, token>> /\ At(c, "idle")
  BY DEF Reset, Skip, Has
<1>3. Shape' /\ CallSound(c)'
  BY <1>1, <1>2 DEF IInv, Shape, CallSound, At, Making, Deleting
<1>4. /\ ~Making(c) /\ ~Deleting(c) /\ ~Making(c)' /\ ~Deleting(c)'
      /\ ~Swapping(c) /\ ~Swapping(c)'
  BY <1>2 DEF At, Making, Deleting, Swapping
<1>5. call'[c].op # "token"
  BY <1>2 DEF IInv, CallSound, Idle
<1> QED
  BY <1>2, <1>3, <1>4, <1>5, Quiet DEF IInv, CountedIn

LEMMA LockServerGood ==
    ASSUME IInv, NEW c \in Clients, LockServer(c)
    PROVE  IInv'
<1>1. UNCHANGED <<kind, refs, holds, call, cursorVars, token>> /\ At(c, "idle")
  BY DEF LockServer, Has
<1>2. /\ IsFiniteSet(locks') /\ count' = Cardinality(Live) + Cardinality(locks')
      /\ locks' \subseteq Clients
  <2>1. /\ IsFiniteSet(locks) /\ IsFiniteSet(Live) /\ locks \subseteq Clients
        /\ count = Cardinality(Live) + Cardinality(locks)
        /\ count = Cardinality(locks) + Cardinality(Live)
    BY Counts DEF IInv, CountedIn, Shape
  <2>2. CASE c \notin locks /\ locks' = locks \cup {c} /\ count' = count + 1
    BY <2>1, <2>2, OneMore
  <2>3. CASE c \in locks /\ locks' = locks \ {c} /\ count' = count - 1
    <3>1. /\ IsFiniteSet(locks \ {c})
          /\ count - 1 = Cardinality(Live) + Cardinality(locks \ {c})
      <4>1. Cardinality(locks) \in Nat /\ Cardinality(Live) \in Nat
        BY <2>1, Counts
      <4>2. /\ IsFiniteSet(locks \ {c})
            /\ Cardinality(locks \ {c}) = Cardinality(locks) - 1
        BY <2>1, <2>3, Counts
      <4> QED
        BY <2>1, <4>1, <4>2
    <3> QED
      BY <2>1, <2>3, <3>1
  <2> QED
    BY <2>2, <2>3 DEF LockServer
<1>3. Shape' /\ CallSound(c)'
  BY <1>1, <1>2 DEF IInv, Shape, CallSound, At, Making, Deleting, cursorVars
<1>4. /\ ~Making(c) /\ ~Deleting(c) /\ ~Making(c)' /\ ~Deleting(c)'
      /\ ~Swapping(c) /\ ~Swapping(c)'
  BY <1>1 DEF At, Making, Deleting, Swapping
<1>5. call'[c].op # "token"
  BY <1>1 DEF IInv, CallSound, Idle
<1> QED
  BY <1>1, <1>2, <1>3, <1>4, <1>5, Quiet

(***************************************************************************)
(* Steps of a call on the object it creates or deletes, which stays its    *)
(* own.                                                                    *)
(***************************************************************************)
LEMMA OwnStep ==
    ASSUME IInv, Shape', CountedIn', NEW c \in Clients, NEW o \in Objects,
           Working(c, o), Working(c, o)', UNCHANGED <<kind, holds, token>>,
           \A d \in Clients \ {c} : call'[d] = call[d],
           \A p \in Objects \ {o} : refs'[p] = refs[p],
           call'[c].op = call[c].op, call'[c].tokens = call[c].tokens,
           call'[c].src = call[c].src, CallSound(c)',
           Making(c)' => refs'[o] = IF call'[c].found THEN 2 ELSE 1,
           Deleting(c)' => refs'[o] = 0
    PROVE  IInv'
<1>1. Listed(c)' = Listed(c)
  BY DEF Listed
<1>2. \A p \in Objects : Private(c, p)' = Private(c, p)
  BY <1>1 DEF Private, Working
<1>3. \A p : Holders(p)' = Holders(p) /\ Engines(p)' = Engines(p) /\ Unheld(p)' = Unheld(p)
  <2>1. ~Swapping(c) /\ ~Swapping(c)'
    BY DEF Working, Making, Deleting, Swapping
  <2> QED
    BY <2>1, EnginesKept DEF Holders, Unheld
<1>4. \A p \in Objects \ {o} : Untouched(c, p)
  BY <1>2, <1>3 DEF Untouched
<1>5. \A p \in Objects \ {o} : token[p] # None => kind'[token[p]] = "token"
  BY DEF IInv, Referred
<1>6. Private(c, o) /\ \A d \in Clients \ {c} : ~Private(d, o)
  BY DEF IInv, Exclusive, Private
<1>7. Owned(c)'
  <2>1. Owned(c) /\ call[c].obj = o /\ call'[c].obj = o /\ o \notin Listed(c)
    BY DEF IInv, Owned, Working
  <2>2. \A p \in Listed(c) : p \in Objects /\ p # o /\ refs'[p] = refs[p]
    BY <2>1 DEF Listed, IInv, Shape, Calls
  <2>3. \A p \in Listed(c)' : refs'[p] = 1 /\ kind'[p] = "token"
    BY <1>1, <2>1, <2>2 DEF Owned
  <2>4. \A p \in Objects : Private(c, p)' => kind'[p] # "free" /\ Unheld(p)'
    BY <1>2, <1>3, <2>1 DEF Owned
  <2>5. call'[c].op = "token" => kind'[o] = "token"
    BY <2>1 DEF Owned, Working
  <2>6. \A i, j \in DOMAIN call'[c].tokens :
          call'[c].tokens[i] = call'[c].tokens[j] => i = j
    BY <2>1 DEF Owned
  <2> QED
    BY <1>1, <2>1, <2>3, <2>4, <2>5, <2>6 DEF Owned
<1>8. Referred(o)'
  <2>1. Referred(o) /\ ~Shared(o)'
    BY <1>2, <1>6 DEF IInv, Shared
  <2> QED
    BY <1>3, <2>1 DEF Referred, IInv
<1>9. /\ Exclusive'
      /\ \A d \in Clients \ {c} : CallSound(d)' /\ Owned(d)'
      /\ \A p \in Objects \ {o} : Referred(p)'
  <2>1. /\ \A d \in Clients : holds[d] \subseteq holds'[d] \/ d = c
        /\ {o} \in SUBSET Objects
        /\ \A p \in {o} : \A d \in Clients \ {c} : ~Private(d, p)
    BY <1>6
  <2> QED
    BY <1>4, <1>5, <2>1, Frame DEF IInv
<1> QED
  BY <1>7, <1>8, <1>9 DEF IInv

(* The counter between the creation of an object and its count, and        *)
(* between its count and its end.                                          *)
Uncounted(c) == call[c].pc \in {"count", "destroy"}

LEMMA LiveSame ==
    ASSUME NEW c \in Clients, UNCHANGED kind, \A d \in Clients \ {c} : call'[d] = call[d],
           ~Uncounted(c), ~Uncounted(c)'
    PROVE  Live' = Live
<1>1. ASSUME NEW o \in Objects, NEW d \in Clients
      PROVE  (call'[d].pc \in {"count", "destroy"} => call'[d].obj # o)
               <=> (call[d].pc \in {"count", "destroy"} => call[d].obj # o)
  <2>1. CASE d = c
    BY <2>1 DEF Uncounted
  <2>2. CASE d # c
    BY <2>2
  <2> QED
    BY <2>1, <2>2
<1> QED
  BY <1>1 DEF Live

(* An object that a call works on is counted but in those two places.      *)
LEMMA LiveOwn ==
    ASSUME IInv, NEW c \in Clients, NEW o \in Objects, Working(c, o)
    PROVE  o \in Live <=> ~Uncounted(c)
<1>1. kind[o] # "free" /\ call[c].obj = o
  BY DEF IInv, Owned, Private, Working
<1>2. ASSUME NEW d \in Clients, Uncounted(d), call[d].obj = o
      PROVE  d = c
  BY <1>2 DEF Uncounted, IInv, Exclusive, Private, Working, Making, Deleting
<1> QED
  BY <1>1, <1>2 DEF Live, Uncounted

LEMMA LiveMoves ==
    ASSUME IInv, NEW c \in Clients, NEW o \in Objects, Working(c, o), Working(c, o)',
           UNCHANGED kind, \A d \in Clients \ {c} : call'[d] = call[d]
    PROVE  /\ Uncounted(c) /\ ~Uncounted(c)' => Live' = Live \cup {o} /\ o \notin Live
           /\ ~Uncounted(c) /\ Uncounted(c)' => Live' = Live \ {o} /\ o \in Live
<1>1. call[c].obj = o /\ call'[c].obj = o /\ (o \in Live <=> ~Uncounted(c))
  BY LiveOwn DEF Working
<1>3. ASSUME NEW p \in Objects, p # o
      PROVE  p \in Live' <=> p \in Live
  <2>1. ASSUME NEW d \in Clients
        PROVE  (call'[d].pc \in {"count", "destroy"} => call'[d].obj # p)
                 <=> (call[d].pc \in {"count", "destroy"} => call[d].obj # p)
    <3>1. CASE d = c
      BY <1>1, <1>3, <3>1
    <3>2. CASE d # c
      BY <3>2
    <3> QED
      BY <3>1, <3>2
  <2> QED
    BY <2>1 DEF Live
<1>4. o \in Live' <=> ~Uncounted(c)'
  <2>1. kind[o] # "free"
    BY DEF IInv, Owned, Private
  <2>2. \A d \in Clients \ {c} : ~Working(d, o)
    BY DEF IInv, Exclusive, Private
  <2>3. ASSUME NEW d \in Clients \ {c}
        PROVE  call'[d].pc \in {"count", "destroy"} => call'[d].obj # o
    BY <2>2 DEF Working, Making, Deleting
  <2>4. (call'[c].pc \in {"count", "destroy"} => call'[c].obj # o) <=> ~Uncounted(c)'
    BY <1>1 DEF Uncounted
  <2> QED
    BY <2>1, <2>3, <2>4 DEF Live
<1>5. Live \subseteq Objects /\ Live' \subseteq Objects
  BY DEF Live
<1>6. ASSUME Uncounted(c), ~Uncounted(c)'
      PROVE  Live' = Live \cup {o} /\ o \notin Live
  BY <1>1, <1>3, <1>4, <1>5, <1>6
<1>7. ASSUME ~Uncounted(c), Uncounted(c)'
      PROVE  Live' = Live \ {o} /\ o \in Live
  BY <1>1, <1>3, <1>4, <1>5, <1>7
<1> QED
  BY <1>6, <1>7

(* A call goes from one place of its work to another.                      *)
LEMMA WorkGoesOn ==
    ASSUME IInv, NEW c \in Clients, Making(c) \/ Deleting(c), NEW f \in BOOLEAN,
           NEW o, call[c].obj = o,
           NEW s \in {"query", "init", "unref", "delete", "destroy"},
           Moved(c, s, f, o, call[c].tokens), s = "query" => ~f, s = "init" => f,
           UNCHANGED holds
    PROVE  /\ o \in Objects /\ Working(c, o) /\ Working(c, o)'
           /\ CallSound(c)'
           /\ Making(c)' <=> s \in {"query", "init", "unref"}
           /\ Deleting(c)' <=> s \in {"delete", "destroy"}
<1>1. CallSound(c) /\ o \in Objects
  BY DEF IInv, CallSound
<1>2. /\ Making(c)' <=> s \in {"query", "init", "unref"}
      /\ Deleting(c)' <=> s \in {"delete", "destroy"}
  BY DEF Making, Deleting, Moved
<1>3. Working(c, o) /\ Working(c, o)'
  BY <1>2 DEF Working, Moved
<1>4. CallSound(c)'
  BY <1>1, <1>2 DEF CallSound, At, Moved
<1> QED
  BY <1>1, <1>2, <1>3, <1>4

LEMMA IncrementGood ==
    ASSUME IInv, NEW c \in Clients, Increment(c)
    PROVE  IInv'
<1>0. PICK o \in Objects : call[c].obj = o
  BY DEF IInv, CallSound, Increment, At, Making, Deleting
<1>1. /\ call[c] \in Calls /\ call \in [Clients -> Calls] /\ Shape
      /\ call[c].pc = "count" /\ Making(c) /\ ~Deleting(c) /\ ~call[c].found
      /\ refs[o] = 1
  BY <1>0 DEF IInv, Shape, CallSound, Owned, Increment, At, Making, Deleting
<1>2. /\ Moved(c, "query", call[c].found, o, call[c].tokens)
      /\ UNCHANGED <<kind, refs, locks, holds, cursorVars, token>> /\ count' = count + 1
  BY <1>0, <1>1, Moving DEF Increment, Counted, Calls, Pcs
<1>3. /\ o \in Objects /\ Working(c, o) /\ Working(c, o)' /\ CallSound(c)'
      /\ Making(c)' /\ ~Deleting(c)'
  BY <1>0, <1>1, <1>2, WorkGoesOn DEF Calls
<1>6. /\ \A d \in Clients \ {c} : call'[d] = call[d]
      /\ call'[c].op = call[c].op /\ call'[c].src = call[c].src
      /\ call'[c].tokens = call[c].tokens /\ call'[c].found = call[c].found
      /\ Uncounted(c) /\ ~Uncounted(c)'
  BY <1>1, <1>2 DEF Moved, Uncounted
<1>4. Shape'
  BY <1>1, <1>2 DEF Shape, Moved, cursorVars
<1>5. CountedIn'
  <2>1. Live' = Live \cup {o} /\ o \notin Live
    BY <1>2, <1>3, <1>6, LiveMoves
  <2> QED
    BY <1>2, <2>1, OneMore DEF IInv, CountedIn
<1> QED
  BY <1>1, <1>2, <1>3, <1>4, <1>5, <1>6, OwnStep

LEMMA DeleteGood ==
    ASSUME IInv, NEW c \in Clients, Delete(c)
    PROVE  IInv'
<1>0. PICK o \in Objects : call[c].obj = o
  BY DEF IInv, CallSound, Delete, At, Making, Deleting
<1>1. /\ call[c] \in Calls /\ call \in [Clients -> Calls] /\ Shape
      /\ call[c].pc = "delete" /\ Deleting(c) /\ refs[o] = 0
  BY <1>0 DEF IInv, Shape, Owned, Delete, At, Deleting
<1>2. /\ Moved(c, "destroy", call[c].found, o, call[c].tokens)
      /\ UNCHANGED <<kind, refs, locks, holds, cursorVars, token>> /\ count' = count - 1
  BY <1>0, <1>1, Moving DEF Delete, Decrement, Calls, Pcs
<1>3. /\ o \in Objects /\ Working(c, o) /\ Working(c, o)' /\ CallSound(c)'
      /\ ~Making(c)' /\ Deleting(c)'
  BY <1>0, <1>1, <1>2, WorkGoesOn DEF Calls
<1>6. /\ \A d \in Clients \ {c} : call'[d] = call[d]
      /\ call'[c].op = call[c].op /\ call'[c].src = call[c].src
      /\ call'[c].tokens = call[c].tokens /\ call'[c].found = call[c].found
      /\ ~Uncounted(c) /\ Uncounted(c)'
  BY <1>1, <1>2 DEF Moved, Uncounted
<1>4. Shape'
  BY <1>1, <1>2 DEF Shape, Moved, cursorVars
<1>5. CountedIn'
  <2>1. Live' = Live \ {o} /\ o \in Live
    BY <1>2, <1>3, <1>6, LiveMoves
  <2> QED
    BY <1>2, <2>1, OneLess DEF IInv, CountedIn
<1> QED
  BY <1>1, <1>2, <1>3, <1>4, <1>5, <1>6, OwnStep

LEMMA QueryInterfaceGood ==
    ASSUME IInv, NEW c \in Clients, QueryInterface(c)
    PROVE  IInv'
<1>0. PICK o \in Objects : call[c].obj = o
  BY DEF IInv, CallSound, QueryInterface, At, Making, Deleting
<1>1. /\ call[c] \in Calls /\ call \in [Clients -> Calls] /\ Shape /\ CallSound(c) /\ Owned(c)
      /\ call[c].pc = "query" /\ Making(c) /\ ~Deleting(c) /\ ~call[c].found
      /\ refs[o] = 1
  BY <1>0 DEF IInv, Shape, CallSound, Owned, QueryInterface, At, Making, Deleting
<1>2. PICK s \in {"init", "unref"} :
         /\ Moved(c, s, TRUE, o, call[c].tokens)
         /\ refs' = [refs EXCEPT ![o] = 2]
  <2>1. PICK s \in {"init", "unref"} :
           s = IF call[c].op = "token" THEN "init" ELSE "unref"
    OBVIOUS
  <2>2. Moved(c, s, TRUE, o, call[c].tokens)
    <3>1. call' = [call EXCEPT ![c].found = TRUE, ![c].pc = s] /\ s \in Pcs
      BY <2>1 DEF QueryInterface, Pcs
    <3> QED
      BY <1>0, <1>1, <3>1, Moving DEF Calls
  <2>3. refs' = [refs EXCEPT ![o] = 2]
    <3>1. refs' = [refs EXCEPT ![o] = refs[o] + 1]
      BY <1>0 DEF QueryInterface, AddRef
    <3> QED
      BY <1>1, <3>1
  <2> QED
    BY <2>2, <2>3
<1>3. UNCHANGED <<kind, count, locks, holds, token>>
  BY DEF QueryInterface
<1>4. /\ o \in Objects /\ Working(c, o) /\ Working(c, o)' /\ CallSound(c)'
      /\ Making(c)' /\ ~Deleting(c)'
  <2>1. TRUE \in BOOLEAN /\ s \in {"query", "init", "unref", "delete", "destroy"} /\ s # "query"
    BY <1>2
  <2> QED
    BY <1>0, <1>1, <1>2, <1>3, <2>1, WorkGoesOn
<1>5. /\ \A d \in Clients \ {c} : call'[d] = call[d]
      /\ call'[c].op = call[c].op /\ call'[c].src = call[c].src
      /\ call'[c].tokens = call[c].tokens /\ call'[c].found = TRUE
      /\ ~Uncounted(c) /\ ~Uncounted(c)'
      /\ call' \in [Clients -> Calls]
  BY <1>1, <1>2 DEF Moved, Uncounted
<1>6. /\ index' \in [Objects -> 0..Voices]
      /\ seen' = [e \in Objects |-> Numbers(0, index'[e])]
  <2>1. index \in [Objects -> 0..Voices] /\ seen = [e \in Objects |-> Numbers(0, index[e])]
    BY <1>1 DEF Shape
  <2>2. CASE UNCHANGED cursorVars
    BY <2>1, <2>2 DEF cursorVars
  <2>3. CASE ~FromFactory(c) /\ index' = [index EXCEPT ![call[c].obj] = index[call[c].src]]
                             /\ seen' = [seen EXCEPT ![call[c].obj] = seen[call[c].src]]
    <3>1. call[c].src \in Objects
      BY <1>1, <2>3 DEF FromFactory, Calls
    <3>2. PICK t \in Objects : call[c].src = t
      BY <3>1
    <3>3. index' = [index EXCEPT ![o] = index[t]] /\ seen' = [seen EXCEPT ![o] = seen[t]]
      BY <1>0, <2>3, <3>2
    <3>4. index' \in [Objects -> 0..Voices] /\ seen[t] = Numbers(0, index[t])
      BY <2>1, <3>3
    <3>5. \A e \in Objects : seen'[e] = Numbers(0, index'[e])
      BY <2>1, <3>3, <3>4
    <3> QED
      BY <2>1, <3>3, <3>4, <3>5
  <2> QED
    BY <2>2, <2>3 DEF QueryInterface, CopyCursor
<1>7. Shape'
  BY <1>1, <1>2, <1>3, <1>5, <1>6 DEF Shape
<1>8. CountedIn'
  <2>1. Live' = Live
    BY <1>3, <1>5, LiveSame
  <2> QED
    BY <1>3, <2>1 DEF IInv, CountedIn
<1>9. /\ \A p \in Objects \ {o} : refs'[p] = refs[p]
      /\ refs'[o] = 2
  BY <1>1, <1>2 DEF Shape
<1> QED
  BY <1>3, <1>4, <1>5, <1>7, <1>8, <1>9, OwnStep

LEMMA QueryFailsGood ==
    ASSUME IInv, NEW c \in Clients, QueryFails(c)
    PROVE  IInv'
<1>0. PICK o \in Objects : call[c].obj = o
  BY DEF IInv, CallSound, QueryFails, At, Making, Deleting
<1>1. /\ call[c] \in Calls /\ call \in [Clients -> Calls] /\ Shape
      /\ call[c].pc = "query" /\ Making(c) /\ ~Deleting(c) /\ ~call[c].found
      /\ refs[o] = 1
  BY <1>0 DEF IInv, Shape, CallSound, Owned, QueryFails, At, Making, Deleting
<1>2. /\ Moved(c, "unref", call[c].found, o, call[c].tokens)
      /\ UNCHANGED <<kind, refs, count, locks, holds, cursorVars, token>>
  BY <1>0, <1>1, Moving DEF QueryFails, Calls, Pcs
<1>3. /\ o \in Objects /\ Working(c, o) /\ Working(c, o)' /\ CallSound(c)'
      /\ Making(c)' /\ ~Deleting(c)'
  BY <1>0, <1>1, <1>2, WorkGoesOn DEF Calls
<1>4. /\ \A d \in Clients \ {c} : call'[d] = call[d]
      /\ call'[c].op = call[c].op /\ call'[c].src = call[c].src
      /\ call'[c].tokens = call[c].tokens /\ call'[c].found = call[c].found
      /\ ~Uncounted(c) /\ ~Uncounted(c)'
  BY <1>1, <1>2 DEF Moved, Uncounted
<1>5. Shape'
  BY <1>1, <1>2 DEF Shape, Moved, cursorVars
<1>6. CountedIn'
  <2>1. Live' = Live
    BY <1>2, <1>4, LiveSame
  <2> QED
    BY <1>2, <2>1 DEF IInv, CountedIn
<1> QED
  BY <1>1, <1>2, <1>3, <1>4, <1>5, <1>6, OwnStep

LEMMA InitFromDataKeyGood ==
    ASSUME IInv, NEW c \in Clients, InitFromDataKey(c)
    PROVE  IInv'
<1>0. PICK o \in Objects : call[c].obj = o
  BY DEF IInv, CallSound, InitFromDataKey, At, Making, Deleting
<1>1. /\ call[c] \in Calls /\ call \in [Clients -> Calls] /\ Shape
      /\ call[c].pc = "init" /\ Making(c) /\ ~Deleting(c) /\ call[c].found
      /\ refs[o] = 2
  BY <1>0 DEF IInv, Shape, CallSound, Owned, InitFromDataKey, At, Making, Deleting
<1>2. PICK f \in BOOLEAN :
         /\ Moved(c, "unref", f, o, call[c].tokens)
         /\ refs' = [refs EXCEPT ![o] = IF f THEN 2 ELSE 1]
  <2>1. "unref" \in Pcs
    BY DEF Pcs
  <2>2. CASE GoTo(c, "unref") /\ UNCHANGED refs
    <3>1. call[c].found = TRUE
      BY <1>1 DEF Calls
    <3>2. Moved(c, "unref", TRUE, o, call[c].tokens)
      BY <1>0, <1>1, <2>1, <2>2, <3>1, Moving DEF Calls
    <3>3. refs' = [refs EXCEPT ![o] = 2]
      BY <1>1, <2>2 DEF Shape
    <3> QED
      BY <3>2, <3>3
  <2>3. CASE /\ refs' = [refs EXCEPT ![call[c].obj] = @ - 1]
             /\ call' = [call EXCEPT ![c].found = FALSE, ![c].pc = "unref"]
    <3>1. Moved(c, "unref", FALSE, o, call[c].tokens)
      BY <1>0, <1>1, <2>1, <2>3, Moving DEF Calls
    <3>2. refs' = [refs EXCEPT ![o] = refs[o] - 1]
      BY <1>0, <2>3
    <3>3. refs' = [refs EXCEPT ![o] = 1]
      BY <1>1, <3>2
    <3> QED
      BY <3>1, <3>3
  <2> QED
    BY <2>2, <2>3 DEF InitFromDataKey
<1>3. UNCHANGED <<kind, count, locks, holds, cursorVars, token>>
  BY DEF InitFromDataKey
<1>4. /\ o \in Objects /\ Working(c, o) /\ Working(c, o)' /\ CallSound(c)'
      /\ Making(c)' /\ ~Deleting(c)'
  BY <1>0, <1>1, <1>2, <1>3, WorkGoesOn DEF Calls
<1>5. /\ \A d \in Clients \ {c} : call'[d] = call[d]
      /\ call'[c].op = call[c].op /\ call'[c].src = call[c].src
      /\ call'[c].tokens = call[c].tokens /\ call'[c].found = f
      /\ ~Uncounted(c) /\ ~Uncounted(c)'
      /\ call' \in [Clients -> Calls]
  BY <1>1, <1>2 DEF Moved, Uncounted
<1>6. Shape'
  BY <1>1, <1>2, <1>3, <1>5 DEF Shape, cursorVars
<1>7. CountedIn'
  <2>1. Live' = Live
    BY <1>3, <1>5, LiveSame
  <2> QED
    BY <1>3, <2>1 DEF IInv, CountedIn
<1>8. /\ \A p \in Objects \ {o} : refs'[p] = refs[p]
      /\ refs'[o] = IF f THEN 2 ELSE 1
  BY <1>1, <1>2 DEF Shape
<1> QED
  BY <1>3, <1>4, <1>5, <1>6, <1>7, <1>8, OwnStep

(* The reference is the last: the call gave none out, and deletes what it  *)
(* has created.                                                            *)
LEMMA UnrefLastGood ==
    ASSUME IInv, NEW c \in Clients, Unref(c), refs[call[c].obj] = 1
    PROVE  IInv'
<1>0. PICK o \in Objects : call[c].obj = o
  BY DEF IInv, CallSound, Unref, At, Making, Deleting
<1>1. /\ call[c] \in Calls /\ call \in [Clients -> Calls] /\ Shape
      /\ call[c].pc = "unref" /\ Making(c) /\ ~Deleting(c)
  BY <1>0 DEF IInv, Shape, Unref, At, Making, Deleting
<1>2. /\ Moved(c, "delete", call[c].found, o, call[c].tokens)
      /\ UNCHANGED <<kind, count, locks, holds, cursorVars, token>>
  BY <1>0, <1>1, Moving DEF Unref, Calls, Pcs
<1>3. refs' = [refs EXCEPT ![o] = 0]
  <2>1. refs' = [refs EXCEPT ![o] = refs[o] - 1]
    BY <1>0 DEF Unref
  <2>2. refs[o] = 1
    BY <1>0
  <2>3. refs[o] - 1 = 0
    BY <2>2
  <2> QED
    BY <2>1, <2>3
<1>4. /\ o \in Objects /\ Working(c, o) /\ Working(c, o)' /\ CallSound(c)'
      /\ ~Making(c)' /\ Deleting(c)'
  BY <1>0, <1>1, <1>2, WorkGoesOn DEF Calls
<1>5. /\ \A d \in Clients \ {c} : call'[d] = call[d]
      /\ call'[c].op = call[c].op /\ call'[c].src = call[c].src
      /\ call'[c].tokens = call[c].tokens
      /\ ~Uncounted(c) /\ ~Uncounted(c)'
      /\ call' \in [Clients -> Calls]
  BY <1>1, <1>2 DEF Moved, Uncounted
<1>6. Shape'
  BY <1>1, <1>2, <1>3, <1>5 DEF Shape, cursorVars
<1>7. CountedIn'
  <2>1. Live' = Live
    BY <1>2, <1>5, LiveSame
  <2> QED
    BY <1>2, <2>1 DEF IInv, CountedIn
<1>8. (\A p \in Objects \ {o} : refs'[p] = refs[p]) /\ refs'[o] = 0
  BY <1>1, <1>3 DEF Shape
<1> QED
  BY <1>2, <1>4, <1>5, <1>6, <1>7, <1>8, OwnStep

(***************************************************************************)
(* Steps that give an object away, or take one over.                       *)
(***************************************************************************)
LEMMA Settle ==
    ASSUME IInv, Shape', CountedIn', NEW c \in Clients, UNCHANGED kind,
           \A d \in Clients \ {c} : call'[d] = call[d],
           \A d \in Clients : holds[d] \subseteq holds'[d] \/ d = c,
           NEW T \in SUBSET Objects,
           \A o \in Objects \ T : Untouched(c, o),
           \A o \in T : \A d \in Clients \ {c} : ~Private(d, o),
           CallSound(c)', Owned(c)', \A o \in T : Referred(o)'
    PROVE  IInv'
<1>1. \A o \in Objects \ T : token[o] # None => kind'[token[o]] = "token"
  BY DEF IInv, Referred
<1>2. /\ Exclusive'
      /\ \A d \in Clients \ {c} : CallSound(d)' /\ Owned(d)'
      /\ \A o \in Objects \ T : Referred(o)'
  BY <1>1, Frame DEF IInv
<1>3. \A d \in Clients : CallSound(d)' /\ Owned(d)'
  BY <1>2
<1>4. \A o \in Objects : Referred(o)'
  BY <1>2
<1> QED
  BY <1>2, <1>3, <1>4 DEF IInv

LEMMA SettleOne ==
    ASSUME IInv, Shape', CountedIn', NEW c \in Clients, UNCHANGED kind,
           \A d \in Clients \ {c} : call'[d] = call[d],
           \A d \in Clients : holds[d] \subseteq holds'[d] \/ d = c,
           NEW o \in Objects, \A p \in Objects \ {o} : Untouched(c, p),
           \A d \in Clients \ {c} : ~Private(d, o),
           CallSound(c)', Owned(c)', Referred(o)'
    PROVE  IInv'
<1> DEFINE T == {o}
<1>1. /\ T \in SUBSET Objects /\ \A p \in Objects \ T : Untouched(c, p)
      /\ \A p \in T : \A d \in Clients \ {c} : ~Private(d, p)
      /\ \A p \in T : Referred(p)'
  OBVIOUS
<1> HIDE DEF T
<1> QED
  BY <1>1, Settle

LEMMA HoldMore ==
    ASSUME holds \in [Clients -> SUBSET Objects], NEW c \in Clients, NEW o \in Objects,
           holds' = [holds EXCEPT ![c] = @ \cup {o}]
    PROVE  /\ holds' \in [Clients -> SUBSET Objects]
           /\ \A d \in Clients : holds[d] \subseteq holds'[d]
           /\ Holders(o)' = Holders(o) \cup {c}
           /\ \A p : p # o => Holders(p)' = Holders(p)
<1>1. holds' = [d \in Clients |-> IF d = c THEN holds[c] \cup {o} ELSE holds[d]]
  OBVIOUS
<1> QED
  BY <1>1 DEF Holders

LEMMA HoldLess ==
    ASSUME holds \in [Clients -> SUBSET Objects], NEW c \in Clients, NEW o \in Objects,
           holds' = [holds EXCEPT ![c] = @ \ {o}]
    PROVE  /\ holds' \in [Clients -> SUBSET Objects]
           /\ \A d \in Clients \ {c} : holds'[d] = holds[d]
           /\ Holders(o)' = Holders(o) \ {c}
           /\ \A p : p # o => Holders(p)' = Holders(p)
<1>1. holds' = [d \in Clients |-> IF d = c THEN holds[c] \ {o} ELSE holds[d]]
  OBVIOUS
<1> QED
  BY <1>1 DEF Holders

(* What is a call's own is nobody else's.                                  *)
LEMMA OwnFacts ==
    ASSUME IInv, NEW c \in Clients, NEW o \in Objects, Private(c, o)
    PROVE  /\ kind[o] # "free" /\ Holders(o) = {} /\ Engines(o) = {}
           /\ \A d \in Clients \ {c} : ~Private(d, o)
           /\ Working(c, o) => o \notin Listed(c) /\ call[c].obj = o
  BY DEF IInv, Owned, Unheld, Exclusive, Working

(* Who has a reference, has one to an object that is no call's own.        *)
LEMMA HeldShared ==
    ASSUME IInv, NEW o \in Objects, Holders(o) # {} \/ Engines(o) # {}
    PROVE  /\ Shared(o) /\ \A d \in Clients : ~Private(d, o)
           /\ IsFiniteSet(Holders(o)) /\ IsFiniteSet(Engines(o))
           /\ refs[o] = Cardinality(Holders(o)) + Cardinality(Engines(o))
           /\ refs[o] = Cardinality(Engines(o)) + Cardinality(Holders(o))
<1>1. /\ Shared(o) /\ \A d \in Clients : ~Private(d, o)
  BY DEF IInv, Owned, Unheld, Referred, Shared
<1>2. /\ IsFiniteSet(Holders(o)) /\ IsFiniteSet(Engines(o))
      /\ refs[o] = Cardinality(Holders(o)) + Cardinality(Engines(o))
  BY <1>1 DEF IInv, Referred
<1> QED
  BY <1>1, <1>2, Counts

(* The created object is handed to the caller, or kept with the tokens.    *)
LEMMA UnrefGood ==
    ASSUME IInv, NEW c \in Clients, Unref(c), refs[call[c].obj] # 1
    PROVE  IInv'
<1>0. PICK o \in Objects : call[c].obj = o
  BY DEF IInv, CallSound, Unref, At, Making, Deleting
<1>1. /\ call[c] \in Calls /\ call \in [Clients -> Calls] /\ Shape /\ CallSound(c) /\ Owned(c)
      /\ call[c].pc = "unref" /\ Working(c, o) /\ Private(c, o) /\ refs[o] = 2
  BY <1>0 DEF IInv, Shape, CallSound, Owned, Unref, At, Making, Deleting, Private, Working
<1>2. /\ UNCHANGED <<kind, count, locks, cursorVars, token>>
      /\ refs' = [refs EXCEPT ![o] = 1]
  <2>1. refs' = [refs EXCEPT ![o] = refs[o] - 1]
    BY <1>0 DEF Unref
  <2>2. refs[o] - 1 = 1
    BY <1>1
  <2> QED
    BY <2>1, <2>2 DEF Unref
<1>3. /\ kind[o] # "free" /\ Holders(o) = {} /\ Engines(o) = {} /\ o \notin Listed(c)
      /\ \A d \in Clients \ {c} : ~Private(d, o)
  BY <1>1, OwnFacts
<1>4. refs' \in [Objects -> Nat] /\ refs'[o] = 1 /\ \A p \in Objects \ {o} : refs'[p] = refs[p]
  BY <1>1, <1>2 DEF Shape
<1>5. \A p \in Objects \ {o} : ~Working(c, p) /\ (Private(c, p) <=> p \in Listed(c))
  BY <1>0 DEF Private, Working
<1>6. \A p : Engines(p)' = Engines(p)
  <2>1. call[c].pc = "unref" /\ call \in [Clients -> Calls] /\ UNCHANGED token
    BY <1>1, <1>2
  <2>2. \/ GoTo(c, "delete") \/ Return(c)
        \/ call' = [call EXCEPT ![c].tokens = Append(@, o), ![c].pc = "fetch"]
    BY <1>0 DEF Unref
  <2>3. (\A d \in Clients \ {c} : call'[d] = call[d]) /\ call'[c].pc # "addref" /\ call'[c].pc # "dropold"
    BY <2>1, <2>2 DEF GoTo, Return, Calls, Idle
  <2> QED
    BY <2>1, <2>3, EnginesKept DEF Swapping
<1>7. token[o] # None => kind[o] = "engine" /\ kind[token[o]] = "token"
  BY DEF IInv, Referred
<1>8. CASE /\ call[c].op = "token" /\ UNCHANGED holds
           /\ call' = [call EXCEPT ![c].tokens = Append(@, o), ![c].pc = "fetch"]
  <2>1. Append(call[c].tokens, o) \in Seq(Objects) /\ "fetch" \in Pcs
    BY <1>1 DEF Calls, Pcs
  <2>2. Moved(c, "fetch", call[c].found, call[c].obj, Append(call[c].tokens, o))
    <3>1. /\ call[c].found \in BOOLEAN /\ call[c].obj \in Objects \cup {None}
          /\ call' = [call EXCEPT ![c].tokens = Append(call[c].tokens, o), ![c].pc = "fetch"]
      BY <1>1, <1>8 DEF Calls
    <3> QED
      BY <1>1, <2>1, <3>1, Moving
  <2>3. /\ ~Making(c)' /\ ~Deleting(c)' /\ call' \in [Clients -> Calls]
        /\ \A d \in Clients \ {c} : call'[d] = call[d]
        /\ call'[c].op = "token" /\ call'[c].src = call[c].src /\ call'[c].pc = "fetch"
        /\ call'[c].tokens = Append(call[c].tokens, o)
        /\ ~Uncounted(c) /\ ~Uncounted(c)'
    BY <1>1, <1>8, <2>2 DEF Moved, Making, Deleting, Uncounted
  <2>4. Listed(c)' = Listed(c) \cup {o}
    <3> DEFINE ts == call[c].tokens
    <3>1. ts \in Seq(Objects)
      BY <1>1 DEF Calls
    <3>2. /\ DOMAIN Append(ts, o) = 1..(Len(ts) + 1) /\ Append(ts, o)[Len(ts) + 1] = o
          /\ \A i \in 1..Len(ts) : Append(ts, o)[i] = ts[i]
          /\ DOMAIN ts = 1..Len(ts) /\ Len(ts) \in Nat
      BY <3>1
    <3>3. {Append(ts, o)[i] : i \in 1..(Len(ts) + 1)} = {ts[i] : i \in 1..Len(ts)} \cup {o}
      BY <3>2
    <3> QED
      BY <2>3, <3>2, <3>3 DEF Listed
  <2>5. \A p \in Objects : Private(c, p)' <=> p \in Listed(c) \cup {o}
    BY <2>3, <2>4 DEF Private, Working
  <2>6. CallSound(c)'
    BY <1>1, <1>8, <2>3 DEF CallSound, At
  <2>7. Owned(c)'
    <3>1. \A i, j \in DOMAIN call'[c].tokens :
             call'[c].tokens[i] = call'[c].tokens[j] => i = j
      <4> DEFINE ts == call[c].tokens
      <4>1. ts \in Seq(Objects) /\ \A i, j \in DOMAIN ts : ts[i] = ts[j] => i = j
        BY <1>1 DEF Calls, Owned
      <4>2. \A i \in DOMAIN ts : ts[i] # o
        BY <1>3 DEF Listed
      <4> HIDE DEF ts
      <4>3. /\ DOMAIN Append(ts, o) = 1..(Len(ts) + 1) /\ Append(ts, o)[Len(ts) + 1] = o
            /\ \A i \in 1..Len(ts) : Append(ts, o)[i] = ts[i]
            /\ DOMAIN ts = 1..Len(ts) /\ Len(ts) \in Nat
        BY <4>1
      <4>4. \A i, j \in 1..(Len(ts) + 1) : Append(ts, o)[i] = Append(ts, o)[j] => i = j
        BY <4>1, <4>2, <4>3
      <4> QED
        BY <2>3, <4>3, <4>4 DEF ts
    <3>2. \A p \in Listed(c)' : refs'[p] = 1 /\ kind'[p] = "token"
      <4>1. Listed(c) \subseteq Objects
        BY <1>1 DEF Listed, Calls
      <4>2. \A p \in Listed(c) : refs[p] = 1 /\ kind[p] = "token"
        BY <1>1 DEF Owned
      <4>3. kind[o] = "token"
        BY <1>0, <1>1, <1>8 DEF Owned, Working
      <4> QED
        BY <1>2, <1>4, <2>4, <4>1, <4>2, <4>3
    <3>3. \A p \in Objects : Private(c, p)' => kind'[p] # "free" /\ Unheld(p)'
      <4>1. \A p \in Objects : Private(c, p)' => Private(c, p)
        BY <1>1, <2>5 DEF Private
      <4>2. \A p : Unheld(p)' = Unheld(p)
        BY <1>6, <1>8 DEF Unheld, Holders
      <4> QED
        BY <1>1, <1>2, <4>1, <4>2 DEF Owned
    <3>4. kind'[call'[c].src] = "enum"
      BY <1>1, <1>2, <1>8, <2>3 DEF Owned
    <3> QED
      BY <2>3, <3>1, <3>2, <3>3, <3>4 DEF Owned
  <2>8. \A p \in Objects \ {o} : Untouched(c, p)
    <3>1. \A p : Holders(p)' = Holders(p)
      BY <1>8 DEF Holders
    <3>2. \A p \in Objects \ {o} : Private(c, p)' <=> Private(c, p)
      BY <1>5, <2>5
    <3> QED
      BY <1>2, <1>4, <1>6, <3>1, <3>2 DEF Untouched
  <2>9. Referred(o)'
    <3>1. Private(c, o)'
      BY <2>5
    <3> QED
      BY <1>2, <1>3, <1>7, <3>1 DEF Referred, Shared
  <2>10. Shape'
    BY <1>1, <1>2, <1>4, <1>8, <2>3 DEF Shape, cursorVars
  <2>11. CountedIn'
    <3>1. Live' = Live
      BY <1>2, <2>3, LiveSame
    <3> QED
      BY <1>2, <3>1 DEF IInv, CountedIn
  <2> QED
    BY <1>2, <1>3, <1>8, <2>3, <2>6, <2>7, <2>8, <2>9, <2>10, <2>11, SettleOne
<1>9. CASE /\ call[c].op # "token" /\ Return(c)
           /\ holds' = [holds EXCEPT ![c] = @ \cup {o}]
  <2>1. /\ call' \in [Clients -> Calls] /\ call'[c] = Idle
        /\ \A d \in Clients \ {c} : call'[d] = call[d]
        /\ CallSound(c)' /\ ~Making(c)' /\ ~Deleting(c)' /\ Listed(c)' = {}
        /\ \A p : ~Private(c, p)'
    BY <1>1, <1>9, Returned
  <2>2. /\ holds' \in [Clients -> SUBSET Objects]
        /\ \A d \in Clients : holds[d] \subseteq holds'[d]
        /\ Holders(o)' = {c}
        /\ \A p : p # o => Holders(p)' = Holders(p)
    <3>1. holds \in [Clients -> SUBSET Objects]
      BY <1>1 DEF Shape
    <3>2. /\ holds' \in [Clients -> SUBSET Objects]
          /\ \A d \in Clients : holds[d] \subseteq holds'[d]
          /\ Holders(o)' = Holders(o) \cup {c}
          /\ \A p : p # o => Holders(p)' = Holders(p)
      BY <1>9, <3>1, HoldMore
    <3> QED
      BY <1>3, <3>2
  <2>3. Listed(c) = {}
    BY <1>1, <1>9 DEF CallSound, Listed
  <2>4. \A p \in Objects \ {o} : Untouched(c, p)
    <3>1. \A p \in Objects \ {o} : Private(c, p)' <=> Private(c, p)
      BY <1>5, <2>1, <2>3
    <3> QED
      BY <1>2, <1>4, <1>6, <2>2, <3>1 DEF Untouched
  <2>5. Owned(c)'
    BY <2>1 DEF Owned, Idle
  <2>6. Referred(o)'
    <3>1. /\ IsFiniteSet({c}) /\ IsFiniteSet({}) /\ Cardinality({c}) = 1 /\ Cardinality({}) = 0
      BY FS_Singleton, FS_EmptySet
    <3>2. /\ Holders(o)' = {c} /\ Engines(o)' = {} /\ refs'[o] = 1
      BY <1>3, <1>4, <1>6, <2>2
    <3> QED
      BY <1>2, <1>3, <1>7, <3>1, <3>2 DEF Referred
  <2>7. Shape'
    BY <1>1, <1>2, <1>4, <2>1, <2>2 DEF Shape, cursorVars
  <2>8. CountedIn'
    <3>1. ~Uncounted(c) /\ ~Uncounted(c)'
      BY <1>1, <2>1 DEF Uncounted, Idle
    <3>2. Live' = Live
      BY <1>2, <2>1, <3>1, LiveSame
    <3> QED
      BY <1>2, <3>2 DEF IInv, CountedIn
  <2> QED
    BY <1>2, <1>3, <2>1, <2>2, <2>4, <2>5, <2>6, <2>7, <2>8, SettleOne
<1> QED
  BY <1>0, <1>8, <1>9 DEF Unref

LEMMA NewGood ==
    ASSUME IInv, NEW c \in Clients, New(c)
    PROVE  IInv'
<1>1. PICK o \in Objects :
         /\ kind[o] = "free" /\ kind' = [kind EXCEPT ![o] = call[c].op]
         /\ refs' = [refs EXCEPT ![o] = 1]
         /\ call' = [call EXCEPT ![c].obj = o, ![c].pc = "count"]
  BY DEF New
<1>2. /\ UNCHANGED <<count, locks, holds, cursorVars, token>>
      /\ call[c] \in Calls /\ call \in [Clients -> Calls] /\ Shape /\ CallSound(c) /\ Owned(c)
      /\ call[c].pc = "new" /\ call[c].op \in Classes /\ ~call[c].found
      /\ ~Making(c) /\ ~Deleting(c)
  BY DEF New, IInv, Shape, CallSound, At, Making, Deleting
<1>3. Moved(c, "count", call[c].found, o, call[c].tokens)
  BY <1>1, <1>2, Moving DEF Calls, Pcs
<1>4. /\ call' \in [Clients -> Calls] /\ \A d \in Clients \ {c} : call'[d] = call[d]
      /\ call'[c].pc = "count" /\ call'[c].obj = o /\ call'[c].found = call[c].found
      /\ call'[c].op = call[c].op /\ call'[c].src = call[c].src
      /\ call'[c].tokens = call[c].tokens
      /\ Making(c)' /\ ~Deleting(c)' /\ Listed(c)' = Listed(c)
  BY <1>3 DEF Moved, Making, Deleting, Listed
<1>5. /\ kind' \in [Objects -> Classes \cup {"free"}] /\ kind'[o] = call[c].op
      /\ kind'[o] # "free" /\ \A p \in Objects \ {o} : kind'[p] = kind[p]
      /\ refs' \in [Objects -> Nat] /\ refs'[o] = 1
      /\ \A p \in Objects \ {o} : refs'[p] = refs[p]
  BY <1>1, <1>2 DEF Shape, Classes
<1>6. /\ Holders(o) = {} /\ Engines(o) = {} /\ token[o] = None
      /\ \A d \in Clients : ~Private(d, o)
  BY <1>1 DEF IInv, Referred, Unheld, Owned
<1>7. \A p : Holders(p)' = Holders(p) /\ Engines(p)' = Engines(p)
  BY <1>2, <1>4, EnginesKept DEF Holders, Swapping
<1>8. \A p \in Objects : Private(c, p)' <=> p = o \/ Private(c, p)
  BY <1>2, <1>4 DEF Private, Working
<1>9. Shape'
  BY <1>2, <1>4, <1>5 DEF Shape, cursorVars
<1>10. CallSound(c)'
  BY <1>2, <1>4 DEF CallSound, At
<1>11. Owned(c)'
  <2>1. o \notin Listed(c) /\ Listed(c) \subseteq Objects
    BY <1>2, <1>6 DEF Private, Listed, Calls
  <2>2. /\ \A p \in Listed(c) : refs'[p] = 1 /\ kind'[p] = "token"
        /\ \A i, j \in DOMAIN call'[c].tokens :
              call'[c].tokens[i] = call'[c].tokens[j] => i = j
    BY <1>2, <1>4, <1>5, <2>1 DEF Owned
  <2>3. \A p \in Objects : Private(c, p)' => kind'[p] # "free" /\ Unheld(p)'
    BY <1>2, <1>5, <1>6, <1>7, <1>8 DEF Owned, Unheld
  <2>4. call[c].op = "token" => kind'[call[c].src] = "enum"
    <3> SUFFICES ASSUME call[c].op = "token"
                 PROVE  kind'[call[c].src] = "enum"
      OBVIOUS
    <3>1. call[c].src \in Objects /\ kind[call[c].src] = "enum"
      BY <1>2 DEF CallSound, Owned, Calls
    <3> QED
      BY <1>1, <1>5, <3>1
  <2> QED
    BY <1>2, <1>4, <1>5, <2>1, <2>2, <2>3, <2>4 DEF Owned
<1>12. Referred(o)'
  <2>1. Private(c, o)' /\ token'[o] = None
    BY <1>2, <1>6, <1>8
  <2> QED
    BY <1>5, <2>1 DEF Referred, Shared
<1>13. CountedIn'
  <2>1. o \notin Live /\ o \notin Live'
    BY <1>1, <1>4 DEF Live
  <2>2. ASSUME NEW p \in Objects \ {o}
        PROVE  p \in Live' <=> p \in Live
    <3>1. ASSUME NEW d \in Clients
          PROVE  (call'[d].pc \in {"count", "destroy"} => call'[d].obj # p)
                   <=> (call[d].pc \in {"count", "destroy"} => call[d].obj # p)
      <4>1. CASE d = c
        BY <1>2, <1>4, <4>1
      <4>2. CASE d # c
        BY <1>4, <4>2
      <4> QED
        BY <4>1, <4>2
    <3> QED
      BY <1>5, <3>1 DEF Live
  <2>3. Live' = Live
    BY <2>1, <2>2 DEF Live
  <2> QED
    BY <1>2, <2>3 DEF IInv, CountedIn
<1>14. /\ Exclusive'
       /\ \A d \in Clients \ {c} : CallSound(d)' /\ Owned(d)'
       /\ \A p \in Objects \ {o} : Referred(p)'
  <2>1. \A p \in Objects \ {o} : Untouched(c, p)
    BY <1>2, <1>5, <1>7, <1>8 DEF Untouched
  <2>2. \A p \in Objects \ {o} : token[p] # None => kind'[token[p]] = "token"
    <3>1. \A p \in Objects : token[p] # None => token[p] \in Objects /\ kind[token[p]] = "token"
      BY <1>2 DEF IInv, Referred, Shape
    <3> QED
      BY <1>1, <1>5, <3>1
  <2>3. \A p \in Objects : Holders(p) # {} => kind'[p] = kind[p]
    BY <1>5, <1>6
  <2>4. \A d \in Clients : holds[d] \subseteq holds'[d] \/ d = c
    BY <1>2
  <2>5. PICK T \in SUBSET Objects : T = {o}
    OBVIOUS
  <2>6. /\ \A p \in Objects \ T : Untouched(c, p)
        /\ \A p \in Objects \ T : token[p] # None => kind'[token[p]] = "token"
        /\ \A p \in T : \A d \in Clients \ {c} : ~Private(d, p)
    BY <1>6, <2>1, <2>2, <2>5
  <2>7. /\ Exclusive'
        /\ \A d \in Clients \ {c} : CallSound(d)' /\ Owned(d)'
        /\ \A p \in Objects \ T : Referred(p)'
    BY <1>4, <1>9, <2>3, <2>4, <2>6, Frame DEF IInv
  <2> QED
    BY <2>5, <2>7
<1> QED
  BY <1>9, <1>10, <1>11, <1>12, <1>13, <1>14 DEF IInv

(***************************************************************************)
(* References that are given out and taken back.                           *)
(***************************************************************************)
LEMMA RefMore ==
    ASSUME IInv, NEW d \in Clients, NEW o \in Objects, o \notin holds[d],
           Holders(o) # {} \/ Engines(o) # {},
           refs' = [refs EXCEPT ![o] = refs[o] + 1],
           holds' = [holds EXCEPT ![d] = @ \cup {o}],
           call' = call \/ (At(d, "getref") /\ GoTo(d, "give")),
           UNCHANGED <<kind, count, locks, cursorVars, token>>
    PROVE  IInv'
<1>1. Shape /\ CallSound(d) /\ Owned(d) /\ Referred(o)
  BY DEF IInv
<1>0. /\ call' \in [Clients -> Calls] /\ \A c \in Clients \ {d} : call'[c] = call[c]
      /\ call'[d] = call[d] \/ (call[d].pc = "getref" /\ call'[d].pc = "give")
      /\ call'[d].obj = call[d].obj /\ call'[d].op = call[d].op
      /\ call'[d].src = call[d].src /\ call'[d].tokens = call[d].tokens
      /\ call'[d].found = call[d].found
  <2>1. CASE call' = call
    BY <1>1, <2>1 DEF Shape
  <2>2. CASE At(d, "getref") /\ GoTo(d, "give")
    <3>1. call \in [Clients -> Calls] /\ call[d] \in Calls /\ "give" \in Pcs
      BY <1>1 DEF Shape, Pcs
    <3>2. Moved(d, "give", call[d].found, call[d].obj, call[d].tokens)
      BY <2>2, <3>1, Moving DEF Calls
    <3> QED
      BY <2>2, <3>2 DEF Moved, At
  <2> QED
    BY <2>1, <2>2
<1>2. /\ \A c \in Clients : ~Private(c, o)
      /\ IsFiniteSet(Holders(o)) /\ IsFiniteSet(Engines(o)) /\ kind[o] # "free"
      /\ refs[o] = Cardinality(Holders(o)) + Cardinality(Engines(o))
  BY HeldShared DEF Shared
<1>3. /\ holds' \in [Clients -> SUBSET Objects]
      /\ \A c \in Clients : holds[c] \subseteq holds'[c]
      /\ Holders(o)' = Holders(o) \cup {d}
      /\ \A p : p # o => Holders(p)' = Holders(p)
  BY <1>1, HoldMore DEF Shape
<1>4. d \notin Holders(o) /\ \A p : Engines(p)' = Engines(p)
  BY <1>0, EnginesKept DEF Holders, Swapping
<1>5. /\ IsFiniteSet(Holders(o)') /\ refs[o] + 1 \in Nat /\ refs[o] + 1 > 0
      /\ refs[o] + 1 = Cardinality(Holders(o)') + Cardinality(Engines(o))
  <2>1. /\ IsFiniteSet(Holders(o) \cup {d}) /\ refs[o] + 1 \in Nat /\ refs[o] + 1 > 0
        /\ refs[o] + 1 = Cardinality(Holders(o) \cup {d}) + Cardinality(Engines(o))
    BY <1>2, <1>4, OneMore
  <2> QED
    BY <1>3, <2>1
<1>6. /\ refs' \in [Objects -> Nat] /\ refs'[o] = refs[o] + 1
      /\ \A p \in Objects \ {o} : refs'[p] = refs[p]
  BY <1>1, <1>5 DEF Shape
<1>7. Shape'
  BY <1>0, <1>1, <1>3, <1>6 DEF Shape, cursorVars
<1>8. ASSUME NEW c \in Clients
      PROVE  /\ Making(c)' <=> Making(c)
             /\ Deleting(c)' <=> Deleting(c)
             /\ Uncounted(c)' <=> Uncounted(c)
             /\ Listed(c)' = Listed(c)
             /\ \A p : Private(c, p)' <=> Private(c, p)
  <2>1. CASE c = d
    BY <1>0, <2>1 DEF Making, Deleting, Uncounted, Listed, Private, Working
  <2>2. CASE c # d
    BY <1>0, <2>2 DEF Making, Deleting, Uncounted, Listed, Private, Working
  <2> QED
    BY <2>1, <2>2
<1>9. CallSound(d)'
  BY <1>0, <1>1, <1>3, <1>8 DEF CallSound, At
<1>10. Owned(d)'
  <2>1. /\ Making(d) \/ Deleting(d) => call[d].obj \in Objects \ {o}
        /\ \A p \in Listed(d) : p \in Objects \ {o}
    BY <1>1, <1>2 DEF CallSound, Private, Working, Listed, Shape, Calls
  <2>2. \A p \in Objects : Private(d, p) => kind[p] # "free" /\ Unheld(p)'
    BY <1>1, <1>2, <1>3, <1>4 DEF Owned, Unheld
  <2>3. /\ \A p \in Listed(d) : refs[p] = 1 /\ kind[p] = "token"
        /\ Making(d) => refs[call[d].obj] = IF call[d].found THEN 2 ELSE 1
        /\ Deleting(d) => refs[call[d].obj] = 0
    BY <1>1 DEF Owned
  <2>4. /\ \A p \in Listed(d) : refs'[p] = 1 /\ kind'[p] = "token"
        /\ Making(d) => refs'[call[d].obj] = IF call[d].found THEN 2 ELSE 1
        /\ Deleting(d) => refs'[call[d].obj] = 0
    BY <1>6, <2>1, <2>3
  <2> QED
    BY <1>0, <1>1, <1>8, <2>2, <2>4 DEF Owned
<1>11. Referred(o)'
  <2>1. kind'[o] # "free" /\ IsFiniteSet(Engines(o)') /\ refs'[o] > 0
        /\ refs'[o] = Cardinality(Holders(o)') + Cardinality(Engines(o)')
    BY <1>2, <1>4, <1>5, <1>6
  <2> QED
    BY <1>1, <1>5, <2>1 DEF Referred
<1>12. \A p \in Objects \ {o} : Untouched(d, p)
  BY <1>3, <1>4, <1>6, <1>8 DEF Untouched
<1>13. CountedIn'
  <2>1. ASSUME NEW p, NEW c \in Clients
        PROVE  (call'[c].pc \in {"count", "destroy"} => call'[c].obj # p)
                 <=> (call[c].pc \in {"count", "destroy"} => call[c].obj # p)
    <3>1. CASE c = d
      BY <1>0, <3>1
    <3>2. CASE c # d
      BY <1>0, <3>2
    <3> QED
      BY <3>1, <3>2
  <2>2. Live' = Live
    BY <2>1 DEF Live
  <2> QED
    BY <2>2 DEF IInv, CountedIn
<1> QED
  BY <1>0, <1>2, <1>3, <1>7, <1>9, <1>10, <1>11, <1>12, <1>13, SettleOne

LEMMA ShareGood ==
    ASSUME IInv, NEW c \in Clients, NEW d \in Clients, NEW o \in Objects, Share(c, d, o)
    PROVE  IInv'
<1>1. Holders(o) # {} /\ refs' = [refs EXCEPT ![o] = refs[o] + 1]
  BY DEF Share, Holders, AddRef
<1> QED
  BY <1>1, RefMore DEF Share

LEMMA ReleaseGood ==
    ASSUME IInv, NEW c \in Clients, NEW o \in Objects, Release(c, o)
    PROVE  IInv'
<1>1. /\ Shape /\ CallSound(c) /\ Owned(c) /\ Referred(o) /\ call \in [Clients -> Calls]
      /\ call[c] \in Calls /\ call[c] = Idle
      /\ ~Making(c) /\ ~Deleting(c) /\ Listed(c) = {} /\ ~Uncounted(c)
      /\ call[c].op = "none" /\ call[c].src = None /\ call[c].tokens = <<>>
      /\ \A p : ~Private(c, p)
  <2>1. Shape /\ CallSound(c) /\ Owned(c) /\ Referred(o) /\ call[c] = Idle
    BY DEF IInv, CallSound, Release
  <2>2. ~Making(c) /\ ~Deleting(c) /\ Listed(c) = {} /\ ~Uncounted(c)
    BY <2>1 DEF Making, Deleting, Listed, Uncounted, Idle
  <2>3. call[c].op = "none" /\ call[c].src = None /\ call[c].tokens = <<>>
    BY <2>1 DEF Idle
  <2>4. call \in [Clients -> Calls] /\ call[c] \in Calls
    BY <2>1 DEF Shape
  <2>5. \A p : ~Private(c, p)
    BY <2>2 DEF Private, Working
  <2> QED
    BY <2>1, <2>2, <2>3, <2>4, <2>5
<1>2. /\ UNCHANGED <<kind, count, locks, cursorVars, token>> /\ c \in Holders(o)
      /\ holds' = [holds EXCEPT ![c] = @ \ {o}] /\ refs' = [refs EXCEPT ![o] = refs[o] - 1]
  BY DEF Release, Holders
<1>3. /\ \A d \in Clients : ~Private(d, o)
      /\ IsFiniteSet(Holders(o)) /\ IsFiniteSet(Engines(o)) /\ kind[o] # "free"
      /\ refs[o] = Cardinality(Holders(o)) + Cardinality(Engines(o))
  BY <1>2, HeldShared DEF Shared
<1>4. /\ holds' \in [Clients -> SUBSET Objects]
      /\ \A d \in Clients \ {c} : holds'[d] = holds[d]
      /\ Holders(o)' = Holders(o) \ {c}
      /\ \A p : p # o => Holders(p)' = Holders(p)
  BY <1>1, <1>2, HoldLess DEF Shape
<1>5. \A p : Engines(p)' = Engines(p)
  <2>1. (\A d \in Clients \ {c} : call'[d] = call[d]) /\ ~Swapping(c) /\ ~Swapping(c)'
    <3>1. call' = call \/ StartDelete(c, o)
      BY DEF Release
    <3> QED
      BY <1>1, <3>1 DEF StartDelete, Swapping, Idle, Calls
  <2> QED
    BY <1>2, <2>1, EnginesKept
<1>6. /\ IsFiniteSet(Holders(o)') /\ refs[o] \in Nat /\ refs[o] - 1 \in Nat
      /\ refs[o] - 1 = Cardinality(Holders(o)') + Cardinality(Engines(o))
      /\ refs[o] = 1 => Holders(o)' = {} /\ Engines(o) = {}
  <2>1. /\ IsFiniteSet(Holders(o) \ {c}) /\ refs[o] \in Nat /\ refs[o] > 0
        /\ refs[o] - 1 = Cardinality(Holders(o) \ {c}) + Cardinality(Engines(o))
        /\ refs[o] = 1 => Holders(o) \ {c} = {} /\ Engines(o) = {}
    <3> DEFINE H == Holders(o)
               E == Engines(o)
    <3>1. /\ IsFiniteSet(H) /\ IsFiniteSet(E) /\ c \in H
          /\ refs[o] = Cardinality(H) + Cardinality(E)
      BY <1>2, <1>3
    <3> HIDE DEF H, E
    <3>2. IsFiniteSet(H \ {c}) /\ refs[o] \in Nat /\ refs[o] > 0
      BY <3>1, OneLess
    <3>3. refs[o] - 1 = Cardinality(H \ {c}) + Cardinality(E)
      BY <3>1, OneLess
    <3>4. refs[o] = 1 => H \ {c} = {} /\ E = {}
      BY <3>1, LastOne
    <3> QED
      BY <3>2, <3>3, <3>4 DEF H, E
  <2> QED
    BY <1>4, <2>1
<1>7. /\ refs' \in [Objects -> Nat] /\ refs'[o] = refs[o] - 1
      /\ \A p \in Objects \ {o} : refs'[p] = refs[p]
  BY <1>1, <1>2, <1>6 DEF Shape
<1>8. token[o] # None => kind[o] = "engine" /\ kind[token[o]] = "token"
  BY <1>1 DEF Referred
<1>9. CASE refs[o] = 1
  <2>1. Moved(c, "delete", call[c].found, o, call[c].tokens)
    BY <1>1, <1>9, Moving DEF Release, Calls, Pcs
  <2>2. /\ call' \in [Clients -> Calls] /\ \A d \in Clients \ {c} : call'[d] = call[d]
        /\ call'[c].pc = "delete" /\ call'[c].obj = o /\ call'[c].op = "none"
        /\ call'[c].src = None /\ call'[c].tokens = <<>>
        /\ ~Making(c)' /\ Deleting(c)' /\ Listed(c)' = {} /\ ~Uncounted(c)'
    BY <1>1, <2>1 DEF Moved, Making, Deleting, Uncounted, Listed
  <2>3. \A p \in Objects : Private(c, p)' <=> p = o
    BY <2>2 DEF Private, Working
  <2>4. CallSound(c)'
    BY <2>2 DEF CallSound, At
  <2>5. Owned(c)'
    <3>1. Holders(o)' = {} /\ Engines(o)' = {} /\ refs'[o] = 0 /\ kind'[o] # "free"
      BY <1>2, <1>3, <1>5, <1>6, <1>7, <1>9
    <3> QED
      BY <2>2, <2>3, <3>1 DEF Owned, Unheld
  <2>6. Referred(o)'
    BY <1>2, <1>3, <1>8, <2>3 DEF Referred, Shared
  <2>7. \A p \in Objects \ {o} : Untouched(c, p)
    BY <1>1, <1>2, <1>4, <1>5, <1>7, <2>3 DEF Untouched
  <2>8. Shape' /\ CountedIn'
    <3>1. Live' = Live
      BY <1>1, <1>2, <2>2, LiveSame
    <3>2. CountedIn'
      BY <1>2, <3>1 DEF IInv, CountedIn
    <3>3. Shape'
      BY <1>1, <1>2, <1>4, <1>7, <2>2 DEF Shape, cursorVars
    <3> QED
      BY <3>2, <3>3
  <2> QED
    BY <1>2, <1>3, <1>4, <2>2, <2>4, <2>5, <2>6, <2>7, <2>8, SettleOne
<1>10. CASE refs[o] # 1
  <2>1. call' = call
    BY <1>10 DEF Release
  <2>2. /\ ~Making(c)' /\ ~Deleting(c)' /\ Listed(c)' = {} /\ ~Uncounted(c)'
        /\ \A p : ~Private(c, p)'
    BY <1>1, <2>1 DEF Making, Deleting, Listed, Uncounted, Private, Working
  <2>3. CallSound(c)'
    BY <1>1, <2>1, <2>2 DEF CallSound, At
  <2>4. Owned(c)'
    BY <1>1, <2>1, <2>2 DEF Owned
  <2>5. Referred(o)'
    <3>1. /\ kind'[o] # "free" /\ IsFiniteSet(Engines(o)') /\ refs'[o] > 0
          /\ refs'[o] = Cardinality(Holders(o)') + Cardinality(Engines(o)')
      BY <1>2, <1>3, <1>5, <1>6, <1>7, <1>10
    <3> QED
      BY <1>2, <1>6, <1>8, <3>1 DEF Referred
  <2>6. \A p \in Objects \ {o} : Untouched(c, p)
    BY <1>1, <1>2, <1>4, <1>5, <1>7, <2>2 DEF Untouched
  <2>7. Shape' /\ CountedIn'
    <3>1. Live' = Live
      BY <1>2, <2>1 DEF Live
    <3>2. CountedIn'
      BY <1>2, <3>1 DEF IInv, CountedIn
    <3>3. Shape'
      BY <1>1, <1>2, <1>4, <1>7, <2>1 DEF Shape, cursorVars
    <3> QED
      BY <3>2, <3>3
  <2> QED
    BY <1>2, <1>3, <1>4, <2>1, <2>3, <2>4, <2>5, <2>6, <2>7, SettleOne
<1> QED
  BY <1>9, <1>10

(* Next has failed, and gives the tokens it has made back.                 *)
LEMMA DropGood ==
    ASSUME IInv, NEW c \in Clients, Drop(c)
    PROVE  IInv'
<1>1. /\ call[c] \in Calls /\ call \in [Clients -> Calls] /\ Shape /\ CallSound(c) /\ Owned(c)
      /\ call[c].pc = "drop" /\ call[c].op = "token" /\ call[c].tokens # <<>>
      /\ ~Making(c) /\ ~Deleting(c) /\ ~Uncounted(c)
  BY DEF Drop, IInv, Shape, CallSound, At, Making, Deleting, Uncounted
<1>2. PICK ts : ts = call[c].tokens
  OBVIOUS
<1>3. /\ ts \in Seq(Objects) /\ Len(ts) \in Nat \ {0} /\ DOMAIN ts = 1..Len(ts)
      /\ Head(ts) = ts[1] /\ Tail(ts) \in Seq(Objects) /\ DOMAIN Tail(ts) = 1..(Len(ts) - 1)
      /\ \A i \in 1..(Len(ts) - 1) : Tail(ts)[i] = ts[i + 1]
      /\ \A i, j \in 1..Len(ts) : ts[i] = ts[j] => i = j
  <2>1. ts \in Seq(Objects) /\ ts # <<>> /\ \A i, j \in DOMAIN ts : ts[i] = ts[j] => i = j
    BY <1>1, <1>2 DEF Calls, Owned
  <2> QED
    BY <2>1
<1>4. PICK t \in Objects : t = Head(ts)
  BY <1>3
<1>5. t \in Listed(c) /\ refs[t] = 1 /\ kind[t] = "token" /\ Private(c, t)
  <2>1. t \in Listed(c)
    BY <1>2, <1>3, <1>4 DEF Listed
  <2> QED
    BY <1>1, <2>1 DEF Owned, Private
<1>6. /\ UNCHANGED <<kind, count, locks, holds, cursorVars, token>>
      /\ refs' = [refs EXCEPT ![t] = 0]
  <2>1. refs' = [refs EXCEPT ![t] = refs[t] - 1]
    BY <1>2, <1>4 DEF Drop
  <2>2. refs[t] - 1 = 0
    BY <1>5
  <2> QED
    BY <2>1, <2>2 DEF Drop, CursorStays
<1>7. Moved(c, "delete", call[c].found, t, Tail(ts))
  <2>1. call' = [call EXCEPT ![c].tokens = Tail(ts), ![c].obj = t, ![c].pc = "delete"]
    BY <1>2, <1>4, <1>5 DEF Drop
  <2> QED
    BY <1>1, <1>3, <2>1, Moving DEF Calls, Pcs
<1>8. /\ call' \in [Clients -> Calls] /\ \A d \in Clients \ {c} : call'[d] = call[d]
      /\ call'[c].pc = "delete" /\ call'[c].obj = t /\ call'[c].op = "token"
      /\ call'[c].src = call[c].src /\ call'[c].tokens = Tail(ts)
      /\ ~Making(c)' /\ Deleting(c)' /\ ~Uncounted(c)'
  BY <1>1, <1>7 DEF Moved, Making, Deleting, Uncounted
<1>9. Listed(c)' = Listed(c) \ {t}
  <2>1. Listed(c) = {ts[i] : i \in 1..Len(ts)}
    BY <1>2, <1>3 DEF Listed
  <2>2. Listed(c)' = {Tail(ts)[i] : i \in 1..(Len(ts) - 1)}
    <3>1. Listed(c)' = {call'[c].tokens[i] : i \in DOMAIN call'[c].tokens}
      BY DEF Listed
    <3>2. call'[c].tokens = Tail(ts) /\ DOMAIN Tail(ts) = 1..(Len(ts) - 1)
      BY <1>3, <1>8
    <3> QED
      BY <3>1, <3>2
  <2>3. ASSUME NEW i \in 1..(Len(ts) - 1)
        PROVE  Tail(ts)[i] \in Listed(c) \ {t}
    <3>1. i + 1 \in 1..Len(ts) /\ 1 \in 1..Len(ts) /\ i + 1 # 1
      BY <1>3
    <3>2. ts[i + 1] # ts[1] /\ Tail(ts)[i] = ts[i + 1]
      BY <1>3, <3>1
    <3> QED
      BY <1>3, <1>4, <2>1, <3>1, <3>2
  <2>4. ASSUME NEW i \in 1..Len(ts), ts[i] # t
        PROVE  ts[i] \in Listed(c)'
    <3>1. i # 1
      BY <1>3, <1>4, <2>4
    <3>2. i - 1 \in 1..(Len(ts) - 1) /\ (i - 1) + 1 = i
      BY <1>3, <3>1
    <3>3. Tail(ts)[i - 1] = ts[i]
      BY <1>3, <3>2
    <3> QED
      BY <2>2, <3>2, <3>3
  <2> QED
    BY <2>1, <2>2, <2>3, <2>4
<1>10. \A p \in Objects : Private(c, p)' <=> Private(c, p)
  BY <1>1, <1>5, <1>8, <1>9 DEF Private, Working
<1>11. /\ refs' \in [Objects -> Nat] /\ refs'[t] = 0
       /\ \A p \in Objects \ {t} : refs'[p] = refs[p]
  BY <1>1, <1>6 DEF Shape
<1>12. \A p : Holders(p)' = Holders(p) /\ Engines(p)' = Engines(p) /\ (Unheld(p)' <=> Unheld(p))
  BY <1>1, <1>6, <1>8, EnginesKept DEF Holders, Unheld, Swapping
<1>13. CallSound(c)'
  BY <1>1, <1>6, <1>8 DEF CallSound, At
<1>14. Owned(c)'
  <2>1. \A i, j \in DOMAIN call'[c].tokens :
           call'[c].tokens[i] = call'[c].tokens[j] => i = j
    <3>1. ASSUME NEW i \in 1..(Len(ts) - 1), NEW j \in 1..(Len(ts) - 1), Tail(ts)[i] = Tail(ts)[j]
          PROVE  i = j
      <4>1. /\ i + 1 \in 1..Len(ts) /\ j + 1 \in 1..Len(ts)
            /\ ts[i + 1] = ts[j + 1]
        BY <1>3, <3>1
      <4>2. i + 1 = j + 1
        BY <1>3, <4>1
      <4> QED
        BY <4>2
    <3> QED
      BY <1>3, <1>8, <3>1
  <2>2. \A p \in Listed(c)' : refs'[p] = 1 /\ kind'[p] = "token"
    <3>1. Listed(c) \subseteq Objects /\ \A p \in Listed(c) : refs[p] = 1 /\ kind[p] = "token"
      BY <1>1 DEF Listed, Calls, Owned
    <3> QED
      BY <1>6, <1>9, <1>11, <3>1
  <2>3. \A p \in Objects : Private(c, p)' => kind'[p] # "free" /\ Unheld(p)'
    BY <1>1, <1>6, <1>10, <1>12 DEF Owned
  <2>4. kind'[call'[c].src] = "enum" /\ kind'[call'[c].obj] = "token"
    BY <1>1, <1>5, <1>6, <1>8 DEF Owned
  <2> QED
    BY <1>8, <1>9, <1>11, <2>1, <2>2, <2>3, <2>4 DEF Owned
<1>15. Referred(t)'
  <2>1. Private(c, t)' /\ Referred(t) /\ kind'[t] # "free"
    BY <1>5, <1>6, <1>10 DEF IInv
  <2> QED
    BY <1>6, <2>1 DEF Referred, Shared
<1>16. \A p \in Objects \ {t} : Untouched(c, p)
  BY <1>6, <1>10, <1>11, <1>12 DEF Untouched
<1>17. CountedIn'
  <2>1. Live' = Live
    BY <1>1, <1>6, <1>8, LiveSame
  <2> QED
    BY <1>6, <2>1 DEF IInv, CountedIn
<1>18. Shape'
  BY <1>1, <1>6, <1>8, <1>11 DEF Shape, cursorVars
<1>19. \A d \in Clients \ {c} : ~Private(d, t)
  BY <1>5, OwnFacts
<1> QED
  BY <1>6, <1>8, <1>13, <1>14, <1>15, <1>16, <1>17, <1>18, <1>19, SettleOne

(* Next returns its tokens to the caller, and the cursor goes on.          *)
LEMMA FetchDoneGood ==
    ASSUME IInv, NEW c \in Clients, FetchDone(c)
    PROVE  IInv'
<1>1. /\ call[c] \in Calls /\ call \in [Clients -> Calls] /\ Shape /\ CallSound(c) /\ Owned(c)
      /\ call[c].pc = "fetch" /\ call[c].op = "token" /\ call[c].src \in Objects
      /\ ~Making(c) /\ ~Deleting(c) /\ ~Uncounted(c)
  BY DEF FetchDone, IInv, Shape, CallSound, At, Making, Deleting, Uncounted, Calls
<1>2. UNCHANGED <<kind, refs, count, locks, token>> /\ Return(c)
  BY DEF FetchDone
<1>3. /\ call' \in [Clients -> Calls] /\ call'[c] = Idle
      /\ \A d \in Clients \ {c} : call'[d] = call[d]
      /\ CallSound(c)' /\ ~Making(c)' /\ ~Deleting(c)' /\ Listed(c)' = {}
      /\ \A p : ~Private(c, p)'
  BY <1>1, <1>2, Returned
<1>4. Listed(c) \subseteq Objects /\ \A p : Private(c, p) <=> p \in Listed(c)
  BY <1>1 DEF Listed, Calls, Private, Working
<1>5. /\ holds' \in [Clients -> SUBSET Objects]
      /\ \A d \in Clients : holds[d] \subseteq holds'[d]
      /\ \A p \in Listed(c) : Holders(p)' = Holders(p) \cup {c}
      /\ \A p : p \notin Listed(c) => Holders(p)' = Holders(p)
  <2>1. holds \in [Clients -> SUBSET Objects] /\ holds' = [holds EXCEPT ![c] = @ \cup Listed(c)]
    BY <1>1 DEF FetchDone, Shape, Listed
  <2>2. holds' = [d \in Clients |-> IF d = c THEN holds[c] \cup Listed(c) ELSE holds[d]]
    BY <2>1
  <2> QED
    BY <1>4, <2>1, <2>2 DEF Holders
<1>6. \A p : Engines(p)' = Engines(p)
  <2>1. ~Swapping(c) /\ ~Swapping(c)'
    BY <1>1, <1>3 DEF Swapping, Idle
  <2> QED
    BY <1>2, <1>3, <2>1, EnginesKept
<1>7. /\ index' \in [Objects -> 0..Voices]
      /\ seen' = [e \in Objects |-> Numbers(0, index'[e])]
  <2>1. PICK e \in Objects : call[c].src = e
    BY <1>1
  <2>2. PICK n : n = IF call[c].celt = ItemCall THEN 0 ELSE Len(call[c].tokens)
    OBVIOUS
  <2>3. Advance(e, n)
    BY <2>1, <2>2 DEF FetchDone
  <2>4. /\ index[e] \in 0..Voices /\ call[c].celt \in Nat /\ Len(call[c].tokens) \in Nat
        /\ call[c].celt # ItemCall =>
              Len(call[c].tokens) = Fewest(call[c].celt, Voices - index[e])
    BY <1>1, <2>1, VoicesAssumption DEF FetchDone, Wanted, Shape, Calls
  <2>5. n \in Nat /\ index[e] + n <= Voices
    BY <2>2, <2>4, VoicesAssumption DEF Fewest
  <2> QED
    BY <1>1, <2>3, <2>5, AdvanceGood DEF Shape
<1>8. Shape'
  BY <1>1, <1>2, <1>3, <1>5, <1>7 DEF Shape
<1>9. CountedIn'
  <2>1. ~Uncounted(c)'
    BY <1>3 DEF Uncounted, Idle
  <2>2. Live' = Live
    BY <1>1, <1>2, <1>3, <2>1, LiveSame
  <2> QED
    BY <1>2, <2>2 DEF IInv, CountedIn
<1>10. Owned(c)'
  BY <1>3 DEF Owned, Idle
<1>11. ASSUME NEW o \in Listed(c)
       PROVE  Referred(o)' /\ \A d \in Clients \ {c} : ~Private(d, o)
  <2>1. /\ o \in Objects /\ Private(c, o) /\ refs[o] = 1
    BY <1>1, <1>4 DEF Owned
  <2>2. /\ kind[o] # "free" /\ Holders(o) = {} /\ Engines(o) = {}
        /\ \A d \in Clients \ {c} : ~Private(d, o)
    BY <2>1, OwnFacts
  <2>3. /\ IsFiniteSet({c}) /\ IsFiniteSet({}) /\ Cardinality({c}) = 1 /\ Cardinality({}) = 0
    BY FS_Singleton, FS_EmptySet
  <2>4. Holders(o)' = {c} /\ Engines(o)' = {} /\ refs'[o] = 1 /\ kind'[o] = kind[o]
    BY <1>2, <1>5, <1>6, <2>1, <2>2
  <2>5. token[o] # None => kind[o] = "engine" /\ kind[token[o]] = "token"
    BY <2>1 DEF IInv, Referred
  <2> QED
    BY <1>2, <2>2, <2>3, <2>4, <2>5 DEF Referred
<1>12. \A p \in Objects \ Listed(c) : Untouched(c, p)
  <2>1. \A p \in Objects \ Listed(c) : Private(c, p)' <=> Private(c, p)
    BY <1>3, <1>4
  <2> QED
    BY <1>2, <1>5, <1>6, <2>1 DEF Untouched
<1>13. PICK T \in SUBSET Objects : T = Listed(c)
  BY <1>4
<1>14. /\ \A p \in Objects \ T : Untouched(c, p)
       /\ \A o \in T : Referred(o)' /\ \A d \in Clients \ {c} : ~Private(d, o)
  BY <1>11, <1>12, <1>13
<1> QED
  BY <1>2, <1>3, <1>5, <1>8, <1>9, <1>10, <1>14, Settle

(* What the reference of an engine that no call is in counts for.          *)
LEMMA TokenRef ==
    ASSUME IInv, NEW e \in Objects, NEW o \in Objects, token[e] = o,
           \A d \in Clients : call[d].src # e
    PROVE  /\ kind[o] = "token" /\ kind[e] = "engine" /\ token[o] = None /\ e # o
           /\ \A d \in Clients : ~Private(d, o)
           /\ IsFiniteSet(Holders(o)) /\ IsFiniteSet(Engines(o) \ {e})
           /\ refs[o] \in Nat /\ refs[o] > 0
           /\ refs[o] - 1 = Cardinality(Holders(o)) + Cardinality(Engines(o) \ {e})
           /\ refs[o] = 1 => Holders(o) = {} /\ Engines(o) \ {e} = {}
<1> DEFINE E == Engines(o)
           H == Holders(o)
<1>1. e \in E
  BY DEF Engines, Pointed
<1>2. /\ \A d \in Clients : ~Private(d, o)
      /\ IsFiniteSet(H) /\ IsFiniteSet(E) /\ refs[o] = Cardinality(E) + Cardinality(H)
  BY <1>1, HeldShared
<1>3. /\ kind[o] = "token" /\ kind[e] = "engine" /\ token[o] = None /\ e # o
  <2>1. Referred(e) /\ Referred(o) /\ o # None
    BY ObjectsAssumption DEF IInv
  <2> QED
    BY <2>1 DEF Referred
<1> HIDE DEF E, H
<1>4. /\ IsFiniteSet(E \ {e}) /\ refs[o] \in Nat /\ refs[o] > 0
  BY <1>1, <1>2, OneLess
<1>5. refs[o] - 1 = Cardinality(H) + Cardinality(E \ {e})
  <2>1. refs[o] - 1 = Cardinality(E \ {e}) + Cardinality(H)
    BY <1>1, <1>2, OneLess
  <2>2. Cardinality(E \ {e}) \in Nat /\ Cardinality(H) \in Nat
    BY <1>2, <1>4, Counts
  <2> QED
    BY <2>1, <2>2
<1>6. refs[o] = 1 => H = {} /\ E \ {e} = {}
  BY <1>1, <1>2, LastOne
<1> QED
  BY <1>2, <1>3, <1>4, <1>5, <1>6 DEF E, H

(* Whoever gives the last reference to an object back deletes it.          *)
LEMMA Deletes ==
    ASSUME NEW c \in Clients, NEW o \in Objects, StartDelete(c, o),
           call \in [Clients -> Calls], CallSound(c), UNCHANGED holds,
           call[c].tokens = <<>>, call[c].op # "token"
    PROVE  /\ call' \in [Clients -> Calls] /\ \A d \in Clients \ {c} : call'[d] = call[d]
           /\ call'[c].op = call[c].op /\ call'[c].tokens = <<>> /\ call'[c].obj = o
           /\ call'[c].pc = "delete" /\ call'[c].src = call[c].src
           /\ CallSound(c)' /\ ~Making(c)' /\ Deleting(c)' /\ Listed(c)' = {}
           /\ ~Uncounted(c)'
           /\ \A p \in Objects : Private(c, p)' <=> p = o
<1>1. Moved(c, "delete", call[c].found, o, call[c].tokens)
  BY Moving DEF Calls, Pcs
<1>2. /\ call' \in [Clients -> Calls] /\ \A d \in Clients \ {c} : call'[d] = call[d]
      /\ call'[c].op = call[c].op /\ call'[c].tokens = <<>> /\ call'[c].obj = o
      /\ call'[c].pc = "delete" /\ call'[c].src = call[c].src
      /\ ~Making(c)' /\ Deleting(c)' /\ Listed(c)' = {} /\ ~Uncounted(c)'
  BY <1>1 DEF Moved, Making, Deleting, Uncounted, Listed
<1>3. CallSound(c)'
  BY <1>2 DEF CallSound, At
<1>4. \A p \in Objects : Private(c, p)' <=> p = o
  BY <1>2 DEF Private, Working
<1> QED
  BY <1>2, <1>3, <1>4

(***************************************************************************)
(* The steps of a call in token_ of an engine, with nobody in its way.     *)
(***************************************************************************)
LEMMA TokenCall ==
    ASSUME IInv, NEW c \in Clients, TokenSound(c), Setting(c) \/ Getting(c)
    PROVE  /\ Shape /\ CallSound(c) /\ call \in [Clients -> Calls] /\ call[c] \in Calls
           /\ ~Making(c) /\ ~Deleting(c) /\ ~Uncounted(c) /\ Listed(c) = {}
           /\ call[c].tokens = <<>> /\ call[c].op = "none"
           /\ call[c].src \in Objects /\ call[c].src \in holds[c]
           /\ call[c].obj \in Objects /\ call[c].old \in Objects \cup {None}
           /\ \A p : ~Private(c, p)
<1>1. Shape /\ CallSound(c) /\ call \in [Clients -> Calls] /\ call[c] \in Calls
  BY DEF IInv, Shape
<1>2. ~Making(c) /\ ~Deleting(c) /\ ~Uncounted(c)
  BY DEF Setting, Getting, Making, Deleting, Uncounted
<1>3. /\ call[c].op = "none" /\ call[c].src \in Objects /\ call[c].obj \in Objects
      /\ call[c].old \in Objects \cup {None}
  BY <1>1 DEF TokenSound, Calls
<1>4. call[c].tokens = <<>> /\ call[c].src \in holds[c]
  BY <1>1, <1>3, ObjectsAssumption DEF CallSound
<1>5. Listed(c) = {} /\ \A p : ~Private(c, p)
  BY <1>2, <1>4 DEF Listed, Private, Working
<1> QED
  BY <1>1, <1>2, <1>3, <1>4, <1>5

LEMMA NobodyElse ==
    ASSUME ~Overlapping, NEW c \in Clients, NEW d \in Clients \ {c}, Setting(c),
           call[d].src = call[c].src
    PROVE  ~Swapping(d) /\ call[d].pc # "addref"
  BY DEF Overlapping, Setting, Swapping

LEMMA TokenTaken ==
    ASSUME IInv, \A d \in Clients : TokenSound(d), NEW e \in Objects, NEW o \in Objects,
           token[e] = o
    PROVE  Holders(o) # {} \/ Engines(o) # {}
<1>1. CASE \A d \in Clients : call[d].pc = "addref" => call[d].src # e
  BY <1>1 DEF Engines, Pointed
<1>2. ASSUME NEW d \in Clients, call[d].pc = "addref", call[d].src = e
      PROVE  d \in Holders(o)
  BY <1>2 DEF TokenSound, Swapping, At, Holders
<1> QED
  BY <1>1, <1>2

(* The engine that a call is in counts for the old token until the call    *)
(* releases it, and for the new one since it has added the reference.      *)
LEMMA PointedInCall ==
    ASSUME IInv, TInv, NEW c \in Clients, NEW e, call[c].src = e, Setting(c)
    PROVE  /\ At(c, "store") => \A p : Pointed(e, p) <=> p = call[c].old
           /\ At(c, "addref") => \A p : Pointed(e, p) <=> p = call[c].old
           /\ At(c, "dropold") =>
                 \A p : Pointed(e, p) <=> p = call[c].old \/ p = call[c].obj
<1>1. /\ TokenSound(c) /\ ~Overlapping
  BY DEF TInv
<1>2. \A d \in Clients \ {c} : call[d].src = e => ~Swapping(d) /\ call[d].pc # "addref"
  BY <1>1, NobodyElse
<1>3. CASE At(c, "store")
  BY <1>1, <1>2, <1>3 DEF TokenSound, Pointed, At, Swapping
<1>4. CASE At(c, "addref")
  BY <1>1, <1>2, <1>4 DEF TokenSound, Pointed, At, Swapping
<1>5. CASE At(c, "dropold")
  BY <1>1, <1>2, <1>5 DEF TokenSound, Pointed, At, Swapping
<1>6. ~(At(c, "store") /\ At(c, "addref")) /\ ~(At(c, "store") /\ At(c, "dropold"))
      /\ ~(At(c, "addref") /\ At(c, "dropold"))
  BY DEF At
<1> QED
  BY <1>3, <1>4, <1>5, <1>6

LEMMA PointedElsewhere ==
    ASSUME NEW c \in Clients, NEW e, call[c].src = e, call'[c].src = e \/ call'[c] = Idle,
           \A d \in Clients \ {c} : call'[d] = call[d],
           NEW x, x # e, token'[x] = token[x]
    PROVE  \A p : Pointed(x, p)' <=> Pointed(x, p)
<1>1. ASSUME NEW d \in Clients, NEW p
      PROVE  /\ (Swapping(d)' /\ call'[d].src = x /\ call'[d].old = p)
                  <=> (Swapping(d) /\ call[d].src = x /\ call[d].old = p)
             /\ (call'[d].pc = "addref" => call'[d].src # x)
                  <=> (call[d].pc = "addref" => call[d].src # x)
  <2>1. CASE d = c
    BY <2>1 DEF Swapping, Idle
  <2>2. CASE d # c
    BY <2>2 DEF Swapping
  <2> QED
    BY <2>1, <2>2
<1>2. ASSUME NEW p
      PROVE  Pointed(x, p)' <=> Pointed(x, p)
  <2>1. (\E d \in Clients : Swapping(d)' /\ call'[d].src = x /\ call'[d].old = p)
            <=> (\E d \in Clients : Swapping(d) /\ call[d].src = x /\ call[d].old = p)
    BY <1>1, Zenon
  <2>2. (\A d \in Clients : call'[d].pc = "addref" => call'[d].src # x)
            <=> (\A d \in Clients : call[d].pc = "addref" => call[d].src # x)
    BY <1>1, Zenon
  <2> QED
    BY <2>1, <2>2, Zenon DEF Pointed
<1> QED
  BY <1>2

LEMMA StoreTokenGood ==
    ASSUME IInv, TInv, ~Overlapping', NEW c \in Clients, StoreToken(c)
    PROVE  IInv'
<1>0. TokenSound(c) /\ At(c, "store") /\ Setting(c) /\ ~Overlapping
  BY DEF TInv, StoreToken, At, Setting
<1>1. /\ Shape /\ CallSound(c) /\ call \in [Clients -> Calls] /\ call[c] \in Calls
      /\ ~Making(c) /\ ~Deleting(c) /\ ~Uncounted(c) /\ Listed(c) = {}
      /\ call[c].tokens = <<>> /\ call[c].op = "none"
      /\ call[c].src \in holds[c] /\ \A p : ~Private(c, p)
  BY <1>0, TokenCall
<1>2. PICK e \in Objects : call[c].src = e
  BY <1>0, TokenCall
<1>3. PICK t \in Objects : call[c].obj = t
  BY <1>0, TokenCall
<1>4. /\ UNCHANGED <<kind, refs, count, locks, holds, cursorVars>>
      /\ token' = [token EXCEPT ![e] = t] /\ GoTo(c, "addref")
      /\ kind[e] = "engine" /\ kind[t] = "token" /\ c \in Holders(e)
  BY <1>0, <1>1, <1>2, <1>3 DEF StoreToken, TokenSound, Holders
<1>5. /\ call' \in [Clients -> Calls] /\ \A d \in Clients \ {c} : call'[d] = call[d]
      /\ call'[c].pc = "addref" /\ call'[c].obj = t /\ call'[c].op = "none"
      /\ call'[c].src = e /\ call'[c].tokens = <<>> /\ call'[c].old = call[c].old
  <2>1. Moved(c, "addref", call[c].found, call[c].obj, call[c].tokens)
    BY <1>1, <1>4, Moving DEF Calls, Pcs
  <2> QED
    BY <1>1, <1>2, <1>3, <1>4, <2>1 DEF Moved
<1>6. /\ ~Making(c)' /\ ~Deleting(c)' /\ ~Uncounted(c)' /\ Listed(c)' = {}
      /\ \A p : ~Private(c, p)'
  BY <1>5 DEF Making, Deleting, Uncounted, Listed, Private, Working
<1>7. /\ token' \in [Objects -> Objects \cup {None}] /\ token'[e] = t
      /\ \A p \in Objects \ {e} : token'[p] = token[p]
  BY <1>1, <1>4 DEF Shape
<1>8. \A p : Engines(p)' = Engines(p) /\ Holders(p)' = Holders(p)
  <2>1. ASSUME NEW p PROVE Pointed(e, p)' <=> Pointed(e, p)
    <3>1. Pointed(e, p) <=> p = call[c].old
      BY <1>0, <1>2, PointedInCall
    <3>2. \A d \in Clients \ {c} : call'[d].src = e => ~Swapping(d)' /\ call'[d].pc # "addref"
      BY <1>0, <1>2, <1>5, NobodyElse DEF Swapping
    <3>3. Pointed(e, p)' <=> p = call[c].old
      BY <1>5, <3>2 DEF Pointed, Swapping
    <3> QED
      BY <3>1, <3>3
  <2>2. ASSUME NEW x \in Objects, x # e, NEW p PROVE Pointed(x, p)' <=> Pointed(x, p)
    <3>1. token'[x] = token[x]
      BY <1>7, <2>2
    <3> QED
      BY <1>2, <1>5, <2>2, <3>1, PointedElsewhere
  <2> QED
    BY <1>4, <2>1, <2>2 DEF Engines, Holders
<1>9. CallSound(c)'
  BY <1>1, <1>2, <1>4, <1>5, <1>6 DEF CallSound, At
<1>10. Owned(c)'
  BY <1>5, <1>6 DEF Owned
<1>11. Referred(e)'
  <2>1. /\ Shared(e) /\ IsFiniteSet(Holders(e)) /\ IsFiniteSet(Engines(e))
        /\ refs[e] = Cardinality(Holders(e)) + Cardinality(Engines(e)) /\ refs[e] > 0
    BY <1>4, HeldShared DEF IInv, Referred
  <2> QED
    BY <1>4, <1>7, <1>8, <2>1 DEF Referred
<1>12. \A p \in Objects \ {e} : Untouched(c, p)
  BY <1>1, <1>4, <1>6, <1>7, <1>8 DEF Untouched
<1>13. \A d \in Clients \ {c} : ~Private(d, e)
  BY <1>4, HeldShared
<1>14. Shape'
  BY <1>1, <1>4, <1>5, <1>7 DEF Shape, cursorVars
<1>15. CountedIn'
  <2>1. Live' = Live
    BY <1>1, <1>4, <1>5, <1>6, LiveSame
  <2> QED
    BY <1>4, <2>1 DEF IInv, CountedIn
<1> QED
  BY <1>4, <1>5, <1>9, <1>10, <1>11, <1>12, <1>13, <1>14, <1>15, SettleOne

LEMMA AddRefTokenGood ==
    ASSUME IInv, TInv, ~Overlapping', NEW c \in Clients, AddRefToken(c)
    PROVE  IInv'
<1>0. TokenSound(c) /\ At(c, "addref") /\ Setting(c) /\ ~Overlapping
  BY DEF TInv, AddRefToken, At, Setting
<1>1. /\ Shape /\ CallSound(c) /\ call \in [Clients -> Calls] /\ call[c] \in Calls
      /\ ~Making(c) /\ ~Deleting(c) /\ ~Uncounted(c) /\ Listed(c) = {}
      /\ call[c].tokens = <<>> /\ call[c].op = "none"
      /\ call[c].src \in holds[c] /\ \A p : ~Private(c, p)
  BY <1>0, TokenCall
<1>2. PICK e \in Objects : call[c].src = e
  BY <1>0, TokenCall
<1>3. PICK t \in Objects : call[c].obj = t
  BY <1>0, TokenCall
<1>4. /\ UNCHANGED <<kind, count, locks, holds, cursorVars, token>> /\ GoTo(c, "dropold")
      /\ token[e] = t /\ t # call[c].old /\ c \in Holders(t)
      /\ refs' = [refs EXCEPT ![t] = refs[t] + 1]
  BY <1>0, <1>2, <1>3 DEF AddRefToken, TokenSound, TokenAddRef, Holders, Swapping, At
<1>5. /\ call' \in [Clients -> Calls] /\ \A d \in Clients \ {c} : call'[d] = call[d]
      /\ call'[c].pc = "dropold" /\ call'[c].obj = t /\ call'[c].op = "none"
      /\ call'[c].src = e /\ call'[c].tokens = <<>> /\ call'[c].old = call[c].old
  <2>1. Moved(c, "dropold", call[c].found, call[c].obj, call[c].tokens)
    BY <1>1, <1>4, Moving DEF Calls, Pcs
  <2> QED
    BY <1>1, <1>2, <1>3, <1>4, <2>1 DEF Moved
<1>6. /\ ~Making(c)' /\ ~Deleting(c)' /\ ~Uncounted(c)' /\ Listed(c)' = {}
      /\ \A p : ~Private(c, p)'
  BY <1>5 DEF Making, Deleting, Uncounted, Listed, Private, Working
<1>7. /\ Engines(t)' = Engines(t) \cup {e} /\ e \notin Engines(t)
      /\ \A p \in Objects \ {t} : Engines(p)' = Engines(p)
      /\ \A p : Holders(p)' = Holders(p)
  <2>1. ASSUME NEW p PROVE /\ Pointed(e, p) <=> p = call[c].old
                           /\ Pointed(e, p)' <=> p = call[c].old \/ p = t
    <3>1. Pointed(e, p) <=> p = call[c].old
      BY <1>0, <1>2, PointedInCall
    <3>2. \A d \in Clients \ {c} : call'[d].src = e => ~Swapping(d)' /\ call'[d].pc # "addref"
      BY <1>0, <1>2, <1>5, NobodyElse DEF Swapping
    <3>3. Pointed(e, p)' <=> p = call[c].old \/ p = t
      BY <1>4, <1>5, <3>2 DEF Pointed, Swapping
    <3> QED
      BY <3>1, <3>3
  <2>2. ASSUME NEW x \in Objects, x # e, NEW p PROVE Pointed(x, p)' <=> Pointed(x, p)
    BY <1>2, <1>4, <1>5, <2>2, PointedElsewhere
  <2> QED
    BY <1>4, <2>1, <2>2 DEF Engines, Holders
<1>8. /\ \A d \in Clients \ {c} : ~Private(d, t)
      /\ IsFiniteSet(Holders(t)) /\ kind[t] # "free"
      /\ IsFiniteSet(Engines(t)) /\ refs[t] = Cardinality(Engines(t)) + Cardinality(Holders(t))
  BY <1>4, HeldShared DEF Shared
<1>9. /\ IsFiniteSet(Engines(t)') /\ refs[t] + 1 \in Nat /\ refs[t] + 1 > 0
      /\ refs[t] + 1 = Cardinality(Holders(t)) + Cardinality(Engines(t)')
  <2> DEFINE E == Engines(t)
             H == Holders(t)
  <2>1. IsFiniteSet(H) /\ IsFiniteSet(E) /\ e \notin E /\ refs[t] = Cardinality(E) + Cardinality(H)
    BY <1>7, <1>8
  <2> HIDE DEF E, H
  <2>2. /\ IsFiniteSet(E \cup {e}) /\ refs[t] + 1 \in Nat /\ refs[t] + 1 > 0
        /\ refs[t] + 1 = Cardinality(H) + Cardinality(E \cup {e})
    <3>1. /\ IsFiniteSet(E \cup {e}) /\ refs[t] + 1 \in Nat /\ refs[t] + 1 > 0
          /\ refs[t] + 1 = Cardinality(E \cup {e}) + Cardinality(H)
      BY <2>1, OneMore
    <3>2. Cardinality(E \cup {e}) \in Nat /\ Cardinality(H) \in Nat
      BY <2>1, <3>1, Counts
    <3> QED
      BY <3>1, <3>2
  <2> QED
    BY <1>7, <2>2 DEF E, H
<1>10. /\ refs' \in [Objects -> Nat] /\ refs'[t] = refs[t] + 1
       /\ \A p \in Objects \ {t} : refs'[p] = refs[p]
  BY <1>1, <1>4, <1>9 DEF Shape
<1>11. CallSound(c)'
  BY <1>1, <1>2, <1>4, <1>5, <1>6 DEF CallSound, At
<1>12. Owned(c)'
  BY <1>5, <1>6 DEF Owned
<1>13. Referred(t)'
  <2>1. token'[t] # None => kind'[t] = "engine" /\ kind'[token'[t]] = "token"
    BY <1>4 DEF IInv, Referred
  <2>2. /\ kind'[t] # "free" /\ IsFiniteSet(Holders(t)') /\ refs'[t] > 0
        /\ refs'[t] = Cardinality(Holders(t)') + Cardinality(Engines(t)')
    BY <1>4, <1>7, <1>8, <1>9, <1>10
  <2> QED
    BY <1>9, <2>1, <2>2 DEF Referred
<1>14. \A p \in Objects \ {t} : Untouched(c, p)
  BY <1>1, <1>4, <1>6, <1>7, <1>10 DEF Untouched
<1>15. Shape'
  BY <1>1, <1>4, <1>5, <1>10 DEF Shape, cursorVars
<1>16. CountedIn'
  <2>1. Live' = Live
    BY <1>1, <1>4, <1>5, <1>6, LiveSame
  <2> QED
    BY <1>4, <2>1 DEF IInv, CountedIn
<1> QED
  BY <1>4, <1>5, <1>8, <1>11, <1>12, <1>13, <1>14, <1>15, <1>16, SettleOne

LEMMA ReleaseOldGood ==
    ASSUME IInv, TInv, ~Overlapping', NEW c \in Clients, ReleaseOld(c)
    PROVE  IInv'
<1>0. TokenSound(c) /\ At(c, "dropold") /\ Setting(c) /\ ~Overlapping
  BY DEF TInv, ReleaseOld, At, Setting
<1>1. /\ Shape /\ CallSound(c) /\ call \in [Clients -> Calls] /\ call[c] \in Calls
      /\ ~Making(c) /\ ~Deleting(c) /\ ~Uncounted(c) /\ Listed(c) = {}
      /\ call[c].tokens = <<>> /\ call[c].op = "none"
      /\ call[c].src \in holds[c] /\ \A p : ~Private(c, p)
  BY <1>0, TokenCall
<1>2. PICK e \in Objects : call[c].src = e
  BY <1>0, TokenCall
<1>3. PICK t \in Objects : call[c].obj = t
  BY <1>0, TokenCall
<1>4. PICK old \in Objects \cup {None} : call[c].old = old
  BY <1>0, TokenCall
<1>5. /\ UNCHANGED <<kind, count, locks, holds, cursorVars, token>>
      /\ token[e] = t /\ t # old
      /\ \/ old = None /\ Return(c) /\ UNCHANGED refs
         \/ /\ old # None /\ refs' = [refs EXCEPT ![old] = refs[old] - 1]
            /\ IF refs[old] = 1 THEN StartDelete(c, old) ELSE Return(c)
  BY <1>0, <1>2, <1>3, <1>4 DEF ReleaseOld, DropOld, TokenSound, Swapping, At
<1>6. ASSUME \A d \in Clients \ {c} : call'[d] = call[d], ~Swapping(c)',
             call'[c].src = e \/ call'[c] = Idle
      PROVE  /\ \A p \in Objects \ {old} : Engines(p)' = Engines(p)
             /\ Engines(old)' = Engines(old) \ {e} /\ e \in Engines(old)
             /\ \A p : Holders(p)' = Holders(p)
  <2>1. ASSUME NEW p PROVE /\ Pointed(e, p) <=> p = old \/ p = t
                           /\ Pointed(e, p)' <=> p = t
    <3>1. Pointed(e, p) <=> p = old \/ p = t
      BY <1>0, <1>2, <1>3, <1>4, PointedInCall
    <3>2. \A d \in Clients \ {c} : call'[d].src = e => ~Swapping(d)' /\ call'[d].pc # "addref"
      BY <1>0, <1>2, <1>6, NobodyElse DEF Swapping
    <3>3. Pointed(e, p)' <=> p = t
      BY <1>5, <1>6, <3>2 DEF Pointed, Swapping
    <3> QED
      BY <3>1, <3>3
  <2>2. ASSUME NEW x \in Objects, x # e, NEW p PROVE Pointed(x, p)' <=> Pointed(x, p)
    BY <1>2, <1>5, <1>6, <2>2, PointedElsewhere
  <2> QED
    BY <1>5, <2>1, <2>2 DEF Engines, Holders
<1>7. CASE old = None
  <2>1. /\ call' \in [Clients -> Calls] /\ call'[c] = Idle
        /\ \A d \in Clients \ {c} : call'[d] = call[d]
        /\ CallSound(c)' /\ ~Making(c)' /\ ~Deleting(c)' /\ Listed(c)' = {}
        /\ \A p : ~Private(c, p)'
    BY <1>1, <1>5, <1>7, Returned
  <2>2. ~Swapping(c)' /\ ~Uncounted(c)' /\ Owned(c)'
    BY <2>1 DEF Swapping, Uncounted, Owned, Idle
  <2>3. \A p \in Objects : Untouched(c, p)
    <3>1. \A p \in Objects : p # old
      BY <1>7, ObjectsAssumption
    <3> QED
      BY <1>1, <1>5, <1>6, <1>7, <2>1, <2>2, <3>1 DEF Untouched
  <2>4. Shape' /\ CountedIn'
    <3>1. Live' = Live
      BY <1>1, <1>5, <2>1, <2>2, LiveSame
    <3>2. CountedIn'
      BY <1>5, <3>1 DEF IInv, CountedIn
    <3>3. Shape'
      BY <1>1, <1>5, <1>7, <2>1 DEF Shape, cursorVars
    <3> QED
      BY <3>2, <3>3
  <2>5. PICK T \in SUBSET Objects : T = {}
    OBVIOUS
  <2> QED
    BY <1>5, <2>1, <2>2, <2>3, <2>4, <2>5, Settle
<1>8. CASE old # None
  <2>0. PICK o \in Objects : old = o
    BY <1>4, <1>8
  <2>1. /\ refs' = [refs EXCEPT ![o] = refs[o] - 1]
        /\ IF refs[o] = 1 THEN StartDelete(c, o) ELSE Return(c)
    BY <1>5, <1>8, <2>0
  <2>2. e \in Engines(o)
    BY <1>0, <1>2, <1>4, <2>0, PointedInCall DEF Engines
  <2>3. /\ \A d \in Clients : ~Private(d, o)
        /\ IsFiniteSet(Holders(o)) /\ IsFiniteSet(Engines(o)) /\ kind[o] # "free"
        /\ refs[o] = Cardinality(Engines(o)) + Cardinality(Holders(o))
    BY <2>2, HeldShared DEF Shared
  <2>4. /\ IsFiniteSet(Engines(o) \ {e}) /\ refs[o] \in Nat /\ refs[o] - 1 \in Nat
        /\ refs[o] - 1 = Cardinality(Holders(o)) + Cardinality(Engines(o) \ {e})
        /\ refs[o] = 1 => Holders(o) = {} /\ Engines(o) \ {e} = {}
    <3> DEFINE H == Holders(o)
               E == Engines(o)
    <3>1. /\ IsFiniteSet(H) /\ IsFiniteSet(E) /\ e \in E
          /\ refs[o] = Cardinality(E) + Cardinality(H)
      BY <2>2, <2>3
    <3> HIDE DEF H, E
    <3>2. IsFiniteSet(E \ {e}) /\ refs[o] \in Nat /\ refs[o] > 0
      BY <3>1, OneLess
    <3>3. refs[o] - 1 = Cardinality(H) + Cardinality(E \ {e})
      <4>1. refs[o] - 1 = Cardinality(E \ {e}) + Cardinality(H)
        BY <3>1, OneLess
      <4>2. Cardinality(E \ {e}) \in Nat /\ Cardinality(H) \in Nat
        BY <3>1, <3>2, Counts
      <4> QED
        BY <4>1, <4>2
    <3>4. refs[o] = 1 => H = {} /\ E \ {e} = {}
      BY <3>1, LastOne
    <3>5. refs[o] - 1 \in Nat
      BY <3>2
    <3> QED
      BY <3>2, <3>3, <3>4, <3>5 DEF H, E
  <2>5. /\ refs' \in [Objects -> Nat] /\ refs'[o] = refs[o] - 1
        /\ \A p \in Objects \ {o} : refs'[p] = refs[p]
    BY <1>1, <2>1, <2>4 DEF Shape
  <2>6. token'[o] # None => kind'[o] = "engine" /\ kind'[token'[o]] = "token"
    BY <1>5 DEF IInv, Referred
  <2>7. CASE refs[o] = 1
    <3>0. StartDelete(c, o) /\ call[c].op # "token" /\ UNCHANGED holds
      BY <1>1, <1>5, <2>1, <2>7
    <3>1. /\ call' \in [Clients -> Calls] /\ \A d \in Clients \ {c} : call'[d] = call[d]
          /\ call'[c].op = call[c].op /\ call'[c].tokens = <<>> /\ call'[c].obj = o
          /\ call'[c].pc = "delete" /\ call'[c].src = e
          /\ CallSound(c)' /\ ~Making(c)' /\ Deleting(c)' /\ Listed(c)' = {}
          /\ ~Uncounted(c)'
          /\ \A p \in Objects : Private(c, p)' <=> p = o
      BY <1>1, <1>2, <3>0, Deletes
    <3>2. /\ \A p \in Objects \ {o} : Engines(p)' = Engines(p)
          /\ Engines(o)' = Engines(o) \ {e} /\ \A p : Holders(p)' = Holders(p)
      BY <1>6, <2>0, <3>1 DEF Swapping
    <3>3. Owned(c)'
      <4>1. Holders(o)' = {} /\ Engines(o)' = {} /\ refs'[o] = 0 /\ kind'[o] # "free"
        BY <1>5, <2>3, <2>4, <2>5, <2>7, <3>2
      <4> QED
        BY <1>1, <3>1, <4>1 DEF Owned, Unheld
    <3>4. Referred(o)'
      BY <1>5, <2>3, <2>6, <3>1 DEF Referred, Shared
    <3>5. \A p \in Objects \ {o} : Untouched(c, p)
      BY <1>1, <1>5, <2>5, <3>1, <3>2 DEF Untouched
    <3>6. Shape' /\ CountedIn'
      <4>1. Live' = Live
        BY <1>1, <1>5, <3>1, LiveSame
      <4>2. CountedIn'
        BY <1>5, <4>1 DEF IInv, CountedIn
      <4>3. Shape'
        BY <1>1, <1>5, <2>5, <3>1 DEF Shape, cursorVars
      <4> QED
        BY <4>2, <4>3
    <3> QED
      BY <1>5, <2>3, <3>1, <3>3, <3>4, <3>5, <3>6, SettleOne
  <2>8. CASE refs[o] # 1
    <3>1. /\ call' \in [Clients -> Calls] /\ call'[c] = Idle
          /\ \A d \in Clients \ {c} : call'[d] = call[d]
          /\ CallSound(c)' /\ ~Making(c)' /\ ~Deleting(c)' /\ Listed(c)' = {}
          /\ \A p : ~Private(c, p)'
      BY <1>1, <2>1, <2>8, Returned
    <3>2. ~Swapping(c)' /\ ~Uncounted(c)' /\ Owned(c)'
      BY <3>1 DEF Swapping, Uncounted, Owned, Idle
    <3>3. /\ \A p \in Objects \ {o} : Engines(p)' = Engines(p)
          /\ Engines(o)' = Engines(o) \ {e} /\ \A p : Holders(p)' = Holders(p)
      BY <1>6, <2>0, <3>1, <3>2
    <3>4. Referred(o)'
      <4>1. /\ kind'[o] # "free" /\ IsFiniteSet(Engines(o)') /\ IsFiniteSet(Holders(o)')
            /\ refs'[o] > 0
            /\ refs'[o] = Cardinality(Holders(o)') + Cardinality(Engines(o)')
        BY <1>5, <2>3, <2>4, <2>5, <2>8, <3>3
      <4> QED
        BY <2>6, <4>1 DEF Referred
    <3>5. \A p \in Objects \ {o} : Untouched(c, p)
      BY <1>1, <1>5, <2>5, <3>1, <3>3 DEF Untouched
    <3>6. Shape' /\ CountedIn'
      <4>1. Live' = Live
        BY <1>1, <1>5, <3>1, <3>2, LiveSame
      <4>2. CountedIn'
        BY <1>5, <4>1 DEF IInv, CountedIn
      <4>3. Shape'
        BY <1>1, <1>5, <2>5, <3>1 DEF Shape, cursorVars
      <4> QED
        BY <4>2, <4>3
    <3> QED
      BY <1>5, <2>3, <3>1, <3>2, <3>4, <3>5, <3>6, SettleOne
  <2> QED
    BY <2>7, <2>8
<1> QED
  BY <1>7, <1>8

LEMMA AddRefGotGood ==
    ASSUME IInv, TInv, NEW c \in Clients, AddRefGot(c)
    PROVE  IInv'
<1>0. TokenSound(c) /\ At(c, "getref") /\ Getting(c) /\ ~Overlapping
  BY DEF TInv, AddRefGot, At, Getting
<1>1. PICK t \in Objects : call[c].obj = t
  BY <1>0, TokenCall
<1>2. PICK e \in Objects : call[c].src = e
  BY <1>0, TokenCall
<1>3. token[e] = t /\ t \notin holds[c]
  BY <1>0, <1>1, <1>2 DEF TokenSound
<1>4. e \in Engines(t)
  <2>1. \A d \in Clients : call[d].pc = "addref" => call[d].src # e
    BY <1>0, <1>2 DEF Overlapping, Setting, Getting, At
  <2> QED
    BY <1>3, <2>1 DEF Engines, Pointed
<1>5. /\ refs' = [refs EXCEPT ![t] = refs[t] + 1] /\ holds' = [holds EXCEPT ![c] = @ \cup {t}]
      /\ GoTo(c, "give") /\ UNCHANGED <<kind, count, locks, cursorVars, token>>
  BY <1>1 DEF AddRefGot, TokenAddRef
<1> QED
  BY <1>0, <1>3, <1>4, <1>5, RefMore

LEMMA GiveTokenGood ==
    ASSUME IInv, TInv, NEW c \in Clients, GiveToken(c)
    PROVE  IInv' /\ holds' = holds
<1>0. TokenSound(c) /\ At(c, "give") /\ Getting(c)
  BY DEF TInv, GiveToken, At, Getting
<1>1. /\ Shape /\ call \in [Clients -> Calls] /\ ~Making(c) /\ ~Deleting(c) /\ ~Swapping(c)
      /\ call[c].tokens = <<>>
  BY <1>0, TokenCall DEF Swapping, At
<1>2. UNCHANGED <<kind, refs, count, locks, holds, cursorVars, token>> /\ Return(c)
  <2>1. token[call[c].src] = call[c].obj /\ call[c].obj \in holds[c]
    BY <1>0 DEF TokenSound
  <2>2. holds' = [holds EXCEPT ![c] = (holds[c] \ {call[c].obj}) \cup {call[c].obj}]
    BY <2>1 DEF GiveToken
  <2>3. holds' = holds
    BY <1>1, <2>1, <2>2 DEF Shape
  <2> QED
    BY <2>3 DEF GiveToken
<1>3. /\ call' \in [Clients -> Calls] /\ call'[c] = Idle
      /\ \A d \in Clients \ {c} : call'[d] = call[d]
      /\ CallSound(c)' /\ ~Making(c)' /\ ~Deleting(c)'
  BY <1>1, <1>2, Returned
<1>4. call'[c].tokens = <<>> /\ call'[c].op # "token" /\ ~Swapping(c)'
  BY <1>3 DEF Idle, Swapping
<1>5. Shape'
  BY <1>1, <1>2, <1>3 DEF Shape, cursorVars
<1>6. IsFiniteSet(locks') /\ count' = Cardinality(Live) + Cardinality(locks')
  BY <1>2 DEF IInv, CountedIn
<1> QED
  BY <1>1, <1>2, <1>3, <1>4, <1>5, <1>6, Quiet

(***************************************************************************)
(* The end of an object.                                                   *)
(***************************************************************************)
LEMMA DestroyGood ==
    ASSUME IInv, TInv, NEW c \in Clients, Destroy(c)
    PROVE  IInv'
<1>0. PICK o \in Objects : call[c].obj = o
  BY DEF IInv, CallSound, Destroy, At, Making, Deleting
<1>1. PICK t \in Objects \cup {None} : token[o] = t
  BY DEF IInv, Shape
<1>2. /\ Shape /\ CallSound(c) /\ Owned(c) /\ call \in [Clients -> Calls] /\ call[c] \in Calls
      /\ call[c].pc = "destroy" /\ ~Making(c) /\ Deleting(c) /\ Uncounted(c) /\ Working(c, o)
      /\ Private(c, o) /\ refs[o] = 0 /\ (call[c].op = "token" => kind[o] = "token")
  BY <1>0 DEF IInv, Shape, Owned, Destroy, At, Making, Deleting, Uncounted, Working, Private
<1>3. /\ UNCHANGED <<count, locks, holds>>
      /\ kind' = [kind EXCEPT ![o] = "free"]
      /\ index' = [index EXCEPT ![o] = 0] /\ seen' = [seen EXCEPT ![o] = <<>>]
      /\ token' = [token EXCEPT ![o] = None]
      /\ \/ /\ t # None /\ refs' = [refs EXCEPT ![t] = refs[t] - 1]
            /\ IF refs[t] = 1 THEN StartDelete(c, t) ELSE Return(c)
         \/ /\ t = None /\ UNCHANGED refs
            /\ IF call[c].op = "token" THEN GoTo(c, "drop") ELSE Return(c)
  BY <1>0, <1>1 DEF Destroy
<1>4. /\ kind[o] # "free" /\ Holders(o) = {} /\ Engines(o) = {} /\ o \notin Listed(c)
      /\ \A d \in Clients \ {c} : ~Private(d, o)
  BY <1>2, OwnFacts
<1>5. /\ kind' \in [Objects -> Classes \cup {"free"}] /\ kind'[o] = "free"
      /\ \A p \in Objects \ {o} : kind'[p] = kind[p]
  BY <1>2, <1>3 DEF Shape
<1>6. \A p : Holders(p)' = Holders(p)
  BY <1>3 DEF Holders
<1>7. \A p \in Objects : Private(c, p) <=> p = o \/ p \in Listed(c)
  BY <1>0, <1>2 DEF Private, Working
<1>17. \A d \in Clients : call[d].src # o
  BY <1>4, ObjectsAssumption DEF IInv, CallSound, Holders
<1>18. \A p \in Objects : token[p] # o
  BY <1>4, TokenTaken DEF TInv
<1>19. /\ (\A d \in Clients \ {c} : call'[d] = call[d]) /\ ~Swapping(c) /\ ~Swapping(c)'
       /\ call'[c].src = call[c].src \/ call'[c] = Idle
  <2>1. PICK p : GoTo(c, "drop") \/ Return(c) \/ StartDelete(c, p)
    BY <1>3
  <2>2. CASE GoTo(c, "drop")
    BY <1>2, <2>2 DEF GoTo, Swapping, Calls
  <2>3. CASE Return(c)
    BY <1>2, <2>3 DEF Return, Swapping, Idle
  <2>4. CASE StartDelete(c, p)
    BY <1>2, <2>4 DEF StartDelete, Swapping, Calls
  <2> QED
    BY <2>1, <2>2, <2>3, <2>4
<1>8. /\ token' \in [Objects -> Objects \cup {None}] /\ token'[o] = None
      /\ \A p \in Objects \ {o} : token'[p] = token[p]
      /\ \A p \in Objects : p # t => Engines(p)' = Engines(p)
      /\ t # None => Engines(t)' = Engines(t) \ {o} /\ t # o
  <2>1. token' = [p \in Objects |-> IF p = o THEN None ELSE token[p]]
    BY <1>2, <1>3 DEF Shape
  <2>2. /\ token' \in [Objects -> Objects \cup {None}] /\ token'[o] = None
        /\ \A p \in Objects \ {o} : token'[p] = token[p]
    BY <1>2, <2>1 DEF Shape
  <2>6. ASSUME NEW x \in Objects \ {o}, NEW p PROVE Pointed(x, p)' <=> Pointed(x, p)
    <3>1. ASSUME NEW d \in Clients
          PROVE  \/ call'[d] = call[d] /\ (Swapping(d)' <=> Swapping(d))
                 \/ ~Swapping(d) /\ ~Swapping(d)'
      BY <1>19 DEF Swapping
    <3>2. ASSUME NEW d \in Clients
          PROVE  /\ (Swapping(d)' /\ call'[d].src = x /\ call'[d].old = p)
                      <=> (Swapping(d) /\ call[d].src = x /\ call[d].old = p)
                 /\ (call'[d].pc = "addref" => call'[d].src # x)
                      <=> (call[d].pc = "addref" => call[d].src # x)
      BY <3>1 DEF Swapping
    <3>3. (\E d \in Clients : Swapping(d)' /\ call'[d].src = x /\ call'[d].old = p)
              <=> (\E d \in Clients : Swapping(d) /\ call[d].src = x /\ call[d].old = p)
      BY <3>2, Zenon
    <3>4. (\A d \in Clients : call'[d].pc = "addref" => call'[d].src # x)
              <=> (\A d \in Clients : call[d].pc = "addref" => call[d].src # x)
      BY <3>2, Zenon
    <3> QED
      BY <2>2, <3>3, <3>4 DEF Pointed
  <2>7. ASSUME NEW p \in Objects
        PROVE  (Pointed(o, p) <=> p = t) /\ ~Pointed(o, p)'
    <3>1. \A d \in Clients : call'[d].src # o
      BY <1>17, <1>19, ObjectsAssumption DEF Idle
    <3> QED
      BY <1>1, <1>17, <2>2, <3>1, ObjectsAssumption DEF Pointed
  <2>3. \A p \in Objects : p # t => Engines(p)' = Engines(p)
    BY <2>6, <2>7 DEF Engines
  <2>4. t # None => Engines(t)' = Engines(t) \ {o}
    BY <2>6, <2>7 DEF Engines
  <2>5. t # o
    BY <1>1, <1>18
  <2> QED
    BY <2>2, <2>3, <2>4, <2>5
<1>9. /\ index' \in [Objects -> 0..Voices]
      /\ seen' = [e \in Objects |-> Numbers(0, index'[e])]
  <2>1. /\ index \in [Objects -> 0..Voices]
        /\ seen = [e \in Objects |-> Numbers(0, index[e])] /\ Numbers(0, 0) = <<>>
    BY <1>2, NumbersOn DEF Shape
  <2>2. index' \in [Objects -> 0..Voices]
    BY <1>3, <2>1, VoicesAssumption
  <2>3. seen' = [e \in Objects |-> IF e = o THEN <<>> ELSE seen[e]]
    BY <1>3, <2>1
  <2>4. \A e \in Objects : seen'[e] = Numbers(0, index'[e])
    BY <1>3, <2>1, <2>3
  <2> QED
    BY <2>2, <2>3, <2>4
<1>10. /\ \A p \in Objects : token[p] # None => token[p] # o /\ kind'[token[p]] = "token"
       /\ \A p \in Objects : Holders(p) # {} => kind'[p] = kind[p]
  <2>1. \A p \in Objects : token[p] # None =>
           token[p] \in Objects /\ token[p] # o /\ kind[token[p]] = "token"
    <3> SUFFICES ASSUME NEW p \in Objects, token[p] # None
                 PROVE  token[p] \in Objects /\ token[p] # o /\ kind[token[p]] = "token"
      OBVIOUS
    <3>1. token[p] \in Objects
      BY <1>2 DEF Shape
    <3>2. token[p] # o
      BY <1>18
    <3>3. kind[token[p]] = "token"
      BY DEF IInv, Referred
    <3> QED
      BY <3>1, <3>2, <3>3
  <2> QED
    BY <1>4, <1>5, <2>1
<1>11. ASSUME ~Uncounted(c)', \A d \in Clients \ {c} : call'[d] = call[d]
       PROVE  CountedIn'
  <2>1. o \notin Live /\ o \notin Live'
    BY <1>0, <1>2, <1>5 DEF Live
  <2>2. ASSUME NEW p \in Objects \ {o}
        PROVE  p \in Live' <=> p \in Live
    <3>1. ASSUME NEW d \in Clients
          PROVE  (call'[d].pc \in {"count", "destroy"} => call'[d].obj # p)
                   <=> (call[d].pc \in {"count", "destroy"} => call[d].obj # p)
      <4>1. CASE d = c
        BY <1>0, <1>11, <4>1 DEF Uncounted
      <4>2. CASE d # c
        BY <1>11, <4>2
      <4> QED
        BY <4>1, <4>2
    <3> QED
      BY <1>5, <3>1 DEF Live
  <2>3. Live' = Live
    BY <2>1, <2>2 DEF Live
  <2> QED
    BY <1>3, <2>3 DEF IInv, CountedIn
<1>12. ASSUME refs' \in [Objects -> Nat], call' \in [Clients -> Calls]
       PROVE  Shape'
  BY <1>2, <1>3, <1>5, <1>8, <1>9, <1>12 DEF Shape
<1>13. Referred(o)'
  <2>1. Unheld(o)'
    <3>1. t # o
      BY <1>1, <1>18
    <3> QED
      BY <1>4, <1>6, <1>8, <3>1 DEF Unheld
  <2> QED
    BY <1>5, <1>8, <2>1 DEF Referred, Shared
<1>14. ASSUME NEW T \in SUBSET Objects, o \in T, t # None => t \in T,
              Shape', CountedIn', \A d \in Clients \ {c} : call'[d] = call[d],
              \A p \in Objects \ T : refs'[p] = refs[p] /\ (Private(c, p)' <=> Private(c, p)),
              \A p \in T : \A d \in Clients \ {c} : ~Private(d, p),
              CallSound(c)', Owned(c)', \A p \in T : Referred(p)'
       PROVE  IInv'
  <2>1. \A p \in Objects \ T : Untouched(c, p)
    <3>1. \A p \in Objects \ T : p # o /\ p # t
      BY <1>14, ObjectsAssumption
    <3> QED
      BY <1>5, <1>6, <1>8, <1>14, <3>1 DEF Untouched
  <2>2. \A d \in Clients : holds[d] \subseteq holds'[d] \/ d = c
    BY <1>3
  <2>3. /\ Exclusive'
        /\ \A d \in Clients \ {c} : CallSound(d)' /\ Owned(d)'
        /\ \A p \in Objects \ T : Referred(p)'
    BY <1>10, <1>14, <2>1, <2>2, Frame DEF IInv
  <2>4. (\A d \in Clients : CallSound(d)' /\ Owned(d)') /\ \A p \in Objects : Referred(p)'
    BY <1>14, <2>3
  <2> QED
    BY <1>14, <2>3, <2>4 DEF IInv

<1>15. CASE t # None
  <2>1. /\ t \in Objects /\ t # o /\ kind[t] = "token" /\ kind[o] = "engine" /\ token[t] = None
        /\ \A d \in Clients : ~Private(d, t)
        /\ IsFiniteSet(Holders(t)) /\ IsFiniteSet(Engines(t) \ {o})
        /\ refs[t] \in Nat /\ refs[t] > 0
        /\ refs[t] - 1 = Cardinality(Holders(t)) + Cardinality(Engines(t) \ {o})
        /\ refs[t] = 1 => Holders(t) = {} /\ Engines(t) \ {o} = {}
    BY <1>1, <1>15, <1>17, TokenRef
  <2>2. call[c].op # "token" /\ call[c].tokens = <<>> /\ Listed(c) = {}
    BY <1>2, <2>1 DEF CallSound, Listed
  <2>3. /\ refs' = [refs EXCEPT ![t] = refs[t] - 1]
        /\ IF refs[t] = 1 THEN StartDelete(c, t) ELSE Return(c)
    BY <1>3, <1>15
  <2>4. /\ refs' \in [Objects -> Nat] /\ refs'[t] = refs[t] - 1
        /\ \A p \in Objects \ {t} : refs'[p] = refs[p]
    BY <1>2, <2>1, <2>3 DEF Shape
  <2>5. /\ token'[t] = None /\ kind'[t] = "token" /\ Holders(t)' = Holders(t)
        /\ Engines(t)' = Engines(t) \ {o}
    BY <1>5, <1>6, <1>8, <1>15, <2>1
  <2>6. PICK T \in SUBSET Objects : T = {o, t}
    BY <2>1
  <2>7. \A p \in Objects \ T : ~Private(c, p)
    BY <1>7, <2>2, <2>6
  <2>8. \A p \in T : \A d \in Clients \ {c} : ~Private(d, p)
    BY <1>4, <2>1, <2>6
  <2>9. CASE refs[t] = 1
    <3>1. /\ call' \in [Clients -> Calls] /\ \A d \in Clients \ {c} : call'[d] = call[d]
          /\ call'[c].op = call[c].op /\ call'[c].tokens = <<>> /\ call'[c].obj = t
          /\ call'[c].pc = "delete"
          /\ CallSound(c)' /\ ~Making(c)' /\ Deleting(c)' /\ Listed(c)' = {}
          /\ ~Uncounted(c)'
          /\ \A p \in Objects : Private(c, p)' <=> p = t
      BY <1>2, <1>3, <2>1, <2>2, <2>3, <2>9, Deletes
    <3>2. Owned(c)'
      <4>1. Holders(t)' = {} /\ Engines(t)' = {} /\ refs'[t] = 0 /\ kind'[t] # "free"
        BY <2>1, <2>4, <2>5, <2>9
      <4> QED
        BY <2>2, <3>1, <4>1 DEF Owned, Unheld
    <3>3. Referred(t)'
      BY <2>1, <2>5, <3>1 DEF Referred, Shared
    <3>4. Shape' /\ CountedIn'
      BY <1>11, <1>12, <2>4, <3>1
    <3>5. \A p \in Objects \ T : refs'[p] = refs[p] /\ (Private(c, p)' <=> Private(c, p))
      BY <2>4, <2>6, <2>7, <3>1
    <3>6. \A p \in T : Referred(p)'
      BY <1>13, <2>6, <3>3
    <3> QED
      BY <1>14, <2>6, <2>8, <3>1, <3>2, <3>4, <3>5, <3>6
  <2>10. CASE refs[t] # 1
    <3>1. /\ call' \in [Clients -> Calls] /\ call'[c] = Idle
          /\ \A d \in Clients \ {c} : call'[d] = call[d]
          /\ CallSound(c)' /\ ~Making(c)' /\ ~Deleting(c)' /\ Listed(c)' = {}
          /\ \A p : ~Private(c, p)'
      BY <1>2, <2>3, <2>10, Returned
    <3>2. ~Uncounted(c)' /\ Owned(c)'
      BY <3>1 DEF Uncounted, Owned, Idle
    <3>3. Referred(t)'
      <4>1. /\ IsFiniteSet(Holders(t)') /\ IsFiniteSet(Engines(t)') /\ refs'[t] > 0
            /\ refs'[t] = Cardinality(Holders(t)') + Cardinality(Engines(t)')
        BY <2>1, <2>4, <2>5, <2>10
      <4> QED
        BY <2>5, <4>1 DEF Referred
    <3>4. Shape' /\ CountedIn'
      BY <1>11, <1>12, <2>4, <3>1, <3>2
    <3>5. \A p \in Objects \ T : refs'[p] = refs[p] /\ (Private(c, p)' <=> Private(c, p))
      BY <2>4, <2>6, <2>7, <3>1
    <3>6. \A p \in T : Referred(p)'
      BY <1>13, <2>6, <3>3
    <3> QED
      BY <1>14, <2>6, <2>8, <3>1, <3>2, <3>4, <3>5, <3>6
  <2> QED
    BY <2>9, <2>10
<1>16. CASE t = None
  <2>1. /\ UNCHANGED refs
        /\ IF call[c].op = "token" THEN GoTo(c, "drop") ELSE Return(c)
    BY <1>3, <1>16
  <2>2. refs' \in [Objects -> Nat]
    BY <1>2, <2>1 DEF Shape
  <2>3. PICK T \in SUBSET Objects : T = {o}
    OBVIOUS
  <2>4. /\ \A p \in T : \A d \in Clients \ {c} : ~Private(d, p)
        /\ \A p \in T : Referred(p)'
    BY <1>4, <1>13, <2>3
  <2>5. CASE call[c].op = "token"
    <3>1. Moved(c, "drop", call[c].found, call[c].obj, call[c].tokens)
      <4>1. GoTo(c, "drop") /\ "drop" \in Pcs
        BY <2>1, <2>5 DEF Pcs
      <4> QED
        BY <1>2, <4>1, Moving DEF Calls
    <3>2. /\ call' \in [Clients -> Calls] /\ \A d \in Clients \ {c} : call'[d] = call[d]
          /\ call'[c].pc = "drop" /\ call'[c].op = "token" /\ call'[c].src = call[c].src
          /\ call'[c].tokens = call[c].tokens
          /\ ~Making(c)' /\ ~Deleting(c)' /\ ~Uncounted(c)' /\ Listed(c)' = Listed(c)
      BY <2>5, <3>1 DEF Moved, Making, Deleting, Uncounted, Listed
    <3>3. \A p \in Objects : Private(c, p)' <=> p \in Listed(c)
      BY <3>2 DEF Private, Working
    <3>4. CallSound(c)'
      BY <1>2, <1>3, <2>5, <3>2 DEF CallSound, At
    <3>5. Owned(c)'
      <4>1. \A p \in Listed(c) : p \in Objects \ {o} /\ refs'[p] = 1 /\ kind'[p] = "token"
        <5>1. Listed(c) \subseteq Objects
          BY <1>2 DEF Listed, Calls
        <5> QED
          BY <1>2, <1>4, <1>5, <2>1, <5>1 DEF Owned
      <4>2. \A p \in Objects : Private(c, p)' => kind'[p] # "free" /\ Unheld(p)'
        <5>1. ASSUME NEW p \in Listed(c)
              PROVE  kind'[p] # "free" /\ Unheld(p)'
          <6>1. p \in Objects \ {o} /\ Private(c, p) /\ kind'[p] = "token"
            BY <4>1 DEF Private
          <6>2. Holders(p) = {} /\ Engines(p) = {}
            BY <6>1, OwnFacts
          <6> QED
            BY <1>6, <1>8, <1>16, <6>1, <6>2, ObjectsAssumption DEF Unheld
        <5> QED
          BY <3>3, <5>1
      <4>3. kind'[call[c].src] = "enum"
        <5>1. call[c].src \in Objects /\ kind[call[c].src] = "enum" /\ kind[o] = "token"
          BY <1>2, <2>5 DEF CallSound, Owned, Calls
        <5> QED
          BY <1>5, <5>1
      <4>4. \A i, j \in DOMAIN call'[c].tokens :
               call'[c].tokens[i] = call'[c].tokens[j] => i = j
        BY <1>2, <3>2 DEF Owned
      <4> QED
        BY <3>2, <4>1, <4>2, <4>3, <4>4 DEF Owned
    <3>6. Shape' /\ CountedIn'
      BY <1>11, <1>12, <2>2, <3>2
    <3>7. \A p \in Objects \ T : refs'[p] = refs[p] /\ (Private(c, p)' <=> Private(c, p))
      BY <1>7, <2>1, <2>3, <3>3
    <3> QED
      BY <1>14, <1>16, <2>3, <2>4, <3>2, <3>4, <3>5, <3>6, <3>7
  <2>6. CASE call[c].op # "token"
    <3>1. /\ call' \in [Clients -> Calls] /\ call'[c] = Idle
          /\ \A d \in Clients \ {c} : call'[d] = call[d]
          /\ CallSound(c)' /\ ~Making(c)' /\ ~Deleting(c)' /\ Listed(c)' = {}
          /\ \A p : ~Private(c, p)'
      BY <1>2, <2>1, <2>6, Returned
    <3>2. ~Uncounted(c)' /\ Owned(c)' /\ Listed(c) = {}
      BY <1>2, <2>6, <3>1 DEF Uncounted, Owned, Idle, CallSound, Listed
    <3>3. Shape' /\ CountedIn'
      BY <1>11, <1>12, <2>2, <3>1, <3>2
    <3>4. \A p \in Objects \ T : refs'[p] = refs[p] /\ (Private(c, p)' <=> Private(c, p))
      BY <1>7, <2>1, <2>3, <3>1, <3>2
    <3> QED
      BY <1>14, <1>16, <2>3, <2>4, <3>1, <3>2, <3>3, <3>4
  <2> QED
    BY <2>5, <2>6
<1> QED
  BY <1>15, <1>16

(***************************************************************************)
(* What the calls in token_ rely on, through the steps of all others.      *)
(***************************************************************************)
LEMMA OthersSound ==
    ASSUME IInv, TInv, NEW c \in Clients, \A d \in Clients \ {c} : call'[d] = call[d],
           \A d \in Clients \ {c} : holds'[d] = holds[d] \/ At(d, "idle"),
           \A d \in Clients \ {c} :
              Setting(d) \/ Getting(d) => token'[call[d].src] = token[call[d].src],
           \A p \in Objects : Holders(p) # {} => kind'[p] = kind[p]
    PROVE  \A d \in Clients \ {c} : TokenSound(d)'
<1> SUFFICES ASSUME NEW d \in Clients \ {c} PROVE TokenSound(d)'
  OBVIOUS
<1>1. TokenSound(d) /\ call'[d] = call[d]
  BY DEF TInv
<1>2. CASE ~(Setting(d) \/ Getting(d))
  BY <1>1, <1>2 DEF TokenSound, Setting, Getting, Swapping, At
<1>3. CASE Setting(d) \/ Getting(d)
  <2>1. /\ call[d].src \in Objects /\ call[d].src \in holds[d] /\ call[d].obj \in Objects
    BY <1>1, <1>3, TokenCall
  <2>2. holds'[d] = holds[d] /\ token'[call[d].src] = token[call[d].src]
    BY <1>3 DEF Setting, Getting, At
  <2>3. kind'[call[d].src] = kind[call[d].src]
    BY <2>1 DEF Holders
  <2>4. At(d, "store") => kind'[call[d].obj] = kind[call[d].obj]
    BY <1>1, <2>1 DEF TokenSound, Holders
  <2> QED
    BY <1>1, <2>2, <2>3, <2>4 DEF TokenSound, Setting, Getting, Swapping, At
<1> QED
  BY <1>2, <1>3

(* What one step does to the call that makes it, and to what it holds.     *)
TokenAction(c) ==
    \/ StoreToken(c) \/ AddRefToken(c) \/ AddRefGot(c)
    \/ \E e \in Objects : GetObjectToken(c, e)
    \/ \E e, t \in Objects : SetObjectToken(c, e, t)

LEMMA OneCall ==
    ASSUME Shape, NEW c \in Clients, Step(c) \/ Begins(c)
    PROVE  /\ \A d \in Clients \ {c} : call'[d] = call[d]
           /\ \A d \in Clients \ {c} : holds'[d] = holds[d] \/ At(d, "idle")
           /\ (~Setting(c)' /\ ~Getting(c)') \/ TokenAction(c)
<1>1. call \in [Clients -> Calls] /\ holds \in [Clients -> SUBSET Objects]
  BY DEF Shape
<1> DEFINE Others == \A d \in Clients \ {c} : call'[d] = call[d]
           Outside == ~Setting(c)' /\ ~Getting(c)'
           Holding == \A d \in Clients \ {c} : holds'[d] = holds[d] \/ At(d, "idle")
<1>2. ASSUME NEW s, GoTo(c, s)
      PROVE  /\ Others
             /\ s \notin {"store", "addref", "dropold", "getref", "give"} => Outside
  BY <1>1, <1>2 DEF GoTo, Calls, Setting, Getting
<1>27. Return(c) => Others /\ Outside
  BY <1>1 DEF Return, Setting, Getting, Idle
<1>3. ASSUME NEW o, StartDelete(c, o)
      PROVE  Others /\ Outside
  BY <1>1, <1>3 DEF StartDelete, Calls, Setting, Getting
<1>4. CASE New(c) \/ NewFails(c) \/ Increment(c) \/ QueryFails(c) \/ Delete(c)
  <2>1. New(c) => Others /\ Outside
    BY <1>1 DEF New, Calls, Setting, Getting
  <2>2. \A s \in {"drop", "query", "unref", "destroy"} : GoTo(c, s) => Others /\ Outside
    BY <1>2
  <2>3. ~New(c) => Return(c) \/ \E s \in {"drop", "query", "unref", "destroy"} : GoTo(c, s)
    BY <1>4 DEF NewFails, Increment, QueryFails, Delete
  <2>4. Holding
    BY <1>4 DEF New, NewFails, Increment, QueryFails, Delete
  <2> QED
    BY <1>27, <2>1, <2>2, <2>3, <2>4
<1>5. CASE QueryInterface(c)
  <2>1. PICK s \in {"init", "unref"} : call' = [call EXCEPT ![c].found = TRUE, ![c].pc = s]
    BY <1>5 DEF QueryInterface
  <2>2. Others /\ Outside
    BY <1>1, <2>1 DEF Calls, Setting, Getting
  <2> QED
    BY <1>5, <2>2 DEF QueryInterface
<1>6. CASE InitFromDataKey(c)
  <2>1. GoTo(c, "unref") \/ call' = [call EXCEPT ![c].found = FALSE, ![c].pc = "unref"]
    BY <1>6 DEF InitFromDataKey
  <2>2. GoTo(c, "unref") => Others /\ Outside
    BY <1>2
  <2>3. Others /\ Outside
    BY <1>1, <2>1, <2>2 DEF Calls, Setting, Getting
  <2> QED
    BY <1>6, <2>3 DEF InitFromDataKey
<1>7. CASE Unref(c)
  <2>1. \/ GoTo(c, "delete") \/ Return(c)
        \/ call' = [call EXCEPT ![c].tokens = Append(@, call[c].obj), ![c].pc = "fetch"]
    BY <1>7 DEF Unref
  <2>2. GoTo(c, "delete") => Others /\ Outside
    BY <1>2
  <2>4. call' = [call EXCEPT ![c].tokens = Append(@, call[c].obj), ![c].pc = "fetch"]
          => Others /\ Outside
    BY <1>1 DEF Calls, Setting, Getting
  <2>3. Holding
    BY <1>1, <1>7 DEF Unref
  <2> QED
    BY <1>27, <2>1, <2>2, <2>3, <2>4
<1>8. CASE Destroy(c)
  <2>1. \E o : GoTo(c, "drop") \/ Return(c) \/ StartDelete(c, o)
    BY <1>8 DEF Destroy
  <2>2. GoTo(c, "drop") => Others /\ Outside
    BY <1>2
  <2>3. Others /\ Outside
    BY <1>3, <1>27, <2>1, <2>2
  <2> QED
    BY <1>8, <2>3 DEF Destroy
<1>9. CASE FetchOne(c)
  BY <1>1, <1>9 DEF FetchOne, Calls, Setting, Getting
<1>10. CASE FetchDone(c)
  <2>1. Return(c) /\ Holding
    BY <1>1, <1>10 DEF FetchDone
  <2> QED
    BY <1>27, <2>1
<1>11. CASE Drop(c)
  <2> DEFINE t == Head(call[c].tokens)
             s == IF refs[t] = 1 THEN "delete" ELSE "drop"
  <2>1. /\ call' = [call EXCEPT ![c].tokens = Tail(@), ![c].obj = t, ![c].pc = s]
        /\ s \in {"delete", "drop"}
    BY <1>11 DEF Drop
  <2> HIDE DEF s, t
  <2>2. Others /\ Outside
    BY <1>1, <2>1 DEF Calls, Setting, Getting
  <2> QED
    BY <1>11, <2>2 DEF Drop
<1>12. CASE FetchFails(c)
  BY <1>12, <1>27 DEF FetchFails
<1>13. CASE ReleaseOld(c)
  <2>1. \E o : Return(c) \/ StartDelete(c, o)
    BY <1>13 DEF ReleaseOld, DropOld
  <2> QED
    BY <1>3, <1>13, <1>27, <2>1 DEF ReleaseOld
<1>14. CASE GiveToken(c)
  <2>1. Return(c) /\ Holding
    BY <1>1, <1>14 DEF GiveToken
  <2> QED
    BY <1>27, <2>1
<1>15. CASE StoreToken(c) \/ AddRefToken(c) \/ AddRefGot(c)
  <2>1. (GoTo(c, "addref") \/ GoTo(c, "dropold") \/ GoTo(c, "give")) /\ Holding
    BY <1>1, <1>15 DEF StoreToken, AddRefToken, AddRefGot
  <2> QED
    BY <1>2, <1>15, <2>1 DEF TokenAction
<1>16. ASSUME NEW class, NEW o, Begin(c, class, o)
       PROVE  Others /\ Outside /\ Holding
  BY <1>1, <1>16 DEF Begin, Setting, Getting, Idle
<1>17. ASSUME call' = call, At(c, "idle")
       PROVE  Others /\ Outside
  BY <1>17 DEF At, Setting, Getting
<1>18. CASE DllGetClassObject(c) \/ LockServer(c)
  <2>1. LockServer(c) => Holding /\ call' = call /\ At(c, "idle")
    BY DEF LockServer, Has
  <2> QED
    BY <1>16, <1>17, <1>18, <2>1 DEF DllGetClassObject
<1>19. ASSUME NEW o \in Objects, CreateInstance(c, o) \/ Clone(c, o) \/ OpenKey(c, o)
       PROVE  Others /\ Outside /\ Holding
  BY <1>16, <1>19 DEF CreateInstance, Clone, OpenKey
<1>20. ASSUME NEW o \in Objects, Release(c, o)
       PROVE  Others /\ Outside /\ Holding
  <2>1. Holding /\ At(c, "idle") /\ (call' = call \/ StartDelete(c, o))
    BY <1>1, <1>20 DEF Release
  <2> QED
    BY <1>3, <1>17, <2>1
<1>21. ASSUME NEW o \in Objects, Reset(c, o) \/ \E n \in 1..(Voices + 1) : Skip(c, o, n)
       PROVE  Others /\ Outside /\ Holding
  BY <1>17, <1>21 DEF Reset, Skip, Has
<1>22. ASSUME NEW o \in Objects, Item(c, o) \/ \E n \in 1..(Voices + 1) : FetchNext(c, o, n)
       PROVE  Others /\ Outside /\ Holding
  BY <1>1, <1>22 DEF Item, FetchNext, Setting, Getting, Idle
<1>23. ASSUME NEW o \in Objects, GetObjectToken(c, o) \/ \E t \in Objects : SetObjectToken(c, o, t)
       PROVE  Others /\ Holding /\ TokenAction(c)
  BY <1>1, <1>23 DEF GetObjectToken, SetObjectToken, TokenAction
<1>24. ASSUME NEW o \in Objects, NEW d \in Clients, Share(c, d, o)
       PROVE  Others /\ Outside /\ Holding
  BY <1>1, <1>17, <1>24 DEF Share
<1> HIDE DEF Others, Outside, Holding
<1>25. CASE Begins(c)
  <2>1. (Others /\ Outside /\ Holding) \/ (Others /\ Holding /\ TokenAction(c))
    BY <1>18, <1>19, <1>20, <1>21, <1>22, <1>23, <1>24, <1>25 DEF Begins, Others, Outside, Holding
  <2> QED
    BY <2>1 DEF Others, Outside, Holding
<1>26. CASE Step(c)
  <2>1. (Others /\ Outside /\ Holding) \/ (Others /\ Holding /\ TokenAction(c))
    BY <1>4, <1>5, <1>6, <1>7, <1>8, <1>9, <1>10, <1>11, <1>12, <1>13, <1>14, <1>15, <1>26
       DEF Step, Others, Outside, Holding
  <2> QED
    BY <2>1 DEF Others, Outside, Holding
<1> QED
  BY <1>25, <1>26

(***************************************************************************)
(* The invariant.                                                          *)
(***************************************************************************)
LEMMA KindKept ==
    ASSUME IInv, NEW c \in Clients, Step(c) \/ Begins(c),
           NEW p \in Objects, Holders(p) # {}
    PROVE  kind'[p] = kind[p]
<1>1. Shape /\ CallSound(c) /\ Owned(c) /\ kind[p] # "free"
  BY DEF IInv, Referred, Unheld
<1>2. CASE New(c)
  BY <1>1, <1>2 DEF New, Shape
<1>3. CASE Destroy(c)
  <2>1. Working(c, call[c].obj) /\ call[c].obj \in Objects
    BY <1>1, <1>3 DEF Destroy, At, Working, Deleting, CallSound
  <2>2. call[c].obj # p
    BY <1>1, <2>1 DEF Owned, Private, Unheld
  <2> QED
    BY <1>1, <1>3, <2>2 DEF Destroy, Shape
<1>4. CASE Step(c) /\ ~New(c) /\ ~Destroy(c)
  BY <1>4 DEF Step, NewFails, Increment, QueryInterface, QueryFails, InitFromDataKey, Unref,
     Delete, FetchOne, FetchDone, Drop, FetchFails, StoreToken, AddRefToken, ReleaseOld,
     AddRefGot, GiveToken
<1>5. CASE Begins(c)
  BY <1>5 DEF Begins, DllGetClassObject, LockServer, CreateInstance, Clone, OpenKey, Begin,
     Release, Reset, Item, GetObjectToken, FetchNext, Skip, SetObjectToken, Share
<1> QED
  BY <1>2, <1>3, <1>4, <1>5

LEMMA TokenKept ==
    ASSUME IInv, TInv, ~Overlapping', NEW c \in Clients, Step(c) \/ Begins(c),
           NEW d \in Clients \ {c}, Setting(d) \/ Getting(d)
    PROVE  token'[call[d].src] = token[call[d].src]
<1>1. Shape /\ CallSound(c) /\ Owned(c) /\ call'[d] = call[d]
  BY OneCall DEF IInv
<1>2. call[d].src \in Objects /\ call[d].src \in holds[d]
  BY TokenCall DEF TInv
<1>3. CASE StoreToken(c)
  <2>1. call'[c].pc = "addref" /\ call'[c].src = call[c].src
    BY <1>1, <1>3 DEF StoreToken, GoTo, Shape, Calls
  <2>2. call[c].src # call[d].src
    BY <1>1, <2>1 DEF Overlapping, Setting, Getting
  <2> QED
    BY <1>1, <1>2, <1>3, <2>2 DEF StoreToken, Shape
<1>4. CASE Destroy(c)
  <2>1. Working(c, call[c].obj) /\ call[c].obj \in Objects
    BY <1>1, <1>4 DEF Destroy, At, Working, Deleting, CallSound
  <2>2. call[c].obj # call[d].src
    BY <1>1, <1>2, <2>1 DEF Owned, Private, Unheld, Holders
  <2> QED
    BY <1>1, <1>2, <1>4, <2>2 DEF Destroy, Shape
<1>5. CASE Step(c) /\ ~StoreToken(c) /\ ~Destroy(c)
  BY <1>5 DEF Step, New, NewFails, Increment, QueryInterface, QueryFails, InitFromDataKey,
     Unref, Delete, FetchOne, FetchDone, Drop, FetchFails, AddRefToken, ReleaseOld,
     AddRefGot, GiveToken
<1>6. CASE Begins(c)
  BY <1>6 DEF Begins, DllGetClassObject, LockServer, CreateInstance, Clone, OpenKey, Begin,
     Release, Reset, Item, GetObjectToken, FetchNext, Skip, SetObjectToken, Share
<1> QED
  BY <1>3, <1>4, <1>5, <1>6

(* The call that makes the step.                                           *)
LEMMA OwnSound ==
    ASSUME IInv, TInv, NEW c \in Clients, Step(c) \/ Begins(c)
    PROVE  TokenSound(c)'
<1>1. Shape /\ TokenSound(c) /\ call \in [Clients -> Calls] /\ holds \in [Clients -> SUBSET Objects]
      /\ token \in [Objects -> Objects \cup {None}]
  BY DEF IInv, Shape, TInv
<1>2. CASE ~Setting(c)' /\ ~Getting(c)'
  BY <1>2 DEF TokenSound, Setting, Getting, Swapping, At
<1>3. CASE StoreToken(c)
  <2>1. /\ call'[c] = [call[c] EXCEPT !.pc = "addref"] /\ UNCHANGED holds
        /\ token' = [token EXCEPT ![call[c].src] = call[c].obj]
    BY <1>1, <1>3 DEF StoreToken, GoTo
  <2>2. /\ call'[c].pc = "addref" /\ call'[c].src = call[c].src /\ call'[c].obj = call[c].obj
        /\ call'[c].old = call[c].old /\ call'[c].op = call[c].op
    BY <1>1, <2>1 DEF Calls
  <2> QED
    BY <1>1, <1>3, <2>1, <2>2 DEF StoreToken, TokenSound, Setting, Getting, Swapping, At
<1>4. CASE AddRefToken(c)
  <2>1. call'[c] = [call[c] EXCEPT !.pc = "dropold"] /\ UNCHANGED <<holds, token>>
    BY <1>1, <1>4 DEF AddRefToken, GoTo
  <2>2. /\ call'[c].pc = "dropold" /\ call'[c].src = call[c].src /\ call'[c].obj = call[c].obj
        /\ call'[c].old = call[c].old /\ call'[c].op = call[c].op
    BY <1>1, <2>1 DEF Calls
  <2> QED
    BY <1>1, <1>4, <2>1, <2>2 DEF AddRefToken, TokenSound, Setting, Getting, Swapping, At
<1>5. CASE AddRefGot(c)
  <2>1. /\ call'[c] = [call[c] EXCEPT !.pc = "give"] /\ UNCHANGED token
        /\ holds'[c] = holds[c] \cup {call[c].obj}
    BY <1>1, <1>5 DEF AddRefGot, GoTo
  <2>2. /\ call'[c].pc = "give" /\ call'[c].src = call[c].src /\ call'[c].obj = call[c].obj
        /\ call'[c].old = call[c].old /\ call'[c].op = call[c].op
    BY <1>1, <2>1 DEF Calls
  <2> QED
    BY <1>1, <1>5, <2>1, <2>2 DEF AddRefGot, TokenSound, Setting, Getting, Swapping, At
<1>6. ASSUME NEW e \in Objects, GetObjectToken(c, e)
      PROVE  TokenSound(c)'
  <2>1. /\ call'[c] = [Idle EXCEPT !.pc = "getref", !.src = e, !.obj = token[e]]
        /\ UNCHANGED <<holds, token>> /\ token[e] \in Objects /\ token[e] \notin holds[c]
    BY <1>1, <1>6 DEF GetObjectToken
  <2>2. /\ call'[c].pc = "getref" /\ call'[c].src = e /\ call'[c].obj = token[e]
        /\ call'[c].op = "none"
    BY <2>1 DEF Idle
  <2> QED
    BY <2>1, <2>2 DEF TokenSound, Setting, Getting, Swapping, At
<1>7. ASSUME NEW e \in Objects, NEW t \in Objects, SetObjectToken(c, e, t)
      PROVE  TokenSound(c)'
  <2>1. /\ call'[c] = [Idle EXCEPT !.pc = "store", !.src = e, !.obj = t, !.old = token[e]]
        /\ UNCHANGED <<kind, holds, token>> /\ token[e] # t /\ t \in holds[c]
        /\ kind[e] = "engine" /\ kind[t] = "token"
    BY <1>1, <1>7 DEF SetObjectToken, Has
  <2>2. /\ call'[c].pc = "store" /\ call'[c].src = e /\ call'[c].obj = t
        /\ call'[c].op = "none" /\ call'[c].old = token[e]
    BY <2>1 DEF Idle
  <2> QED
    BY <2>1, <2>2 DEF TokenSound, Setting, Getting, Swapping, At
<1> QED
  BY <1>1, <1>2, <1>3, <1>4, <1>5, <1>6, <1>7, OneCall DEF TokenAction

LEMMA TokensStep ==
    ASSUME IInv, TInv, ~Overlapping', NEW c \in Clients, Step(c) \/ Begins(c)
    PROVE  TInv'
<1>1. /\ \A d \in Clients \ {c} : call'[d] = call[d]
      /\ \A d \in Clients \ {c} : holds'[d] = holds[d] \/ At(d, "idle")
  BY OneCall DEF IInv
<1>2. \A d \in Clients \ {c} :
         Setting(d) \/ Getting(d) => token'[call[d].src] = token[call[d].src]
  BY TokenKept
<1>3. \A p \in Objects : Holders(p) # {} => kind'[p] = kind[p]
  BY KindKept
<1>4. \A d \in Clients \ {c} : TokenSound(d)'
  BY <1>1, <1>2, <1>3, OthersSound
<1>5. TokenSound(c)'
  BY OwnSound
<1> QED
  BY <1>4, <1>5 DEF TInv

(* The calls that go into token_.                                          *)
LEMMA TokenBeginsGood ==
    ASSUME IInv, NEW c \in Clients, NEW e \in Objects,
           GetObjectToken(c, e) \/ \E t \in Objects : SetObjectToken(c, e, t)
    PROVE  IInv'
<1>0. Shape /\ token[e] \in Objects \cup {None} /\ e # None
  BY ObjectsAssumption DEF IInv, Shape
<1>1. ASSUME NEW r \in Calls, r.pc \in {"store", "getref"}, r.op = "none", r.src = e,
             r.found = FALSE, r.tokens = <<>>,
             At(c, "idle"), e \in holds[c], call' = [call EXCEPT ![c] = r],
             UNCHANGED <<kind, refs, count, locks, holds, cursorVars, token>>
      PROVE  IInv'
  BY <1>1, BeginGood
<1>2. CASE GetObjectToken(c, e)
  <2>1. PICK t \in Objects : token[e] = t
    BY <1>0, <1>2 DEF GetObjectToken
  <2> DEFINE r == [Idle EXCEPT !.pc = "getref", !.src = e, !.obj = t]
  <2>2. /\ r \in Calls /\ r.pc = "getref" /\ r.op = "none" /\ r.src = e
        /\ r.found = FALSE /\ r.tokens = <<>>
    BY IdleCall DEF Calls, Pcs, Idle
  <2>3. call' = [call EXCEPT ![c] = r]
    BY <1>2, <2>1 DEF GetObjectToken
  <2> HIDE DEF r
  <2> QED
    BY <1>1, <1>2, <2>2, <2>3 DEF GetObjectToken, Has
<1>3. ASSUME NEW t \in Objects, SetObjectToken(c, e, t)
      PROVE  IInv'
  <2>1. PICK x \in Objects \cup {None} : token[e] = x
    BY <1>0
  <2> DEFINE r == [Idle EXCEPT !.pc = "store", !.src = e, !.obj = t, !.old = x]
  <2>2. /\ r \in Calls /\ r.pc = "store" /\ r.op = "none" /\ r.src = e
        /\ r.found = FALSE /\ r.tokens = <<>>
    BY IdleCall DEF Calls, Pcs, Idle
  <2>3. call' = [call EXCEPT ![c] = r]
    BY <1>3, <2>1 DEF SetObjectToken
  <2> HIDE DEF r
  <2> QED
    BY <1>1, <1>3, <2>2, <2>3 DEF SetObjectToken, Has
<1> QED
  BY <1>2, <1>3

LEMMA InitGood == Init => Inv
<1> SUFFICES ASSUME Init PROVE Inv
  OBVIOUS
<1>1. /\ \A c \in Clients : call[c] = Idle /\ holds[c] = {}
      /\ \A o \in Objects : /\ kind[o] = "free" /\ refs[o] = 0 /\ token[o] = None
                            /\ index[o] = 0 /\ seen[o] = <<>>
  BY DEF Init
<1>2. ASSUME NEW c \in Clients
      PROVE  /\ ~Making(c) /\ ~Deleting(c) /\ Listed(c) = {} /\ \A o : ~Private(c, o)
             /\ CallSound(c) /\ Owned(c)
  <2>1. ~Making(c) /\ ~Deleting(c) /\ Listed(c) = {}
    BY <1>1 DEF Making, Deleting, Listed, Idle
  <2>2. \A o : ~Private(c, o)
    BY <2>1 DEF Private, Working
  <2>3. CallSound(c)
    <3>1. call[c] = Idle
      BY <1>1
    <3>2. /\ call[c].pc = "idle" /\ call[c].op = "none"
          /\ call[c].src = None /\ call[c].tokens = <<>>
      BY <3>1 DEF Idle
    <3> QED
      BY <2>1, <3>1, <3>2 DEF CallSound, At
  <2>4. Owned(c)
    BY <1>1, <2>1, <2>2 DEF Owned, Idle
  <2> QED
    BY <2>1, <2>2, <2>3, <2>4
<1>3. Shape
  <2>1. call \in [Clients -> Calls]
    BY IdleCall DEF Init
  <2>2. seen = [e \in Objects |-> Numbers(0, index[e])]
    BY NumbersOn DEF Init
  <2> QED
    BY <2>1, <2>2, VoicesAssumption DEF Shape, Init
<1>4. \A o \in Objects : Referred(o)
  <2>1. \A o \in Objects : Unheld(o)
    <3>1. ASSUME NEW e \in Objects, NEW o \in Objects, Pointed(e, o)
          PROVE  FALSE
      BY <1>1, <3>1, ObjectsAssumption DEF Pointed, Swapping, Idle
    <3> QED
      BY <1>1, <3>1 DEF Unheld, Holders, Engines
  <2> QED
    BY <1>1, <2>1 DEF Referred, Shared
<1>5. CountedIn
  <2>1. Live = {}
    BY <1>1 DEF Live
  <2> QED
    BY <2>1, FS_EmptySet DEF CountedIn, Init
<1>6. IInv
  BY <1>2, <1>3, <1>4, <1>5 DEF IInv, Exclusive
<1>7. TInv
  <2>1. ASSUME NEW c \in Clients
        PROVE  ~Setting(c) /\ ~Getting(c) /\ ~Swapping(c)
    <3>1. call[c].pc = "idle"
      BY <1>1 DEF Idle
    <3> QED
      BY <3>1 DEF Setting, Getting, Swapping
  <2>2. \A c \in Clients : TokenSound(c)
    BY <2>1 DEF TokenSound, Setting, Getting, At
  <2> QED
    BY <2>1, <2>2 DEF TInv, Overlapping
<1> QED
  BY <1>6, <1>7 DEF Inv, Init

LEMMA StutterGood ==
    ASSUME IInv, UNCHANGED vars
    PROVE  IInv'
<1> SUFFICES ASSUME UNCHANGED <<kind, refs, count, locks, holds, call, index, seen, token>>
             PROVE  IInv'
  BY DEF vars, cursorVars
<1>0. \A o : /\ Holders(o)' = Holders(o) /\ Engines(o)' = Engines(o)
             /\ (Unheld(o)' <=> Unheld(o))
  <2>1. \A e, o : Pointed(e, o)' <=> Pointed(e, o)
    BY DEF Pointed, Swapping
  <2> QED
    BY <2>1 DEF Holders, Engines, Unheld
<1>1. /\ Shape' /\ Exclusive' /\ CountedIn'
  BY DEF IInv, Shape, Exclusive, CountedIn, Live, Private, Working, Making, Deleting, Listed
<1>2. \A c \in Clients : CallSound(c)' /\ Owned(c)'
  BY <1>0 DEF IInv, CallSound, Owned, At, Private, Working, Making, Deleting, Listed
<1>3. \A o \in Objects : Referred(o)'
  <2>2. \A c \in Clients : \A o : Private(c, o)' <=> Private(c, o)
    BY DEF Private, Working, Making, Deleting, Listed
  <2>3. \A o \in Objects : Shared(o)' <=> Shared(o)
    BY <2>2 DEF Shared
  <2> QED
    BY <1>0, <2>3 DEF IInv, Referred
<1> QED
  BY <1>1, <1>2, <1>3 DEF IInv

LEMMA ActionGood ==
    ASSUME IInv, TInv, ~Overlapping', NEW c \in Clients, Step(c) \/ Begins(c)
    PROVE  IInv'
<1>1. CASE New(c) \/ NewFails(c) \/ Increment(c) \/ QueryInterface(c) \/ QueryFails(c)
  BY <1>1, NewGood, QuietCalls, IncrementGood, QueryInterfaceGood, QueryFailsGood
<1>2. CASE InitFromDataKey(c) \/ Unref(c) \/ Delete(c) \/ Destroy(c)
  BY <1>2, InitFromDataKeyGood, UnrefLastGood, UnrefGood, DeleteGood, DestroyGood
<1>3. CASE FetchOne(c) \/ FetchDone(c) \/ Drop(c) \/ FetchFails(c)
  BY <1>3, QuietCalls, FetchDoneGood, DropGood
<1>4. CASE \/ StoreToken(c) \/ AddRefToken(c) \/ ReleaseOld(c) \/ AddRefGot(c)
           \/ GiveToken(c)
  BY <1>4, StoreTokenGood, AddRefTokenGood, ReleaseOldGood, AddRefGotGood, GiveTokenGood
<1>5. CASE Begins(c)
  <2>1. CASE DllGetClassObject(c) \/ LockServer(c)
    BY <2>1, BeginsGood, LockServerGood
  <2>2. ASSUME NEW o \in Objects, CreateInstance(c, o) \/ Clone(c, o) \/ OpenKey(c, o) \/ Item(c, o)
        PROVE  IInv'
    BY <2>2, BeginsGood
  <2>3. ASSUME NEW o \in Objects, NEW n \in 1..(Voices + 1), FetchNext(c, o, n)
        PROVE  IInv'
    BY <2>3, BeginsGood
  <2>4. ASSUME NEW o \in Objects, Release(c, o) PROVE IInv'
    BY <2>4, ReleaseGood
  <2>5. ASSUME NEW o \in Objects, NEW d \in Clients, Share(c, d, o) PROVE IInv'
    BY <2>5, ShareGood
  <2>6. ASSUME NEW o \in Objects, Reset(c, o) \/ \E n \in 1..(Voices + 1) : Skip(c, o, n)
        PROVE  IInv'
    BY <2>6, CursorGood
  <2>7. ASSUME NEW o \in Objects, GetObjectToken(c, o) \/ \E t \in Objects : SetObjectToken(c, o, t)
        PROVE  IInv'
    BY <2>7, TokenBeginsGood
  <2> QED
    BY <1>5, <2>1, <2>2, <2>3, <2>4, <2>5, <2>6, <2>7 DEF Begins
<1> QED
  BY <1>1, <1>2, <1>3, <1>4, <1>5 DEF Step

LEMMA StepGood == Inv /\ [Next]_vars => Inv'
<1> SUFFICES ASSUME Inv, [Next]_vars PROVE Inv'
  OBVIOUS
<1>1. CASE UNCHANGED vars
  <2>1. UNCHANGED overlapped /\ UNCHANGED <<kind, holds, call, token>>
    BY <1>1 DEF vars
  <2>2. TInv' <=> TInv
    BY <2>1 DEF TInv, Overlapping, TokenSound, Setting, Getting, Swapping, At
  <2> QED
    BY <1>1, <2>1, <2>2, StutterGood DEF Inv
<1>2. ASSUME NEW c \in Clients, Step(c) \/ Begins(c), Overlap
      PROVE  Inv'
  <2>1. overlapped' \in BOOLEAN
    BY <1>2 DEF Overlap, Inv
  <2>2. ASSUME ~overlapped'
        PROVE  IInv' /\ TInv'
    <3>1. ~overlapped /\ ~Overlapping'
      BY <1>2, <2>2 DEF Overlap
    <3>2. IInv /\ TInv
      BY <3>1 DEF Inv
    <3>3. IInv'
      BY <1>2, <3>1, <3>2, ActionGood
    <3>4. TInv'
      BY <1>2, <3>1, <3>2, TokensStep
    <3> QED
      BY <3>3, <3>4
  <2> QED
    BY <2>1, <2>2 DEF Inv
<1> QED
  BY <1>1, <1>2 DEF Next

LEMMA Invariance == Spec => []Inv
  BY InitGood, StepGood, PTL DEF Spec

(***************************************************************************)
(* The theorems.                                                           *)
(***************************************************************************)
(* Every variable of the server has its type: no count of references, and  *)
(* not that of objects and locks, ever falls below zero (IUnknownImpl's    *)
(* Release, ~object_counter, LockServer), and no cursor passes the last    *)
(* voice (IEnumSpObjectTokensImpl), while no two threads have been in      *)
(* token_ of one engine at once, one to replace it (ISpTTSEngineImpl).     *)
THEOREM TypeCorrect == Spec => []TypeOK
<1>1. Inv => TypeOK
  <2> SUFFICES ASSUME Inv, ~overlapped PROVE TypeOK
    BY DEF Inv, TypeOK
  <2>0. overlapped \in BOOLEAN /\ IInv
    BY DEF Inv
  <2>1. count \in Nat
    BY <2>0, Counts DEF IInv, CountedIn
  <2>2. call \in [Clients ->
                   [pc : {"idle", "new", "count", "query", "init", "unref", "delete",
                          "destroy", "fetch", "drop", "store", "addref", "dropold",
                          "getref", "give"},
                    op : Classes \cup {"none"},
                    obj : Objects \cup {None}, src : Objects \cup {None},
                    found : BOOLEAN, tokens : Seq(Objects), celt : 0..(Voices + 1),
                    old : Objects \cup {None}]]
    BY <2>0 DEF IInv, Shape, Calls, Pcs
  <2>3. seen \in [Objects -> Seq(1..Voices)]
    <3>1. ASSUME NEW e \in Objects
          PROVE  seen[e] \in Seq(1..Voices)
      <4>1. index[e] \in 0..Voices /\ seen[e] = Numbers(0, index[e])
        BY <2>0 DEF IInv, Shape
      <4>2. seen[e] = [k \in 1..index[e] |-> k]
        BY <4>1 DEF Numbers
      <4> QED
        BY <4>1, <4>2, VoicesAssumption
    <3>2. seen = [e \in Objects |-> Numbers(0, index[e])]
      BY <2>0 DEF IInv, Shape
    <3> QED
      BY <3>1, <3>2
  <2> QED
    BY <2>0, <2>1, <2>2, <2>3 DEF TypeOK, IInv, Shape
<1> QED
  BY <1>1, Invariance, PTL

(* Whatever the order in which threads and engines take and give back      *)
(* references, and whatever other steps come between those of              *)
(* SetObjectToken and GetObjectToken, nobody is left with a pointer to an  *)
(* object that is deleted (IUnknownImpl's AddRef and Release, token_ of    *)
(* ISpTTSEngineImpl), as long as no two threads have been in token_ of one *)
(* engine at once, one of them to replace it.                              *)
THEOREM ReferencesLive == Spec => []HeldAlive
<1>1. Inv => HeldAlive
  <2> SUFFICES ASSUME Inv, ~overlapped, NEW o \in Objects, Referenced(o)
               PROVE  kind[o] # "free" /\ ~Dying(o)
    BY DEF HeldAlive, NeverDangling
  <2>0. IInv /\ TInv /\ ~Overlapping /\ \A c \in Clients : TokenSound(c)
    BY DEF Inv, TInv
  <2>1. CASE Holders(o) # {} \/ Engines(o) # {}
    <3>1. Shared(o) /\ \A d \in Clients : ~Private(d, o)
      BY <2>0, <2>1, HeldShared
    <3> QED
      BY <3>1 DEF Shared, Dying, Private, Working, Deleting
  <2>2. ASSUME NEW c \in Clients, o \in Listed(c)
        PROVE  kind[o] # "free" /\ ~Dying(o)
    <3>1. Private(c, o)
      BY <2>2 DEF Private
    <3>2. /\ kind[o] # "free" /\ \A d \in Clients \ {c} : ~Private(d, o)
          /\ ~Working(c, o)
      BY <2>0, <2>2, <3>1, OwnFacts
    <3> QED
      BY <3>2 DEF Dying, Private, Working, Deleting
  <2>3. ASSUME NEW e \in Objects, token[e] = o
        PROVE  Holders(o) # {} \/ Engines(o) # {}
    BY <2>0, <2>3, TokenTaken
  <2>4. ASSUME NEW c \in Clients, At(c, "getref"), call[c].obj = o
        PROVE  Holders(o) # {} \/ Engines(o) # {}
    <3>1. TokenSound(c) /\ Getting(c)
      BY <2>0, <2>4 DEF At, Getting
    <3>2. call[c].src \in Objects /\ token[call[c].src] = o
      BY <2>4, <3>1 DEF TokenSound
    <3> QED
      BY <2>3, <3>2
  <2>5. ASSUME NEW c \in Clients, call[c].pc \in {"addref", "dropold"}, call[c].old = o
        PROVE  Engines(o) # {}
    <3>1. TokenSound(c) /\ Setting(c) /\ Swapping(c)
      BY <2>0, <2>5 DEF Setting, Swapping
    <3>2. call[c].src \in Objects
      BY <3>1 DEF TokenSound
    <3>3. Pointed(call[c].src, o)
      BY <2>5, <3>1 DEF Pointed
    <3> QED
      BY <3>2, <3>3 DEF Engines
  <2> QED
    BY <2>1, <2>2, <2>3, <2>4, <2>5 DEF Referenced, Holders, Listed
<1> QED
  BY <1>1, Invariance, PTL

(* A held object is counted, and so is a lock: DllCanUnloadNow answers yes *)
(* only when no thread has a reference or a lock, as long as no two        *)
(* threads have met in token_ of one engine.  A thread with neither may be *)
(* in the library all the same, on its way in or out.                      *)
THEOREM UnloadIsSafe == Spec => []ModuleNeeded
<1>1. Inv => ModuleNeeded
  <2> SUFFICES ASSUME Inv, ~overlapped, count = 0, NEW c \in Clients
               PROVE  holds[c] = {} /\ c \notin locks
    BY DEF ModuleNeeded, DllCanUnloadNow
  <2>0. IInv
    BY DEF Inv
  <2>1. Live = {} /\ locks = {}
    <3>1. /\ IsFiniteSet(Live) /\ IsFiniteSet(locks)
          /\ Cardinality(Live) + Cardinality(locks) = 0
      BY <2>0 DEF IInv, CountedIn
    <3>2. /\ Cardinality(Live) \in Nat /\ (Cardinality(Live) = 0 <=> Live = {})
          /\ Cardinality(locks) \in Nat /\ (Cardinality(locks) = 0 <=> locks = {})
      BY <3>1, Counts
    <3>3. Cardinality(Live) = 0 /\ Cardinality(locks) = 0
      BY <3>1, <3>2
    <3> QED
      BY <3>2, <3>3
  <2>2. holds[c] = {}
    <3> SUFFICES ASSUME NEW o \in holds[c] PROVE FALSE
      OBVIOUS
    <3>1. o \in Objects /\ Holders(o) # {}
      BY <2>0 DEF IInv, Shape, Holders
    <3>2. Shared(o) /\ \A d \in Clients : ~Private(d, o)
      BY <2>0, <3>1, HeldShared
    <3>3. o \in Live
      BY <3>1, <3>2 DEF Live, Shared, Private, Working, Making, Deleting
    <3> QED
      BY <2>1, <3>3
  <2> QED
    BY <2>1, <2>2
<1> QED
  BY <1>1, Invariance, PTL

(* Once every call has returned and everything is given back, no object is *)
(* left, and the library can be unloaded: whatever memory there was none   *)
(* for (the object, its cursor, its voices or its attributes), whichever   *)
(* interface or token there was not, as long as no two threads have been   *)
(* in token_ of one engine at once, one of them to replace it.             *)
THEOREM AllGivenBack == Spec => []NothingLeaks
<1>1. Inv => NothingLeaks
  <2> SUFFICES ASSUME Inv, ~overlapped,
                      \A c \in Clients : call[c] = Idle /\ holds[c] = {} /\ c \notin locks
               PROVE  count = 0 /\ \A o \in Objects : kind[o] = "free"
    BY DEF NothingLeaks, DllCanUnloadNow
  <2>0. IInv /\ \A c \in Clients : ~Swapping(c) /\ \A e \in Objects : call[c].src # e
    BY ObjectsAssumption DEF Inv, Swapping, Idle
  <2>1. \A c \in Clients : \A o : ~Private(c, o)
    BY DEF Private, Working, Making, Deleting, Listed, Idle
  <2>2. \A o \in Objects : Holders(o) = {}
    BY DEF Holders
  <2>3. ASSUME NEW o \in Objects, kind[o] # "free"
        PROVE  Engines(o) # {}
    <3>1. Shared(o)
      BY <2>1, <2>3 DEF Shared
    <3>2. /\ IsFiniteSet(Engines(o)) /\ refs[o] > 0
          /\ refs[o] = Cardinality(Holders(o)) + Cardinality(Engines(o))
      BY <2>0, <3>1 DEF IInv, Referred
    <3>3. Cardinality(Holders(o)) = 0
      BY <2>2, FS_EmptySet
    <3> SUFFICES ASSUME Engines(o) = {} PROVE FALSE
      OBVIOUS
    <3>4. Cardinality(Engines(o)) = 0
      BY FS_EmptySet
    <3> QED
      BY <3>2, <3>3, <3>4
  <2>4. \A o \in Objects : kind[o] = "free"
    <3> SUFFICES ASSUME NEW o \in Objects, kind[o] # "free" PROVE FALSE
      OBVIOUS
    <3>1. PICK e \in Objects : token[e] = o
      BY <2>0, <2>3 DEF Engines, Pointed
    <3>2. kind[e] = "engine"
      BY <2>0, <3>1, ObjectsAssumption DEF IInv, Referred
    <3>3. PICK d \in Objects : token[d] = e
      BY <2>0, <2>3, <3>2 DEF Engines, Pointed
    <3>4. kind[e] = "token"
      BY <2>0, <3>3, ObjectsAssumption DEF IInv, Referred
    <3> QED
      BY <3>2, <3>4
  <2>5. Live = {} /\ locks = {}
    BY <2>0, <2>4 DEF Live, IInv, Shape
  <2> QED
    BY <2>0, <2>4, <2>5, FS_EmptySet DEF IInv, CountedIn
<1> QED
  BY <1>1, Invariance, PTL

(* An enumerator hands out or skips each voice once and in order, through  *)
(* Next, Skip, Reset and Clone, and through calls of Next that fail.       *)
THEOREM VoicesInOrder == Spec => []EveryVoiceOnce
<1>1. Inv => EveryVoiceOnce
  <2> SUFFICES ASSUME Inv, ~overlapped PROVE EveryVoiceOnce
    BY DEF EveryVoiceOnce
  <2>1. Shape
    BY DEF Inv, IInv
  <2> QED
    BY <2>1, VoicesAssumption DEF Shape, EveryVoiceOnce
<1> QED
  BY <1>1, Invariance, PTL

(***************************************************************************)
(* The registry, with the installer that changes it.                       *)
(***************************************************************************)
(* What a call has yet to do only adds or only removes.  In a registration *)
(* every entry of a class is there, or will be, before the enumerator's;   *)
(* in an unregistration the classes go when the enumerator's entry has, or *)
(* has been given up.                                                      *)
Adding(s) == \A i \in 1..Len(s) : s[i].removes = {} /\ ~s[i].tried
Removing(s) ==
    \A i \in 1..Len(s) :
       s[i].adds = {} /\ (s[i].tried => Installer!Enumerator \in s[i].removes)

ClassesBefore(s, there) ==
    \A i \in 1..Len(s) :
       Installer!Enumerator \in s[i].adds =>
          \A k \in Installer!Classes : \A x \in Installer!ClassEntries(k) :
             x \in there \/ \E j \in 1..Len(s) : j < i /\ x \in s[j].adds
ListBefore(s, gone) ==
    \A i \in 1..Len(s) :
       Installer!Enumerator \notin s[i].removes =>
          gone \/ \E j \in 1..Len(s) : j < i /\ Installer!Enumerator \in s[j].removes

Delisted == Installer!Enumerator \in entries => leftBehind
InTurn ==
    /\ todo \in Seq(Installer!Steps) /\ leftBehind \in BOOLEAN
    /\ \/ Adding(todo) /\ ClassesBefore(todo, entries)
       \/ Removing(todo) /\ ListBefore(todo, Delisted)
    /\ ListedUsable

(* What single steps add and remove.                                       *)
LEMMA Entries ==
    /\ \A e : Installer!Adds(e) = [adds |-> {e}, removes |-> {}, tried |-> FALSE]
    /\ \A s : Installer!Removes(s) = [adds |-> {}, removes |-> s, tried |-> FALSE]
    /\ \A k \in Installer!Classes :
          /\ \A x : x \in Installer!ClassEntries(k) <=>
                x \in {<<k, "key">>, <<k, "InProcServer32">>, <<k, "path">>, <<k, "ThreadingModel">>}
          /\ \A x \in Installer!ClassEntries(k) : Installer!Adds(x) \in Installer!Steps
          /\ Installer!Removes(Installer!ServerEntries(k)) \in Installer!Steps
          /\ Installer!Removes({<<k, "key">>}) \in Installer!Steps
          /\ Installer!Enumerator \notin Installer!ClassEntries(k)
    /\ \A x \in Installer!ListEntries : Installer!Adds(x) \in Installer!Steps
    /\ Installer!Enumerator \in Installer!ListEntries
<1>1. \A e : Installer!Adds(e) = [adds |-> {e}, removes |-> {}, tried |-> FALSE]
  BY DEF Installer!Adds
<1>2. \A s : Installer!Removes(s) = [adds |-> {}, removes |-> s, tried |-> FALSE]
  BY DEF Installer!Removes
<1>3. ASSUME NEW k \in Installer!Classes
      PROVE  \A x : x \in Installer!ClassEntries(k) <=>
                x \in {<<k, "key">>, <<k, "InProcServer32">>, <<k, "path">>, <<k, "ThreadingModel">>}
  BY DEF Installer!ClassEntries, Installer!ServerEntries
<1>4. ASSUME NEW x \in Installer!AllEntries
      PROVE  Installer!Adds(x) \in Installer!Steps
  BY <1>1 DEF Installer!Steps
<1>5. /\ \A k \in Installer!Classes : Installer!ClassEntries(k) \subseteq Installer!AllEntries
      /\ Installer!ListEntries \subseteq Installer!AllEntries
  BY DEF Installer!AllEntries
<1>6. ASSUME NEW k \in Installer!Classes
      PROVE  /\ Installer!Removes(Installer!ServerEntries(k)) \in Installer!Steps
             /\ Installer!Removes({<<k, "key">>}) \in Installer!Steps
  BY <1>2 DEF Installer!Steps
<1>7. ASSUME NEW k \in Installer!Classes
      PROVE  Installer!Enumerator \notin Installer!ClassEntries(k)
  BY DEF Installer!ClassEntries, Installer!ServerEntries, Installer!Enumerator, Installer!Classes
<1>8. Installer!Enumerator \in Installer!ListEntries
  BY DEF Installer!Enumerator, Installer!ListEntries
<1> QED
  BY <1>1, <1>2, <1>3, <1>4, <1>6, <1>7, <1>8, <1>5

LEMMA Joined ==
    ASSUME NEW S, NEW s \in Seq(S), NEW t \in Seq(S), NEW st, st = s \o t
    PROVE  /\ st \in Seq(S) /\ Len(st) = Len(s) + Len(t)
           /\ \A i \in 1..(Len(s) + Len(t)) :
                 st[i] = IF i <= Len(s) THEN s[i] ELSE t[i - Len(s)]
  BY ConcatProperties

LEMMA ClassSteps ==
    ASSUME NEW k \in Installer!Classes
    PROVE  /\ Installer!RegisterClass(k) \in Seq(Installer!Steps)
           /\ Len(Installer!RegisterClass(k)) = 4
           /\ Installer!RegisterClass(k)[1] = Installer!Adds(<<k, "key">>)
           /\ Installer!RegisterClass(k)[2] = Installer!Adds(<<k, "InProcServer32">>)
           /\ Installer!RegisterClass(k)[3] = Installer!Adds(<<k, "path">>)
           /\ Installer!RegisterClass(k)[4] = Installer!Adds(<<k, "ThreadingModel">>)
<1>1. /\ Installer!Adds(<<k, "key">>) \in Installer!Steps
      /\ Installer!Adds(<<k, "InProcServer32">>) \in Installer!Steps
      /\ Installer!Adds(<<k, "path">>) \in Installer!Steps
      /\ Installer!Adds(<<k, "ThreadingModel">>) \in Installer!Steps
  BY Entries
<1> QED
  BY <1>1 DEF Installer!RegisterClass

(* A registration adds both classes, then the enumerator's entries.        *)
LEMMA RegistrationInTurn ==
    LET p == Installer!Registration
    IN  /\ p \in Seq(Installer!Steps) /\ Adding(p)
        /\ \A there : ClassesBefore(p, there)
<1>1. PICK a : a = Installer!RegisterClass("IEnumSpObjectTokensImpl")
  OBVIOUS
<1>2. PICK b : b = Installer!RegisterClass("ISpTTSEngineImpl")
  OBVIOUS
<1>3. PICK l : l = Installer!RegisterTokenEnumerator
  OBVIOUS
<1>4. PICK p : p = Installer!Registration
  OBVIOUS
<1>5. /\ "IEnumSpObjectTokensImpl" \in Installer!Classes
      /\ "ISpTTSEngineImpl" \in Installer!Classes
      /\ Installer!Classes = {"IEnumSpObjectTokensImpl", "ISpTTSEngineImpl"}
  BY DEF Installer!Classes
<1>6. a \in Seq(Installer!Steps) /\ b \in Seq(Installer!Steps)
  BY <1>1, <1>2, <1>5, ClassSteps
<1>7. Len(a) = 4 /\ Len(b) = 4
  BY <1>1, <1>2, <1>5, ClassSteps
<1>8. l \in Seq(Installer!Steps)
  BY <1>3, Entries DEF Installer!RegisterTokenEnumerator, Installer!ListEntries
<1>9. /\ Len(l) = 3
      /\ l[1] = Installer!Adds(<<"TokenEnums", "key">>)
      /\ l[2] = Installer!Adds(<<"TokenEnums", "name">>)
      /\ l[3] = Installer!Adds(Installer!Enumerator)
  <2>1. /\ Installer!Adds(<<"TokenEnums", "key">>) \in Installer!Steps
        /\ Installer!Adds(<<"TokenEnums", "name">>) \in Installer!Steps
        /\ Installer!Adds(Installer!Enumerator) \in Installer!Steps
    BY Entries DEF Installer!ListEntries
  <2> QED
    BY <1>3, <2>1 DEF Installer!RegisterTokenEnumerator
<1>10. PICK ab : ab = a \o b
  OBVIOUS
<1>11. /\ ab \in Seq(Installer!Steps) /\ Len(ab) = Len(a) + Len(b)
       /\ \A i \in 1..(Len(a) + Len(b)) :
             ab[i] = IF i <= Len(a) THEN a[i] ELSE b[i - Len(a)]
  BY <1>6, <1>10, Joined
<1>12. /\ Len(ab) = 8
       /\ ab[1] = a[1] /\ ab[2] = a[2] /\ ab[3] = a[3] /\ ab[4] = a[4]
       /\ ab[5] = b[1] /\ ab[6] = b[2] /\ ab[7] = b[3] /\ ab[8] = b[4]
  BY <1>7, <1>11
<1>13. p = ab \o l
  BY <1>1, <1>2, <1>3, <1>4, <1>10 DEF Installer!Registration
<1>14. /\ p \in Seq(Installer!Steps) /\ Len(p) = Len(ab) + Len(l)
       /\ \A i \in 1..(Len(ab) + Len(l)) :
             p[i] = IF i <= Len(ab) THEN ab[i] ELSE l[i - Len(ab)]
  <2>1. ab \in Seq(Installer!Steps)
    BY <1>11
  <2> QED
    BY <1>8, <1>13, <2>1, Joined
<1>15. /\ Len(p) = 11
       /\ p[1] = a[1] /\ p[2] = a[2] /\ p[3] = a[3] /\ p[4] = a[4]
       /\ p[5] = b[1] /\ p[6] = b[2] /\ p[7] = b[3] /\ p[8] = b[4]
       /\ p[9] = l[1] /\ p[10] = l[2] /\ p[11] = l[3]
  BY <1>9, <1>12, <1>14
<1>16. /\ p[1] = Installer!Adds(<<"IEnumSpObjectTokensImpl", "key">>)
       /\ p[2] = Installer!Adds(<<"IEnumSpObjectTokensImpl", "InProcServer32">>)
       /\ p[3] = Installer!Adds(<<"IEnumSpObjectTokensImpl", "path">>)
       /\ p[4] = Installer!Adds(<<"IEnumSpObjectTokensImpl", "ThreadingModel">>)
  BY <1>1, <1>5, <1>15, ClassSteps
<1>17. /\ p[5] = Installer!Adds(<<"ISpTTSEngineImpl", "key">>)
       /\ p[6] = Installer!Adds(<<"ISpTTSEngineImpl", "InProcServer32">>)
       /\ p[7] = Installer!Adds(<<"ISpTTSEngineImpl", "path">>)
       /\ p[8] = Installer!Adds(<<"ISpTTSEngineImpl", "ThreadingModel">>)
  BY <1>2, <1>5, <1>15, ClassSteps
<1>18. /\ p[9] = Installer!Adds(<<"TokenEnums", "key">>)
       /\ p[10] = Installer!Adds(<<"TokenEnums", "name">>)
       /\ p[11] = Installer!Adds(Installer!Enumerator)
  BY <1>9, <1>15
<1>19. \A i \in 1..11 : \E x : p[i] = Installer!Adds(x)
  <2>1. \A i \in 1..11 : \/ i = 1 \/ i = 2 \/ i = 3 \/ i = 4 \/ i = 5 \/ i = 6
                        \/ i = 7 \/ i = 8 \/ i = 9 \/ i = 10 \/ i = 11
    OBVIOUS
  <2> QED
    BY <1>16, <1>17, <1>18, <2>1
<1>20. Adding(p)
  BY <1>15, <1>19, Entries DEF Adding
<1>21. \A k \in Installer!Classes : \A x \in Installer!ClassEntries(k) :
          \E j \in 1..8 : p[j] = Installer!Adds(x)
  <2>1. ASSUME NEW x \in Installer!ClassEntries("IEnumSpObjectTokensImpl")
        PROVE  \E j \in 1..8 : p[j] = Installer!Adds(x)
    <3>1. x \in {<<"IEnumSpObjectTokensImpl", "key">>, <<"IEnumSpObjectTokensImpl", "InProcServer32">>,
                 <<"IEnumSpObjectTokensImpl", "path">>, <<"IEnumSpObjectTokensImpl", "ThreadingModel">>}
      BY <1>5, Entries
    <3>2. Installer!Adds(x) \in {p[1], p[2], p[3], p[4]}
      BY <1>16, <3>1
    <3> QED
      BY <3>2
  <2>2. ASSUME NEW x \in Installer!ClassEntries("ISpTTSEngineImpl")
        PROVE  \E j \in 1..8 : p[j] = Installer!Adds(x)
    <3>1. x \in {<<"ISpTTSEngineImpl", "key">>, <<"ISpTTSEngineImpl", "InProcServer32">>,
                 <<"ISpTTSEngineImpl", "path">>, <<"ISpTTSEngineImpl", "ThreadingModel">>}
      BY <1>5, Entries
    <3>2. Installer!Adds(x) \in {p[5], p[6], p[7], p[8]}
      BY <1>17, <3>1
    <3> QED
      BY <3>2
  <2> QED
    BY <1>5, <2>1, <2>2
<1>22. ASSUME NEW there PROVE ClassesBefore(p, there)
  <2>1. \A i \in 1..8 : Installer!Enumerator \notin p[i].adds
    BY <1>5, <1>16, <1>17, Entries DEF Installer!Enumerator
  <2>2. \A k \in Installer!Classes : \A x \in Installer!ClassEntries(k) :
           \E j \in 1..8 : x \in p[j].adds
    BY <1>21, Entries
  <2>3. \A i \in 1..11 : i \notin 1..8 => \A j \in 1..8 : j < i /\ j \in 1..11
    OBVIOUS
  <2> QED
    BY <1>15, <2>1, <2>2, <2>3 DEF ClassesBefore
<1> QED
  BY <1>4, <1>14, <1>20, <1>22

(* An unregistration removes the enumerator's entries first.               *)
LEMMA UnregistrationInTurn ==
    LET p == Installer!Unregistration
    IN  /\ p \in Seq(Installer!Steps) /\ Removing(p)
        /\ \A gone : ListBefore(p, gone)
<1>1. PICK l : l = Installer!UnregisterTokenEnumerator
  OBVIOUS
<1>2. PICK a : a = Installer!UnregisterClass("IEnumSpObjectTokensImpl")
  OBVIOUS
<1>3. PICK b : b = Installer!UnregisterClass("ISpTTSEngineImpl")
  OBVIOUS
<1>4. PICK p : p = Installer!Unregistration
  OBVIOUS
<1>5. /\ l \in Seq(Installer!Steps)
      /\ Len(l) = 1 /\ l[1].adds = {} /\ l[1].removes = Installer!ListEntries
  <2>1. PICK r : r = [Installer!Removes(Installer!ListEntries) EXCEPT !.tried = TRUE]
    OBVIOUS
  <2>2. r = [adds |-> {}, removes |-> Installer!ListEntries, tried |-> TRUE]
    BY <2>1 DEF Installer!Removes
  <2>3. r \in Installer!Steps
    BY <2>2 DEF Installer!Steps
  <2>4. l = <<r>>
    BY <1>1, <2>1 DEF Installer!UnregisterTokenEnumerator
  <2> QED
    BY <2>2, <2>3, <2>4
<1>6. ASSUME NEW k \in Installer!Classes, NEW s, s = Installer!UnregisterClass(k)
      PROVE  /\ s \in Seq(Installer!Steps) /\ Len(s) = 2
             /\ \A i \in 1..2 : s[i].adds = {} /\ ~s[i].tried
  <2>1. PICK r \in Installer!Steps :
           r = Installer!Removes(Installer!ServerEntries(k)) /\ r.adds = {} /\ ~r.tried
    BY Entries
  <2>2. PICK q \in Installer!Steps :
           q = Installer!Removes({<<k, "key">>}) /\ q.adds = {} /\ ~q.tried
    BY Entries
  <2>3. s = <<r, q>>
    BY <1>6, <2>1, <2>2 DEF Installer!UnregisterClass
  <2> QED
    BY <2>1, <2>2, <2>3
<1>7. l \in Seq(Installer!Steps) /\ a \in Seq(Installer!Steps) /\ b \in Seq(Installer!Steps)
  BY <1>2, <1>3, <1>5, <1>6 DEF Installer!Classes
<1>8. /\ Len(a) = 2 /\ \A i \in 1..2 : a[i].adds = {} /\ ~a[i].tried
      /\ Len(b) = 2 /\ \A i \in 1..2 : b[i].adds = {} /\ ~b[i].tried
  BY <1>2, <1>3, <1>6 DEF Installer!Classes
<1>9. PICK la : la = l \o a
  OBVIOUS
<1>10. /\ la \in Seq(Installer!Steps) /\ Len(la) = Len(l) + Len(a)
       /\ \A i \in 1..(Len(l) + Len(a)) :
             la[i] = IF i <= Len(l) THEN l[i] ELSE a[i - Len(l)]
  BY <1>7, <1>9, Joined
<1>11. Len(la) = 3 /\ la[1] = l[1] /\ la[2] = a[1] /\ la[3] = a[2]
  BY <1>5, <1>8, <1>10
<1>12. p = la \o b
  BY <1>1, <1>2, <1>3, <1>4, <1>9 DEF Installer!Unregistration
<1>13. /\ p \in Seq(Installer!Steps) /\ Len(p) = Len(la) + Len(b)
       /\ \A i \in 1..(Len(la) + Len(b)) :
             p[i] = IF i <= Len(la) THEN la[i] ELSE b[i - Len(la)]
  <2>1. la \in Seq(Installer!Steps)
    BY <1>10
  <2> QED
    BY <1>7, <1>12, <2>1, Joined
<1>14. /\ Len(p) = 5 /\ p[1] = l[1] /\ p[2] = a[1] /\ p[3] = a[2]
       /\ p[4] = b[1] /\ p[5] = b[2]
  BY <1>8, <1>11, <1>13
<1>15. p[1].adds = {} /\ p[1].removes = Installer!ListEntries
  BY <1>5, <1>14
<1>16. \A i \in 2..5 : p[i].adds = {} /\ ~p[i].tried
  <2>1. \A i \in 2..5 : i = 2 \/ i = 3 \/ i = 4 \/ i = 5
    OBVIOUS
  <2> QED
    BY <1>8, <1>14, <2>1
<1>17. Removing(p)
  BY <1>14, <1>15, <1>16, Entries DEF Removing
<1>18. ASSUME NEW gone PROVE ListBefore(p, gone)
  BY <1>14, <1>15, Entries DEF ListBefore
<1> QED
  BY <1>4, <1>13, <1>17, <1>18

LEMMA InTurnStep == InTurn /\ Installer!Next => InTurn'
<1> SUFFICES ASSUME InTurn, Installer!Next PROVE InTurn'
  OBVIOUS
<1>0. /\ todo \in Seq(Installer!Steps) /\ leftBehind \in BOOLEAN /\ ListedUsable
      /\ \/ Adding(todo) /\ ClassesBefore(todo, entries)
         \/ Removing(todo) /\ ListBefore(todo, Delisted)
  BY DEF InTurn
<1>1. CASE Installer!DllRegisterServer
  <2>1. todo' = Installer!Registration /\ entries' = entries /\ leftBehind' = leftBehind
    BY <1>1 DEF Installer!DllRegisterServer
  <2>2. todo' \in Seq(Installer!Steps) /\ Adding(todo') /\ ClassesBefore(todo', entries')
    BY <2>1, RegistrationInTurn
  <2>3. ListedUsable'
    BY <1>0, <2>1 DEF ListedUsable, Installer!ListedUsable, Installer!Registered
  <2> QED
    BY <1>0, <2>1, <2>2, <2>3 DEF InTurn
<1>2. CASE Installer!DllUnregisterServer
  <2>1. todo' = Installer!Unregistration /\ entries' = entries /\ leftBehind' = leftBehind
    BY <1>2 DEF Installer!DllUnregisterServer
  <2>2. todo' \in Seq(Installer!Steps) /\ Removing(todo') /\ ListBefore(todo', Delisted')
    BY <2>1, UnregistrationInTurn
  <2>3. ListedUsable'
    BY <1>0, <2>1 DEF ListedUsable, Installer!ListedUsable, Installer!Registered
  <2> QED
    BY <1>0, <2>1, <2>2, <2>3 DEF InTurn
<1>3. CASE Installer!GiveUp
  <2>1. todo' = <<>> /\ entries' = entries /\ leftBehind' = leftBehind
    BY <1>3 DEF Installer!GiveUp
  <2>2. todo' \in Seq(Installer!Steps) /\ Len(todo') = 0
    BY <2>1
  <2>3. Adding(todo') /\ ClassesBefore(todo', entries')
    BY <2>2 DEF Adding, ClassesBefore
  <2>4. ListedUsable'
    BY <1>0, <2>1 DEF ListedUsable, Installer!ListedUsable, Installer!Registered
  <2> QED
    BY <1>0, <2>1, <2>2, <2>3, <2>4 DEF InTurn
<1>4. CASE Installer!Write \/ Installer!GoOn
  <2>1. todo # <<>> /\ todo' = Tail(todo)
    BY <1>4 DEF Installer!Write, Installer!GoOn
  <2>2. PICK step : step = Head(todo)
    OBVIOUS
  <2>3. /\ todo' \in Seq(Installer!Steps) /\ Len(todo') = Len(todo) - 1
        /\ Len(todo) \in Nat \ {0} /\ step = todo[1] /\ step \in Installer!Steps
        /\ \A i \in 1..Len(todo') : todo'[i] = todo[i + 1]
    BY <1>0, <2>1, <2>2, HeadTailProperties
  <2>4. \A i \in 1..Len(todo') : i + 1 \in 1..Len(todo)
    BY <2>3
  <2>5. \A i \in 1..Len(todo') : \A j \in 1..Len(todo) :
           j < i + 1 => j = 1 \/ \E m \in 1..Len(todo') : m < i /\ j = m + 1
    <3> SUFFICES ASSUME NEW i \in 1..Len(todo'), NEW j \in 1..Len(todo), j < i + 1, j # 1
                 PROVE  \E m \in 1..Len(todo') : m < i /\ j = m + 1
      OBVIOUS
    <3>1. j - 1 \in 1..Len(todo') /\ j - 1 < i /\ j = (j - 1) + 1
      BY <2>3
    <3> QED
      BY <3>1
  <2>6. CASE Adding(todo) /\ ClassesBefore(todo, entries)
    <3>1. Adding(todo')
      BY <2>3, <2>4, <2>6 DEF Adding
    <3>2. step.removes = {} /\ ~step.tried
      BY <2>3, <2>6 DEF Adding
    <3>3. Installer!Write
      BY <1>4, <2>2, <3>2 DEF Installer!GoOn
    <3>4. entries' = entries \cup step.adds
      BY <2>2, <3>2, <3>3 DEF Installer!Write
    <3>5. leftBehind' <=> leftBehind /\ Installer!Enumerator \notin step.adds
      BY <2>2, <3>2, <3>3 DEF Installer!Write
    <3>6. leftBehind' \in BOOLEAN
      BY <3>3 DEF Installer!Write
    <3>7. ClassesBefore(todo', entries')
      <4> SUFFICES ASSUME NEW i \in 1..Len(todo'), Installer!Enumerator \in todo'[i].adds,
                          NEW k \in Installer!Classes, NEW x \in Installer!ClassEntries(k)
                   PROVE  x \in entries' \/ \E m \in 1..Len(todo') : m < i /\ x \in todo'[m].adds
        BY DEF ClassesBefore
      <4>1. x \in entries \/ \E j \in 1..Len(todo) : j < i + 1 /\ x \in todo[j].adds
        BY <2>3, <2>4, <2>6 DEF ClassesBefore
      <4>2. ASSUME NEW j \in 1..Len(todo), j < i + 1, x \in todo[j].adds
            PROVE  x \in entries' \/ \E m \in 1..Len(todo') : m < i /\ x \in todo'[m].adds
        <5>1. CASE j = 1
          BY <2>3, <3>4, <4>2, <5>1
        <5>2. ASSUME NEW m \in 1..Len(todo'), m < i, j = m + 1
              PROVE  x \in todo'[m].adds
          BY <2>3, <4>2, <5>2
        <5> QED
          BY <2>5, <4>2, <5>1, <5>2
      <4> QED
        BY <3>4, <4>1, <4>2
    <3>8. ListedUsable'
      <4>1. CASE Installer!Enumerator \in step.adds
        <5>1. \A k \in Installer!Classes : Installer!ClassEntries(k) \subseteq entries
          BY <2>3, <2>6, <4>1 DEF ClassesBefore
        <5> QED
          BY <3>4, <5>1 DEF ListedUsable, Installer!ListedUsable, Installer!Registered
      <4>2. CASE Installer!Enumerator \notin step.adds
        BY <1>0, <3>4, <3>5, <4>2 DEF ListedUsable, Installer!ListedUsable, Installer!Registered
      <4> QED
        BY <4>1, <4>2
    <3> QED
      BY <2>3, <3>1, <3>6, <3>7, <3>8 DEF InTurn
  <2>7. CASE Removing(todo) /\ ListBefore(todo, Delisted)
    <3>1. Removing(todo')
      BY <2>3, <2>4, <2>7 DEF Removing
    <3>2. step.adds = {} /\ (step.tried => Installer!Enumerator \in step.removes)
      BY <2>3, <2>7 DEF Removing
    <3>3. Installer!Enumerator \in step.removes \/ Delisted
      BY <2>3, <2>7 DEF ListBefore
    <3>4. Delisted' /\ leftBehind' \in BOOLEAN
      <4>1. CASE Installer!GoOn
        <5>1. (leftBehind' <=> Installer!Enumerator \in entries) /\ entries' = entries
          BY <4>1 DEF Installer!GoOn
        <5>2. leftBehind' \in BOOLEAN
          BY <4>1 DEF Installer!GoOn
        <5> QED
          BY <5>1, <5>2 DEF Delisted
      <4>2. CASE Installer!Write
        <5>1. entries' = entries \ step.removes /\ leftBehind' \in BOOLEAN
          BY <2>2, <3>2, <4>2 DEF Installer!Write
        <5>2. leftBehind' <=> leftBehind /\ Installer!Enumerator \notin step.removes
          BY <2>2, <3>2, <4>2 DEF Installer!Write
        <5> QED
          BY <3>3, <5>1, <5>2 DEF Delisted
      <4> QED
        BY <1>4, <4>1, <4>2
    <3>5. ListBefore(todo', Delisted')
      BY <3>4 DEF ListBefore
    <3>6. ListedUsable'
      BY <3>4 DEF Delisted, ListedUsable, Installer!ListedUsable
    <3> QED
      BY <2>3, <3>1, <3>4, <3>5, <3>6 DEF InTurn
  <2> QED
    BY <1>0, <2>6, <2>7
<1> QED
  BY <1>1, <1>2, <1>3, <1>4 DEF Installer!Next

LEMMA InTurnInit == MCInit \/ TokensInit => InTurn
<1> SUFFICES ASSUME MCInit \/ TokensInit PROVE InTurn
  OBVIOUS
<1>0. todo = <<>> /\ leftBehind = FALSE /\ entries \in {{}, Installer!AllEntries}
  BY DEF MCInit, Installer!Init, TokensInit
<1>1. todo \in Seq(Installer!Steps) /\ Len(todo) = 0 /\ leftBehind \in BOOLEAN
  BY <1>0, EmptySeq
<1>2. Adding(todo) /\ ClassesBefore(todo, entries)
  BY <1>1 DEF Adding, ClassesBefore
<1>3. ListedUsable
  BY <1>0 DEF ListedUsable, Installer!ListedUsable, Installer!Registered,
              Installer!AllEntries
<1> QED
  BY <1>1, <1>2, <1>3 DEF InTurn

(* Whatever step of a registration or an unregistration fails, is ignored  *)
(* or is the last (sapi_main.cpp), and whatever applications do meanwhile. *)
THEOREM EnumeratorUsable == MCSpec => []ListedUsable
<1>1. InTurn /\ UNCHANGED registry => InTurn'
  BY DEF registry, InTurn, Delisted, Adding, Removing, ClassesBefore, ListBefore,
         ListedUsable, Installer!ListedUsable, Installer!Registered
<1>2. InTurn /\ [MCNext \/ TokensNext]_allVars => InTurn'
  BY <1>1, InTurnStep DEF MCNext, TokensNext, allVars
<1>3. InTurn => ListedUsable
  BY DEF InTurn
<1> QED
  BY <1>2, <1>3, InTurnInit, PTL DEF MCSpec
=============================================================================

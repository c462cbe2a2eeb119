---------------------------- MODULE MCComServer ----------------------------
(***************************************************************************)
(* ComServer and Registration together, for TLC: COM makes the library's   *)
(* class factories for an application once they are registered.  Threads   *)
(* and objects are interchangeable.                                        *)
(*                                                                         *)
(* Bounds: applications use the library while it is registered whole, and  *)
(* the registration changes while nobody uses it.  The last object is made *)
(* only while one thread at most uses the library.  Replacing the token of *)
(* an engine takes four objects; two threads do it from a beginning of its *)
(* own, in which they share an engine, the tokens of two voices and an     *)
(* open key (which SetObjectToken needs), the factory and the enumerator   *)
(* are released, and no further objects are made: they set and get tokens, *)
(* hand them to each other and release them, until nothing is left.        *)
(***************************************************************************)
EXTENDS ComServer, FiniteSets, TLC

VARIABLES
    entries, todo, leftBehind,
    sharing     \* bound: the second of the two beginnings

registry == <<entries, todo, leftBehind>>
Installer == INSTANCE Registration

Using(c) == call[c] # Idle \/ holds[c] # {} \/ c \in locks
Unused == \A c \in Clients : ~Using(c)
Settled ==
    /\ Installer!Registered /\ Installer!ListEntries \subseteq entries
    /\ todo = <<>> /\ ~leftBehind

MCInit == Init /\ Installer!Init /\ sharing = FALSE
MCNext ==
    /\ ~sharing
    /\ \/ Settled /\ Next /\ UNCHANGED registry
       \/ Unused /\ Installer!Next /\ UNCHANGED vars
    /\ UNCHANGED sharing

TokensInit ==
    /\ kind \in [Objects -> {"engine", "token", "key", "free"}]
    /\ Cardinality({o \in Objects : kind[o] = "engine"}) = 1
    /\ Cardinality({o \in Objects : kind[o] = "token"}) = 2
    /\ Cardinality({o \in Objects : kind[o] = "key"}) = 1
    /\ holds = [c \in Clients |-> {o \in Objects : kind[o] # "free"}]
    /\ refs = [o \in Objects |-> IF kind[o] = "free" THEN 0 ELSE Cardinality(Clients)]
    /\ count = 4 /\ locks = {}
    /\ call = [c \in Clients |-> Idle]
    /\ index = [o \in Objects |-> 0] /\ seen = [o \in Objects |-> <<>>]
    /\ token = [o \in Objects |-> None] /\ overlapped = FALSE
    /\ entries = Installer!AllEntries /\ todo = <<>> /\ leftBehind = FALSE
    /\ sharing = TRUE

TokensNext ==
    /\ sharing
    /\ \E c \in Clients :
          /\ \/ Step(c)
             \/ \E o \in Objects :
                   \/ Release(c, o) \/ GetObjectToken(c, o)
                   \/ \E t \in Objects : SetObjectToken(c, o, t)
                   \/ \E d \in Clients : Share(c, d, o)
          /\ Overlap
    /\ UNCHANGED <<registry, sharing>>

allVars == <<vars, registry, sharing>>
MCSpec == (MCInit \/ TokensInit) /\ [][MCNext \/ TokensNext]_allVars
TokensSpec == TokensInit /\ [][TokensNext]_allVars

Symmetry == Permutations(Clients) \cup Permutations(Objects)

LastObject ==
    \/ sharing
    \/ \E o \in Objects : kind[o] = "free"
    \/ \A c, d \in Clients : Using(c) /\ Using(d) => c = d

NoOverlap == ~overlapped

(* SAPI is never told of an enumerator it cannot use (see Registration).   *)
ListedUsable == Installer!ListedUsable
============================================================================

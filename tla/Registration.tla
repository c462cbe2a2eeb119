--------------------------- MODULE Registration ---------------------------
(***************************************************************************)
(* DllRegisterServer and DllUnregisterServer: what the voice library       *)
(* writes into the registry, entry by entry.  The registry belongs to      *)
(* Windows; a call to it is atomic and may fail, and the installer that    *)
(* makes the calls may be killed between two of them.                      *)
(*                                                                         *)
(* On 64 bits DllUnregisterServer first asks the speech server to exit,    *)
(* which is in ServerLifecycle.                                            *)
(***************************************************************************)
EXTENDS Sequences

VARIABLES
    entries,    \* of the registry: a key, and a subkey or a value of it
    todo,       \* what the call in progress has yet to do
    leftBehind  \* an unregistration could not remove the enumerator's entry

vars == <<entries, todo, leftBehind>>

(* The two classes of the library, and the entry under TokenEnums that     *)
(* tells SAPI the class of the enumerator.                                 *)
Classes == {"IEnumSpObjectTokensImpl", "ISpTTSEngineImpl"}
ServerEntries(c) == {c} \X {"InProcServer32", "path", "ThreadingModel"}
ClassEntries(c) == ServerEntries(c) \cup {<<c, "key">>}
ListEntries == {"TokenEnums"} \X {"key", "name", "CLSID"}
Enumerator == <<"TokenEnums", "CLSID">>

(***************************************************************************)
(* What a call does, in its order.                                         *)
(***************************************************************************)
Adds(entry) == [adds |-> {entry}, removes |-> {}, tried |-> FALSE]
Removes(set) == [adds |-> {}, removes |-> set, tried |-> FALSE]

RegisterClass(c) ==
    << Adds(<<c, "key">>), Adds(<<c, "InProcServer32">>),
       Adds(<<c, "path">>), Adds(<<c, "ThreadingModel">>) >>

UnregisterClass(c) == << Removes(ServerEntries(c)), Removes({<<c, "key">>}) >>

RegisterTokenEnumerator ==
    << Adds(<<"TokenEnums", "key">>), Adds(<<"TokenEnums", "name">>),
       Adds(Enumerator) >>

(* It catches every exception.                                             *)
UnregisterTokenEnumerator == << [Removes(ListEntries) EXCEPT !.tried = TRUE] >>

\* Defect: the classes go before the enumerator that refers to them.
ClassesFirst ==
    UnregisterClass("IEnumSpObjectTokensImpl") \o UnregisterClass("ISpTTSEngineImpl")
        \o UnregisterTokenEnumerator
Unregistration ==
    UnregisterTokenEnumerator
        \o UnregisterClass("IEnumSpObjectTokensImpl") \o UnregisterClass("ISpTTSEngineImpl")

Registration ==
    RegisterClass("IEnumSpObjectTokensImpl") \o RegisterClass("ISpTTSEngineImpl")
        \o RegisterTokenEnumerator

(***************************************************************************)
(* The calls, and their steps.                                             *)
(***************************************************************************)
DllRegisterServer ==
    todo = <<>> /\ todo' = Registration /\ UNCHANGED <<entries, leftBehind>>

DllUnregisterServer ==
    todo = <<>> /\ todo' = Unregistration /\ UNCHANGED <<entries, leftBehind>>

(* A key that is there is opened instead of created, a value is written    *)
(* again; a key that is not there cannot be removed.                       *)
Write ==
    /\ todo # <<>>
    /\ LET step == Head(todo)
       IN  /\ step.removes # {} => step.removes \cap entries # {}
           /\ entries' = (entries \ step.removes) \cup step.adds
           /\ leftBehind' = (leftBehind /\ Enumerator \notin step.adds \cup step.removes)
    /\ todo' = Tail(todo)

(* The call ends at the first step that fails, with an error or because    *)
(* the installer is killed, except for the one whose failure is ignored.   *)
GiveUp == todo # <<>> /\ todo' = <<>> /\ UNCHANGED <<entries, leftBehind>>

GoOn ==
    /\ todo # <<>> /\ Head(todo).tried
    /\ leftBehind' = (Enumerator \in entries)
    /\ todo' = Tail(todo)
    /\ UNCHANGED entries

(***************************************************************************)
(* The specification.                                                      *)
(***************************************************************************)
Init == entries = {} /\ todo = <<>> /\ leftBehind = FALSE

Next == DllRegisterServer \/ DllUnregisterServer \/ Write \/ GiveUp \/ GoOn

Spec == Init /\ [][Next]_vars

(***************************************************************************)
(* Properties.                                                             *)
(***************************************************************************)
AllEntries == ListEntries \cup UNION {ClassEntries(c) : c \in Classes}
Steps == [adds : SUBSET AllEntries,
          removes : {{}, ListEntries} \cup {ServerEntries(c) : c \in Classes}
                      \cup {{<<c, "key">>} : c \in Classes},
          tried : BOOLEAN]

TypeOK ==
    /\ entries \subseteq AllEntries
    /\ todo \in Seq(Steps) /\ leftBehind \in BOOLEAN

(* Whatever step of whatever call fails or is the last one, SAPI is never  *)
(* told of an enumerator whose class, or the class of whose voices, is not *)
(* registered, unless its entry could not be removed (which is ignored:    *)
(* the call that then removes the classes answers S_OK).                   *)
Registered == \A c \in Classes : ClassEntries(c) \subseteq entries
ListedUsable == Enumerator \in entries => Registered \/ leftBehind
===========================================================================

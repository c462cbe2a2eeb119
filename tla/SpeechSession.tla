--------------------------- MODULE SpeechSession ---------------------------
(***************************************************************************)
(* What the bridge promises a client process, with no server, stream or    *)
(* message in sight.                                                       *)
(*                                                                         *)
(* A speak call hands the callback the chunks of its own text, in order    *)
(* and without a gap, and nothing more once the callback has refused one.  *)
(* A stop is answered late, and a connection is behind by that answer, or  *)
(* by the one it has displaced, and never by more: speak is not affected,  *)
(* getVoices takes the first answer there is for its own, and fails on a   *)
(* connection that is open for no other reason.  A speak call that fails   *)
(* leaves no connection behind.                                            *)
(***************************************************************************)
EXTENDS Integers, Sequences

CONSTANTS Clients, MaxSpeaks, MaxChunks

VARIABLES calling,    \* the call in progress, or "none"
          utterance,  \* number of the current or last speak call
          heard,      \* <<utterance, index>> of the chunks the callback got
          silenced,   \* the callback has refused a chunk
          link,       \* the connection: "closed", "open", or "broken"
          behind,     \* answers to earlier calls still to come on an open link
          answer      \* what the last call returned

vars == <<calling, utterance, heard, silenced, link, behind, answer>>

Init ==
    /\ calling = [c \in Clients |-> "none"]
    /\ utterance = [c \in Clients |-> 0]
    /\ heard = [c \in Clients |-> <<>>]
    /\ silenced = [c \in Clients |-> FALSE]
    /\ link = [c \in Clients |-> "closed"]
    /\ behind = [c \in Clients |-> <<>>]
    /\ answer = [c \in Clients |-> "none"]

Start(c, op) ==
    /\ calling[c] = "none"
    /\ calling' = [calling EXCEPT ![c] = op]
    /\ answer' = [answer EXCEPT ![c] = "none"]
    /\ UNCHANGED link

Return(c, result) ==
    /\ calling' = [calling EXCEPT ![c] = "none"]
    /\ answer' = [answer EXCEPT ![c] = result]
    /\ UNCHANGED <<utterance, heard, silenced>>

Close(c) ==
    /\ link' = [link EXCEPT ![c] = "closed"]
    /\ behind' = [behind EXCEPT ![c] = <<>>]

(* speak reads whatever answers are still to come.                         *)
Begin(c) ==
    /\ Start(c, "speak") /\ utterance[c] < MaxSpeaks
    /\ utterance' = [utterance EXCEPT ![c] = @ + 1]
    /\ heard' = [heard EXCEPT ![c] = <<>>]
    /\ silenced' = [silenced EXCEPT ![c] = FALSE]
    /\ behind' = [behind EXCEPT ![c] = <<>>]

Hear(c) ==
    /\ calling[c] = "speak" /\ ~silenced[c] /\ Len(heard[c]) < MaxChunks
    /\ heard' = [heard EXCEPT ![c] = Append(@, <<utterance[c], Len(@) + 1>>)]
    /\ \E refuse \in BOOLEAN : silenced' = [silenced EXCEPT ![c] = refuse]
    /\ UNCHANGED <<calling, utterance, link, behind, answer>>

(* The end, which the answer to a stop follows; or a failure.              *)
End(c) ==
    /\ calling[c] = "speak"
    /\ \/ /\ link[c] # "closed"
          /\ Return(c, "true") /\ UNCHANGED link
          /\ behind' = [behind EXCEPT ![c] =
                          IF silenced[c] /\ link[c] = "open" THEN <<"OK">> ELSE <<>>]
       \/ Return(c, "false") /\ Close(c)

Ask(c) ==
    Start(c, "getVoices") /\ UNCHANGED <<utterance, heard, silenced, behind>>

Voices(c) ==
    /\ calling[c] = "getVoices" /\ UNCHANGED link
    /\ \/ LET answers == Append(behind[c], "VOICES")
          IN  /\ link[c] = "open"
              /\ Return(c, IF Head(answers) = "VOICES" THEN "true" ELSE "false")
              /\ behind' = [behind EXCEPT ![c] = Tail(answers)]
       \/ /\ link[c] # "open"
          /\ \E result \in {"true", "false"} : Return(c, result)
          /\ UNCHANGED behind

(* shutdownServer gives up the connection in any case.                     *)
Leave(c) ==
    /\ Start(c, "shutdownServer")
    /\ behind' = [behind EXCEPT ![c] = <<>>]
    /\ UNCHANGED <<utterance, heard, silenced>>

Left(c) ==
    /\ calling[c] = "shutdownServer"
    /\ Close(c)
    /\ \E result \in {"true", "false"} : Return(c, result)

(* A call opens the connection; the server may vanish, and the client.     *)
Open(c) ==
    /\ calling[c] # "none" /\ link[c] = "closed"
    /\ link' = [link EXCEPT ![c] = "open"]
    /\ UNCHANGED <<calling, utterance, heard, silenced, behind, answer>>

Break(c) ==
    /\ link[c] = "open"
    /\ link' = [link EXCEPT ![c] = "broken"]
    /\ behind' = [behind EXCEPT ![c] = <<>>]
    /\ UNCHANGED <<calling, utterance, heard, silenced, answer>>

Exit(c) == Close(c) /\ Return(c, "none")

Next ==
    \E c \in Clients :
        \/ Begin(c) \/ Hear(c) \/ End(c)
        \/ Ask(c) \/ Voices(c) \/ Leave(c) \/ Left(c)
        \/ Open(c) \/ Break(c) \/ Exit(c)

Spec == Init /\ [][Next]_vars
===========================================================================

------------------------- MODULE MCServerLifecycle -------------------------
(***************************************************************************)
(* ServerLifecycle for TLC, with a record of whether anything has failed   *)
(* or been shut down yet.                                                  *)
(***************************************************************************)
EXTENDS ServerLifecycle

VARIABLE calm

InitialisationFails(s) == spc[s] = "loading" /\ spc'[s] = "gone"

Disturbance ==
    \/ \E c \in Clients : ClientExit(c) \/ ConnectRefused(c) \/ ProbeUp(c)
    \/ \E s \in Servers :
          ServerCrash(s) \/ (CloseServerMutex(s) /\ InitialisationFails(s))

CalmStep ==
    \/ \E c \in Clients : Ensure(c) \/ ClientStep(c)
    \/ \E s \in Servers : ServerStep(s) /\ ~InitialisationFails(s)
    \/ \E c \in Clients, s \in Servers :
          Connect(c, s) \/ Disconnect(c, s) \/ Shutdown(c, s)

MCInit == Init /\ calm = TRUE
MCNext ==
    \/ CalmStep /\ UNCHANGED calm
    \/ Disturbance /\ calm' = FALSE

MCSpec ==
    /\ MCInit /\ [][MCNext]_<<vars, calm>>
    /\ \A c \in Clients :
          WF_vars(ClientStep(c) \/ \E s \in Servers : Connect(c, s) \/ Shutdown(c, s))
    /\ \A s \in Servers : WF_vars(ServerStep(s))

(* As long as nothing fails and nobody shuts the server down, a server     *)
(* process that is started leads to a pipe, whoever looks at the server    *)
(* mutex meanwhile and however many processes are started in a row.        *)
LaunchServes ==
    \A c \in Clients : (calm /\ cpc[c] = "poll") ~> (PipeExists \/ ~calm)
============================================================================

---------------------------- MODULE PipeBridge ----------------------------
(***************************************************************************)
(* The named-pipe bridge of the 64-bit SAPI voice: the PipeClient of every *)
(* client process, the byte stream in each direction, and the 32-bit       *)
(* BestspeechServer, which serves one connected client at a time in one    *)
(* thread.                                                                 *)
(*                                                                         *)
(* One WriteFile puts one unit on a stream.  ReadFile of n units returns   *)
(* what is there, at least one unit and at most n: the pipe is created in  *)
(* byte mode, so a read may be satisfied before the rest of a message has  *)
(* been written.                                                           *)
(*                                                                         *)
(* All public calls of a PipeClient hold its critical section from the     *)
(* first line to the return, so a client process is one sequential caller. *)
(***************************************************************************)
EXTENDS Integers, Sequences

CONSTANTS
    Clients,      \* client processes, each with its PipeClient
    NoClient,     \* "nobody": the value of conn when no client is connected
    MaxSpeaks,    \* bound: speak calls per client
    MaxChunks,    \* bound: audio chunks of an utterance
    Quota,        \* units a stream holds before WriteFile blocks
    MaxCrashes    \* bound: crashes of the server process

ASSUME NoClientAssumption == NoClient \notin Clients
ASSUME BoundsAssumption ==
    /\ MaxSpeaks \in Nat /\ MaxChunks \in Nat /\ MaxCrashes \in Nat
    /\ Quota \in Nat \ {0}

VARIABLES
    pc,         \* where the call in progress of a client stands
    op,         \* which operation that call (or the last one) is
    pipe,       \* pipe_ # INVALID_HANDLE_VALUE
    stopped,    \* speak's local stopped
    header,     \* the response header whose body is to be read, or NoHeader
    utterance,  \* number of the client's current (or last) speak call
    heard,      \* chunks the callback got in the current (or last) speak
    result,     \* what the last call returned
    toServer,   \* command stream of a client's connection
    toClient,   \* response stream of a client's connection
    spc,        \* where the server stands
    conn,       \* client at the other end of the server's pipe instance
    out,        \* what the server's current handler has still to write
    text,       \* utterance the server is synthesizing
    made,       \* chunks made of the last utterance of a client
    gStop,      \* g_stop_speaking
    quitting,   \* g_shutdown_requested
    crashes     \* crashes so far

clientVars == <<pc, op, pipe, stopped, header, utterance, heard, result>>
serverVars == <<spc, conn, out, text, made, gStop, quitting, crashes>>
vars == <<clientVars, toServer, toClient, serverVars>>

Operations == {"speak", "getVoices", "shutdownServer"}
Commands == {"GET_VOICES", "SPEAK", "STOP", "SHUTDOWN"}
Responses == {"OK", "AUDIO_DATA", "AUDIO_END", "VOICES"}

(* A header announces how many units follow it: the size field and the     *)
(* samples of an audio chunk are two WriteFile calls, hence two units.     *)
Header(type, size) == [part |-> "header", type |-> type, size |-> size]
NoHeader == Header("OK", 0)
SpeakText(u) == [part |-> "text", utterance |-> u]
SizeField == [part |-> "size"]
Samples(u, i) == [part |-> "samples", utterance |-> u, index |-> i]
VoiceList == [part |-> "voices"]

CommandUnit ==
    [part : {"header"}, type : Commands, size : 0..1]
      \cup [part : {"text"}, utterance : 1..MaxSpeaks]
ResponseHeader == [part : {"header"}, type : Responses, size : 0..2]
SamplesUnit ==
    [part : {"samples"}, utterance : 1..MaxSpeaks, index : 1..MaxChunks]
ResponseUnit == ResponseHeader \cup {SizeField, VoiceList} \cup SamplesUnit

CommandHeader(c) ==
    CASE op[c] = "speak"          -> Header("SPEAK", 1)
      [] op[c] = "getVoices"      -> Header("GET_VOICES", 0)
      [] op[c] = "shutdownServer" -> Header("SHUTDOWN", 0)

Running == spc # "down"
Connected(c) == pipe[c] /\ conn = c      \* both ends of the instance open
Broken(c) == pipe[c] /\ conn # c         \* a handle whose server end is gone
ClientGone == conn # NoClient /\ ~pipe[conn]

(***************************************************************************)
(* The client: how a call ends.                                            *)
(***************************************************************************)
Return(c, r) ==
    /\ pc' = [pc EXCEPT ![c] = "idle"]
    /\ result' = [result EXCEPT ![c] = r]

(* disconnect(): the unread responses go with the handle; commands already *)
(* written can still be read by the server.                                *)
Disconnect(c) ==
    /\ pipe' = [pipe EXCEPT ![c] = FALSE]
    /\ toClient' = [toClient EXCEPT ![c] = <<>>]

KeepHandle == UNCHANGED <<pipe, toClient>>

(* speak disconnects when a command or a response fails, shutdownServer    *)
(* always disconnects, getVoices never does.                               *)
\* Defect: speak keeps its handle after a failed read, as getVoices does.
OnlyShutdownDisconnects(o) == o = "shutdownServer"
DisconnectsOnFailure(o) == o \in {"speak", "shutdownServer"}

Fail(c) ==
    /\ Return(c, "false")
    /\ IF DisconnectsOnFailure(op[c]) THEN Disconnect(c) ELSE KeepHandle

(***************************************************************************)
(* The client: calls and the connection.                                   *)
(***************************************************************************)
CallSpeak(c) ==
    /\ pc[c] = "idle" /\ utterance[c] < MaxSpeaks
    /\ pc' = [pc EXCEPT ![c] = "connect"]
    /\ op' = [op EXCEPT ![c] = "speak"]
    /\ utterance' = [utterance EXCEPT ![c] = @ + 1]
    /\ heard' = [heard EXCEPT ![c] = <<>>]
    /\ stopped' = [stopped EXCEPT ![c] = FALSE]
    /\ result' = [result EXCEPT ![c] = "none"]
    /\ UNCHANGED <<pipe, header, toServer, toClient, serverVars>>

CallGetVoices(c) ==
    /\ pc[c] = "idle"
    /\ pc' = [pc EXCEPT ![c] = "connect"]
    /\ op' = [op EXCEPT ![c] = "getVoices"]
    /\ result' = [result EXCEPT ![c] = "none"]
    /\ UNCHANGED <<pipe, stopped, header, utterance, heard,
                   toServer, toClient, serverVars>>

(* shutdownServer returns at once when no server holds the server mutex.   *)
CallShutdown(c) ==
    /\ pc[c] = "idle" /\ Running
    /\ pc' = [pc EXCEPT ![c] = "connect"]
    /\ op' = [op EXCEPT ![c] = "shutdownServer"]
    /\ result' = [result EXCEPT ![c] = "none"]
    /\ UNCHANGED <<pipe, stopped, header, utterance, heard,
                   toServer, toClient, serverVars>>

(* ensureConnected: an open handle is taken as it is, broken or not.  The  *)
(* first attempt is at "connect", the four that may follow at "retry".     *)
Connect(c) ==
    /\ pc[c] \in {"connect", "retry"}
    /\ pc' = [pc EXCEPT ![c] = "send"]
    /\ \/ pipe[c] /\ UNCHANGED <<pipe, conn, spc, toServer, toClient>>
       \/ /\ ~pipe[c] /\ spc = "listen"
          /\ pipe' = [pipe EXCEPT ![c] = TRUE]
          /\ conn' = c
          /\ spc' = "read"
          /\ toServer' = [toServer EXCEPT ![c] = <<>>]
          /\ toClient' = [toClient EXCEPT ![c] = <<>>]
    /\ UNCHANGED <<op, stopped, header, utterance, heard, result,
                   out, text, made, gStop, quitting, crashes>>

(* The first attempt finds no instance to connect to, and if it finds no   *)
(* pipe at all it calls launchServer, which starts a server when none runs *)
(* and the executable is there.  No later attempt does.                    *)
FirstAttemptFails(c) ==
    /\ pc[c] = "connect" /\ ~pipe[c] /\ spc # "listen"
    /\ pc' = [pc EXCEPT ![c] = "retry"]
    /\ \/ UNCHANGED <<spc, gStop, quitting>>
       \/ ~Running /\ spc' = "create" /\ gStop' = FALSE /\ quitting' = FALSE
    /\ UNCHANGED <<op, pipe, stopped, header, utterance, heard, result,
                   toServer, toClient, conn, out, text, made, crashes>>

(* Five attempts, then the call fails.                                     *)
\* Defect: no limit while the server serves somebody else.
RetriesWhileBusy(c) == pc[c] = "retry" /\ ~pipe[c] /\ ~Running
OutOfAttempts(c) == pc[c] = "retry" /\ ~pipe[c] /\ spc # "listen"

GivesUp(c) ==
    /\ ~pipe[c]
    /\ Fail(c)
    /\ UNCHANGED <<op, stopped, header, utterance, heard, toServer, serverVars>>

ConnectFails(c) == OutOfAttempts(c) /\ GivesUp(c)

(* CreateFile fails otherwise than for want of a pipe or of a free         *)
(* instance: no further attempt.                                           *)
ConnectRefused(c) == pc[c] \in {"connect", "retry"} /\ GivesUp(c)

(***************************************************************************)
(* The client: sendCommand.                                                *)
(***************************************************************************)
Send(c, unit, next) ==
    /\ Connected(c) /\ Len(toServer[c]) < Quota
    /\ toServer' = [toServer EXCEPT ![c] = Append(@, unit)]
    /\ pc' = [pc EXCEPT ![c] = next]
    /\ UNCHANGED <<pipe, toClient, result>>

SendFails(c) == Broken(c) /\ Fail(c) /\ UNCHANGED toServer

SendHeader(c) ==
    /\ pc[c] = "send"
    /\ \/ Send(c, CommandHeader(c),
               IF op[c] = "speak" THEN "sendBody" ELSE "readHeader")
       \/ SendFails(c)
    /\ UNCHANGED <<op, stopped, header, utterance, heard, serverVars>>

SendBody(c) ==
    /\ pc[c] = "sendBody"
    /\ \/ Send(c, SpeakText(utterance[c]), "readHeader")
       \/ SendFails(c)
    /\ UNCHANGED <<op, stopped, header, utterance, heard, serverVars>>

(***************************************************************************)
(* The client: readResponse and what each operation does with a response.  *)
(***************************************************************************)
(* speak loops until RESP_AUDIO_END.                                       *)
\* Defect: the answer to CMD_STOP is taken for the end as well.
OkEndsSpeak(type) == type \in {"AUDIO_END", "OK"}
EndsSpeak(type) == type = "AUDIO_END"

(* After a stop, speak reads the remaining chunks and drops them.          *)
\* Defect: it does not drop them.
WantsAll(c) == TRUE
WantsAudio(c) == ~stopped[c]

(* speak gives whole chunks to the callback until the callback refuses     *)
(* one; it then sends CMD_STOP and goes on reading.                        *)
Deliver(c, body) ==
    \E goOn \in BOOLEAN :
        /\ heard' = [heard EXCEPT ![c] = Append(@, body[Len(body)])]
        /\ stopped' = [stopped EXCEPT ![c] = ~goOn]
        /\ pc' = [pc EXCEPT ![c] = IF goOn THEN "readHeader" ELSE "sendStop"]
        /\ UNCHANGED <<pipe, result>>

(* The response h with its body has been read.                             *)
SpeakResponse(c, h, body) ==
    CASE EndsSpeak(h.type) ->
           Return(c, "true") /\ UNCHANGED <<pipe, stopped, heard>>
      [] h.type = "AUDIO_DATA" /\ WantsAudio(c) -> Deliver(c, body)
      [] OTHER ->                    \* OK, audio after a stop, stale answers
           /\ pc' = [pc EXCEPT ![c] = "readHeader"]
           /\ UNCHANGED <<pipe, result, stopped, heard>>

Respond(c, h, body) ==
    CASE op[c] = "speak" -> SpeakResponse(c, h, body)
      [] op[c] = "getVoices" ->
           /\ Return(c, IF h.type = "VOICES" THEN "true" ELSE "false")
           /\ UNCHANGED <<pipe, stopped, heard>>
      [] op[c] = "shutdownServer" -> \* any response will do
           /\ Return(c, "true")
           /\ pipe' = [pipe EXCEPT ![c] = FALSE]
           /\ UNCHANGED <<stopped, heard>>

(* What is left of the stream after n units, nothing if the handle closes. *)
Consume(c, n) ==
    toClient' = [toClient EXCEPT ![c] =
                   IF pipe'[c] THEN SubSeq(@, n + 1, Len(@)) ELSE <<>>]

(* ReadFile fails once the server end is gone and nothing is left to read. *)
ReadFails(c) ==
    /\ Broken(c) /\ toClient[c] = <<>>
    /\ Fail(c)
    /\ UNCHANGED <<stopped, heard>>

ReadHeader(c) ==
    /\ pc[c] = "readHeader"
    /\ \/ /\ toClient[c] # <<>>
          /\ IF Head(toClient[c]).size > 0
               THEN /\ header' = [header EXCEPT ![c] = Head(toClient[c])]
                    /\ pc' = [pc EXCEPT ![c] = "readBody"]
                    /\ UNCHANGED <<pipe, result, stopped, heard>>
               ELSE Respond(c, Head(toClient[c]), <<>>) /\ UNCHANGED header
          /\ Consume(c, 1)
       \/ ReadFails(c) /\ UNCHANGED header
    /\ UNCHANGED <<op, utterance, toServer, serverVars>>

(* The body must come in one ReadFile: fewer bytes than announced is a     *)
(* failed response, although the rest may be on its way.                   *)
ShortRead(got, size) == got < size

ReadBody(c) ==
    /\ pc[c] = "readBody"
    /\ \/ LET size == header[c].size
              got == IF Len(toClient[c]) < size THEN Len(toClient[c]) ELSE size
          IN  /\ got > 0
              /\ IF ShortRead(got, size)
                   THEN Fail(c) /\ UNCHANGED <<stopped, heard>>
                   ELSE /\ Respond(c, header[c], SubSeq(toClient[c], 1, got))
                        /\ Consume(c, got)
       \/ ReadFails(c)
    /\ header' = [header EXCEPT ![c] = NoHeader]
    /\ UNCHANGED <<op, utterance, toServer, serverVars>>

(* The result of sending CMD_STOP is ignored.                              *)
SendStop(c) ==
    /\ pc[c] = "sendStop"
    /\ pc' = [pc EXCEPT ![c] = "readHeader"]
    /\ \/ /\ Connected(c) /\ Len(toServer[c]) < Quota
          /\ toServer' = [toServer EXCEPT ![c] = Append(@, Header("STOP", 0))]
       \/ Broken(c) /\ UNCHANGED toServer
    /\ UNCHANGED <<op, pipe, stopped, header, utterance, heard, result,
                   toClient, serverVars>>

(* The client process exits, during a call or not; the handle closes.      *)
ClientExit(c) ==
    /\ pipe[c]
    /\ Disconnect(c)
    /\ Return(c, "none")
    /\ header' = [header EXCEPT ![c] = NoHeader]
    /\ UNCHANGED <<op, stopped, utterance, heard, toServer, serverVars>>

(***************************************************************************)
(* The server: handle_client's read loop and the handlers.                 *)
(***************************************************************************)
(* One handler, one list of units still to be written.                     *)
Reply(units) == spc' = "reply" /\ out' = units

(* The read loop breaks when the client's end is closed and nothing is     *)
(* left on the stream.                                                     *)
\* Defect: it goes round again.
ReadsOn == "read"
AfterFailedRead == "close"

ServerReadFails ==
    /\ ClientGone /\ toServer[conn] = <<>>
    /\ spc' = AfterFailedRead
    /\ UNCHANGED <<toServer, out, gStop, quitting, text, made>>

\* Defect: handle_get_voices has no list to send.
VoicesReplyOk == <<Header("OK", 0)>>
VoicesReply == <<Header("VOICES", 1), VoiceList>>

ServerReadHeader ==
    /\ spc = "read"
    /\ \/ /\ toServer[conn] # <<>>
          /\ toServer' = [toServer EXCEPT ![conn] = Tail(@)]
          /\ LET type == Head(toServer[conn]).type
             IN  /\ CASE type = "SPEAK"      -> spc' = "readText" /\ UNCHANGED out
                      [] type = "GET_VOICES" -> Reply(VoicesReply)
                      [] type \in {"STOP", "SHUTDOWN"} -> Reply(<<Header("OK", 0)>>)
                 /\ gStop' = (gStop \/ type = "STOP")
                 /\ quitting' = (quitting \/ type = "SHUTDOWN")
          /\ UNCHANGED <<text, made>>
       \/ ServerReadFails
    /\ UNCHANGED <<clientVars, toClient, conn, crashes>>

(* handle_speak up to the call of speak_async.                             *)
\* Defect: the flag an earlier utterance left is not reset.
StopFlagKept == gStop
StopFlagAtSpeak == FALSE

HandleSpeak ==
    /\ spc = "readText"
    /\ \/ /\ toServer[conn] # <<>>
          /\ toServer' = [toServer EXCEPT ![conn] = Tail(@)]
          /\ text' = Head(toServer[conn]).utterance
          /\ made' = [made EXCEPT ![conn] = 0]
          /\ gStop' = StopFlagAtSpeak
          /\ spc' = "synth"
          /\ UNCHANGED <<out, quitting>>
       \/ ServerReadFails
    /\ UNCHANGED <<clientVars, toClient, conn, crashes>>

(* audio_callback announces the size field and the samples.                *)
AudioHeader == Header("AUDIO_DATA", 2)

(* The engine has another chunk: audio_callback.                           *)
MakeChunk ==
    /\ spc = "synth" /\ made[conn] < MaxChunks
    /\ made' = [made EXCEPT ![conn] = @ + 1]
    /\ IF gStop
         THEN Reply(<<Header("AUDIO_END", 0)>>)
         ELSE /\ spc' = "audio"
              /\ out' = <<AudioHeader, SizeField, Samples(text, made[conn] + 1)>>
    /\ UNCHANGED <<clientVars, toServer, toClient, conn, text, gStop, quitting, crashes>>

(* speak_async returns; handle_speak sends RESP_AUDIO_END whatever became  *)
(* of the utterance.                                                       *)
AfterSynthesis == <<Header("AUDIO_END", 0)>>

FinishSpeak ==
    /\ spc = "synth"
    /\ Reply(AfterSynthesis)
    /\ UNCHANGED <<clientVars, toServer, toClient, conn, text, made, gStop, quitting, crashes>>

(* The server goes on after the last unit of a handler.                    *)
AfterWrites == CASE spc = "audio" -> "synth"
                 [] spc = "reply" /\ quitting -> "close"
                 [] spc = "reply" /\ ~quitting -> "read"

ServerWrite ==
    /\ spc \in {"audio", "reply"} /\ out # <<>>
    /\ ~ClientGone /\ Len(toClient[conn]) < Quota
    /\ toClient' = [toClient EXCEPT ![conn] = Append(@, Head(out))]
    /\ out' = Tail(out)
    /\ spc' = IF Len(out) = 1 THEN AfterWrites ELSE spc
    /\ UNCHANGED <<clientVars, toServer, conn, text, made, gStop, quitting, crashes>>

(* WriteFile fails: audio_callback returns false, which ends the synthesis; *)
(* send_response carries on regardless.                                    *)
ServerWriteFails ==
    /\ spc \in {"audio", "reply"} /\ ClientGone
    /\ \/ spc = "audio" /\ Reply(AfterSynthesis)
       \/ /\ spc = "reply"
          /\ out' = <<>>
          /\ spc' = AfterWrites
    /\ UNCHANGED <<clientVars, toServer, toClient, conn, text, made, gStop, quitting, crashes>>

(* DisconnectNamedPipe discards what the client has not read.              *)
ServerClose ==
    /\ spc = "close"
    /\ conn' = NoClient
    /\ toServer' = [toServer EXCEPT ![conn] = <<>>]
    /\ toClient' = [toClient EXCEPT ![conn] = <<>>]
    /\ spc' = IF quitting THEN "down" ELSE "create"
    /\ UNCHANGED <<clientVars, out, text, made, gStop, quitting, crashes>>

(* CreateNamedPipe: a new instance waits for a client.  A failure changes  *)
(* nothing and is tried again after a second, hence is no step.            *)
ServerListen ==
    /\ spc = "create"
    /\ spc' = "listen"
    /\ UNCHANGED <<clientVars, toServer, toClient, conn, out, text, made,
                   gStop, quitting, crashes>>

(* The server process dies.  What it wrote can still be read.              *)
ServerCrash ==
    /\ Running /\ crashes < MaxCrashes
    /\ crashes' = crashes + 1
    /\ spc' = "down" /\ conn' = NoClient /\ out' = <<>>
    /\ toServer' = [c \in Clients |-> <<>>]
    /\ UNCHANGED <<clientVars, toClient, text, made, gStop, quitting>>

(***************************************************************************)
(* The specification.                                                      *)
(***************************************************************************)
Init ==
    /\ pc = [c \in Clients |-> "idle"]
    /\ op = [c \in Clients |-> "speak"]
    /\ pipe = [c \in Clients |-> FALSE]
    /\ stopped = [c \in Clients |-> FALSE]
    /\ header = [c \in Clients |-> NoHeader]
    /\ utterance = [c \in Clients |-> 0]
    /\ heard = [c \in Clients |-> <<>>]
    /\ result = [c \in Clients |-> "none"]
    /\ toServer = [c \in Clients |-> <<>>]
    /\ toClient = [c \in Clients |-> <<>>]
    /\ spc = "down" /\ conn = NoClient /\ out = <<>>
    /\ text = 0 /\ made = [c \in Clients |-> 0]
    /\ gStop = FALSE /\ quitting = FALSE /\ crashes = 0

ClientStep(c) ==
    \/ Connect(c) \/ FirstAttemptFails(c) \/ ConnectFails(c)
    \/ SendHeader(c) \/ SendBody(c)
    \/ ReadHeader(c) \/ ReadBody(c) \/ SendStop(c)

Call(c) == CallSpeak(c) \/ CallGetVoices(c) \/ CallShutdown(c)

ServerStep ==
    \/ ServerReadHeader \/ HandleSpeak \/ MakeChunk \/ FinishSpeak
    \/ ServerWrite \/ ServerWriteFails \/ ServerClose \/ ServerListen

Next ==
    \/ \E c \in Clients :
          Call(c) \/ ClientStep(c) \/ ConnectRefused(c) \/ ClientExit(c)
    \/ ServerStep
    \/ ServerCrash

Spec == Init /\ [][Next]_vars

(* Every call in progress and the server's thread keep running, and a pipe *)
(* can be made in the end; nothing makes a client call or exit, CreateFile *)
(* fail, or the server crash.                                              *)
FairSpec ==
    Spec /\ WF_vars(ServerStep) /\ \A c \in Clients : WF_vars(ClientStep(c))

(***************************************************************************)
(* Properties.                                                             *)
(***************************************************************************)
TypeOK ==
    /\ pc \in [Clients -> {"idle", "connect", "retry", "send", "sendBody",
                            "readHeader", "readBody", "sendStop"}]
    /\ op \in [Clients -> Operations]
    /\ pipe \in [Clients -> BOOLEAN]
    /\ stopped \in [Clients -> BOOLEAN]
    /\ header \in [Clients -> ResponseHeader]
    /\ utterance \in [Clients -> 0..MaxSpeaks]
    /\ heard \in [Clients -> Seq(SamplesUnit)]
    /\ result \in [Clients -> {"none", "true", "false"}]
    /\ toServer \in [Clients -> Seq(CommandUnit)]
    /\ toClient \in [Clients -> Seq(ResponseUnit)]
    /\ spc \in {"down", "create", "listen", "read", "readText", "synth",
                "audio", "reply", "close"}
    /\ conn \in Clients \cup {NoClient}
    /\ out \in Seq(ResponseUnit)
    /\ text \in 0..MaxSpeaks
    /\ made \in [Clients -> 0..MaxChunks]
    /\ gStop \in BOOLEAN /\ quitting \in BOOLEAN
    /\ crashes \in 0..MaxCrashes

(* Neither side ever takes the middle of a message for its beginning, on a *)
(* handle that stays open over failed calls, crashes and reconnections.    *)
IsHeader(unit) == unit.part = "header"
Framing ==
    /\ \A c \in Clients : toClient[c] # <<>> =>
          (IsHeader(Head(toClient[c])) <=> pc[c] # "readBody")
    /\ conn # NoClient /\ toServer[conn] # <<>> =>
          (spc = "readText" => ~IsHeader(Head(toServer[conn])))
          /\ (spc = "read" => IsHeader(Head(toServer[conn])))

(* A stop meant for one utterance never silences another: while the server *)
(* synthesizes, the stop flag is down.  (As the thread that would raise it *)
(* is the one that synthesizes, CMD_STOP does not stop its own utterance   *)
(* either: the audio is made, sent and dropped by the client.)             *)
NoStaleStop == spc \in {"synth", "audio"} => ~gStop

(* speak answers true and was not stopped only when the callback got every *)
(* chunk the engine made.                                                  *)
Complete ==
    \A c \in Clients :
        pc[c] = "idle" /\ op[c] = "speak" /\ result[c] = "true" /\ ~stopped[c]
          => Len(heard[c]) = made[c]

(* The answers a client will still read: those on the stream, the one to   *)
(* the command being handled, and those to the commands on the way.        *)
Types(s) == [i \in DOMAIN s |-> s[i].type]
Answers(s) ==
    Types(SelectSeq(s, LAMBDA u : IsHeader(u) /\ u.type # "AUDIO_DATA"))
AnswerTo(command) ==
    CASE command = "SPEAK" -> "AUDIO_END"
      [] command = "GET_VOICES" -> "VOICES"
      [] command \in {"STOP", "SHUTDOWN"} -> "OK"
Unwritten ==
    CASE spc \in {"readText", "synth", "audio"} -> <<"AUDIO_END">>
      [] spc = "reply" -> Answers(out)
      [] OTHER -> <<>>
AnswersToCome(c) ==
    LET commands == Types(SelectSeq(toServer[c], IsHeader))
    IN  Answers(toClient[c]) \o Unwritten
          \o [i \in DOMAIN commands |-> AnswerTo(commands[i])]

(* Those of them that are not the answer to the call in progress.  speak   *)
(* and shutdownServer do not mind any.                                     *)
Front(s) == SubSeq(s, 1, Len(s) - 1)
Behind(c) ==
    IF ~Connected(c) \/ (pc[c] # "idle" /\ op[c] # "getVoices")
      THEN <<>>
      ELSE CASE pc[c] = "readHeader" -> Front(AnswersToCome(c))
             [] pc[c] = "readBody" -> Front(<<header[c].type>> \o AnswersToCome(c))
             [] OTHER -> AnswersToCome(c)

(* The bridge implements the speech session the engine relies on: chunks   *)
(* of the right text in order, none after a refusal, and a connection that *)
(* is behind by one answer at most, whatever the order of speak, stop and  *)
(* getVoices calls, crashes and reconnections was.                         *)
Session == INSTANCE SpeechSession WITH
    calling <- [c \in Clients |-> IF pc[c] = "idle" THEN "none" ELSE op[c]],
    heard <- [c \in Clients |->
               [i \in DOMAIN heard[c] |-> <<heard[c][i].utterance, heard[c][i].index>>]],
    silenced <- stopped,
    link <- [c \in Clients |-> CASE ~pipe[c] -> "closed"
                                 [] Connected(c) -> "open"
                                 [] Broken(c) -> "broken"],
    behind <- [c \in Clients |-> Behind(c)],
    answer <- result
ImplementsSession == Session!Spec

(* Every call returns: no order of blocked reads and writes, refused       *)
(* chunks, crashes or vanished peers leaves a caller waiting forever.      *)
CallReturns == \A c \in Clients : (pc[c] # "idle") ~> (pc[c] = "idle")

(* A client that vanishes does not keep the only pipe instance.            *)
ServerRecovers == ClientGone ~> ~ClientGone
===========================================================================

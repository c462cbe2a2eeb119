---------------------------- MODULE WaveBuffer ----------------------------
(***************************************************************************)
(* The console wrapper: bst_speak, which collects the sound of an          *)
(* utterance in a buffer that grows, and bst_speak_async, which hands it   *)
(* to a callback.  The hooks that catch what the engine plays decide       *)
(* between the two, and send the sound through a Sonic stream that is made *)
(* once and kept from one utterance to the next.                           *)
(*                                                                         *)
(* Sizes are counted in samples; every size in the code is an even number  *)
(* of bytes.  The engine is outside the repository: TtsWav opens the wave  *)
(* device, writes buffers, closes it and returns.  The release of the      *)
(* buffers is modelled in WaveCapture.                                     *)
(***************************************************************************)
EXTENDS Integers

CONSTANTS
    HeaderSize,       \* of a wav_header (22 in the code)
    InitialCapacity,  \* of the buffer (8192 in the code)
    MaxLength,        \* of a buffer of the engine
    Piece,            \* read at once when the device is closed (1024 in the code)
    Stretch,          \* bound: samples Sonic may make of one
    MaxWrites,        \* bound: buffers of an utterance
    MaxCalls          \* bound: calls

ASSUME SizesAssumption ==
    /\ HeaderSize \in Nat /\ InitialCapacity \in Nat /\ MaxLength \in Nat
    /\ Piece \in Nat \ {0}
ASSUME BoundsAssumption == Stretch \in Nat /\ MaxWrites \in Nat /\ MaxCalls \in Nat

VARIABLES
    pc,        \* "idle", or where TtsWav stands; "crashed" for good
    memory,    \* no callback: the sound is collected
    header,    \* pcm_header
    audio,     \* the buffer is allocated
    size, capacity,
    stop,      \* async_stop_speaking
    stream,    \* sonic_stream exists
    speed,     \* the multiplier is not one
    available, \* samples in the stream
    writes,    \* buffers of this utterance so far
    made,      \* samples the engine or Sonic has made of this utterance
    heard,     \* of these, given to the callback
    result,    \* what bst_speak has returned: the size and the header's data_bytes
    calls      \* calls so far

callVars == <<memory, header, speed, stream, calls>>
bufferVars == <<audio, size, capacity>>
vars == <<pc, callVars, bufferVars, stop, available, writes, made, heard, result>>

(***************************************************************************)
(* The two calls, up to TtsWav.                                            *)
(***************************************************************************)
(* The stream is made when a multiplier is first given.                    *)
Start(multiplied) ==
    /\ pc = "idle" /\ calls < MaxCalls
    /\ pc' = "open"
    /\ stream' = (stream \/ multiplied)
    /\ speed' = multiplied
    /\ stop' = FALSE
    /\ writes' = 0 /\ made' = 0 /\ heard' = 0
    /\ calls' = calls + 1
    /\ UNCHANGED <<available, result>>

BstSpeak(pcm_header, multiplied) ==
    /\ Start(multiplied)
    /\ memory' = TRUE /\ header' = pcm_header
    /\ size' = IF pcm_header THEN HeaderSize ELSE 0
    /\ capacity' = InitialCapacity
    /\ UNCHANGED audio

BstSpeakAsync(multiplied) ==
    /\ Start(multiplied)
    /\ memory' = FALSE /\ audio' = FALSE
    /\ UNCHANGED <<header, size, capacity>>

(***************************************************************************)
(* The hooks.                                                              *)
(***************************************************************************)
WaveOutOpen ==
    /\ pc = "open"
    /\ pc' = "playing"
    /\ audio' = (audio \/ memory)
    /\ UNCHANGED <<callVars, size, capacity, stop, available, writes, made, heard,
                   result>>

(* The buffer doubles, once.                                               *)
\* Defect: what is to be stored is forgotten.
FullBefore(n) == size >= capacity
Full(n) == size + n >= capacity

(* waveOutput: n samples for the callback, which may refuse to have more,  *)
(* or for the buffer.                                                      *)
Output(n) ==
    \/ /\ ~memory
       /\ heard' = heard + n
       /\ stop' \in BOOLEAN
       /\ UNCHANGED <<size, capacity>>
    \/ /\ memory
       /\ capacity' = IF Full(n) THEN 2 * capacity ELSE capacity
       /\ size' = size + n
       /\ UNCHANGED <<heard, stop>>

NoOutput == UNCHANGED <<size, capacity, heard, stop>>

Least(m, n) == IF m < n THEN m ELSE n

(* A buffer of len samples goes into the stream, and what the stream has   *)
(* made comes back into the same buffer, as many samples as the buffer has *)
(* bytes: twice as many as fit.                                            *)
ThroughSonic(len) ==
    \E k \in 0..(Stretch * len) :
        LET n == Least(available + k, 2 * len)
        IN  /\ available' = available + k - n
            /\ made' = made + k
            /\ Output(n)

(* A buffer is output as it is: there is no multiplier, or Sonic had no    *)
(* memory to take it.                                                      *)
Passthrough(len) ==
    /\ made' = made + len
    /\ Output(len)
    /\ UNCHANGED available

WaveOutWrite(len) ==
    /\ pc = "playing" /\ writes < MaxWrites
    /\ writes' = writes + 1
    /\ \/ stop /\ NoOutput /\ UNCHANGED <<available, made>>
       \/ ~stop /\ stream /\ speed /\ ThroughSonic(len)
       \/ ~stop /\ Passthrough(len)
    /\ UNCHANGED <<pc, callVars, audio, result>>

(* waveOutClose: the stream is flushed, and read until it is empty.        *)
WaveOutClose ==
    /\ pc = "playing"
    /\ pc' = "flush"
    /\ \E k \in IF stream /\ speed THEN 0..Stretch ELSE {0} :
          available' = available + k /\ made' = made + k
    /\ UNCHANGED <<callVars, bufferVars, stop, writes, heard, result>>

(* A stopped utterance is read as well, into nothing.                      *)
\* Defects: it is not read; it is read and heard.
LeavesRest == ~stop
DropsNothing == TRUE
ReadsRest == TRUE
Hears == ~stop

FlushPiece ==
    /\ pc = "flush" /\ available > 0 /\ ReadsRest
    /\ LET n == Least(available, Piece)
       IN  /\ available' = available - n
           /\ IF Hears THEN Output(n) ELSE NoOutput
    /\ UNCHANGED <<pc, callVars, audio, writes, made, result>>

(* TtsWav returns, at once if the engine opens no device; the buffer is    *)
(* handed to the caller.  The header is completed in a buffer that only    *)
(* the hook of waveOutOpen allocates.                                      *)
DataBytes == IF header THEN size - HeaderSize ELSE size
Return ==
    /\ \/ pc = "open"
       \/ pc = "flush" /\ (available = 0 \/ ~ReadsRest)
    /\ pc' = IF memory /\ header /\ ~audio THEN "crashed" ELSE "idle"
    /\ audio' = FALSE
    /\ result' = IF memory /\ pc' = "idle"
                   THEN [size |-> size, data |-> DataBytes] ELSE result
    /\ UNCHANGED <<callVars, size, capacity, stop, available, writes, made, heard>>

(***************************************************************************)
(* The specification.                                                      *)
(***************************************************************************)
Init ==
    /\ pc = "idle" /\ memory = FALSE /\ header = FALSE /\ audio = FALSE
    /\ size = 0 /\ capacity = 0 /\ stop = FALSE
    /\ stream = FALSE /\ speed = FALSE /\ available = 0
    /\ writes = 0 /\ made = 0 /\ heard = 0
    /\ result = [size |-> 0, data |-> 0]
    /\ calls = 0

Next ==
    \/ \E m \in BOOLEAN : BstSpeakAsync(m) \/ \E h \in BOOLEAN : BstSpeak(h, m)
    \/ WaveOutOpen
    \/ \E len \in 0..MaxLength : WaveOutWrite(len)
    \/ WaveOutClose \/ FlushPiece \/ Return

Spec == Init /\ [][Next]_vars

(***************************************************************************)
(* Properties.                                                             *)
(***************************************************************************)
TypeOK ==
    /\ pc \in {"idle", "open", "playing", "flush", "crashed"}
    /\ memory \in BOOLEAN /\ header \in BOOLEAN /\ audio \in BOOLEAN
    /\ size \in Nat /\ capacity \in Nat
    /\ stop \in BOOLEAN /\ stream \in BOOLEAN /\ speed \in BOOLEAN
    /\ available \in Nat /\ writes \in 0..MaxWrites
    /\ made \in Nat /\ heard \in Nat
    /\ result \in [size : Nat, data : Nat]
    /\ calls \in 0..MaxCalls

(* What is stored fits the buffer, although it doubles only once for a     *)
(* piece of sound of any length: true as long as the buffer is at first no *)
(* smaller than the longest piece.                                         *)
LongestPiece == IF Piece < 2 * MaxLength THEN 2 * MaxLength ELSE Piece
InBounds == memory /\ audio => size <= capacity

(* bst_speak returns the sound of its own text, all of it: what the engine *)
(* or Sonic made, the rest that Sonic held back until the device was       *)
(* closed included, and the header counts the same.                        *)
WholeUtterance ==
    pc = "idle" /\ memory =>
        /\ result.data = made
        /\ result.size = IF header THEN HeaderSize + made ELSE made

(* Once the callback has refused, it is not called again for this text,    *)
(* while the rest of the stream is read as well.                           *)
SilentAfterRefusal == [][pc # "idle" /\ stop => heard' = heard]_vars

(* The stream outlives the utterance; nothing of one utterance, finished   *)
(* or refused, is left in it for the next one.                             *)
NothingLeftOver == pc = "idle" => available = 0
===========================================================================

------------------------- MODULE WaveBufferProofs -------------------------
(***************************************************************************)
(* Proofs about WaveBuffer, for any sizes, any engine and any number of    *)
(* calls.                                                                  *)
(***************************************************************************)
EXTENDS WaveBuffer, TLAPS

(* The buffer is large enough at first for whatever is stored at once.     *)
PiecesFit == LongestPiece <= InitialCapacity /\ HeaderSize <= InitialCapacity

(* The buffer never shrinks below its first size, and holds the header.    *)
HeaderRoom == IF header THEN HeaderSize ELSE 0
Sized == memory => HeaderRoom <= size
Room == memory => size <= capacity /\ InitialCapacity <= capacity

(* What is made is stored or still in the stream; a call without a         *)
(* callback is never stopped.                                              *)
Accounted ==
    pc # "idle" /\ memory => ~stop /\ size = HeaderRoom + made - available

(* The flags, and the sizes and counters.                                  *)
Flags ==
    /\ memory \in BOOLEAN /\ header \in BOOLEAN /\ audio \in BOOLEAN
    /\ stop \in BOOLEAN /\ stream \in BOOLEAN /\ speed \in BOOLEAN
Counts ==
    /\ pc \in {"idle", "open", "playing", "flush", "crashed"}
    /\ size \in Nat /\ capacity \in Nat /\ available \in Nat
    /\ writes \in 0..MaxWrites /\ made \in Nat /\ heard \in Nat
    /\ result \in [size : Nat, data : Nat]
    /\ calls \in 0..MaxCalls

Base == Flags /\ Counts /\ Sized
Unopened == pc = "open" => available = 0
Contents == Accounted /\ Unopened /\ NothingLeftOver /\ WholeUtterance

USE SizesAssumption, BoundsAssumption

(***************************************************************************)
(* What a step may store, and what it leaves alone.                        *)
(***************************************************************************)
LEMMA LeastIsLeast ==
    ASSUME NEW m \in Nat, NEW n \in Nat
    PROVE  Least(m, n) \in Nat /\ Least(m, n) <= m /\ Least(m, n) <= n
BY DEF Least

LEMMA OutputKeeps ==
    ASSUME Base, NEW n \in Nat, Output(n), UNCHANGED <<memory, header>>
    PROVE  /\ size' \in Nat /\ capacity' \in Nat
           /\ heard' \in Nat /\ stop' \in BOOLEAN /\ Sized'
           /\ memory => size' = size + n /\ stop' = stop
BY DEF Base, Flags, Counts, Output, Full, Sized, HeaderRoom

LEMMA OutputFits ==
    ASSUME Base, Room, PiecesFit, NEW n \in Nat, n <= LongestPiece,
           Output(n), UNCHANGED memory
    PROVE  Room'
<1>1. CASE ~memory
  BY <1>1 DEF Room
<1>2. CASE memory
  <2>1. /\ size \in Nat /\ capacity \in Nat /\ LongestPiece \in Nat
        /\ InitialCapacity \in Nat
    BY DEF Base, Counts, LongestPiece
  <2>2. /\ size <= capacity /\ InitialCapacity <= capacity /\ n <= capacity
    BY <1>2, <2>1 DEF Room, PiecesFit
  <2>3. /\ size' = size + n
        /\ capacity' = IF size + n >= capacity THEN 2 * capacity ELSE capacity
    BY <1>2 DEF Output, Full
  <2> QED
    BY <2>1, <2>2, <2>3 DEF Room
<1> QED
  BY <1>1, <1>2

LEMMA PiecesShort ==
    ASSUME NEW len \in 0..MaxLength
    PROVE  /\ len <= LongestPiece /\ 2 * len <= LongestPiece
           /\ Piece <= LongestPiece /\ LongestPiece \in Nat
BY DEF LongestPiece

(***************************************************************************)
(* Types, and the header in the buffer.                                    *)
(***************************************************************************)
LEMMA FlagsPreserved ==
    ASSUME Flags, [Next]_vars
    PROVE  Flags'
<1> USE DEF Flags
<1>1. ASSUME NEW m \in BOOLEAN, BstSpeakAsync(m)
      PROVE  Flags'
  BY <1>1, Zenon DEF BstSpeakAsync, Start
<1>2. ASSUME NEW m \in BOOLEAN, NEW h \in BOOLEAN, BstSpeak(h, m)
      PROVE  Flags'
  BY <1>2, Zenon DEF BstSpeak, Start
<1>3. CASE WaveOutOpen
  BY <1>3, Zenon DEF WaveOutOpen, callVars
<1>4. ASSUME NEW len \in 0..MaxLength, WaveOutWrite(len)
      PROVE  Flags'
  <2>1. stop' \in BOOLEAN
    BY <1>4, Zenon DEF WaveOutWrite, ThroughSonic, Passthrough, Output, NoOutput
  <2> QED
    BY <1>4, <2>1, Zenon DEF WaveOutWrite, callVars
<1>5. CASE WaveOutClose
  BY <1>5, Zenon DEF WaveOutClose, callVars, bufferVars
<1>6. CASE FlushPiece
  <2>1. stop' \in BOOLEAN
    BY <1>6, Zenon DEF FlushPiece, Output, NoOutput
  <2> QED
    BY <1>6, <2>1, Zenon DEF FlushPiece, callVars
<1>7. CASE Return
  BY <1>7, Zenon DEF Return, callVars
<1>8. CASE UNCHANGED vars
  BY <1>8, Zenon DEF vars, callVars, bufferVars
<1> QED
  BY <1>1, <1>2, <1>3, <1>4, <1>5, <1>6, <1>7, <1>8 DEF Next

(* What a buffer of the engine stores or hands over: n samples, of which   *)
(* all that is not stored was in the stream or has been made.              *)
LEMMA ThroughSonicOutputs ==
    ASSUME Base, NEW len \in 0..MaxLength, ThroughSonic(len)
    PROVE  \E n \in Nat, k \in Nat :
              /\ Output(n) /\ n <= LongestPiece
              /\ available' \in Nat /\ made' \in Nat
              /\ made' = made + k /\ available' = available + k - n
<1>1. PICK k \in 0..(Stretch * len) :
          LET n == Least(available + k, 2 * len)
          IN  /\ available' = available + k - n
              /\ made' = made + k
              /\ Output(n)
  BY DEF ThroughSonic
<1> DEFINE n == Least(available + k, 2 * len)
<1>2. /\ available' = available + k - n /\ made' = made + k
      /\ Output(n)
  BY <1>1
<1>3. k \in Nat /\ available \in Nat /\ made \in Nat /\ 2 * len \in Nat
  BY <1>1 DEF Base, Counts
<1>4. n \in Nat /\ n <= available + k /\ n <= 2 * len
  <2>1. available + k \in Nat
    BY <1>3
  <2> QED
    BY <1>3, <2>1, LeastIsLeast
<1>5. n <= LongestPiece
  BY <1>3, <1>4, PiecesShort
<1> HIDE DEF n
<1>6. available' \in Nat /\ made' \in Nat
  BY <1>2, <1>3, <1>4
<1> QED
  BY <1>2, <1>3, <1>4, <1>5, <1>6

LEMMA FlushOutputs ==
    ASSUME Base, FlushPiece
    PROVE  \E n \in Nat :
              /\ IF stop THEN NoOutput ELSE Output(n)
              /\ n <= LongestPiece /\ available' \in Nat
              /\ available' = available - n
<1> DEFINE n == Least(available, Piece)
<1>1. n \in Nat /\ n <= available /\ n <= Piece
  BY LeastIsLeast DEF Base, Counts
<1>2. available' = available - n /\ IF stop THEN NoOutput ELSE Output(n)
  BY DEF FlushPiece, Hears
<1> HIDE DEF n
<1>3. n <= LongestPiece
  BY <1>1 DEF LongestPiece
<1> QED
  BY <1>1, <1>2, <1>3 DEF Base, Counts

LEMMA BasePreserved ==
    ASSUME Base, [Next]_vars
    PROVE  Base'
<1> SUFFICES Counts' /\ Sized'
  BY FlagsPreserved DEF Base
<1>1. ASSUME NEW m \in BOOLEAN, BstSpeakAsync(m)
      PROVE  Counts' /\ Sized'
  BY <1>1 DEF BstSpeakAsync, Start, Sized, Base, Counts
<1>2. ASSUME NEW m \in BOOLEAN, NEW h \in BOOLEAN, BstSpeak(h, m)
      PROVE  Counts' /\ Sized'
  BY <1>2 DEF BstSpeak, Start, Sized, HeaderRoom, Base, Counts
<1>3. CASE WaveOutOpen
  BY <1>3 DEF WaveOutOpen, callVars, Sized, HeaderRoom, Base, Counts
<1>4. ASSUME NEW len \in 0..MaxLength, WaveOutWrite(len)
      PROVE  Counts' /\ Sized'
  <2>1. /\ UNCHANGED <<pc, callVars, audio, result>>
        /\ writes < MaxWrites /\ writes' = writes + 1
    BY <1>4 DEF WaveOutWrite
  <2>2. UNCHANGED <<memory, header>>
    BY <2>1 DEF callVars
  <2>3. CASE NoOutput /\ UNCHANGED <<available, made>>
    BY <2>1, <2>3 DEF NoOutput, callVars, Sized, HeaderRoom, Base, Counts
  <2>4. CASE ThroughSonic(len)
    <3>1. PICK n \in Nat : /\ Output(n)
                           /\ available' \in Nat /\ made' \in Nat
      BY <2>4, ThroughSonicOutputs
    <3>2. size' \in Nat /\ capacity' \in Nat /\ heard' \in Nat /\ Sized'
      BY <2>2, <3>1, OutputKeeps
    <3> QED
      BY <2>1, <3>1, <3>2 DEF callVars, Base, Counts
  <2>5. CASE Passthrough(len)
    <3>1. len \in Nat
      OBVIOUS
    <3>2. /\ Output(len) /\ made' = made + len
          /\ UNCHANGED available
      BY <2>5 DEF Passthrough
    <3>3. size' \in Nat /\ capacity' \in Nat /\ heard' \in Nat /\ Sized'
      BY <2>2, <3>1, <3>2, OutputKeeps
    <3> QED
      BY <2>1, <3>1, <3>2, <3>3 DEF callVars, Base, Counts
  <2> QED
    BY <1>4, <2>3, <2>4, <2>5 DEF WaveOutWrite
<1>5. CASE WaveOutClose
  BY <1>5 DEF WaveOutClose, callVars, bufferVars, Sized, HeaderRoom, Base, Counts
<1>6. CASE FlushPiece
  <2>1. PICK n \in Nat : /\ IF stop THEN NoOutput ELSE Output(n)
                         /\ available' \in Nat
    BY <1>6, FlushOutputs
  <2>2. UNCHANGED <<pc, callVars, audio, writes, made, result>>
    BY <1>6 DEF FlushPiece
  <2>3. size' \in Nat /\ capacity' \in Nat /\ heard' \in Nat /\ Sized'
    <3>1. CASE Output(n)
      BY <2>2, <3>1, OutputKeeps DEF callVars
    <3>2. CASE NoOutput
      BY <2>2, <3>2 DEF NoOutput, callVars, Sized, HeaderRoom, Base, Counts
    <3> QED
      BY <2>1, <3>1, <3>2
  <2> QED
    BY <2>1, <2>2, <2>3 DEF callVars, Base, Counts
<1>7. CASE Return
  <2>1. memory => DataBytes \in Nat
    BY DEF DataBytes, Sized, HeaderRoom, Base, Counts
  <2> QED
    BY <1>7, <2>1 DEF Return, callVars, Sized, HeaderRoom, Base, Counts
<1>8. CASE UNCHANGED vars
  BY <1>8 DEF vars, callVars, bufferVars, Sized, HeaderRoom, Base, Counts
<1> QED
  BY <1>1, <1>2, <1>3, <1>4, <1>5, <1>6, <1>7, <1>8 DEF Next

(***************************************************************************)
(* The buffer is large enough.                                             *)
(***************************************************************************)
LEMMA RoomPreserved ==
    ASSUME Base, Room, PiecesFit, [Next]_vars
    PROVE  Room'
<1>1. ASSUME NEW m \in BOOLEAN, BstSpeakAsync(m)
      PROVE  Room'
  BY <1>1 DEF BstSpeakAsync, Room
<1>2. ASSUME NEW m \in BOOLEAN, NEW h \in BOOLEAN, BstSpeak(h, m)
      PROVE  Room'
  BY <1>2 DEF BstSpeak, Room, PiecesFit
<1>3. ASSUME NEW len \in 0..MaxLength, WaveOutWrite(len)
      PROVE  Room'
  <2>1. UNCHANGED memory
    BY <1>3 DEF WaveOutWrite, callVars
  <2>2. CASE NoOutput
    BY <2>1, <2>2 DEF NoOutput, Room
  <2>3. CASE ThroughSonic(len)
    BY <2>1, <2>3, ThroughSonicOutputs, OutputFits
  <2>4. CASE Passthrough(len)
    BY <2>1, <2>4, PiecesShort, OutputFits DEF Passthrough
  <2> QED
    BY <1>3, <2>2, <2>3, <2>4 DEF WaveOutWrite
<1>4. CASE FlushPiece
  <2>1. UNCHANGED memory
    BY <1>4 DEF FlushPiece, callVars
  <2>2. PICK n \in Nat : /\ IF stop THEN NoOutput ELSE Output(n)
                         /\ n <= LongestPiece
    BY <1>4, FlushOutputs
  <2>3. CASE NoOutput
    BY <2>1, <2>3 DEF NoOutput, Room
  <2>4. CASE Output(n)
    BY <2>1, <2>2, <2>4, OutputFits
  <2> QED
    BY <2>2, <2>3, <2>4
<1>5. CASE WaveOutOpen \/ WaveOutClose \/ Return \/ UNCHANGED vars
  BY <1>5 DEF WaveOutOpen, WaveOutClose, Return, vars, callVars, bufferVars, Room
<1> QED
  BY <1>1, <1>2, <1>3, <1>4, <1>5 DEF Next

(***************************************************************************)
(* What has been made is accounted for.                                    *)
(***************************************************************************)
LEMMA ContentsPreserved ==
    ASSUME Base, Contents, [Next]_vars
    PROVE  Contents'
<1> USE DEF Contents, Accounted, Unopened, NothingLeftOver, WholeUtterance
<1>1. ASSUME NEW m \in BOOLEAN, BstSpeakAsync(m)
      PROVE  Contents'
  BY <1>1 DEF BstSpeakAsync, Start
<1>2. ASSUME NEW m \in BOOLEAN, NEW h \in BOOLEAN, BstSpeak(h, m)
      PROVE  Contents'
  BY <1>2 DEF BstSpeak, Start, HeaderRoom, Base, Counts
<1>3. CASE WaveOutOpen
  BY <1>3 DEF WaveOutOpen, callVars, HeaderRoom
<1>4. ASSUME NEW len \in 0..MaxLength, WaveOutWrite(len)
      PROVE  Contents'
  <2>1. /\ pc = "playing" /\ pc' = "playing"
        /\ UNCHANGED <<memory, header, HeaderRoom>>
    BY <1>4 DEF WaveOutWrite, callVars, HeaderRoom
  <2>2. SUFFICES ASSUME memory
                 PROVE  /\ ~stop'
                        /\ size' = HeaderRoom + made' - available'
    BY <2>1
  <2>3. ~stop /\ size = HeaderRoom + made - available
    BY <2>1, <2>2
  <2>4. /\ size \in Nat /\ made \in Nat /\ available \in Nat
        /\ HeaderRoom \in Nat
    BY DEF Base, Counts, HeaderRoom
  <2>5. CASE ThroughSonic(len)
    <3>1. PICK n \in Nat, k \in Nat :
              /\ Output(n)
              /\ made' = made + k /\ available' = available + k - n
      BY <2>5, ThroughSonicOutputs
    <3>2. size' = size + n /\ stop' = stop
      BY <2>1, <2>2, <3>1, OutputKeeps
    <3>3. size' = HeaderRoom + made' - available'
      BY <2>3, <2>4, <3>1, <3>2
    <3> QED
      BY <2>3, <3>2, <3>3
  <2>6. CASE Passthrough(len)
    <3>1. len \in Nat
      OBVIOUS
    <3>2. Output(len) /\ made' = made + len /\ available' = available
      BY <2>6 DEF Passthrough
    <3>3. size' = size + len /\ stop' = stop
      BY <2>1, <2>2, <3>1, <3>2, OutputKeeps
    <3>4. size' = HeaderRoom + made' - available'
      BY <2>3, <2>4, <3>1, <3>2, <3>3
    <3> QED
      BY <2>3, <3>3, <3>4
  <2> QED
    BY <1>4, <2>3, <2>5, <2>6 DEF WaveOutWrite
<1>5. CASE WaveOutClose
  BY <1>5 DEF WaveOutClose, callVars, bufferVars, HeaderRoom, Base, Counts
<1>6. CASE FlushPiece
  <2>1. /\ pc = "flush" /\ pc' = "flush"
        /\ UNCHANGED <<memory, header, made, HeaderRoom>>
    BY <1>6 DEF FlushPiece, callVars, HeaderRoom
  <2>2. SUFFICES ASSUME memory
                 PROVE  /\ ~stop'
                        /\ size' = HeaderRoom + made' - available'
    BY <2>1
  <2>3. ~stop /\ size = HeaderRoom + made - available
    BY <2>1, <2>2
  <2>4. /\ size \in Nat /\ made \in Nat /\ available \in Nat
        /\ HeaderRoom \in Nat
    BY DEF Base, Counts, HeaderRoom
  <2>5. PICK n \in Nat : Output(n) /\ available' = available - n
    BY <1>6, <2>3, FlushOutputs
  <2>6. size' = size + n /\ stop' = stop
    BY <2>1, <2>2, <2>5, OutputKeeps
  <2> QED
    BY <2>1, <2>3, <2>4, <2>5, <2>6
<1>7. CASE Return
  <2>1. /\ pc # "idle" /\ pc' \in {"idle", "crashed"} /\ available = 0 /\ available' = 0
        /\ UNCHANGED <<memory, header, size, stop, made, HeaderRoom>>
        /\ memory /\ pc' = "idle" => result' = [size |-> size, data |-> DataBytes]
    BY <1>7 DEF Return, ReadsRest, callVars, HeaderRoom
  <2>2. size \in Nat /\ made \in Nat /\ HeaderRoom \in Nat
    BY DEF Base, Counts, HeaderRoom
  <2>3. ASSUME memory, pc' = "idle"
        PROVE  /\ result'.data = made
               /\ result'.size = IF header THEN HeaderSize + made ELSE made
    <3>1. size = HeaderRoom + made
      BY <2>1, <2>2, <2>3
    <3> QED
      BY <2>1, <2>2, <2>3, <3>1 DEF DataBytes, HeaderRoom
  <2> QED
    BY <2>1, <2>3
<1>8. CASE UNCHANGED vars
  BY <1>8 DEF vars, callVars, bufferVars, HeaderRoom
<1> QED
  BY <1>1, <1>2, <1>3, <1>4, <1>5, <1>6, <1>7, <1>8 DEF Next

(***************************************************************************)
(* The theorems.                                                           *)
(***************************************************************************)
LEMMA InitOK == Init => Base /\ Contents /\ Room
<1> SUFFICES ASSUME Init
             PROVE  Base /\ Contents /\ Room
  OBVIOUS
<1>1. Flags
  BY DEF Init, Flags
<1>2. Counts
  BY DEF Init, Counts
<1>3. Sized /\ Room /\ Contents
  BY DEF Init, Sized, Room, Contents, Accounted, Unopened, NothingLeftOver, WholeUtterance
<1> QED
  BY <1>1, <1>2, <1>3 DEF Base

LEMMA BaseAlways == Spec => []Base
<1>1. Init => Base
  BY InitOK
<1>2. Base /\ [Next]_vars => Base'
  BY BasePreserved
<1> QED
  BY <1>1, <1>2, PTL DEF Spec

(* Whatever the engine, Sonic and the callers do, sizes and counters stay  *)
(* numbers: the header's data_bytes is never negative.                     *)
THEOREM TypeCorrect == Spec => []TypeOK
<1>1. Base => TypeOK
  BY DEF Base, Flags, Counts, TypeOK
<1> QED
  BY <1>1, BaseAlways, PTL

(* waveOutput doubles the buffer once however long the sound: what it      *)
(* stores fits all the same, if the first size is no smaller than the      *)
(* longest piece of sound.                                                 *)
THEOREM NeverOverruns == ASSUME PiecesFit PROVE Spec => []InBounds
<1>1. Init => Room
  BY InitOK
<1>2. Base /\ Room /\ [Next]_vars => Room'
  BY RoomPreserved
<1>3. Room => InBounds
  BY DEF Room, InBounds
<1> QED
  BY <1>1, <1>2, <1>3, BaseAlways, PTL DEF Spec

(* bst_speak returns the whole sound of its own text, with a header that   *)
(* counts it, and no call leaves sound in the stream for the next one.     *)
THEOREM ReturnsItsOwn == Spec => [](WholeUtterance /\ NothingLeftOver)
<1>1. Init => Contents
  BY InitOK
<1>2. Base /\ Contents /\ [Next]_vars => Contents'
  BY ContentsPreserved
<1>3. Contents => WholeUtterance /\ NothingLeftOver
  BY DEF Contents
<1> QED
  BY <1>1, <1>2, <1>3, BaseAlways, PTL DEF Spec

(* A callback that has refused is left alone to the end of its call, by    *)
(* the hook of waveOutWrite and by the flush of waveOutClose.              *)
THEOREM RefusalIsFinal == Spec => SilentAfterRefusal
<1>1. [Next]_vars => [pc # "idle" /\ stop => heard' = heard]_vars
  <2>1. SUFFICES ASSUME [Next]_vars, pc # "idle", stop
                 PROVE  heard' = heard
    OBVIOUS
  <2>2. ASSUME NEW len \in 0..MaxLength, WaveOutWrite(len)
        PROVE  heard' = heard
    BY <2>1, <2>2 DEF WaveOutWrite, NoOutput
  <2>3. CASE FlushPiece
    BY <2>1, <2>3 DEF FlushPiece, Hears, NoOutput
  <2> QED
    BY <2>1, <2>2, <2>3 DEF Next, BstSpeak, BstSpeakAsync, Start, WaveOutOpen,
       WaveOutClose, Return, vars
<1> QED
  BY <1>1, PTL DEF Spec, SilentAfterRefusal
============================================================================

----------------------- MODULE RandomBufferAgentProofs -----------------------
(***************************************************************************)
(* What holds of the buffering agent for every buffer size, every keystream*)
(* and every sequence of calls: the types, the bound on the filler's lead, *)
(* the fate of every byte, and that the agent is a RandomEngine.           *)
(***************************************************************************)
EXTENDS RandomBufferAgent, KeystreamsProofs

\* What the client knows of its call.
ClientInv ==
  /\ reading <= remaining
  /\ reading <= Len(output)
  /\ client # "copied" => reading = 0
  /\ client = "wait" => remaining > 0
  /\ InCall => position + Len(output) + remaining - reading <= MaxBytes
  /\ ~InCall => /\ remaining = 0
                /\ Len(output) <= position
                /\ position <= MaxBytes
  /\ output = Segment(Keystream,
                      IF InCall THEN position ELSE position - Len(output),
                      Len(output))

\* What the filler knows of its chunk and of the destructor.
FillerInv ==
  /\ filler # "publish" => chunk = <<>>
  /\ filler = "exited" => stop
  /\ client = "destroyed" => filler = "exited"

\* What the buffer holds: the bytes drawn and not freed by a read, in order.
BufferInv ==
  /\ Len(buffer) + Len(chunk) <= BufferSize
  /\ reading <= Len(buffer)
  /\ drawn <= Given + BufferSize
  /\ client = "destroyed" => buffer = <<>>
  /\ client # "destroyed" =>
       /\ drawn = Given - reading + Len(buffer) + Len(chunk)
       /\ buffer = Segment(Keystream, Given - reading, Len(buffer))
       /\ chunk = Segment(Keystream, drawn - Len(chunk), Len(chunk))

IInv == TypeOK /\ ClientInv /\ FillerInv /\ BufferInv

-----------------------------------------------------------------------------
(* The bytes of a segment that ends within the bounds are of type Byte.    *)
LEMMA SegmentOfByte ==
  ASSUME NEW from \in Nat, NEW n \in Nat,
         from + n <= MaxBytes + BufferSize
  PROVE  /\ Segment(Keystream, from, n) \in Seq(Byte)
         /\ Len(Segment(Keystream, from, n)) = n
<1>1. \A i \in from..(from + n - 1) : Keystream[i] \in Byte
  <2> TAKE i \in from..(from + n - 1)
  <2>1. i \in 0..(MaxBytes + BufferSize) BY AgentAssumption
  <2> QED BY <2>1 DEF Byte
<1> QED BY <1>1, SegmentIsSeq

(* The constructor establishes the invariant.                              *)
LEMMA InitInv == Init => IInv
<1> SUFFICES ASSUME Init PROVE IInv OBVIOUS
<1> USE DEF Init
<1>1. <<>> \in Seq(Byte) /\ Len(<<>>) = 0 OBVIOUS
<1>2. Segment(Keystream, 0, 0) = <<>> BY SegmentEmpty
<1>3. TypeOK BY <1>1 DEF TypeOK
<1>4. ClientInv BY <1>1, <1>2, AgentAssumption DEF ClientInv, InCall
<1>5. FillerInv BY DEF FillerInv
<1>6. BufferInv
  BY <1>1, <1>2, AgentAssumption DEF BufferInv, Given, InCall
<1> QED BY <1>3, <1>4, <1>5, <1>6 DEF IInv

(* The core engine fills free space only, and continues its keystream.     *)
LEMMA WriteFillInv == IInv /\ WriteFill => IInv'
<1> SUFFICES ASSUME IInv, WriteFill PROVE IInv' OBVIOUS
<1> USE AgentAssumption
<1>1. PICK n \in 1..FreeSpace : /\ chunk' = Segment(Keystream, drawn, n)
                                /\ drawn' = drawn + n
  BY DEF WriteFill
<1>2. chunk = <<>> /\ Len(chunk) = 0
  BY DEF IInv, FillerInv, WriteFill
<1>3. n \in Nat /\ n <= BufferSize - Len(buffer) /\ Len(buffer) \in Nat
  BY <1>1, <1>2 DEF FreeSpace, IInv, TypeOK
<1>4. /\ UNCHANGED <<buffer, reading, stop, client, remaining, output,
                     position>>
      /\ filler = "write" /\ filler' = "publish"
  BY DEF WriteFill, clientVars
<1>5. Given' = Given /\ Given \in Nat /\ (InCall' <=> InCall)
  BY <1>4 DEF Given, InCall, IInv, TypeOK
<1>6. client # "destroyed" BY <1>4 DEF IInv, FillerInv
<1>7. drawn = Given - reading + Len(buffer) /\ Given - reading <= MaxBytes
  BY <1>2, <1>5, <1>6 DEF IInv, BufferInv, ClientInv, Given, TypeOK
<1>8. chunk' \in Seq(Byte) /\ Len(chunk') = n
  <2>1. drawn \in Nat /\ drawn + n <= MaxBytes + BufferSize
    BY <1>3, <1>5, <1>7 DEF IInv, TypeOK
  <2> QED BY <2>1, <1>1, <1>3, SegmentOfByte
<1>9. TypeOK' BY <1>1, <1>3, <1>4, <1>8 DEF IInv, TypeOK
<1>10. ClientInv' BY <1>4, <1>5 DEF IInv, ClientInv
<1>11. FillerInv' BY <1>4, <1>6 DEF FillerInv
<1>12. BufferInv'
  <2>1. drawn' = Given' - reading' + Len(buffer') + Len(chunk')
    BY <1>1, <1>3, <1>4, <1>5, <1>7, <1>8 DEF IInv, TypeOK
  <2>2. drawn' - Len(chunk') = drawn
    BY <1>1, <1>3, <1>8 DEF IInv, TypeOK
  <2> QED BY <2>1, <2>2, <1>1, <1>3, <1>4, <1>5, <1>6, <1>7, <1>8, SMTT(30)
          DEF IInv, BufferInv, TypeOK
<1> QED BY <1>9, <1>10, <1>11, <1>12 DEF IInv

(* Publishing joins the chunk to what is in the buffer.                    *)
LEMMA WritePublishInv == IInv /\ WritePublish => IInv'
<1> SUFFICES ASSUME IInv, WritePublish PROVE IInv' OBVIOUS
<1> USE AgentAssumption
<1>1. /\ UNCHANGED <<drawn, reading, stop, client, remaining, output, position>>
      /\ buffer' = buffer \o chunk /\ chunk' = <<>>
      /\ filler = "publish" /\ filler' \in {"write", "wait"}
  BY DEF WritePublish, clientVars
<1>2. client # "destroyed" BY <1>1 DEF IInv, FillerInv
<1>3. Given' = Given /\ Given \in Nat /\ (InCall' <=> InCall)
  BY <1>1 DEF Given, InCall, IInv, TypeOK
<1>4. /\ buffer \in Seq(Byte) /\ chunk \in Seq(Byte)
      /\ Len(buffer) \in Nat /\ Len(chunk) \in Nat /\ drawn \in Nat
      /\ reading \in Nat
  BY DEF IInv, TypeOK
<1>5. /\ buffer' \in Seq(Byte) /\ Len(buffer') = Len(buffer) + Len(chunk)
      /\ chunk' \in Seq(Byte) /\ Len(chunk') = 0
  BY <1>1, <1>4, ConcatProperties
<1>6. Given - reading \in Nat
  BY <1>1, <1>3 DEF IInv, ClientInv, Given, TypeOK
<1>7. buffer' = Segment(Keystream, Given - reading, Len(buffer'))
  <2> DEFINE base == Given - reading
  <2>1. /\ buffer = Segment(Keystream, Given - reading, Len(buffer))
        /\ chunk = Segment(Keystream, drawn - Len(chunk), Len(chunk))
        /\ drawn - Len(chunk) = (Given - reading) + Len(buffer)
    BY <1>2, <1>3, <1>4 DEF IInv, BufferInv
  <2>2. base \in Nat BY <1>6
  <2> HIDE DEF base
  <2>3. Segment(Keystream, base, Len(buffer))
          \o Segment(Keystream, base + Len(buffer), Len(chunk))
        = Segment(Keystream, base, Len(buffer) + Len(chunk))
    BY ONLY <2>2, <1>4, SegmentConcat, ZenonT(30)
  <2> QED BY <2>1, <2>3, <1>1, <1>5 DEF base
<1>8. chunk' = Segment(Keystream, drawn' - Len(chunk'), Len(chunk'))
  BY <1>1, <1>4, <1>5, SegmentEmpty
<1>9. TypeOK' BY <1>1, <1>5 DEF IInv, TypeOK
<1>10. ClientInv' BY <1>1, <1>3 DEF IInv, ClientInv
<1>11. FillerInv' BY <1>1, <1>2 DEF IInv, FillerInv
<1>12. BufferInv'
  BY <1>1, <1>2, <1>3, <1>4, <1>5, <1>7, <1>8 DEF IInv, BufferInv
<1> QED BY <1>9, <1>10, <1>11, <1>12 DEF IInv

(* The other steps of the filler move no bytes.                            *)
LEMMA FillerLoopInv ==
  IInv /\ (WriteFull \/ SpaceAvailable \/ GracefulStop) => IInv'
<1> SUFFICES ASSUME IInv, WriteFull \/ SpaceAvailable \/ GracefulStop
             PROVE  IInv'
  OBVIOUS
<1>1. /\ UNCHANGED <<drawn, buffer, chunk, reading, stop, client, remaining,
                     output, position>>
      /\ filler \in {"write", "wait"}
      /\ filler' \in {"write", "wait", "exited"}
      /\ filler' = "exited" => stop
  BY DEF WriteFull, SpaceAvailable, GracefulStop, clientVars
<1>2. Given' = Given /\ (InCall' <=> InCall) BY <1>1 DEF Given, InCall
<1>3. TypeOK' BY <1>1 DEF IInv, TypeOK
<1>4. ClientInv' BY <1>1, <1>2 DEF IInv, ClientInv
<1>5. FillerInv' BY <1>1 DEF IInv, FillerInv
<1>6. BufferInv' BY <1>1, <1>2 DEF IInv, BufferInv
<1> QED BY <1>3, <1>4, <1>5, <1>6 DEF IInv

(* A new call starts where the last one ended.                             *)
LEMMA FillBytesInv ==
  ASSUME NEW n \in 0..MaxRequest, IInv, FillBytes(n)
  PROVE  IInv'
<1> USE AgentAssumption
<1>1. /\ UNCHANGED <<drawn, buffer, chunk, filler, reading, stop, position>>
      /\ client = "idle" /\ client' = "read"
      /\ remaining' = n /\ output' = <<>> /\ position + n <= MaxBytes
  BY FillBytes(n) DEF FillBytes, fillerVars
<1>2. output' \in Seq(Byte) /\ Len(output') = 0 BY <1>1
<1>3. position \in Nat /\ reading = 0 /\ n \in Nat
  BY <1>1, IInv DEF IInv, TypeOK, ClientInv
<1>4. Given' = Given /\ ~InCall /\ InCall'
  BY <1>1, <1>2, <1>3 DEF Given, InCall
<1>5. output' = Segment(Keystream, position, 0)
  BY <1>1, <1>3, SegmentEmpty
<1>6. TypeOK' BY <1>1, <1>2, <1>3, IInv DEF IInv, TypeOK
<1>7. ClientInv' BY <1>1, <1>2, <1>3, <1>4, <1>5 DEF ClientInv
<1>8. FillerInv' BY <1>1, IInv DEF IInv, FillerInv
<1>9. BufferInv' BY <1>1, <1>4, IInv DEF IInv, BufferInv
<1> QED BY <1>6, <1>7, <1>8, <1>9 DEF IInv

(* A read takes the oldest bytes of the buffer: they continue the output.  *)
LEMMA ReadCopyInv == IInv /\ ReadCopy => IInv'
<1> SUFFICES ASSUME IInv, ReadCopy PROVE IInv' OBVIOUS
<1> USE AgentAssumption
<1>1. PICK k \in 0..Least(remaining, Len(buffer)) :
        reading' = k /\ output' = output \o SubSeq(buffer, 1, k)
  BY DEF ReadCopy
<1>2. /\ UNCHANGED <<drawn, buffer, chunk, filler, stop, remaining, position>>
      /\ client = "read" /\ client' = "copied"
  BY DEF ReadCopy, fillerVars
<1>3. /\ InCall /\ InCall' /\ reading = 0
      /\ Given = position + Len(output) /\ Given' = position + Len(output')
  BY <1>2 DEF InCall, Given, IInv, ClientInv
<1>4. /\ Len(buffer) \in Nat /\ Len(output) \in Nat /\ remaining \in Nat
      /\ position \in Nat /\ drawn \in Nat /\ Given \in Nat
  BY <1>3 DEF IInv, TypeOK
<1>5. k \in Nat /\ k <= remaining /\ k <= Len(buffer)
  BY <1>1, <1>4 DEF Least
<1>6. SubSeq(buffer, 1, k) = Segment(Keystream, Given, k)
  <2>1. buffer = Segment(Keystream, Given, Len(buffer))
    <3>1. Given - reading = Given BY <1>3, <1>4
    <3> QED BY <3>1, <1>2 DEF IInv, BufferInv
  <2>2. k \in 0..Len(buffer) BY <1>4, <1>5
  <2>3. SubSeq(Segment(Keystream, Given, Len(buffer)), 1, k)
        = Segment(Keystream, Given, k)
    BY ONLY <2>2, <1>4, SegmentSplit
  <2> QED BY <2>1, <2>3
<1>7. output' = Segment(Keystream, position, Len(output) + k)
  <2>1. output = Segment(Keystream, position, Len(output))
    BY <1>3 DEF IInv, ClientInv
  <2>2. Segment(Keystream, position, Len(output))
          \o Segment(Keystream, position + Len(output), k)
        = Segment(Keystream, position, Len(output) + k)
    <3>1. position \in Nat /\ Len(output) \in Nat /\ k \in Nat BY <1>4, <1>5
    <3> QED BY ONLY <3>1, SegmentConcat, ZenonT(30)
  <2> QED BY <2>1, <2>2, <1>1, <1>3, <1>6
<1>8. output' \in Seq(Byte) /\ Len(output') = Len(output) + k
  <2>1. /\ Len(output) + k \in Nat
        /\ position + (Len(output) + k) <= MaxBytes + BufferSize
    BY <1>3, <1>4, <1>5 DEF IInv, ClientInv
  <2> QED BY <2>1, <1>4, <1>7, SegmentOfByte
<1>9. Given' - reading' = Given - reading
  BY <1>1, <1>3, <1>4, <1>5, <1>8
<1>10. TypeOK' BY <1>1, <1>2, <1>5, <1>8 DEF IInv, TypeOK
<1>11. ClientInv'
  <2>1. /\ reading' <= remaining' /\ reading' <= Len(output')
        /\ position' + Len(output') + remaining' - reading' <= MaxBytes
    BY <1>1, <1>2, <1>3, <1>4, <1>5, <1>8 DEF IInv, ClientInv
  <2>2. output' = Segment(Keystream, position', Len(output'))
    BY <1>2, <1>7, <1>8
  <2> QED BY <2>1, <2>2, <1>2, <1>3 DEF ClientInv
<1>12. FillerInv' BY <1>2 DEF IInv, FillerInv
<1>13. BufferInv'
  <2>1. drawn' <= Given' + BufferSize
    BY <1>2, <1>3, <1>4, <1>5, <1>8 DEF IInv, BufferInv
  <2> QED BY <2>1, <1>1, <1>2, <1>5, <1>9 DEF IInv, BufferInv
<1> QED BY <1>10, <1>11, <1>12, <1>13 DEF IInv

(* Freeing what was read leaves the rest of the buffer, still in order.    *)
LEMMA ReadReturnInv == IInv /\ ReadReturn => IInv'
<1> SUFFICES ASSUME IInv, ReadReturn PROVE IInv' OBVIOUS
<1> USE AgentAssumption
<1>1. /\ UNCHANGED <<drawn, chunk, filler, stop, output>>
      /\ client = "copied" /\ reading' = 0
      /\ buffer' = SubSeq(buffer, reading + 1, Len(buffer))
      /\ remaining' = remaining - reading
      /\ \/ /\ reading >= remaining
            /\ client' = "idle"
            /\ position' = position + Len(output)
         \/ /\ reading < remaining
            /\ client' = "wait"
            /\ position' = position
  BY DEF ReadReturn, fillerVars
<1>2. /\ Len(buffer) \in Nat /\ Len(output) \in Nat /\ remaining \in Nat
      /\ position \in Nat /\ drawn \in Nat /\ reading \in Nat
      /\ Len(chunk) \in Nat
  BY DEF IInv, TypeOK
<1>3. /\ InCall /\ Given = position + Len(output) /\ Given' = Given
      /\ reading <= remaining /\ reading <= Len(buffer)
      /\ Given - reading \in Nat /\ Given \in Nat
      /\ Given + remaining - reading <= MaxBytes
  BY <1>1, <1>2 DEF InCall, Given, IInv, ClientInv, BufferInv
<1>4. /\ buffer' = Segment(Keystream, Given, Len(buffer) - reading)
      /\ Len(buffer) - reading \in Nat
  <2> DEFINE base == Given - reading
  <2>1. buffer = Segment(Keystream, base, Len(buffer))
    BY <1>1 DEF IInv, BufferInv
  <2>2. /\ base \in Nat /\ reading \in 0..Len(buffer)
        /\ base + reading = Given /\ Len(buffer) - reading \in Nat
    BY <1>2, <1>3
  <2> HIDE DEF base
  <2>3. SubSeq(Segment(Keystream, base, Len(buffer)), reading + 1, Len(buffer))
        = Segment(Keystream, base + reading, Len(buffer) - reading)
    BY ONLY <1>2, <2>2, SegmentSplit, ZenonT(30)
  <2> QED BY <1>1, <2>1, <2>2, <2>3
<1>5. drawn = Given - reading + Len(buffer) + Len(chunk)
  BY <1>1 DEF IInv, BufferInv
<1>6. buffer' \in Seq(Byte) /\ Len(buffer') = Len(buffer) - reading
  <2>1. Given + (Len(buffer) - reading) <= MaxBytes + BufferSize
    BY <1>2, <1>3 DEF IInv, BufferInv
  <2> QED BY <2>1, <1>3, <1>4, SegmentOfByte
<1>7. TypeOK' BY <1>1, <1>2, <1>3, <1>6 DEF IInv, TypeOK
<1>8. ClientInv'
  <2>1. CASE client' = "idle"
    <3>1. /\ ~InCall' /\ position' = position + Len(output)
          /\ reading = remaining
      BY <2>1, <1>1, <1>2, <1>3 DEF InCall
    <3>2. position' - Len(output') = position BY <3>1, <1>1, <1>2
    <3> QED BY <2>1, <3>1, <3>2, <1>1, <1>2, <1>3 DEF IInv, ClientInv
  <2>2. CASE client' = "wait"
    <3>1. InCall' /\ position' = position /\ reading < remaining
      BY <2>2, <1>1 DEF InCall
    <3> QED BY <2>2, <3>1, <1>1, <1>2, <1>3 DEF IInv, ClientInv
  <2> QED BY <2>1, <2>2, <1>1
<1>9. FillerInv' BY <1>1 DEF IInv, FillerInv
<1>10. BufferInv'
  <2>1. /\ Len(buffer') + Len(chunk') <= BufferSize
        /\ reading' <= Len(buffer')
        /\ drawn' <= Given' + BufferSize
        /\ drawn' = Given' - reading' + Len(buffer') + Len(chunk')
    <3>1. Len(buffer) + Len(chunk) <= BufferSize /\ drawn <= Given + BufferSize
      BY DEF IInv, BufferInv
    <3>2. /\ Len(chunk') = Len(chunk) /\ Given' = Given /\ drawn' = drawn
          /\ reading' = 0 /\ Len(buffer') = Len(buffer) - reading
      BY <1>1, <1>3, <1>6
    <3>3. reading <= Len(buffer) /\ Given \in Nat BY <1>3
    <3> QED BY ONLY <3>1, <3>2, <3>3, <1>2, <1>5, AgentAssumption
  <2>2. buffer' = Segment(Keystream, Given' - reading', Len(buffer'))
    <3>1. Given' - reading' = Given BY <1>1, <1>3
    <3> QED BY <3>1, <1>4, <1>6
  <2>3. chunk' = Segment(Keystream, drawn' - Len(chunk'), Len(chunk'))
    BY <1>1 DEF IInv, BufferInv
  <2>4. client' # "destroyed" BY <1>1
  <2> QED BY <2>1, <2>2, <2>3, <2>4 DEF BufferInv
<1> QED BY <1>7, <1>8, <1>9, <1>10 DEF IInv

(* Waiting for data, and the destructor up to the join, move no bytes.     *)
LEMMA ClientWaitInv == IInv /\ (DataAvailable \/ Destroy) => IInv'
<1> SUFFICES ASSUME IInv, DataAvailable \/ Destroy PROVE IInv' OBVIOUS
<1>1. /\ UNCHANGED <<drawn, buffer, chunk, filler, reading, remaining, output,
                     position>>
      /\ \/ client = "wait" /\ client' = "read" /\ stop' = stop
         \/ client = "idle" /\ client' = "join" /\ stop' = TRUE
  BY DEF DataAvailable, Destroy, fillerVars
<1>2. Given' = Given /\ (InCall' <=> InCall) BY <1>1 DEF Given, InCall
<1>3. TypeOK' BY <1>1 DEF IInv, TypeOK
<1>4. ClientInv' BY <1>1, <1>2 DEF IInv, ClientInv
<1>5. FillerInv' BY <1>1 DEF IInv, FillerInv
<1>6. BufferInv' BY <1>1, <1>2 DEF IInv, BufferInv
<1> QED BY <1>3, <1>4, <1>5, <1>6 DEF IInv

(* The buffer is destroyed with the filler gone.                           *)
LEMMA JoinInv == IInv /\ Join => IInv'
<1> SUFFICES ASSUME IInv, Join PROVE IInv' OBVIOUS
<1>1. /\ UNCHANGED <<drawn, chunk, filler, reading, stop, remaining, output,
                     position>>
      /\ client = "join" /\ client' = "destroyed" /\ filler = "exited"
      /\ buffer' = <<>>
  BY DEF Join, fillerVars
<1>2. Given' = Given /\ ~InCall /\ ~InCall' BY <1>1 DEF Given, InCall
<1>3. /\ buffer' \in Seq(Byte) /\ Len(buffer') = 0 /\ Len(buffer) \in Nat
      /\ Len(chunk) \in Nat /\ reading = 0
  BY <1>1 DEF IInv, TypeOK, ClientInv
<1>4. TypeOK' BY <1>1, <1>3 DEF IInv, TypeOK
<1>5. ClientInv' BY <1>1, <1>2, <1>3 DEF IInv, ClientInv
<1>6. FillerInv' BY <1>1 DEF IInv, FillerInv
<1>7. BufferInv'
  BY <1>1, <1>2, <1>3, AgentAssumption DEF IInv, BufferInv
<1> QED BY <1>4, <1>5, <1>6, <1>7 DEF IInv

(* Steps that change nothing.                                              *)
LEMMA StutterInv == IInv /\ UNCHANGED vars => IInv'
<1> SUFFICES ASSUME IInv, UNCHANGED vars PROVE IInv' OBVIOUS
<1> USE DEF vars
<1>1. Given' = Given /\ (InCall' <=> InCall) BY DEF Given, InCall
<1>2. TypeOK' BY DEF IInv, TypeOK
<1>3. ClientInv' BY <1>1 DEF IInv, ClientInv
<1>4. FillerInv' BY DEF IInv, FillerInv
<1>5. BufferInv' BY <1>1 DEF IInv, BufferInv
<1> QED BY <1>2, <1>3, <1>4, <1>5 DEF IInv

LEMMA NextInv == IInv /\ [Next]_vars => IInv'
<1> SUFFICES ASSUME IInv, [Next]_vars PROVE IInv' OBVIOUS
<1>1. CASE Filler
  BY <1>1, WriteFillInv, WritePublishInv, FillerLoopInv DEF Filler
<1>2. CASE \E n \in 0..MaxRequest : FillBytes(n) BY <1>2, FillBytesInv
<1>3. CASE Serve
  BY <1>3, ReadCopyInv, ReadReturnInv, ClientWaitInv DEF Serve
<1>4. CASE Destroy BY <1>4, ClientWaitInv
<1>5. CASE Join BY <1>5, JoinInv
<1>6. CASE Destroyed \/ UNCHANGED vars BY <1>6, StutterInv DEF Destroyed
<1> QED BY <1>1, <1>2, <1>3, <1>4, <1>5, <1>6 DEF Next

(* The inductive invariant holds in every reachable state.                 *)
THEOREM Invariance == Spec => []IInv
<1> QED BY InitInv, NextInv, PTL DEF Spec

-----------------------------------------------------------------------------
(* Every variable of the agent keeps its type, for every buffer size.      *)
THEOREM TypeCorrect == Spec => []TypeOK
<1>1. IInv => TypeOK BY DEF IInv
<1> QED BY <1>1, Invariance, PTL

(* The filler of RandomBufferAgent never draws more than bufferSize bytes  *)
(* ahead of what fillBytes has handed out.                                 *)
THEOREM RunAheadBounded == Spec => []RunAhead
<1>1. IInv => RunAhead BY DEF IInv, BufferInv, RunAhead
<1> QED BY <1>1, Invariance, PTL

(* Between the core engine and the memory of the callers no byte is lost,  *)
(* repeated or reordered, whatever the two threads do in between.          *)
THEOREM NoByteLost == Spec => []InTransit
<1>1. IInv => InTransit
  <2> SUFFICES ASSUME IInv, client # "destroyed"
               PROVE  SubSeq(buffer, reading + 1, Len(buffer)) \o chunk
                        = Segment(Keystream, Given, drawn - Given)
    BY DEF InTransit
  <2> DEFINE base == Given - reading
             rest == Len(buffer) - reading
  <2>1. /\ Len(buffer) \in Nat /\ Len(chunk) \in Nat /\ reading \in Nat
        /\ Given \in Nat /\ drawn \in Nat
    BY DEF IInv, TypeOK, Given
  <2>2. base \in Nat /\ reading <= Len(buffer)
    BY <2>1 DEF IInv, TypeOK, ClientInv, BufferInv, Given
  <2>3. /\ buffer = Segment(Keystream, base, Len(buffer))
        /\ chunk = Segment(Keystream, drawn - Len(chunk), Len(chunk))
        /\ drawn = base + Len(buffer) + Len(chunk)
    BY DEF IInv, BufferInv
  <2>4. /\ base + reading = Given /\ reading \in 0..Len(buffer)
        /\ rest + Len(chunk) = drawn - Given
        /\ drawn - Len(chunk) = Given + rest
    BY <2>1, <2>2, <2>3
  <2>5. rest \in Nat BY <2>1, <2>2
  <2>6. Len(buffer) - reading = rest OBVIOUS
  <2>7. reading \in 0..Len(buffer) BY <2>4
  <2> HIDE DEF base, rest
  <2>8. SubSeq(Segment(Keystream, base, Len(buffer)), reading + 1, Len(buffer))
        = Segment(Keystream, base + reading, Len(buffer) - reading)
    BY ONLY <2>1, <2>2, <2>7, SegmentSplit, ZenonT(30)
  <2>9. Segment(Keystream, Given, rest)
          \o Segment(Keystream, Given + rest, Len(chunk))
        = Segment(Keystream, Given, rest + Len(chunk))
    BY ONLY <2>1, <2>5, SegmentConcat, ZenonT(30)
  <2>10. SubSeq(buffer, reading + 1, Len(buffer)) = Segment(Keystream, Given, rest)
    BY <2>3, <2>4, <2>6, <2>8
  <2> QED BY <2>3, <2>4, <2>9, <2>10
<1> QED BY <1>1, Invariance, PTL

(* After the destructor of RandomBufferAgent has returned, no thread draws *)
(* from the core engine or touches the buffer.                             *)
THEOREM SafeDestruction == Spec => NoUseAfterDestroy
<1>1. IInv /\ [Next]_vars
        => [client = "destroyed" => UNCHANGED <<drawn, chunk, buffer>>]_vars
  <2> SUFFICES ASSUME IInv, Next, client = "destroyed"
               PROVE  UNCHANGED <<drawn, chunk, buffer>>
    OBVIOUS
  <2>1. filler = "exited" BY DEF IInv, FillerInv
  <2> QED
    BY <2>1 DEF Next, Filler, WriteFill, WritePublish, WriteFull,
       SpaceAvailable, GracefulStop, FillBytes, Serve, ReadCopy, ReadReturn,
       DataAvailable, Destroy, Join, Destroyed, vars
<1> QED BY <1>1, Invariance, PTL DEF Spec, NoUseAfterDestroy

-----------------------------------------------------------------------------
(* Every step of the agent is a step of a RandomEngine or leaves it alone.  *)
LEMMA EngineStep == IInv /\ [Next]_vars => [Engine!Next]_(Engine!vars)
<1> SUFFICES ASSUME IInv, [Next]_vars
             PROVE  Engine!Next \/ UNCHANGED Engine!vars
  OBVIOUS
<1> DEFINE sz == IF client = "copied" THEN Len(output) + remaining - reading
                                      ELSE Len(output) + remaining
           out == IF InCall THEN <<>> ELSE output
<1>0. Engine!vars = <<position, InCall, sz, out>> BY DEF Engine!vars
<1>t. /\ Len(output) \in Nat /\ remaining \in Nat /\ reading \in Nat
      /\ position \in Nat /\ Len(buffer) \in Nat /\ buffer \in Seq(Byte)
      /\ output \in Seq(Byte) /\ reading <= remaining
  BY DEF IInv, TypeOK, ClientInv
<1>1. CASE Filler
  <2>1. UNCHANGED <<reading, client, remaining, output, position>>
    BY <1>1 DEF Filler, WriteFill, WritePublish, WriteFull, SpaceAvailable,
       GracefulStop, clientVars
  <2> QED BY <2>1, <1>0 DEF Engine!vars, InCall
<1>2. ASSUME NEW n \in 0..MaxRequest, FillBytes(n)
      PROVE  Engine!Next
  <2>1. /\ client = "idle" /\ client' = "read" /\ position' = position
        /\ remaining' = n /\ output' = <<>> /\ n \in Nat
    BY <1>2 DEF FillBytes
  <2>2. Len(output') = 0 BY <2>1
  <2>3. ~InCall /\ InCall' BY <2>1 DEF InCall
  <2>4. sz' = n /\ out' = <<>> BY <2>1, <2>2, <2>3
  <2>5. Engine!Call(n) BY <2>1, <2>3, <2>4 DEF Engine!Call
  <2> QED BY <2>5 DEF Engine!Next
<1>3. CASE ReadCopy
  <2>1. PICK k \in 0..Least(remaining, Len(buffer)) :
          reading' = k /\ output' = output \o SubSeq(buffer, 1, k)
    BY <1>3 DEF ReadCopy
  <2>2. /\ client = "read" /\ client' = "copied"
        /\ position' = position /\ remaining' = remaining
    BY <1>3 DEF ReadCopy
  <2>3. k \in Nat /\ k <= remaining /\ k <= Len(buffer)
    BY <1>t, <2>1 DEF Least
  <2>4. Len(output') = Len(output) + k
    <3>1. SubSeq(buffer, 1, k) \in Seq(Byte) /\ Len(SubSeq(buffer, 1, k)) = k
      <4>1. \A i \in 1..k : buffer[i] \in Byte
        BY <2>3, <1>t, ElementOfSeq
      <4> QED BY <4>1, <2>3, <1>t, SubSeqProperties, Z3
    <3> QED BY <3>1, <2>1, <1>t, ConcatProperties
  <2>5. InCall /\ InCall' BY <2>2 DEF InCall
  <2>6. sz' = sz /\ out' = out BY <2>1, <2>2, <2>3, <2>4, <2>5, <1>t
  <2> QED BY <2>2, <2>5, <2>6, <1>0 DEF Engine!vars
<1>4. CASE ReadReturn /\ client' = "wait"
  <2>1. /\ client = "copied" /\ remaining' = remaining - reading
        /\ output' = output /\ position' = position
    BY <1>4 DEF ReadReturn
  <2>2. InCall /\ InCall' BY <1>4, <2>1 DEF InCall
  <2>3. sz' = sz /\ out' = out BY <1>4, <2>1, <2>2, <1>t
  <2> QED BY <2>1, <2>2, <2>3, <1>0 DEF Engine!vars
<1>5. CASE ReadReturn /\ client' # "wait"
  <2>1. /\ client = "copied" /\ client' = "idle" /\ output' = output
        /\ remaining' = remaining - reading /\ reading >= remaining
        /\ position' = position + Len(output)
    BY <1>5 DEF ReadReturn
  <2>2. InCall /\ ~InCall' BY <2>1 DEF InCall
  <2>3. sz = Len(output) /\ sz' = Len(output) /\ out' = output
    BY <2>1, <2>2, <1>t
  <2>4. output = Segment(Keystream, position, Len(output))
    BY <2>2 DEF IInv, ClientInv
  <2>5. out' = [i \in 1..sz |-> Keystream[position + i - 1]]
    <3> HIDE DEF sz, out
    <3> QED BY ONLY <2>3, <2>4 DEF Segment
  <2>6. Engine!Return
    <3>1. position' = position + sz /\ sz' = sz BY <2>1, <2>3
    <3> QED BY ONLY <3>1, <2>2, <2>5 DEF Engine!Return, Engine!Segment, InCall
  <2> QED BY <2>6 DEF Engine!Next
<1>6. CASE DataAvailable \/ Destroy \/ Join
  <2>1. /\ UNCHANGED <<remaining, output, position>>
        /\ client # "copied" /\ client' # "copied"
        /\ InCall' = InCall
    BY <1>6 DEF DataAvailable, Destroy, Join, InCall
  <2>2. sz' = sz /\ out' = out BY <2>1
  <2> QED BY <2>1, <2>2, <1>0 DEF Engine!vars
<1>7. CASE Destroyed \/ UNCHANGED vars
  BY <1>7, <1>0 DEF Destroyed, vars, Engine!vars, InCall
<1> QED BY <1>1, <1>2, <1>3, <1>4, <1>5, <1>6, <1>7 DEF Next, Serve

(* Seen by its callers, the agent is the engine it wraps: every call of     *)
(* fillBytes returns the next bytes of the core engine's keystream.         *)
THEOREM ImplementsRandomEngine == Spec => EngineSpec
<1>1. Init => Engine!Init BY DEF Init, Engine!Init, InCall
<1>2. IInv /\ [Next]_vars => [Engine!Next]_(Engine!vars) BY EngineStep
<1> QED BY <1>1, <1>2, Invariance, PTL DEF Spec, EngineSpec, Engine!Spec

-----------------------------------------------------------------------------
(* No livelock and no mutual wait: what CallReturns and DestructorReturns  *)
(* rest on besides the scheduler.                                          *)

\* The stop flag is set by the destructor and by nothing else.
StopInv == stop <=> client \in {"join", "destroyed"}

LEMMA StopInvariance == Spec => []StopInv
<1>1. Init => StopInv BY DEF Init, StopInv
<1>2. StopInv /\ [Next]_vars => StopInv'
  <2> SUFFICES ASSUME StopInv, [Next]_vars PROVE StopInv' OBVIOUS
  <2>1. CASE UNCHANGED <<stop, client>> BY <2>1 DEF StopInv
  <2>2. Filler \/ Destroyed \/ UNCHANGED vars => UNCHANGED <<stop, client>>
    BY DEF Filler, WriteFill, WritePublish, WriteFull, SpaceAvailable, GracefulStop,
           Destroyed, clientVars, vars
  <2>3. ASSUME NEW n \in 0..MaxRequest, FillBytes(n) PROVE StopInv'
    BY <2>3 DEF FillBytes, StopInv
  <2>4. CASE Serve BY <2>4 DEF Serve, ReadCopy, ReadReturn, DataAvailable, StopInv
  <2>5. CASE Destroy BY <2>5 DEF Destroy, StopInv
  <2>6. CASE Join BY <2>6 DEF Join, StopInv
  <2> QED BY <2>1, <2>2, <2>3, <2>4, <2>5, <2>6 DEF Next
<1> QED BY <1>1, <1>2, PTL DEF Spec

\* What the bytes handed out will be when the call in progress returns.
End == IF InCall THEN position + Len(output) + remaining - reading ELSE position

\* The steps a thread has left before it handles a byte or stops.
FillerSteps ==
  CASE filler = "publish" -> 4
    [] filler = "write"   -> IF FreeSpace = 0 THEN 3 ELSE 1
    [] filler = "wait"    -> 2
    [] filler = "exited"  -> 0

ClientSteps ==
  CASE client = "read"             -> IF buffer # <<>> /\ remaining > 0 THEN 1 ELSE 4
    [] client = "copied"           -> IF reading = 0 THEN 3 ELSE 0
    [] client \in {"wait", "idle"} -> 2
    [] client = "join"             -> 1
    [] client = "destroyed"        -> 0

\* The steps that both threads together can take at most until the next call.
Work == 5 * (End + BufferSize - drawn) + 5 * remaining + FillerSteps + ClientSteps

\* What these numbers are.
Numbers ==
  /\ drawn \in Nat /\ reading \in Nat /\ remaining \in Nat /\ BufferSize \in Nat
  /\ Len(buffer) \in Nat /\ Len(chunk) \in Nat /\ Len(output) \in Nat
  /\ position \in Nat /\ End \in Nat /\ drawn <= End + BufferSize
  /\ FreeSpace \in Nat /\ FreeSpace = BufferSize - (Len(buffer) + Len(chunk))
  /\ FillerSteps \in 0..4 /\ ClientSteps \in 0..4

LEMMA AgentNumbers == IInv => Numbers
<1> SUFFICES ASSUME IInv PROVE Numbers OBVIOUS
<1>1. /\ drawn \in Nat /\ reading \in Nat /\ remaining \in Nat /\ position \in Nat
      /\ BufferSize \in Nat /\ Len(buffer) \in Nat /\ Len(chunk) \in Nat
      /\ Len(output) \in Nat
      /\ filler \in {"write", "publish", "wait", "exited"}
      /\ client \in {"idle", "read", "copied", "wait", "join", "destroyed"}
  BY AgentAssumption DEF IInv, TypeOK
<1>2. reading <= remaining /\ Len(buffer) + Len(chunk) <= BufferSize
      /\ drawn <= Given + BufferSize
  BY DEF IInv, ClientInv, BufferInv
<1>3. FreeSpace \in Nat /\ FreeSpace = BufferSize - (Len(buffer) + Len(chunk))
  BY ONLY <1>1, <1>2 DEF FreeSpace
<1>4. End \in Nat /\ drawn <= End + BufferSize
  BY ONLY <1>1, <1>2 DEF End, Given
<1>5. FillerSteps \in 0..4 BY <1>1 DEF FillerSteps
<1>6. ClientSteps \in 0..4 BY <1>1 DEF ClientSteps
<1> QED BY <1>1, <1>3, <1>4, <1>5, <1>6 DEF Numbers

LEMMA AgentNumbersNext == IInv' => Numbers'
BY AgentNumbers, PTL

LEMMA WorkIsNat == IInv => Work \in Nat
<1> SUFFICES ASSUME IInv PROVE Work \in Nat OBVIOUS
<1>1. /\ drawn \in Nat /\ remaining \in Nat /\ BufferSize \in Nat
      /\ End \in Nat /\ drawn <= End + BufferSize
      /\ FillerSteps \in 0..4 /\ ClientSteps \in 0..4
  BY AgentNumbers DEF Numbers
<1> QED BY ONLY <1>1 DEF Work

LEMMA LessWork ==
  ASSUME NEW e \in Nat, NEW d \in Nat, NEW r \in Nat, NEW k \in Nat,
         NEW f \in 0..4, NEW g \in 0..4, NEW h \in 0..4, NEW i \in 0..4,
         i <= h, k > 0 \/ g < f
  PROVE  5 * (e + BufferSize - (d + k)) + 5 * r + g + i
           < 5 * (e + BufferSize - d) + 5 * r + f + h
BY AgentAssumption

\* The filler's steps: a byte drawn is worth five, and there is a bound to them.
LEMMA FillerWorks ==
  ASSUME IInv, IInv', Filler
  PROVE  Work' < Work
<1>1. UNCHANGED <<reading, client, remaining, output, position>>
  BY DEF Filler, WriteFill, WritePublish, WriteFull, SpaceAvailable, GracefulStop,
         clientVars
<1>2. End' = End BY <1>1 DEF End, InCall
<1>3. /\ drawn \in Nat /\ drawn' \in Nat /\ remaining \in Nat /\ BufferSize \in Nat
      /\ End \in Nat /\ FillerSteps \in 0..4 /\ FillerSteps' \in 0..4
      /\ ClientSteps \in 0..4 /\ ClientSteps' \in 0..4
      /\ FreeSpace \in Nat
  BY AgentNumbers, AgentNumbersNext DEF Numbers
<1>4. ASSUME NEW k \in Nat, drawn' = drawn + k, ClientSteps' <= ClientSteps,
             k > 0 \/ FillerSteps' < FillerSteps
      PROVE  Work' < Work
  <2>1. Work' = 5 * (End + BufferSize - (drawn + k)) + 5 * remaining
                  + FillerSteps' + ClientSteps'
    BY <1>1, <1>2, <1>4 DEF Work
  <2>2. Work = 5 * (End + BufferSize - drawn) + 5 * remaining + FillerSteps + ClientSteps
    BY DEF Work
  <2> QED BY <1>3, <1>4, <2>1, <2>2, LessWork
<1>5. ASSUME buffer # <<>> => buffer' # <<>>
      PROVE  ClientSteps' <= ClientSteps
  <2>1. client \in {"idle", "read", "copied", "wait", "join", "destroyed"}
    BY DEF IInv, TypeOK
  <2> QED BY <1>1, <1>5, <2>1 DEF ClientSteps
<1>6. CASE WriteFill
  <2>1. /\ filler = "write" /\ filler' = "publish" /\ buffer' = buffer
    BY <1>6 DEF WriteFill
  <2>2. PICK n \in 1..FreeSpace : drawn' = drawn + n BY <1>6 DEF WriteFill
  <2>3. FreeSpace > 0 /\ n \in Nat /\ n > 0 BY <1>3
  <2>4. FillerSteps = 1 /\ FillerSteps' = 4
    BY <2>1, <2>3 DEF FillerSteps
  <2> QED BY <1>3, <1>4, <1>5, <2>1, <2>2, <2>3, <2>4
<1>7. CASE WritePublish
  <2>1. /\ filler = "publish" /\ filler' \in {"write", "wait"} /\ drawn' = drawn + 0
        /\ buffer' = buffer \o chunk
    BY <1>3, <1>7 DEF WritePublish
  <2>2. FillerSteps = 4 /\ FillerSteps' <= 3 BY <2>1 DEF FillerSteps
  <2>3. buffer # <<>> => buffer' # <<>>
    <3>1. buffer \in Seq(Byte) /\ chunk \in Seq(Byte) BY DEF IInv, TypeOK
    <3> QED BY <2>1, <3>1
  <2>4. FillerSteps' < FillerSteps BY <1>3, <2>2
  <2> QED BY <1>4, <1>5, <2>1, <2>3, <2>4
<1>8. CASE WriteFull \/ SpaceAvailable \/ GracefulStop
  <2>1. UNCHANGED <<buffer, chunk>> /\ drawn' = drawn + 0 /\ FreeSpace' = FreeSpace
    BY <1>3, <1>8 DEF WriteFull, SpaceAvailable, GracefulStop, FreeSpace
  <2>2. FillerSteps' < FillerSteps
    BY <1>3, <1>8, <2>1 DEF WriteFull, SpaceAvailable, GracefulStop, FillerSteps
  <2> QED BY <1>4, <1>5, <2>1, <2>2
<1> QED BY <1>6, <1>7, <1>8 DEF Filler

LEMMA LessToRead ==
  ASSUME NEW e \in Nat, NEW d \in Nat, NEW r \in Nat, NEW k \in Nat,
         NEW f \in 0..4, NEW g \in 0..4, NEW h \in 0..4, NEW i \in 0..4,
         g <= f, k > 0 \/ i < h
  PROVE  5 * (e + BufferSize - d) + 5 * (r - k) + g + i
           < 5 * (e + BufferSize - d) + 5 * r + f + h
BY AgentAssumption

\* The client's steps: a byte that is read is worth five.
LEMMA ClientWorks ==
  ASSUME IInv, IInv', Serve \/ Destroy \/ Join
  PROVE  Work' < Work
<1>1. /\ drawn \in Nat /\ remaining \in Nat /\ BufferSize \in Nat /\ reading \in Nat
      /\ End \in Nat /\ FillerSteps \in 0..4 /\ FillerSteps' \in 0..4
      /\ ClientSteps \in 0..4 /\ ClientSteps' \in 0..4 /\ position \in Nat
      /\ Len(buffer) \in Nat /\ FreeSpace \in Nat /\ FreeSpace' \in Nat
      /\ Len(output) \in Nat /\ Len(output') \in Nat /\ remaining' \in Nat
      /\ Len(chunk) \in Nat
  BY AgentNumbers, AgentNumbersNext DEF Numbers
<1>2. UNCHANGED <<drawn, chunk, filler>>
  BY DEF Serve, ReadCopy, ReadReturn, DataAvailable, Destroy, Join, fillerVars
<1>3. ASSUME End' = End, FillerSteps' <= FillerSteps,
             NEW k \in Nat, remaining' = remaining - k,
             k > 0 \/ ClientSteps' < ClientSteps
      PROVE  Work' < Work
  <2>1. Work' = 5 * (End + BufferSize - drawn) + 5 * (remaining - k)
                  + FillerSteps' + ClientSteps'
    BY <1>2, <1>3 DEF Work
  <2>2. Work = 5 * (End + BufferSize - drawn) + 5 * remaining + FillerSteps + ClientSteps
    BY DEF Work
  <2> QED BY <1>1, <1>3, <2>1, <2>2, LessToRead
<1>4. ASSUME FreeSpace' >= FreeSpace PROVE FillerSteps' <= FillerSteps
  <2>1. filler \in {"write", "publish", "wait", "exited"} BY DEF IInv, TypeOK
  <2> QED BY <1>1, <1>2, <1>4, <2>1 DEF FillerSteps
<1>5. buffer' = buffer => FreeSpace' = FreeSpace BY <1>2 DEF FreeSpace
<1>6. CASE ReadCopy
  <2>1. PICK k \in 0..Least(remaining, Len(buffer)) :
          /\ k = 0 => Least(remaining, Len(buffer)) = 0
          /\ reading' = k
          /\ output' = output \o SubSeq(buffer, 1, k)
    BY <1>6 DEF ReadCopy
  <2>2. /\ client = "read" /\ client' = "copied" /\ remaining' = remaining - 0
        /\ UNCHANGED <<buffer, position>>
    BY <1>1, <1>6 DEF ReadCopy
  <2>3. k \in Nat /\ k <= Len(buffer) BY <1>1, <2>1 DEF Least
  <2>4. Len(output') = Len(output) + k
    <3>1. buffer \in Seq(Byte) /\ output \in Seq(Byte) BY DEF IInv, TypeOK
    <3> QED BY <2>1, <2>3, <3>1
  <2>5. reading = 0 BY <2>2 DEF IInv, ClientInv
  <2>6. End' = End BY <1>1, <2>1, <2>2, <2>3, <2>4, <2>5 DEF End, InCall
  <2>7. ClientSteps' < ClientSteps
    <3>1. CASE k = 0
      <4>1. buffer = <<>> \/ remaining = 0
        <5>1. Least(remaining, Len(buffer)) = 0 BY <2>1, <3>1
        <5>2. remaining = 0 \/ Len(buffer) = 0 BY <1>1, <5>1 DEF Least
        <5>3. buffer \in Seq(Byte) BY DEF IInv, TypeOK
        <5> QED BY <5>2, <5>3
      <4>2. ClientSteps = 4 /\ ClientSteps' = 3
        BY <1>1, <2>1, <2>2, <3>1, <4>1 DEF ClientSteps
      <4> QED BY <4>2
    <3>2. CASE k # 0
      <4>1. ClientSteps' = 0 BY <2>1, <2>2, <3>2 DEF ClientSteps
      <4>2. ClientSteps = 1 \/ ClientSteps = 4 BY <2>2 DEF ClientSteps
      <4> QED BY <4>1, <4>2
    <3> QED BY <3>1, <3>2
  <2> QED BY <1>1, <1>3, <1>4, <1>5, <2>2, <2>6, <2>7
<1>7. CASE ReadReturn
  <2>1. /\ client = "copied" /\ reading' = 0 /\ remaining' = remaining - reading
        /\ buffer' = SubSeq(buffer, reading + 1, Len(buffer)) /\ output' = output
        /\ \/ /\ reading >= remaining
              /\ client' = "idle"
              /\ position' = position + Len(output)
           \/ /\ reading < remaining
              /\ client' = "wait"
              /\ position' = position
    BY <1>7 DEF ReadReturn
  <2>2. reading <= remaining /\ reading <= Len(buffer)
    BY DEF IInv, ClientInv, BufferInv
  <2>3. End' = End BY <1>1, <2>1, <2>2 DEF End, InCall
  <2>4. FreeSpace' >= FreeSpace
    <3>1. buffer \in Seq(Byte) BY DEF IInv, TypeOK
    <3>2. Len(buffer') = Len(buffer) - reading BY <1>1, <2>1, <2>2, <3>1
    <3> QED BY <1>1, <1>2, <3>2 DEF FreeSpace
  <2>5. reading > 0 \/ ClientSteps' < ClientSteps
    <3>1. ClientSteps' = 2 BY <2>1 DEF ClientSteps
    <3>2. reading = 0 => ClientSteps = 3 BY <2>1 DEF ClientSteps
    <3> QED BY <1>1, <3>1, <3>2
  <2> QED BY <1>1, <1>3, <1>4, <2>1, <2>3, <2>4, <2>5
<1>8. CASE DataAvailable
  <2>1. /\ client = "wait" /\ client' = "read" /\ Len(buffer) > 0
        /\ remaining' = remaining - 0
        /\ UNCHANGED <<buffer, reading, output, position>>
    BY <1>1, <1>8 DEF DataAvailable
  <2>2. remaining > 0 BY <2>1 DEF IInv, ClientInv
  <2>3. End' = End BY <1>1, <2>1 DEF End, InCall
  <2>4. ClientSteps = 2 /\ ClientSteps' = 1
    BY <1>1, <2>1, <2>2 DEF ClientSteps
  <2> QED BY <1>1, <1>3, <1>4, <1>5, <2>1, <2>3, <2>4
<1>9. CASE Destroy \/ Join
  <2>1. /\ ~InCall /\ ~InCall' /\ remaining' = remaining - 0
        /\ UNCHANGED position
    BY <1>1, <1>9 DEF Destroy, Join, InCall
  <2>2. End' = End BY <2>1 DEF End
  <2>3. ClientSteps' < ClientSteps BY <1>9 DEF Destroy, Join, ClientSteps
  <2>4. FillerSteps' <= FillerSteps
    <3>1. CASE Destroy BY <1>1, <1>4, <1>5, <3>1 DEF Destroy
    <3>2. CASE Join BY <1>2, <3>2 DEF Join, FillerSteps
    <3> QED BY <1>9, <3>1, <3>2
  <2> QED BY <1>1, <1>3, <2>1, <2>2, <2>3, <2>4
<1> QED BY <1>6, <1>7, <1>8, <1>9 DEF Serve

\* Every step but a call of fillBytes brings the two threads nearer to rest.
StepsLead == [][(\E n \in 0..MaxRequest : FillBytes(n)) \/ Work' < Work]_vars

(* Neither thread goes round its loop in vain: after a call of fillBytes,  *)
(* or of the destructor, the two threads together take at most Work steps, *)
(* however they interleave.  With NoMutualWait this is why fillBytes and   *)
(* the destructor return.                                                  *)
THEOREM NoLivelock == Spec => [](Work \in Nat) /\ StepsLead
<1> DEFINE Lead == (\E n \in 0..MaxRequest : FillBytes(n)) \/ Work' < Work
<1>1. IInv => Work \in Nat BY WorkIsNat
<1>2. IInv /\ IInv' /\ [Next]_vars => [Lead]_vars
  <2> SUFFICES ASSUME IInv, IInv', Next PROVE Lead \/ UNCHANGED vars OBVIOUS
  <2> QED BY FillerWorks, ClientWorks DEF Next, Destroyed
<1> QED BY <1>1, <1>2, Invariance, PTL DEF Spec, StepsLead

\* The guards of the steps of a thread.
FillerCanStep ==
  \/ filler \in {"write", "publish"}
  \/ filler = "wait" /\ (FreeSpace > 0 \/ stop)

ClientCanStep ==
  \/ client \in {"read", "copied"}
  \/ client = "wait" /\ Len(buffer) > 0
  \/ client = "join" /\ filler = "exited"

\* While a call or the destructor runs, one of the two threads can go on; a
\* buffer without any room is the exception.
NoMutualWait ==
  BufferSize > 0 /\ (InCall \/ client = "join") => FillerCanStep \/ ClientCanStep

(* The client never waits for data while the filler waits for space or is  *)
(* gone, and the destructor never waits for a filler that waits for ever.  *)
THEOREM NeverBothWait == Spec => []NoMutualWait
<1>1. IInv /\ StopInv => NoMutualWait
  <2> SUFFICES ASSUME IInv, StopInv, BufferSize > 0, InCall \/ client = "join",
                      ~FillerCanStep
               PROVE  ClientCanStep
    BY DEF NoMutualWait
  <2>1. filler = "exited" \/ (filler = "wait" /\ FreeSpace = 0 /\ ~stop)
    <3>1. filler \in {"write", "publish", "wait", "exited"} BY DEF IInv, TypeOK
    <3>2. FreeSpace \in Nat BY AgentNumbers DEF Numbers
    <3> QED BY <3>1, <3>2 DEF FillerCanStep
  <2>2. CASE filler = "exited"
    <3>1. client = "join" BY <2>2 DEF IInv, FillerInv, StopInv, InCall
    <3> QED BY <2>2, <3>1 DEF ClientCanStep
  <2>3. CASE filler = "wait" /\ FreeSpace = 0 /\ ~stop
    <3>1. chunk = <<>> BY <2>3 DEF IInv, FillerInv
    <3>2. Len(buffer) > 0
      BY <2>3, <3>1, AgentNumbers, AgentAssumption DEF Numbers
    <3>3. client # "join"
      BY <2>3 DEF StopInv
    <3> QED BY <3>2, <3>3 DEF ClientCanStep, InCall
  <2> QED BY <2>1, <2>2, <2>3
<1> QED BY <1>1, Invariance, StopInvariance, PTL

\* The exception: what a buffer without any room does to a request.
Starves ==
  [][BufferSize = 0 /\ InCall /\ remaining > 0
       => InCall' /\ remaining' = remaining]_vars

(* The constructor takes the size of the buffer as it is.  With 0, a call  *)
(* that asks for anything never returns and never gets a byte.             *)
THEOREM NoRoomNoReturn == Spec => Starves
<1> DEFINE Starving == BufferSize = 0 /\ InCall /\ remaining > 0
                         => InCall' /\ remaining' = remaining
<1>1. IInv /\ [Next]_vars => [Starving]_vars
  <2> SUFFICES ASSUME IInv, Next, BufferSize = 0, InCall, remaining > 0
               PROVE  InCall' /\ remaining' = remaining
    OBVIOUS
  <2>1. reading \in Nat /\ remaining \in Nat /\ Len(buffer) \in Nat /\ Len(chunk) \in Nat
    BY AgentNumbers DEF Numbers
  <2>2. reading = 0 BY <2>1 DEF IInv, BufferInv
  <2>3. CASE Filler
    BY <2>3 DEF Filler, WriteFill, WritePublish, WriteFull, SpaceAvailable, GracefulStop,
                clientVars, InCall
  <2>4. CASE Serve
    BY <2>1, <2>2, <2>4 DEF Serve, ReadCopy, ReadReturn, DataAvailable, InCall
  <2>5. ~Destroy /\ ~Join /\ ~Destroyed /\ \A n \in 0..MaxRequest : ~FillBytes(n)
    BY DEF Destroy, Join, Destroyed, FillBytes, InCall
  <2> QED BY <2>3, <2>4, <2>5 DEF Next
<1> QED BY <1>1, Invariance, PTL DEF Spec, Starves
=============================================================================

-------------------------- MODULE RandomBufferAgent --------------------------
(***************************************************************************)
(* RandomBufferAgent.h, RandomBufferAgent.cpp: an engine that serves       *)
(* fillBytes from a circular buffer which a background thread, the filler, *)
(* keeps full with the output of a core engine.                            *)
(*                                                                         *)
(* Two threads run: the filler (fillerThread) and the client, the one      *)
(* thread that calls fillBytes and in the end the destructor.  The buffer  *)
(* (CircBufferSCSP) and the stop flag (Stoppable) are external: they are   *)
(* modelled from their use here.  write and read work on a part of the     *)
(* buffer outside its lock and publish the result afterwards, so each is   *)
(* two steps with the other thread free to run in between, and each may    *)
(* handle less than all the space or data there is (the buffer is          *)
(* circular: the contiguous part ends at its end).                         *)
(***************************************************************************)
EXTENDS Keystreams

CONSTANTS
  Keystream,    \* the bytes of the core engine m_engine: a function on Nat
  BufferSize,   \* bufferSize of the constructor
  MaxRequest,   \* bound: the largest fillBytes request
  MaxBytes      \* bound: the bytes requested in the life of the agent

ASSUME AgentAssumption ==
  /\ BufferSize \in Nat
  /\ MaxRequest \in Nat
  /\ MaxBytes \in Nat

VARIABLES
  drawn,        \* m_engine: bytes of the core engine generated so far
  buffer,       \* m_buffer: bytes published and not yet read, oldest first
  chunk,        \* m_buffer: bytes the filler wrote and has not published
  reading,      \* m_buffer: bytes copied out and not yet freed
  stop,         \* m_stoppable
  filler,       \* where the filler thread is
  client,       \* where the client thread is
  remaining,    \* fillBytes: what is left of bufferSize
  output,       \* fillBytes: what has been written to the caller's memory
  position      \* history: bytes handed out by the calls that have returned

vars == <<drawn, buffer, chunk, reading, stop, filler, client, remaining,
          output, position>>

fillerVars == <<drawn, chunk, filler>>
clientVars == <<reading, stop, client, remaining, output, position>>

-----------------------------------------------------------------------------
(* The constructor returns with the filler running.                        *)

Init ==
  /\ drawn = 0
  /\ buffer = <<>>
  /\ chunk = <<>>
  /\ reading = 0
  /\ stop = FALSE
  /\ filler = "write"
  /\ client = "idle"
  /\ remaining = 0
  /\ output = <<>>
  /\ position = 0

-----------------------------------------------------------------------------
(* The filler thread.                                                      *)

\* Defect: one byte of space too many.
FreeSpaceOneMore == BufferSize + 1 - (Len(buffer) + Len(chunk))

FreeSpace == BufferSize - (Len(buffer) + Len(chunk))

\* m_buffer.write runs its callback on a part of the free space: the core
\* engine fills that part, all of it.
WriteFill ==
  /\ filler = "write"
  /\ \E n \in 1..FreeSpace :
       /\ chunk' = Segment(Keystream, drawn, n)
       /\ drawn' = drawn + n
  /\ filler' = "publish"
  /\ UNCHANGED <<buffer, clientVars>>

\* Defect: the new bytes get in front of the old ones.
WritePublishInFront ==
  /\ filler = "publish"
  /\ buffer' = chunk \o buffer
  /\ chunk' = <<>>
  /\ filler' \in {"write", "wait"}
  /\ UNCHANGED <<drawn, clientVars>>

\* The size the callback returned is published to the reader.  write then
\* offers what is left of the space or returns.
WritePublish ==
  /\ filler = "publish"
  /\ buffer' = buffer \o chunk
  /\ chunk' = <<>>
  /\ filler' \in {"write", "wait"}
  /\ UNCHANGED <<drawn, clientVars>>

\* Without free space write returns at once.
WriteFull ==
  /\ filler = "write"
  /\ FreeSpace = 0
  /\ filler' = "wait"
  /\ UNCHANGED <<drawn, buffer, chunk, clientVars>>

\* waitSpaceAvailable returns: the loop writes again.
SpaceAvailable ==
  /\ filler = "wait"
  /\ FreeSpace > 0
  /\ filler' = "write"
  /\ UNCHANGED <<drawn, buffer, chunk, clientVars>>

\* The test actor of waitSpaceAvailable, run at least every 10 ms, sees the
\* stop flag and throws GracefulStop: fillerThread catches it and returns.
\* Whether the space or the flag is looked at first is the library's choice.
GracefulStop ==
  /\ filler = "wait"
  /\ stop
  /\ filler' = "exited"
  /\ UNCHANGED <<drawn, buffer, chunk, clientVars>>

Filler ==
  WriteFill \/ WritePublish \/ WriteFull \/ SpaceAvailable \/ GracefulStop

-----------------------------------------------------------------------------
(* The client thread.                                                      *)

FillBytes(n) ==
  /\ client = "idle"
  /\ position + n <= MaxBytes
  /\ client' = "read"
  /\ remaining' = n
  /\ output' = <<>>
  /\ UNCHANGED <<buffer, fillerVars, reading, stop, position>>

Least(a, b) == IF a <= b THEN a ELSE b

\* Defect: more is copied than is wanted.
ReadCopyAll ==
  /\ client = "read"
  /\ \E k \in 0..Len(buffer) :
       /\ k = 0 => Least(remaining, Len(buffer)) = 0
       /\ reading' = k
       /\ output' = output \o SubSeq(buffer, 1, k)
  /\ client' = "copied"
  /\ UNCHANGED <<buffer, fillerVars, stop, remaining, position>>

\* m_buffer.read copies bytes that are there, none only if there are none
\* or none are wanted.
ReadCopy ==
  /\ client = "read"
  /\ \E k \in 0..Least(remaining, Len(buffer)) :
       /\ k = 0 => Least(remaining, Len(buffer)) = 0
       /\ reading' = k
       /\ output' = output \o SubSeq(buffer, 1, k)
  /\ client' = "copied"
  /\ UNCHANGED <<buffer, fillerVars, stop, remaining, position>>

\* Defect: the space copied from is not freed, so its bytes are read again.
ReadReturnFreesNothing ==
  /\ client = "copied"
  /\ reading' = 0
  /\ remaining' = remaining - reading
  /\ \/ /\ reading >= remaining
        /\ client' = "idle"
        /\ position' = position + Len(output)
     \/ /\ reading < remaining
        /\ client' = "wait"
        /\ UNCHANGED position
  /\ UNCHANGED <<buffer, fillerVars, stop, output>>

\* Defect: a request that has just been filled waits for more data.
ReadReturnStrict ==
  /\ client = "copied"
  /\ buffer' = SubSeq(buffer, reading + 1, Len(buffer))
  /\ reading' = 0
  /\ remaining' = remaining - reading
  /\ \/ /\ reading > remaining
        /\ client' = "idle"
        /\ position' = position + Len(output)
     \/ /\ reading <= remaining
        /\ client' = "wait"
        /\ UNCHANGED position
  /\ UNCHANGED <<fillerVars, stop, output>>

\* read frees the space it copied from and returns; fillBytes returns when
\* the request is filled, else it moves on in the caller's memory and waits.
ReadReturn ==
  /\ client = "copied"
  /\ buffer' = SubSeq(buffer, reading + 1, Len(buffer))
  /\ reading' = 0
  /\ remaining' = remaining - reading
  /\ \/ /\ reading >= remaining
        /\ client' = "idle"
        /\ position' = position + Len(output)
     \/ /\ reading < remaining
        /\ client' = "wait"
        /\ UNCHANGED position
  /\ UNCHANGED <<fillerVars, stop, output>>

\* waitDataAvailable returns.
DataAvailable ==
  /\ client = "wait"
  /\ Len(buffer) > 0
  /\ client' = "read"
  /\ UNCHANGED <<buffer, fillerVars, reading, stop, remaining, output,
                 position>>

\* Defect: the destructor does not set the flag.
DestroyWithoutStop ==
  /\ client = "idle"
  /\ client' = "join"
  /\ UNCHANGED <<buffer, fillerVars, reading, stop, remaining, output, position>>

\* The destructor sets the stop flag ...
Destroy ==
  /\ client = "idle"
  /\ stop' = TRUE
  /\ client' = "join"
  /\ UNCHANGED <<buffer, fillerVars, reading, remaining, output, position>>

\* Defect: the filler is told to stop and not waited for.
JoinAtOnce ==
  /\ client = "join"
  /\ client' = "destroyed"
  /\ buffer' = <<>>
  /\ UNCHANGED <<fillerVars, reading, stop, remaining, output, position>>

\* ... joins the filler, and the members are destroyed.
Join ==
  /\ client = "join"
  /\ filler = "exited"
  /\ client' = "destroyed"
  /\ buffer' = <<>>
  /\ UNCHANGED <<fillerVars, reading, stop, remaining, output, position>>

Serve == ReadCopy \/ ReadReturn \/ DataAvailable

\* The agent is gone and its threads with it.
Destroyed == client = "destroyed" /\ UNCHANGED vars

-----------------------------------------------------------------------------
Next ==
  \/ Filler
  \/ \E n \in 0..MaxRequest : FillBytes(n)
  \/ Serve
  \/ Destroy
  \/ Join
  \/ Destroyed

Spec == Init /\ [][Next]_vars

\* The scheduler runs both threads.  Nobody has to call fillBytes or the
\* destructor.
Fairness == WF_vars(Filler) /\ WF_vars(Serve) /\ WF_vars(Join)

FairSpec == Spec /\ Fairness

-----------------------------------------------------------------------------
(* Properties.                                                             *)

InCall == client \in {"read", "copied", "wait"}

\* The bytes fillBytes has handed out, the call in progress included.
Given == IF InCall THEN position + Len(output) ELSE position

\* The part of the keystream an agent can reach within the bounds.
Byte == {Keystream[i] : i \in 0..(MaxBytes + BufferSize)}

\* The types of the variables.
TypeOK ==
  /\ drawn \in Nat
  /\ buffer \in Seq(Byte)
  /\ chunk \in Seq(Byte)
  /\ reading \in Nat
  /\ stop \in BOOLEAN
  /\ filler \in {"write", "publish", "wait", "exited"}
  /\ client \in {"idle", "read", "copied", "wait", "join", "destroyed"}
  /\ remaining \in Nat
  /\ output \in Seq(Byte)
  /\ position \in Nat

\* The filler draws ahead of the callers of fillBytes, yet never further
\* than the buffer is large, at whatever moment of a write or a read the
\* two threads are observed: a bigger lead would overwrite unread bytes.
RunAhead == drawn <= Given + BufferSize

\* No byte is dropped or duplicated on its way: what the core engine has
\* generated and fillBytes has not handed out is in the buffer, published
\* or about to be, in the order it was generated.
InTransit ==
  client # "destroyed" =>
    SubSeq(buffer, reading + 1, Len(buffer)) \o chunk
      = Segment(Keystream, Given, drawn - Given)

\* Once the destructor has returned, no thread touches the core engine or
\* the buffer any more: m_engine and m_buffer no longer exist.
NoUseAfterDestroy ==
  [][client = "destroyed" => UNCHANGED <<drawn, chunk, buffer>>]_vars

\* The agent is itself a RandomEngine, over the keystream of its core
\* engine: splitting and buffering do not show in the bytes of a call.
Engine == INSTANCE RandomEngine WITH
  calling <- InCall,
  size <- IF client = "copied" THEN Len(output) + remaining - reading
                               ELSE Len(output) + remaining,
  output <- IF InCall THEN <<>> ELSE output

EngineSpec == Engine!Spec

\* A call of fillBytes returns, however far the request exceeds the buffer.
CallReturns == InCall ~> client = "idle"

\* The destructor returns: the filler, which may be anywhere in its loop
\* and is only told by the flag, gets to see the flag and exits.
DestructorReturns == client = "join" ~> client = "destroyed"
=============================================================================

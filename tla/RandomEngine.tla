---------------------------- MODULE RandomEngine ----------------------------
(***************************************************************************)
(* What every random engine promises its caller (RandomEngine.h and the    *)
(* fillBytes entry of librandom.h): the engine owns one keystream, and the *)
(* calls of fillBytes hand it out from the start, in order, each byte      *)
(* once, however the calls split it.  The engines and the buffering agent  *)
(* are shown to implement this specification.                              *)
(***************************************************************************)
EXTENDS Keystreams

CONSTANTS
  Keystream,    \* the bytes of the engine: a function on Nat
  MaxRequest    \* the largest fillBytes request considered

VARIABLES
  position,     \* bytes handed out by the calls that have returned
  calling,      \* a call of fillBytes is in progress
  size,         \* the size of the call in progress, or of the last one
  output        \* the caller's memory, once the call has returned

vars == <<position, calling, size, output>>

Init ==
  /\ position = 0
  /\ calling = FALSE
  /\ size = 0
  /\ output = <<>>

Call(n) ==
  /\ ~calling
  /\ calling' = TRUE
  /\ size' = n
  /\ output' = <<>>
  /\ UNCHANGED position

Return ==
  /\ calling
  /\ calling' = FALSE
  /\ output' = Segment(Keystream, position, size)
  /\ position' = position + size
  /\ UNCHANGED size

Next == (\E n \in 0..MaxRequest : Call(n)) \/ Return

Spec == Init /\ [][Next]_vars

=============================================================================

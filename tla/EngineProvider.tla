--------------------------- MODULE EngineProvider ---------------------------
(***************************************************************************)
(* What a random facility promises its clients (createRandomEngineWithSeed *)
(* of librandom.h): a call makes one new engine and returns it, or makes   *)
(* none and says so.  No engine a client may use is touched by the calls.  *)
(***************************************************************************)
CONSTANTS
  Engines,      \* the engines there can be
  None          \* the answer of a call that fails

VARIABLES
  usable,       \* the engines clients may use
  calling,      \* a call is in progress
  answer        \* what the last call returned

vars == <<usable, calling, answer>>

Init ==
  /\ usable = {}
  /\ calling = FALSE
  /\ answer = None

Call ==
  /\ ~calling
  /\ calling' = TRUE
  /\ answer' = None
  /\ UNCHANGED usable

Succeed ==
  /\ calling
  /\ calling' = FALSE
  /\ answer' \in Engines \ usable
  /\ usable' = usable \cup {answer'}

Fail ==
  /\ calling
  /\ calling' = FALSE
  /\ UNCHANGED <<usable, answer>>

\* Clients give engines up.
Withdraw ==
  /\ usable' \in SUBSET usable
  /\ UNCHANGED <<calling, answer>>

Next == Call \/ Succeed \/ Fail \/ Withdraw

Spec == Init /\ [][Next]_vars
=============================================================================

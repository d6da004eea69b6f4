--------------------------- MODULE FacilityEntropy ---------------------------
(***************************************************************************)
(* The entropy table of SharemindRandomFacility (librandom.h), set up by   *)
(* the constructor of RandomFacility: C clients reach the functions of     *)
(* CryptographicRandom through its four entries, each of which calls a     *)
(* method of RandomFacility, which calls one of the functions.             *)
(***************************************************************************)
EXTENDS CryptographicRandom

VARIABLE
  entry         \* the entry of the table each thread has called

facilityVars == <<vars, entry>>

-----------------------------------------------------------------------------
\* The members of SharemindCryptographicRandom.
Entries == {"RandomBlocking", "URandomBlocking", "RandomNonblocking",
            "URandomNonblocking"}

\* Defect: a blocking entry calls a nonblocking method.
MethodNonblocking(e) ==
  CASE e = "RandomBlocking"     -> "RandomBlocking"
    [] e = "URandomBlocking"    -> "URandomNonblocking"
    [] e = "RandomNonblocking"  -> "RandomNonblocking"
    [] e = "URandomNonblocking" -> "RandomNonblocking"

\* The method that the C function behind an entry calls.
Method(e) ==
  CASE e = "RandomBlocking"     -> "RandomBlocking"
    [] e = "URandomBlocking"    -> "URandomBlocking"
    [] e = "RandomNonblocking"  -> "RandomNonblocking"
    [] e = "URandomNonblocking" -> "RandomNonblocking"

\* The function that a method calls.
Function(m) ==
  CASE m = "RandomBlocking"     -> "Random"
    [] m = "URandomBlocking"    -> "URandom"
    [] m = "RandomNonblocking"  -> "RandomNonblocking"
    [] m = "URandomNonblocking" -> "URandomNonblocking"

FacilityInit ==
  /\ Init
  /\ entry = [c \in Callers |-> "RandomBlocking"]

EntryCall(c, e, n) ==
  /\ Call(c, Function(Method(e)), n)
  /\ entry' = [entry EXCEPT ![c] = e]

FacilityNext ==
  \/ \E c \in Callers, e \in Entries, n \in 0..MaxRequest : EntryCall(c, e, n)
  \/ \E c \in Callers : Serve(c) /\ UNCHANGED entry
  \/ GainEntropy /\ UNCHANGED entry
  \/ Aborted /\ UNCHANGED entry

FacilitySpec == FacilityInit /\ [][FacilityNext]_facilityVars

FacilityFairSpec == FacilitySpec /\ Fairness

-----------------------------------------------------------------------------
(* Properties.                                                             *)

BlockingEntries == {"RandomBlocking", "URandomBlocking"}

\* "Number of bytes generated": when an entry has returned, as many bytes of
\* the client's memory are random as it says, or all of them after a blocking
\* entry, from the start on, and no byte beyond them was touched.
EntryContract ==
  \A c \in Callers :
    pc[c] = "idle" =>
      \A i \in 1..asked[c] :
        memory[c][i] # NoByte <=> entry[c] \in BlockingEntries \/ i <= result[c]

\* What the entries are named for: the bytes that URandomBlocking and
\* URandomNonblocking generate come from the urandom source.
EntrySource ==
  \A c \in Callers :
    entry[c] \in {"URandomBlocking", "URandomNonblocking"} =>
      \A i \in 1..asked[c] : memory[c][i] # "random"
=============================================================================

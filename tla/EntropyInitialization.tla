------------------------ MODULE EntropyInitialization ------------------------
(***************************************************************************)
(* waitForEntropyInitialization of CryptographicRandom.cpp, in a build     *)
(* without getrandom(2), and the four file objects that call it.           *)
(*                                                                         *)
(* A process constructs its file objects one after the other before main() *)
(* runs, in one thread (so nothing contends for wFEI_mutex, and the 10 ms  *)
(* wait on wFEI_cond always times out).  Each constructor waits until the  *)
(* kernel has gathered the entropy that initialises its generators, by     *)
(* adding up the increases that it sees in the kernel's estimate.          *)
(* entropyPoolInitialized saves the later constructors the wait, and a     *)
(* shared memory segment saves it the other processes of the machine.      *)
(*                                                                         *)
(* The kernel is external: its estimate rises with the entropy it is       *)
(* credited with and falls when random bytes are read.  A process may      *)
(* crash at any time and be started again; segments survive it.            *)
(***************************************************************************)
EXTENDS Naturals, Sequences

CONSTANTS
  Processes,    \* the processes of the machine that load the library
  Asserts,      \* the build checks assert()
  Needed,       \* the bits to wait for: 256
  EstimateMax,  \* the most the kernel estimates
  MaxCredit,    \* bound: the bits the kernel is credited with in all
  MaxCrashes    \* bound: crashes

ASSUME EntropyAssumption ==
  /\ Asserts \in BOOLEAN
  /\ Needed \in Nat \ {0}
  /\ EstimateMax \in Nat
  /\ MaxCredit \in Nat
  /\ MaxCrashes \in Nat

VARIABLES
  estimate,     \* kernel: RNDGETENTCNT
  credited,     \* history: bits the kernel was credited with since it booted
  segments,     \* the files for which the shared memory segment exists
  initialized,  \* entropyPoolInitialized of each process
  opened,       \* how many of its file objects each process has constructed
  pc,           \* where each process is in the function
  need,         \* its needEntropy
  last,         \* its lastEstimatedEntropyBits
  crashes       \* history: crashes so far

kernelVars == <<estimate, credited>>
vars == <<estimate, credited, segments, initialized, opened, pc, need, last,
          crashes>>

-----------------------------------------------------------------------------
\* The files of the static objects, in the order of their construction.  The
\* key of the segment (ftok) is made from the name.
Files == <<"/dev/random", "/dev/random", "/dev/urandom", "/dev/urandom">>

Opening(p) == Files[opened[p] + 1]

Init ==
  /\ estimate \in 0..EstimateMax
  /\ credited = estimate
  /\ segments = {}
  /\ initialized = [p \in Processes |-> FALSE]
  /\ opened = [p \in Processes |-> 0]
  /\ pc = [p \in Processes |-> "open"]
  /\ need = [p \in Processes |-> Needed]
  /\ last = [p \in Processes |-> 0]
  /\ crashes = 0

Go(p, place) == pc' = [pc EXCEPT ![p] = place]

\* A constructor ends: the next one is due, or main().
Constructed(p) ==
  /\ opened' = [opened EXCEPT ![p] = @ + 1]
  /\ Go(p, IF opened[p] + 1 = Len(Files) THEN "main" ELSE "open")

-----------------------------------------------------------------------------
\* The file is opened and the function called: there is nothing to do ...
Skip(p) ==
  /\ pc[p] = "open"
  /\ initialized[p]
  /\ Constructed(p)
  /\ UNCHANGED <<kernelVars, segments, initialized, need, last, crashes>>

\* ... or the loop begins.
Enter(p) ==
  /\ pc[p] = "open"
  /\ ~initialized[p]
  /\ Go(p, "check")
  /\ need' = [need EXCEPT ![p] = Needed]
  /\ last' = [last EXCEPT ![p] = 0]
  /\ UNCHANGED <<kernelVars, segments, initialized, opened, crashes>>

\* Defect: the segment is not looked for.
CheckSegmentNever(p) ==
  /\ pc[p] = "check"
  /\ Go(p, "sample")
  /\ UNCHANGED <<kernelVars, segments, initialized, opened, need, last, crashes>>

\* shmget: does the segment exist?
CheckSegment(p) ==
  /\ pc[p] = "check"
  /\ Go(p, IF Opening(p) \in segments THEN "leave" ELSE "sample")
  /\ UNCHANGED <<kernelVars, segments, initialized, opened, need, last, crashes>>

\* The assertion on the estimate ends the process.
SampleAborts(p) ==
  /\ pc[p] = "sample"
  /\ Asserts
  /\ estimate = 0
  /\ Go(p, "aborted")
  /\ UNCHANGED <<kernelVars, segments, initialized, opened, need, last, crashes>>

\* The estimate has risen by all that is still needed: the loop ends.
SampleEnough(p) ==
  /\ pc[p] = "sample"
  /\ Asserts => estimate > 0
  /\ estimate > last[p]
  /\ estimate - last[p] >= need[p]
  /\ Go(p, "gathered")
  /\ UNCHANGED <<kernelVars, segments, initialized, opened, need, last, crashes>>

\* Defect: an increase of exactly what is needed does not end the loop.
SampleLessExact(p) ==
  /\ pc[p] = "sample"
  /\ Asserts => estimate > 0
  /\ \/ /\ estimate > last[p]
        /\ estimate - last[p] <= need[p]
        /\ need' = [need EXCEPT ![p] = @ - (estimate - last[p])]
     \/ /\ estimate <= last[p]
        /\ UNCHANGED need
  /\ last' = [last EXCEPT ![p] = estimate]
  /\ Go(p, "check")
  /\ UNCHANGED <<kernelVars, segments, initialized, opened, crashes>>

\* Defect: the last estimate is not kept, so that the same bits count again.
SampleLessForgets(p) ==
  /\ pc[p] = "sample"
  /\ Asserts => estimate > 0
  /\ \/ /\ estimate > last[p]
        /\ estimate - last[p] < need[p]
        /\ need' = [need EXCEPT ![p] = @ - (estimate - last[p])]
     \/ /\ estimate <= last[p]
        /\ UNCHANGED need
  /\ Go(p, "check")
  /\ UNCHANGED <<kernelVars, segments, initialized, opened, last, crashes>>

\* It has risen by less, or it has not: wait 10 ms and go round the loop.
SampleLess(p) ==
  /\ pc[p] = "sample"
  /\ Asserts => estimate > 0
  /\ \/ /\ estimate > last[p]
        /\ estimate - last[p] < need[p]
        /\ need' = [need EXCEPT ![p] = @ - (estimate - last[p])]
     \/ /\ estimate <= last[p]
        /\ UNCHANGED need
  /\ last' = [last EXCEPT ![p] = estimate]
  /\ Go(p, "check")
  /\ UNCHANGED <<kernelVars, segments, initialized, opened, crashes>>

\* Out of the loop by its own count, the process creates the segment, which
\* another one may have done since (EEXIST).
CreateSegment(p) ==
  /\ pc[p] = "gathered"
  /\ segments' = segments \cup {Opening(p)}
  /\ Go(p, "leave")
  /\ UNCHANGED <<kernelVars, initialized, opened, need, last, crashes>>

\* Defect: entropyPoolInitialized is not set.
LeaveUnset(p) ==
  /\ pc[p] = "leave"
  /\ Constructed(p)
  /\ UNCHANGED <<kernelVars, segments, initialized, need, last, crashes>>

\* entropyPoolInitialized is set; the function and the constructor return.
Leave(p) ==
  /\ pc[p] = "leave"
  /\ initialized' = [initialized EXCEPT ![p] = TRUE]
  /\ Constructed(p)
  /\ UNCHANGED <<kernelVars, segments, need, last, crashes>>

-----------------------------------------------------------------------------
\* The kernel is credited with bits, and bits are used up by readers.
Credit(n) ==
  /\ credited + n <= MaxCredit
  /\ estimate + n <= EstimateMax
  /\ credited' = credited + n
  /\ estimate' = estimate + n
  /\ UNCHANGED <<segments, initialized, opened, pc, need, last, crashes>>

Debit(n) ==
  /\ n <= estimate
  /\ estimate' = estimate - n
  /\ UNCHANGED <<credited, segments, initialized, opened, pc, need, last, crashes>>

\* A process crashes, wherever it is, and is started again.
Crash(p) ==
  /\ crashes < MaxCrashes
  /\ crashes' = crashes + 1
  /\ initialized' = [initialized EXCEPT ![p] = FALSE]
  /\ opened' = [opened EXCEPT ![p] = 0]
  /\ Go(p, "open")
  /\ UNCHANGED <<kernelVars, segments, need, last>>

\* Every process has got to main() or is gone.
Settled ==
  /\ \A p \in Processes : pc[p] \in {"main", "aborted"}
  /\ UNCHANGED vars

-----------------------------------------------------------------------------
Startup(p) ==
  \/ Skip(p)
  \/ Enter(p)
  \/ CheckSegment(p)
  \/ SampleAborts(p)
  \/ SampleEnough(p)
  \/ SampleLess(p)
  \/ CreateSegment(p)
  \/ Leave(p)

Next ==
  \/ \E p \in Processes : Startup(p)
  \/ \E n \in 1..EstimateMax : Credit(n) \/ Debit(n)
  \/ \E p \in Processes : Crash(p)
  \/ Settled

Spec == Init /\ [][Next]_vars

\* Every process runs.  Nothing is assumed of the kernel.
Fairness == \A p \in Processes : WF_vars(Startup(p))

FairSpec == Spec /\ Fairness

-----------------------------------------------------------------------------
(* Properties.                                                             *)

\* The types of the variables.
TypeOK ==
  /\ estimate \in 0..EstimateMax
  /\ credited \in Nat
  /\ segments \subseteq {"/dev/random", "/dev/urandom"}
  /\ initialized \in [Processes -> BOOLEAN]
  /\ opened \in [Processes -> 0..4]
  /\ pc \in [Processes -> {"open", "check", "sample", "gathered", "leave",
                           "main", "aborted"}]
  /\ \A p \in Processes : (pc[p] = "main") <=> (opened[p] = 4)
  /\ need \in [Processes -> 1..Needed]
  /\ last \in [Processes -> 0..EstimateMax]
  /\ crashes \in Nat

\* "Always wait for at least 256 bits of entropy": no process gets past the
\* constructor of a file, so as to read from it, before the kernel was credited
\* with the bits needed, whichever process counted them, whatever was used up
\* meanwhile, and wherever a process crashed.
EntropyGathered ==
  \A p \in Processes : opened[p] > 0 => credited >= Needed

\* "Ensure this is executed only once": a process waits for its first file
\* only, so that the segment of /dev/random alone is what processes tell each
\* other by.
WaitsOnce ==
  /\ \A p \in Processes : opened[p] > 0 => pc[p] \in {"open", "main"}
  /\ segments \subseteq {"/dev/random"}

\* Once the segment exists every process gets to main(), even if the kernel
\* gains no more entropy and readers use up what it has.  (Only a failed
\* assertion keeps it from there.)
SegmentReleases ==
  \A p \in Processes : segments # {} ~> pc[p] \in {"main", "aborted"}

\* The assertion on the estimate that is read: it is positive.
EstimateIsPositive == \A p \in Processes : pc[p] # "aborted"
=============================================================================

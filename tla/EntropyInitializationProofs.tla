-------------------- MODULE EntropyInitializationProofs --------------------
(***************************************************************************)
(* What holds of the wait for entropy for every number of processes, every *)
(* number of bits, every history of the kernel's estimate and wherever     *)
(* processes crash.                                                        *)
(***************************************************************************)
EXTENDS EntropyInitialization, TLAPS

\* What a process has counted so far, and what it would count if it sampled
\* now.
Counted(p) == Needed - need[p]
Unseen(p) == IF estimate > last[p] THEN estimate - last[p] ELSE 0

\* A process in the loop counts no bit that the kernel was not credited with,
\* and counts none twice.
CountInv ==
  /\ estimate <= credited
  /\ \A p \in Processes :
       pc[p] \in {"check", "sample"} => Counted(p) + Unseen(p) <= credited

\* Whatever tells a process that the wait is over came after the bits.
ToldInv ==
  /\ segments # {} => credited >= Needed
  /\ \A p \in Processes :
       initialized[p] \/ pc[p] \in {"gathered", "leave"} => credited >= Needed

\* Only the first of its files makes a process wait.
OnceInv ==
  \A p \in Processes :
    /\ opened[p] > 0 => initialized[p]
    /\ ~(pc[p] \in {"open", "main"}) => opened[p] = 0

IInv == TypeOK /\ CountInv /\ ToldInv /\ OnceInv /\ WaitsOnce

-----------------------------------------------------------------------------
(* The invariant holds at first: nobody has counted anything.              *)
LEMMA InitInv == Init => IInv
<1> SUFFICES ASSUME Init PROVE IInv OBVIOUS
<1> USE EntropyAssumption DEF Init
<1>1. TypeOK BY DEF TypeOK
<1>2. CountInv BY DEF CountInv
<1>3. ToldInv /\ OnceInv /\ WaitsOnce BY DEF ToldInv, OnceInv, WaitsOnce
<1> QED BY <1>1, <1>2, <1>3 DEF IInv

(* The first two files have the same name.                                 *)
LEMMA FirstFile ==
  ASSUME NEW p \in Processes, opened[p] = 0
  PROVE  Opening(p) = "/dev/random"
BY DEF Opening, Files

(* The end of a constructor.                                               *)
LEMMA ConstructedInv ==
  ASSUME IInv, NEW p \in Processes, Constructed(p), pc[p] # "main",
         initialized'[p], initialized' \in [Processes -> BOOLEAN],
         \A q \in Processes : q # p => initialized'[q] = initialized[q],
         UNCHANGED <<kernelVars, segments, need, last, crashes>>,
         credited >= Needed
  PROVE  IInv'
<1>1. TypeOK BY DEF IInv
<1>2. UNCHANGED <<estimate, credited, segments, need, last, crashes>>
  BY DEF kernelVars
<1>3. Len(Files) = 4 BY DEF Files
<1> DEFINE place == IF opened[p] + 1 = 4 THEN "main" ELSE "open"
<1>4. opened' = [opened EXCEPT ![p] = @ + 1] /\ pc' = [pc EXCEPT ![p] = place]
  BY <1>3 DEF Constructed, Go
<1>5. opened[p] \in 0..3 BY <1>1 DEF TypeOK
<1>6. /\ opened' \in [Processes -> 0..4]
      /\ opened'[p] = opened[p] + 1
      /\ \A q \in Processes : q # p => opened'[q] = opened[q]
  BY <1>1, <1>4, <1>5 DEF TypeOK
<1>7. /\ pc' \in [Processes -> {"open", "check", "sample", "gathered", "leave",
                               "main", "aborted"}]
      /\ pc'[p] = place
      /\ \A q \in Processes : q # p => pc'[q] = pc[q]
  BY <1>1, <1>4 DEF TypeOK
<1>8. \A q \in Processes : (pc'[q] = "main") <=> (opened'[q] = 4)
  BY <1>1, <1>5, <1>6, <1>7 DEF TypeOK
<1>9. TypeOK' BY <1>1, <1>2, <1>6, <1>7, <1>8 DEF TypeOK
<1>10. pc'[p] \in {"open", "main"} BY <1>7
<1>11. CountInv' BY <1>2, <1>7, <1>10 DEF IInv, CountInv, Counted, Unseen
<1>12. ToldInv' BY <1>2, <1>7, <1>10 DEF IInv, ToldInv
<1>13. OnceInv' BY <1>6, <1>7, <1>10 DEF IInv, OnceInv
<1>14. WaitsOnce' BY <1>2, <1>6, <1>7, <1>10 DEF IInv, WaitsOnce
<1> QED BY <1>9, <1>11, <1>12, <1>13, <1>14 DEF IInv

(* A process moves on inside the function.                                 *)
LEMMA GoInv ==
  ASSUME IInv, NEW p \in Processes,
         NEW place \in {"check", "sample", "gathered", "leave", "aborted"},
         Go(p, place),
         opened[p] = 0,
         UNCHANGED <<estimate, credited, initialized, opened, crashes>>,
         segments' \in SUBSET {"/dev/random"},
         segments' # {} => credited >= Needed,
         place \in {"gathered", "leave"} => credited >= Needed,
         need' \in [Processes -> 1..Needed],
         last' \in [Processes -> 0..EstimateMax],
         \A q \in Processes : q # p => need'[q] = need[q] /\ last'[q] = last[q],
         place \in {"check", "sample"} => (Counted(p) + Unseen(p))' <= credited
  PROVE  IInv'
<1>1. TypeOK BY DEF IInv
<1>2. /\ pc' \in [Processes -> {"open", "check", "sample", "gathered", "leave",
                               "main", "aborted"}]
      /\ pc'[p] = place
      /\ \A q \in Processes : q # p => pc'[q] = pc[q]
  BY <1>1 DEF TypeOK, Go
<1>3. place # "main" /\ place # "open" OBVIOUS
<1>4. \A q \in Processes : (pc'[q] = "main") <=> (opened'[q] = 4)
  BY <1>1, <1>2, <1>3 DEF TypeOK
<1>5. TypeOK' BY <1>1, <1>2, <1>4 DEF TypeOK
<1>6. CountInv' BY <1>2 DEF IInv, CountInv, Counted, Unseen
<1>7. ToldInv' BY <1>2 DEF IInv, ToldInv
<1>8. OnceInv' BY <1>2 DEF IInv, OnceInv
<1>9. WaitsOnce' BY <1>2 DEF IInv, WaitsOnce
<1> QED BY <1>5, <1>6, <1>7, <1>8, <1>9 DEF IInv

(* The steps that construct a file.                                        *)
LEMMA SkipInv ==
  ASSUME IInv, NEW p \in Processes, Skip(p)
  PROVE  IInv'
<1>1. credited >= Needed BY DEF Skip, IInv, ToldInv
<1>2. initialized' = initialized /\ initialized \in [Processes -> BOOLEAN]
  BY DEF Skip, IInv, TypeOK
<1> QED BY <1>1, <1>2, ConstructedInv DEF Skip

LEMMA LeaveInv ==
  ASSUME IInv, NEW p \in Processes, Leave(p)
  PROVE  IInv'
<1>1. credited >= Needed BY DEF Leave, IInv, ToldInv
<1>2. /\ initialized'[p]
      /\ initialized' \in [Processes -> BOOLEAN]
      /\ \A q \in Processes : q # p => initialized'[q] = initialized[q]
  BY DEF Leave, IInv, TypeOK
<1> QED BY <1>1, <1>2, ConstructedInv DEF Leave

(* The steps of the function.                                              *)
LEMMA EnterInv ==
  ASSUME IInv, NEW p \in Processes, Enter(p)
  PROVE  IInv'
<1>1. opened[p] = 0 BY DEF Enter, IInv, OnceInv, TypeOK
<1>2. /\ need' \in [Processes -> 1..Needed]
      /\ last' \in [Processes -> 0..EstimateMax]
      /\ need'[p] = Needed /\ last'[p] = 0
      /\ \A q \in Processes : q # p => need'[q] = need[q] /\ last'[q] = last[q]
  BY EntropyAssumption DEF Enter, IInv, TypeOK
<1>3. (Counted(p) + Unseen(p))' <= credited
  BY <1>2, EntropyAssumption
     DEF Enter, kernelVars, IInv, TypeOK, CountInv, Counted, Unseen
<1>4. segments' \in SUBSET {"/dev/random"} /\ (segments' # {} => credited >= Needed)
  BY DEF Enter, IInv, WaitsOnce, ToldInv
<1> QED BY <1>1, <1>2, <1>3, <1>4, GoInv DEF Enter, kernelVars

LEMMA CheckSegmentInv ==
  ASSUME IInv, NEW p \in Processes, CheckSegment(p)
  PROVE  IInv'
<1> DEFINE place == IF Opening(p) \in segments THEN "leave" ELSE "sample"
<1>1. opened[p] = 0 BY DEF CheckSegment, IInv, OnceInv
<1>2. place = "leave" => credited >= Needed BY DEF IInv, ToldInv
<1>3. /\ need' \in [Processes -> 1..Needed] /\ need' = need
      /\ last' \in [Processes -> 0..EstimateMax] /\ last' = last
  BY DEF CheckSegment, IInv, TypeOK
<1>4. (Counted(p) + Unseen(p))' <= credited
  BY DEF CheckSegment, kernelVars, IInv, CountInv, Counted, Unseen
<1>5. segments' \in SUBSET {"/dev/random"} /\ (segments' # {} => credited >= Needed)
  BY DEF CheckSegment, IInv, WaitsOnce, ToldInv
<1>6. place \in {"sample", "leave"} /\ Go(p, place) BY DEF CheckSegment
<1> HIDE DEF place
<1> QED BY <1>1, <1>2, <1>3, <1>4, <1>5, <1>6, GoInv DEF CheckSegment, kernelVars

LEMMA SampleAbortsInv ==
  ASSUME IInv, NEW p \in Processes, SampleAborts(p)
  PROVE  IInv'
<1>1. opened[p] = 0 BY DEF SampleAborts, IInv, OnceInv
<1>2. /\ need' \in [Processes -> 1..Needed] /\ need' = need
      /\ last' \in [Processes -> 0..EstimateMax] /\ last' = last
  BY DEF SampleAborts, IInv, TypeOK
<1>3. segments' \in SUBSET {"/dev/random"} /\ (segments' # {} => credited >= Needed)
  BY DEF SampleAborts, IInv, WaitsOnce, ToldInv
<1> QED BY <1>1, <1>2, <1>3, GoInv DEF SampleAborts, kernelVars

LEMMA SampleEnoughInv ==
  ASSUME IInv, NEW p \in Processes, SampleEnough(p)
  PROVE  IInv'
<1>1. opened[p] = 0 BY DEF SampleEnough, IInv, OnceInv
<1>2. /\ need' \in [Processes -> 1..Needed] /\ need' = need
      /\ last' \in [Processes -> 0..EstimateMax] /\ last' = last
  BY DEF SampleEnough, IInv, TypeOK
<1>3. segments' \in SUBSET {"/dev/random"} /\ (segments' # {} => credited >= Needed)
  BY DEF SampleEnough, IInv, WaitsOnce, ToldInv
<1>4. credited >= Needed
  <2>1. Counted(p) + Unseen(p) <= credited
    BY DEF SampleEnough, IInv, CountInv
  <2>2. /\ need[p] \in Nat /\ last[p] \in Nat /\ estimate \in Nat
        /\ credited \in Nat /\ Needed \in Nat
    BY EntropyAssumption DEF IInv, TypeOK
  <2> QED BY <2>1, <2>2 DEF SampleEnough, Counted, Unseen
<1> QED BY <1>1, <1>2, <1>3, <1>4, GoInv DEF SampleEnough, kernelVars

LEMMA SampleLessInv ==
  ASSUME IInv, NEW p \in Processes, SampleLess(p)
  PROVE  IInv'
<1>1. opened[p] = 0 BY DEF SampleLess, IInv, OnceInv
<1>2. /\ need[p] \in 1..Needed /\ last[p] \in Nat /\ Needed \in Nat
      /\ estimate \in 0..EstimateMax /\ EstimateMax \in Nat /\ credited \in Nat
      /\ estimate' = estimate /\ credited' = credited
  BY EntropyAssumption DEF SampleLess, kernelVars, IInv, TypeOK
<1>3. /\ last' \in [Processes -> 0..EstimateMax]
      /\ last'[p] = estimate
      /\ \A q \in Processes : q # p => last'[q] = last[q]
  BY <1>2 DEF SampleLess, IInv, TypeOK
<1>4. /\ need' \in [Processes -> 1..Needed]
      /\ need'[p] = IF estimate > last[p] THEN need[p] - (estimate - last[p])
                                          ELSE need[p]
      /\ \A q \in Processes : q # p => need'[q] = need[q]
  BY <1>2 DEF SampleLess, IInv, TypeOK
<1>5. Counted(p) + Unseen(p) <= credited
  BY DEF SampleLess, IInv, CountInv
<1>6. (Counted(p) + Unseen(p))' <= credited
  BY <1>2, <1>3, <1>4, <1>5 DEF Counted, Unseen
<1>7. segments' \in SUBSET {"/dev/random"} /\ (segments' # {} => credited >= Needed)
  BY DEF SampleLess, IInv, WaitsOnce, ToldInv
<1> QED BY <1>1, <1>2, <1>3, <1>4, <1>6, <1>7, GoInv DEF SampleLess

LEMMA CreateSegmentInv ==
  ASSUME IInv, NEW p \in Processes, CreateSegment(p)
  PROVE  IInv'
<1>1. opened[p] = 0 BY DEF CreateSegment, IInv, OnceInv
<1>2. /\ need' \in [Processes -> 1..Needed] /\ need' = need
      /\ last' \in [Processes -> 0..EstimateMax] /\ last' = last
  BY DEF CreateSegment, IInv, TypeOK
<1>3. credited >= Needed BY DEF CreateSegment, IInv, ToldInv
<1>4. segments' \in SUBSET {"/dev/random"}
  BY <1>1, FirstFile DEF CreateSegment, IInv, WaitsOnce
<1> QED BY <1>1, <1>2, <1>3, <1>4, GoInv DEF CreateSegment, kernelVars

(* The kernel: what an increase adds to a count it also credits, and a     *)
(* decrease never raises a count.                                          *)
LEMMA CreditInv ==
  ASSUME IInv, NEW n \in 1..EstimateMax, Credit(n)
  PROVE  IInv'
<1>1. /\ estimate \in Nat /\ credited \in Nat /\ n \in Nat /\ Needed \in Nat
      /\ EstimateMax \in Nat
      /\ estimate' = estimate + n /\ estimate' <= EstimateMax
      /\ credited' = credited + n
  BY EntropyAssumption DEF Credit, IInv, TypeOK
<1>2. UNCHANGED <<segments, initialized, opened, pc, need, last, crashes>>
  BY DEF Credit
<1>3. TypeOK' BY <1>1, <1>2 DEF IInv, TypeOK
<1>4. CountInv'
  <2>1. estimate' <= credited' BY <1>1 DEF IInv, CountInv
  <2>2. ASSUME NEW p \in Processes, pc'[p] \in {"check", "sample"}
        PROVE  (Counted(p) + Unseen(p))' <= credited'
    <3>1. Counted(p) + Unseen(p) <= credited
      BY <1>2, <2>2 DEF IInv, CountInv
    <3>2. need[p] \in Nat /\ last[p] \in Nat BY DEF IInv, TypeOK
    <3> QED BY <1>1, <1>2, <3>1, <3>2 DEF Counted, Unseen
  <2> QED BY <2>1, <2>2 DEF CountInv
<1>5. ToldInv' BY <1>1, <1>2 DEF IInv, ToldInv
<1>6. OnceInv' /\ WaitsOnce' BY <1>2 DEF IInv, OnceInv, WaitsOnce
<1> QED BY <1>3, <1>4, <1>5, <1>6 DEF IInv

LEMMA DebitInv ==
  ASSUME IInv, NEW n \in 1..EstimateMax, Debit(n)
  PROVE  IInv'
<1>1. /\ estimate \in 0..EstimateMax /\ credited \in Nat /\ n \in 1..EstimateMax
      /\ EstimateMax \in Nat /\ Needed \in Nat
      /\ n <= estimate /\ estimate' = estimate - n /\ credited' = credited
  BY EntropyAssumption DEF Debit, IInv, TypeOK
<1>2. UNCHANGED <<segments, initialized, opened, pc, need, last, crashes>>
  BY DEF Debit
<1>3. TypeOK' BY <1>1, <1>2 DEF IInv, TypeOK
<1>4. CountInv'
  <2>1. estimate' <= credited' BY <1>1 DEF IInv, CountInv
  <2>2. ASSUME NEW p \in Processes, pc'[p] \in {"check", "sample"}
        PROVE  (Counted(p) + Unseen(p))' <= credited'
    <3>1. Counted(p) + Unseen(p) <= credited
      BY <1>2, <2>2 DEF IInv, CountInv
    <3>2. need[p] \in Nat /\ last[p] \in Nat BY DEF IInv, TypeOK
    <3> QED BY <1>1, <1>2, <3>1, <3>2 DEF Counted, Unseen
  <2> QED BY <2>1, <2>2 DEF CountInv
<1>5. ToldInv' BY <1>1, <1>2 DEF IInv, ToldInv
<1>6. OnceInv' /\ WaitsOnce' BY <1>2 DEF IInv, OnceInv, WaitsOnce
<1> QED BY <1>3, <1>4, <1>5, <1>6 DEF IInv

(* A crash forgets the count and the flag, and keeps the segments.         *)
LEMMA CrashInv ==
  ASSUME IInv, NEW p \in Processes, Crash(p)
  PROVE  IInv'
<1>1. UNCHANGED <<estimate, credited, segments, need, last>>
  BY DEF Crash, kernelVars
<1>2. /\ initialized' \in [Processes -> BOOLEAN] /\ initialized'[p] = FALSE
      /\ opened' \in [Processes -> 0..4] /\ opened'[p] = 0
      /\ pc' \in [Processes -> {"open", "check", "sample", "gathered", "leave",
                               "main", "aborted"}]
      /\ pc'[p] = "open"
  BY DEF Crash, Go, IInv, TypeOK
<1>3. \A q \in Processes : q # p => /\ initialized'[q] = initialized[q]
                                    /\ opened'[q] = opened[q]
                                    /\ pc'[q] = pc[q]
  BY DEF Crash, Go, IInv, TypeOK
<1>4. crashes' \in Nat BY DEF Crash, IInv, TypeOK
<1>5. \A q \in Processes : (pc'[q] = "main") <=> (opened'[q] = 4)
  BY <1>2, <1>3 DEF IInv, TypeOK
<1>6. TypeOK' BY <1>1, <1>2, <1>4, <1>5 DEF IInv, TypeOK
<1>7. CountInv' BY <1>1, <1>2, <1>3 DEF IInv, CountInv, Counted, Unseen
<1>8. ToldInv' BY <1>1, <1>2, <1>3 DEF IInv, ToldInv
<1>9. OnceInv' BY <1>2, <1>3 DEF IInv, OnceInv
<1>10. WaitsOnce' BY <1>1, <1>2, <1>3 DEF IInv, WaitsOnce
<1> QED BY <1>6, <1>7, <1>8, <1>9, <1>10 DEF IInv

(* Nothing changes.                                                        *)
LEMMA StutterInv ==
  ASSUME IInv, UNCHANGED vars
  PROVE  IInv'
BY DEF vars, IInv, TypeOK, CountInv, Counted, Unseen, ToldInv, OnceInv, WaitsOnce

(* Every step keeps the invariant.                                         *)
LEMMA NextInv == IInv /\ [Next]_vars => IInv'
<1> SUFFICES ASSUME IInv, [Next]_vars PROVE IInv' OBVIOUS
<1>1. ASSUME NEW p \in Processes, Startup(p) PROVE IInv'
  <2>1. CASE Skip(p) BY <2>1, SkipInv
  <2>2. CASE Enter(p) BY <2>2, EnterInv
  <2>3. CASE CheckSegment(p) BY <2>3, CheckSegmentInv
  <2>4. CASE SampleAborts(p) BY <2>4, SampleAbortsInv
  <2>5. CASE SampleEnough(p) BY <2>5, SampleEnoughInv
  <2>6. CASE SampleLess(p) BY <2>6, SampleLessInv
  <2>7. CASE CreateSegment(p) BY <2>7, CreateSegmentInv
  <2>8. CASE Leave(p) BY <2>8, LeaveInv
  <2> QED BY <1>1, <2>1, <2>2, <2>3, <2>4, <2>5, <2>6, <2>7, <2>8 DEF Startup
<1>2. ASSUME NEW n \in 1..EstimateMax, Credit(n) PROVE IInv' BY <1>2, CreditInv
<1>3. ASSUME NEW n \in 1..EstimateMax, Debit(n) PROVE IInv' BY <1>3, DebitInv
<1>4. ASSUME NEW p \in Processes, Crash(p) PROVE IInv' BY <1>4, CrashInv
<1>5. CASE Settled BY <1>5, StutterInv DEF Settled
<1>6. CASE UNCHANGED vars BY <1>6, StutterInv
<1> QED BY <1>1, <1>2, <1>3, <1>4, <1>5, <1>6 DEF Next

LEMMA Invariance == Spec => []IInv
BY InitInv, NextInv, PTL DEF Spec

-----------------------------------------------------------------------------
\* The variables always have their types.
THEOREM TypeCorrect == Spec => []TypeOK
<1>1. IInv => TypeOK BY DEF IInv
<1> QED BY <1>1, Invariance, PTL

\* However many processes count, crash and tell each other by the segment, and
\* whatever readers use up meanwhile, none gets past the constructor of a file
\* before the kernel was credited with the bits that waitForEntropyInitialization
\* is to wait for.
THEOREM WaitsForEntropy == Spec => []EntropyGathered
<1>1. IInv => EntropyGathered BY DEF IInv, ToldInv, OnceInv, EntropyGathered
<1> QED BY <1>1, Invariance, PTL

\* A process waits in the constructor of its first file object only, and only
\* /dev/random gets a segment.
THEOREM WaitsInFirstFile == Spec => []WaitsOnce
<1>1. IInv => WaitsOnce BY DEF IInv
<1> QED BY <1>1, Invariance, PTL

\* The shared memory segment is there only if some process has counted the bits.
SegmentTellsTruth == segments # {} => credited >= Needed

(* No process is told by another one that there is entropy when there is   *)
(* none, even if the one that told it has crashed since.                   *)
THEOREM SegmentsTellTruth == Spec => []SegmentTellsTruth
<1>1. IInv => SegmentTellsTruth BY DEF IInv, ToldInv, SegmentTellsTruth
<1> QED BY <1>1, Invariance, PTL

-----------------------------------------------------------------------------
(* How long a start takes once the segment exists.                         *)

\* A process that will not look at the kernel's estimate any more: the segment
\* exists, and the process is not at the one place from which the assertion on
\* the estimate could end it.  Without assertions there is no such place.
Released(p) ==
  /\ segments # {}
  /\ pc[p] # "aborted"
  /\ Asserts => pc[p] # "sample"

\* The steps of its own that a process has left to main() when the segment of
\* /dev/random exists: those of the constructor it is in, and one for each file
\* that follows.
StepsOfConstructor(place, init) ==
  CASE place = "open"     -> IF init THEN 1 ELSE 3
    [] place = "check"    -> 2
    [] place = "sample"   -> 3
    [] place = "gathered" -> 2
    [] place = "leave"    -> 1

StepsToMain(place, init, n) ==
  IF place = "main" THEN 0 ELSE StepsOfConstructor(place, init) + (3 - n)

StepsLeft(p) == StepsToMain(pc[p], initialized[p], opened[p])

\* No released process is further than six steps from main(), and one with no
\* step left is there.
MainIsNear ==
  \A p \in Processes :
    Released(p) => /\ StepsLeft(p) \in 0..6
                   /\ StepsLeft(p) = 0 <=> pc[p] = "main"

\* A released process stays released, through crashes of its own too, which send
\* it back to the first file.  Each other step of its own brings it nearer to
\* main(), and no step of another process or of the kernel takes it further away.
ReleasedGetNearer ==
  [][\A p \in Processes :
       Released(p) => /\ Released(p)'
                      /\ Startup(p) => StepsLeft(p)' < StepsLeft(p)
                      /\ ~Crash(p) => StepsLeft(p)' <= StepsLeft(p)]_vars

\* A process that is about to look at the estimate when the segment appears is
\* released by its next step, unless the assertion ends it: that takes a build
\* with assertions and an estimate of 0.
LastSample ==
  [][\A p \in Processes :
       segments # {} /\ pc[p] = "sample" /\ Startup(p) =>
         \/ Released(p)'
         \/ Asserts /\ estimate = 0 /\ pc'[p] = "aborted"]_vars

\* Nothing but an assertion ends a process for good.
OnlyAssertionsEnd == \A p \in Processes : pc[p] = "aborted" => Asserts

LEMMA Places ==
  ASSUME IInv, NEW p \in Processes
  PROVE  /\ pc[p] \in {"open", "check", "sample", "gathered", "leave", "main", "aborted"}
         /\ opened[p] \in 0..4 /\ (pc[p] = "main" <=> opened[p] = 4)
         /\ opened[p] > 0 => initialized[p]
         /\ ~(pc[p] \in {"open", "main"}) => opened[p] = 0
         /\ segments # {} => "/dev/random" \in segments
<1>1. segments \subseteq {"/dev/random"} BY DEF IInv, WaitsOnce
<1>2. segments # {} => "/dev/random" \in segments BY <1>1
<1> QED BY <1>2 DEF IInv, TypeOK, OnceInv

LEMMA ReleasedIsNear == IInv => MainIsNear
<1> SUFFICES ASSUME IInv, NEW p \in Processes, Released(p)
             PROVE  StepsLeft(p) \in 0..6 /\ (StepsLeft(p) = 0 <=> pc[p] = "main")
  BY DEF MainIsNear
<1>1. pc[p] # "aborted" BY DEF Released
<1>2. CASE pc[p] = "main" BY <1>2 DEF StepsLeft, StepsToMain
<1>3. CASE pc[p] = "open"
  <2>1. opened[p] \in 0..3 /\ (opened[p] > 0 => initialized[p]) BY <1>3, Places
  <2>2. StepsLeft(p) = (IF initialized[p] THEN 1 ELSE 3) + (3 - opened[p])
    BY <1>3 DEF StepsLeft, StepsToMain, StepsOfConstructor
  <2> QED BY <1>3, <2>1, <2>2
<1>4. CASE pc[p] \in {"check", "sample", "gathered", "leave"}
  <2>1. opened[p] = 0 BY <1>4, Places
  <2>2. StepsLeft(p) \in 4..6
    BY <1>4, <2>1 DEF StepsLeft, StepsToMain, StepsOfConstructor
  <2> QED BY <1>4, <2>2
<1> QED BY <1>1, <1>2, <1>3, <1>4, Places

(* A step of a process when the segment exists.                            *)
LEMMA OwnStepLeads ==
  ASSUME IInv, segments # {}, NEW p \in Processes, Startup(p)
  PROVE  /\ segments' # {}
         /\ \/ Released(p)'
            \/ Asserts /\ estimate = 0 /\ pc[p] = "sample" /\ pc'[p] = "aborted"
         /\ Released(p) => StepsLeft(p)' < StepsLeft(p)
         /\ \A q \in Processes : q # p => /\ Released(q) => Released(q)'
                                          /\ StepsLeft(q)' = StepsLeft(q)
<1>1. /\ pc \in [Processes -> {"open", "check", "sample", "gathered", "leave",
                              "main", "aborted"}]
      /\ opened \in [Processes -> 0..4] /\ (pc[p] = "main" <=> opened[p] = 4)
      /\ initialized \in [Processes -> BOOLEAN]
      /\ opened[p] > 0 => initialized[p]
      /\ ~(pc[p] \in {"open", "main"}) => opened[p] = 0
      /\ "/dev/random" \in segments
  BY Places DEF IInv, TypeOK
<1>2. /\ \A q \in Processes : q # p => /\ pc'[q] = pc[q] /\ opened'[q] = opened[q]
                                       /\ initialized'[q] = initialized[q]
      /\ segments' # {}
  <2>1. CASE Skip(p) \/ Leave(p) BY <1>1, <2>1 DEF Skip, Leave, Constructed, Go
  <2>2. CASE Enter(p) \/ CheckSegment(p) BY <1>1, <2>2 DEF Enter, CheckSegment, Go
  <2>3. CASE SampleAborts(p) \/ SampleEnough(p) \/ SampleLess(p)
    BY <1>1, <2>3 DEF SampleAborts, SampleEnough, SampleLess, Go
  <2>4. CASE CreateSegment(p) BY <1>1, <2>4 DEF CreateSegment, Go
  <2> QED BY <2>1, <2>2, <2>3, <2>4 DEF Startup
<1>3. \A q \in Processes : q # p => /\ Released(q) => Released(q)'
                                    /\ StepsLeft(q)' = StepsLeft(q)
  BY <1>2 DEF StepsLeft, Released
<1>4. CASE Skip(p) \/ Leave(p)
  <2>1. /\ pc[p] \in {"open", "leave"} /\ (pc[p] = "open" => initialized[p])
        /\ initialized'[p]
    BY <1>1, <1>4 DEF Skip, Leave
  <2>2. opened[p] \in 0..3 /\ StepsOfConstructor(pc[p], initialized[p]) = 1
    BY <1>1, <2>1 DEF StepsOfConstructor
  <2>3. opened'[p] = opened[p] + 1
        /\ pc'[p] = (IF opened[p] + 1 = 4 THEN "main" ELSE "open")
    <3>1. Len(Files) = 4 BY DEF Files
    <3> QED BY <1>1, <1>4, <3>1 DEF Skip, Leave, Constructed, Go
  <2>4. StepsLeft(p) = 4 - opened[p] BY <2>1, <2>2 DEF StepsLeft, StepsToMain
  <2>5. StepsLeft(p)' = 3 - opened[p]
    BY <2>1, <2>2, <2>3 DEF StepsLeft, StepsToMain, StepsOfConstructor
  <2>6. Released(p)' BY <1>2, <2>3 DEF Released
  <2> QED BY <1>2, <1>3, <2>2, <2>4, <2>5, <2>6
<1>5. CASE Enter(p) \/ CheckSegment(p) \/ SampleAborts(p) \/ SampleEnough(p)
             \/ SampleLess(p) \/ CreateSegment(p)
  <2>1. opened'[p] = opened[p] /\ initialized'[p] = initialized[p] /\ opened[p] = 0
    BY <1>1, <1>5 DEF Enter, CheckSegment, SampleAborts, SampleEnough, SampleLess,
                      CreateSegment
  <2>2. Opening(p) = "/dev/random" BY <2>1, FirstFile
  <2>3. \/ pc[p] = "open" /\ ~initialized[p] /\ pc'[p] = "check"
        \/ pc[p] = "check" /\ pc'[p] = "leave"
        \/ pc[p] = "sample" /\ pc'[p] \in {"gathered", "check"}
        \/ pc[p] = "sample" /\ Asserts /\ estimate = 0 /\ pc'[p] = "aborted"
        \/ pc[p] = "gathered" /\ pc'[p] = "leave"
    BY <1>1, <1>5, <2>2 DEF Enter, CheckSegment, SampleAborts, SampleEnough, SampleLess,
                            CreateSegment, Go
  <2>4. pc'[p] = "aborted" \/ StepsLeft(p)' < StepsLeft(p)
    BY <2>1, <2>3 DEF StepsLeft, StepsToMain, StepsOfConstructor
  <2>5. Released(p)' \/ pc'[p] = "aborted" BY <1>2, <2>3 DEF Released
  <2>6. Released(p) => pc'[p] # "aborted" BY <2>3 DEF Released
  <2> QED BY <1>2, <1>3, <2>3, <2>4, <2>5, <2>6
<1> QED BY <1>4, <1>5 DEF Startup

(* A crash, and a step of the kernel.                                      *)
LEMMA OtherStepLeads ==
  ASSUME IInv, NEW p \in Processes, Released(p),
         \/ \E q \in Processes : Crash(q)
         \/ \E n \in 1..EstimateMax : Credit(n) \/ Debit(n)
         \/ Settled \/ UNCHANGED vars
  PROVE  Released(p)' /\ (~Crash(p) => StepsLeft(p)' = StepsLeft(p))
<1>1. ASSUME UNCHANGED <<segments, pc, opened, initialized>>
      PROVE  Released(p)' /\ StepsLeft(p)' = StepsLeft(p)
  BY <1>1 DEF Released, StepsLeft
<1>2. ASSUME NEW q \in Processes, Crash(q)
      PROVE  Released(p)' /\ (~Crash(p) => StepsLeft(p)' = StepsLeft(p))
  BY <1>2 DEF Crash, Go, Released, StepsLeft, IInv, TypeOK
<1>3. ASSUME \/ \E n \in 1..EstimateMax : Credit(n) \/ Debit(n)
             \/ Settled \/ UNCHANGED vars
      PROVE  UNCHANGED <<segments, pc, opened, initialized>>
  BY <1>3 DEF Credit, Debit, Settled, vars
<1> QED BY <1>1, <1>2, <1>3

LEMMA AssertionsInvariance == Spec => []OnlyAssertionsEnd
<1>1. Init => OnlyAssertionsEnd BY DEF Init, OnlyAssertionsEnd
<1>2. IInv /\ OnlyAssertionsEnd /\ [Next]_vars => OnlyAssertionsEnd'
  <2> SUFFICES ASSUME IInv, OnlyAssertionsEnd, [Next]_vars, NEW p \in Processes,
                      pc'[p] = "aborted"
               PROVE  Asserts
    BY DEF OnlyAssertionsEnd
  <2>1. pc \in [Processes -> {"open", "check", "sample", "gathered", "leave",
                              "main", "aborted"}]
    BY DEF IInv, TypeOK
  <2>2. CASE pc'[p] = pc[p] BY <2>2 DEF OnlyAssertionsEnd
  <2>3. ASSUME NEW q \in Processes, Startup(q) PROVE Asserts \/ pc'[p] = pc[p]
    <3>1. CASE Skip(q) \/ Leave(q) BY <2>1, <3>1 DEF Skip, Leave, Constructed, Go
    <3>2. CASE Enter(q) \/ CheckSegment(q) \/ CreateSegment(q)
      BY <2>1, <3>2 DEF Enter, CheckSegment, CreateSegment, Go
    <3>3. CASE SampleAborts(q) \/ SampleEnough(q) \/ SampleLess(q)
      BY <2>1, <3>3 DEF SampleAborts, SampleEnough, SampleLess, Go
    <3> QED BY <2>3, <3>1, <3>2, <3>3 DEF Startup
  <2>4. ASSUME NEW q \in Processes, Crash(q) PROVE pc'[p] = pc[p]
    BY <2>1, <2>4 DEF Crash, Go
  <2>5. ASSUME (\E n \in 1..EstimateMax : Credit(n) \/ Debit(n)) \/ Settled
                 \/ UNCHANGED vars
        PROVE  pc'[p] = pc[p]
    BY <2>5 DEF Credit, Debit, Settled, vars
  <2> QED BY <2>2, <2>3, <2>4, <2>5 DEF Next
<1> QED BY <1>1, <1>2, Invariance, PTL DEF Spec

LEMMA ReleasedIsNearNext == IInv' => MainIsNear'
BY ReleasedIsNear, PTL

\* The safety part of SegmentReleases.  Once the segment exists a process gets to
\* main() in six steps of its own, whatever the kernel's estimate does and
\* whichever other processes start, wait or crash; a crash of its own starts the
\* six steps again.  The exception is a process of a build with assertions which
\* is about to look at the estimate when the segment appears: if the estimate is
\* 0 then, it is aborted (EstimateIsPositive).
THEOREM SegmentLeadsToMain ==
  Spec => /\ []MainIsNear
          /\ ReleasedGetNearer
          /\ LastSample
          /\ []OnlyAssertionsEnd
<1> DEFINE Nearer(p) == Released(p) => /\ Released(p)'
                                       /\ Startup(p) => StepsLeft(p)' < StepsLeft(p)
                                       /\ ~Crash(p) => StepsLeft(p)' <= StepsLeft(p)
           Last(p) == segments # {} /\ pc[p] = "sample" /\ Startup(p) =>
                        \/ Released(p)'
                        \/ Asserts /\ estimate = 0 /\ pc'[p] = "aborted"
<1>1. IInv => \A p \in Processes : Last(p) BY OwnStepLeads
<1>2. IInv /\ IInv' /\ [Next]_vars => \A p \in Processes : Nearer(p)
  <2> SUFFICES ASSUME IInv, IInv', [Next]_vars, NEW p \in Processes, Released(p)
               PROVE  /\ Released(p)'
                      /\ Startup(p) => StepsLeft(p)' < StepsLeft(p)
                      /\ ~Crash(p) => StepsLeft(p)' <= StepsLeft(p)
    OBVIOUS
  <2>1. segments # {} BY DEF Released
  <2>2. StepsLeft(p) \in Nat BY ReleasedIsNear DEF MainIsNear
  <2>3. Released(p)' => StepsLeft(p)' \in Nat BY ReleasedIsNearNext DEF MainIsNear
  <2>4. Startup(p) => Released(p)' /\ StepsLeft(p)' < StepsLeft(p)
    BY <2>1, OwnStepLeads DEF Released
  <2>5. \/ Startup(p)
        \/ Released(p)' /\ (~Crash(p) => StepsLeft(p)' = StepsLeft(p))
    <3>1. ASSUME NEW q \in Processes, Startup(q), q # p
          PROVE  Released(p)' /\ StepsLeft(p)' = StepsLeft(p)
      BY <2>1, <3>1, OwnStepLeads
    <3> QED BY <3>1, OtherStepLeads DEF Next
  <2> QED BY <2>2, <2>3, <2>4, <2>5
<1> QED BY <1>1, <1>2, ReleasedIsNear, Invariance, AssertionsInvariance, PTL
       DEF Spec, ReleasedGetNearer, LastSample
=============================================================================

----------------------- MODULE FacilityEntropyProofs -----------------------
(***************************************************************************)
(* What holds of the entropy functions, and of the table of the facility   *)
(* that leads to them, for every number of threads, size of the requests   *)
(* and size of the kernel's pool, in both builds, however reads are cut    *)
(* short, interrupted or refused.                                          *)
(***************************************************************************)
EXTENDS FacilityEntropy, TLAPS

\* How many bytes the caller of a function that has returned may rely on.
Written(c) == IF Blocking(fn[c]) THEN asked[c] ELSE result[c]

\* While a function runs, what it has written is what its buf has passed; once
\* it has returned, what the contract says.  A nonblocking function never gets
\* to a second read.
ThreadInv(c) ==
  /\ pc[c] \in {"lock", "read"} =>
       /\ bufSize[c] > 0
       /\ buf[c] + bufSize[c] = asked[c]
       /\ Blocking(fn[c]) \/ buf[c] = 0
       /\ memory[c] = [i \in 1..asked[c] |->
                         IF i <= buf[c] THEN Source(fn[c]) ELSE NoByte]
  /\ pc[c] = "idle" =>
       memory[c] = [i \in 1..asked[c] |->
                      IF i <= Written(c) THEN Source(fn[c]) ELSE NoByte]

IInv ==
  /\ TypeOK
  /\ memory = [c \in Callers |-> memory[c]]
  /\ \A c \in Callers : ThreadInv(c)

-----------------------------------------------------------------------------
(* A read's source is one of two, neither of which is unwritten memory.    *)
LEMMA Sources ==
  ASSUME NEW f PROVE Source(f) \in {"random", "urandom"} /\ Source(f) # NoByte
BY CryptographicRandomAssumption DEF Source

(* No thread runs at first.                                                *)
LEMMA InitInv == Init => IInv
<1> SUFFICES ASSUME Init PROVE IInv OBVIOUS
<1> USE CryptographicRandomAssumption DEF Init
<1>1. TypeOK BY DEF TypeOK, Functions
<1>2. \A c \in Callers : ThreadInv(c)
  <2> TAKE c \in Callers
  <2>1. memory[c] = <<>> /\ asked[c] = 0 /\ pc[c] = "idle" OBVIOUS
  <2>2. <<>> = [i \in 1..0 |->
                  IF i <= Written(c) THEN Source(fn[c]) ELSE NoByte]
    OBVIOUS
  <2> QED BY <2>1, <2>2 DEF ThreadInv
<1> QED BY <1>1, <1>2 DEF IInv

(* The memory after the kernel wrote r bytes where the last read ended.    *)
LEMMA ReadLemma ==
  ASSUME IInv, NEW c \in Callers, pc[c] = "read", NEW r \in 1..bufSize[c],
         Read(c, r)
  PROVE  /\ memory'[c] = [i \in 1..asked[c] |->
                            IF i <= buf[c] + r THEN Source(fn[c]) ELSE NoByte]
         /\ \A d \in Callers : d # c => memory'[d] = memory[d]
         /\ memory' = [d \in Callers |-> memory'[d]]
         /\ memory'[c] \in [1..asked[c] -> {"random", "urandom", NoByte}]
         /\ pool' \in 0..PoolSize
         /\ mutex' \in [Files -> Callers \cup {Free}]
<1>1. /\ bufSize[c] \in Nat /\ buf[c] \in Nat /\ asked[c] \in Nat
      /\ fn[c] \in Functions /\ r \in Nat /\ r > 0 /\ r <= bufSize[c]
      /\ pool \in 0..PoolSize /\ PoolSize \in Nat
  BY CryptographicRandomAssumption DEF IInv, TypeOK
<1>2. /\ memory = [d \in Callers |-> memory[d]]
      /\ memory[c] = [i \in 1..asked[c] |->
                        IF i <= buf[c] THEN Source(fn[c]) ELSE NoByte]
  BY DEF IInv, ThreadInv
<1>3. memory' = [memory EXCEPT ![c] =
                  [i \in 1..asked[c] |->
                     IF i \in (buf[c] + 1)..(buf[c] + r) THEN Source(fn[c])
                                                         ELSE memory[c][i]]]
  BY DEF Read
<1>4. memory'[c] = [i \in 1..asked[c] |->
                      IF i <= buf[c] + r THEN Source(fn[c]) ELSE NoByte]
  <2>1. memory'[c] = [i \in 1..asked[c] |->
                        IF i \in (buf[c] + 1)..(buf[c] + r)
                          THEN Source(fn[c]) ELSE memory[c][i]]
    BY <1>2, <1>3
  <2>2. \A i \in 1..asked[c] :
          (IF i \in (buf[c] + 1)..(buf[c] + r) THEN Source(fn[c]) ELSE memory[c][i])
            = IF i <= buf[c] + r THEN Source(fn[c]) ELSE NoByte
    BY <1>1, <1>2
  <2> QED BY <2>1, <2>2
<1>5. \A d \in Callers : d # c => memory'[d] = memory[d] BY <1>2, <1>3
<1>6. memory' = [d \in Callers |-> memory'[d]] BY <1>2, <1>3
<1>7. memory'[c] \in [1..asked[c] -> {"random", "urandom", NoByte}]
  BY <1>4, Sources
<1>8. pool' \in 0..PoolSize BY <1>1 DEF Read
<1>9. mutex' \in [Files -> Callers \cup {Free}]
  BY DEF Read, Unlock, IInv, TypeOK
<1> QED BY <1>4, <1>5, <1>6, <1>7, <1>8, <1>9

(* A step of one thread leaves the others where they are.                  *)
LEMMA OneThread ==
  ASSUME IInv, NEW c \in Callers, TypeOK', ThreadInv(c)',
         memory' = [d \in Callers |-> memory'[d]],
         \A d \in Callers : d # c =>
           /\ pc'[d] = pc[d] /\ fn'[d] = fn[d] /\ asked'[d] = asked[d]
           /\ bufSize'[d] = bufSize[d] /\ buf'[d] = buf[d]
           /\ memory'[d] = memory[d] /\ result'[d] = result[d]
  PROVE  IInv'
<1>1. ASSUME NEW d \in Callers, d # c PROVE ThreadInv(d)'
  BY <1>1 DEF IInv, ThreadInv, Written
<1> QED BY <1>1 DEF IInv

-----------------------------------------------------------------------------
(* A call starts with nothing written.                                     *)
LEMMA CallInv ==
  ASSUME IInv, NEW c \in Callers, NEW f \in Functions, NEW n \in 0..MaxRequest,
         Call(c, f, n)
  PROVE  IInv'
<1>1. n \in Nat /\ MaxRequest \in Nat BY CryptographicRandomAssumption
<1>2. memory' = [memory EXCEPT ![c] = [i \in 1..n |-> NoByte]]
      /\ memory = [d \in Callers |-> memory[d]]
  BY DEF Call, IInv
<1>3. /\ memory'[c] = [i \in 1..n |-> NoByte]
      /\ \A d \in Callers : d # c => memory'[d] = memory[d]
      /\ memory' = [d \in Callers |-> memory'[d]]
  BY <1>2
<1>4. /\ pc'[c] = (IF n = 0 THEN "idle" ELSE Attempt)
      /\ fn'[c] = f /\ asked'[c] = n /\ bufSize'[c] = n /\ buf'[c] = 0
      /\ result'[c] = 0
  BY DEF Call, IInv, TypeOK
<1>5. \A d \in Callers : d # c =>
        /\ pc'[d] = pc[d] /\ fn'[d] = fn[d] /\ asked'[d] = asked[d]
        /\ bufSize'[d] = bufSize[d] /\ buf'[d] = buf[d] /\ result'[d] = result[d]
  BY DEF Call, IInv, TypeOK
<1>6. TypeOK'
  <2>1. /\ build' \in Builds /\ pool' \in 0..PoolSize
        /\ mutex' \in [Files -> Callers \cup {Free}]
        /\ pc' \in [Callers -> {"idle", "lock", "read", "aborted"}]
        /\ fn' \in [Callers -> Functions]
        /\ asked' \in [Callers -> 0..MaxRequest]
        /\ bufSize' \in [Callers -> 0..MaxRequest]
        /\ buf' \in [Callers -> 0..MaxRequest]
        /\ result' \in [Callers -> 0..MaxRequest]
    BY <1>1 DEF Call, Attempt, IInv, TypeOK
  <2>2. \A d \in Callers :
          memory'[d] \in [1..asked'[d] -> {"random", "urandom", NoByte}]
    <3>1. memory'[c] \in [1..asked'[c] -> {"random", "urandom", NoByte}]
      BY <1>3, <1>4
    <3>2. \A d \in Callers : d # c =>
            memory'[d] \in [1..asked'[d] -> {"random", "urandom", NoByte}]
      BY <1>3, <1>5 DEF IInv, TypeOK
    <3> QED BY <3>1, <3>2
  <2> QED BY <2>1, <2>2 DEF TypeOK
<1>7. ThreadInv(c)'
  <2>1. CASE n = 0
    <3>1. pc'[c] = "idle" BY <1>4, <2>1
    <3>2. memory'[c] = [i \in 1..asked'[c] |->
                          IF i <= Written(c)' THEN Source(fn'[c]) ELSE NoByte]
      BY <1>3, <1>4, <2>1
    <3> QED BY <3>1, <3>2 DEF ThreadInv
  <2>2. CASE n # 0
    <3>1. pc'[c] \in {"lock", "read"} /\ n > 0 /\ 0 + n = n
      BY <1>1, <1>4, <2>2 DEF Attempt
    <3>2. \A i \in 1..n : ~(i <= 0) OBVIOUS
    <3>3. memory'[c] = [i \in 1..n |->
                          IF i <= 0 THEN Source(fn'[c]) ELSE NoByte]
      BY <1>3, <3>2
    <3> QED BY <1>4, <3>1, <3>3 DEF ThreadInv
  <2> QED BY <2>1, <2>2
<1> QED BY <1>3, <1>5, <1>6, <1>7, OneThread

(* Steps that only take or give back a mutex, or go back to an attempt.    *)
LEMMA LockInv == ASSUME IInv, NEW c \in Callers, Lock(c) PROVE IInv'
<1>1. TypeOK' BY DEF Lock, IInv, TypeOK, Files
<1>2. ThreadInv(c)' BY DEF Lock, IInv, TypeOK, ThreadInv, Written
<1> QED BY <1>1, <1>2, OneThread DEF Lock, IInv, TypeOK

LEMMA RetryInv == ASSUME IInv, NEW c \in Callers, Retry(c) PROVE IInv'
<1>1. TypeOK' BY DEF Retry, Unlock, Attempt, IInv, TypeOK
<1>2. ThreadInv(c)' BY DEF Retry, Attempt, IInv, TypeOK, ThreadInv, Written
<1> QED BY <1>1, <1>2, OneThread DEF Retry, IInv, TypeOK

(* A blocking read ends the call or goes on after what it wrote.           *)
LEMMA BlockingReadInv ==
  ASSUME IInv, NEW c \in Callers, BlockingRead(c) PROVE IInv'
<1>1. PICK r \in 1..bufSize[c] :
        /\ Read(c, r)
        /\ bufSize' = [bufSize EXCEPT ![c] = @ - r]
        /\ \/ /\ bufSize[c] = r
              /\ pc' = [pc EXCEPT ![c] = "idle"]
              /\ UNCHANGED buf
           \/ /\ bufSize[c] > r
              /\ pc' = [pc EXCEPT ![c] = Attempt]
              /\ buf' = [buf EXCEPT ![c] = @ + r]
  BY DEF BlockingRead
<1>2. /\ pc[c] = "read" /\ Blocking(fn[c])
      /\ UNCHANGED <<build, fn, asked, result>>
  BY DEF BlockingRead
<1>3. /\ bufSize[c] \in 0..MaxRequest /\ buf[c] \in 0..MaxRequest
      /\ asked[c] \in 0..MaxRequest /\ r \in Nat /\ r > 0 /\ r <= bufSize[c]
      /\ buf[c] + bufSize[c] = asked[c] /\ MaxRequest \in Nat
  BY <1>2, CryptographicRandomAssumption DEF IInv, TypeOK, ThreadInv
<1>4. /\ memory'[c] = [i \in 1..asked[c] |->
                         IF i <= buf[c] + r THEN Source(fn[c]) ELSE NoByte]
      /\ \A d \in Callers : d # c => memory'[d] = memory[d]
      /\ memory' = [d \in Callers |-> memory'[d]]
      /\ memory'[c] \in [1..asked[c] -> {"random", "urandom", NoByte}]
      /\ pool' \in 0..PoolSize
      /\ mutex' \in [Files -> Callers \cup {Free}]
  BY <1>1, <1>2, ReadLemma
<1>5. TypeOK'
  <2>1. bufSize' \in [Callers -> 0..MaxRequest] BY <1>1, <1>3 DEF IInv, TypeOK
  <2>2. buf' \in [Callers -> 0..MaxRequest]
    <3>1. buf[c] + r \in 0..MaxRequest BY <1>3
    <3> QED BY <3>1, <1>1 DEF IInv, TypeOK
  <2>3. pc' \in [Callers -> {"idle", "lock", "read", "aborted"}]
    BY <1>1 DEF IInv, TypeOK, Attempt
  <2>4. \A d \in Callers :
          memory'[d] \in [1..asked'[d] -> {"random", "urandom", NoByte}]
    BY <1>2, <1>4 DEF IInv, TypeOK
  <2> QED BY <1>2, <1>4, <2>1, <2>2, <2>3, <2>4 DEF IInv, TypeOK
<1>6. ThreadInv(c)'
  <2>1. CASE bufSize[c] = r
    <3>1. pc'[c] = "idle" BY <1>1, <1>3, <2>1 DEF IInv, TypeOK
    <3>2. Written(c)' = buf[c] + r BY <1>2, <1>3, <2>1 DEF Written
    <3> QED BY <1>2, <1>4, <3>1, <3>2 DEF ThreadInv
  <2>2. CASE bufSize[c] > r
    <3>1. /\ pc'[c] \in {"lock", "read"} /\ bufSize'[c] = bufSize[c] - r
          /\ buf'[c] = buf[c] + r
      BY <1>1, <1>3, <2>2 DEF IInv, TypeOK, Attempt
    <3>2. bufSize'[c] > 0 /\ buf'[c] + bufSize'[c] = asked'[c]
      BY <1>2, <1>3, <2>2, <3>1
    <3> QED BY <1>2, <1>4, <3>1, <3>2 DEF ThreadInv
  <2> QED BY <1>3, <2>1, <2>2
<1>7. \A d \in Callers : d # c =>
        pc'[d] = pc[d] /\ bufSize'[d] = bufSize[d] /\ buf'[d] = buf[d]
  BY <1>1 DEF IInv, TypeOK
<1> QED BY <1>2, <1>4, <1>5, <1>6, <1>7, OneThread

(* A nonblocking read is the first and the last of its call.               *)
LEMMA NonblockingReadInv ==
  ASSUME IInv, NEW c \in Callers, NonblockingRead(c) PROVE IInv'
<1>1. PICK r \in 1..bufSize[c] :
        Read(c, r) /\ result' = [result EXCEPT ![c] = r]
  BY DEF NonblockingRead
<1>2. /\ pc[c] = "read" /\ ~Blocking(fn[c])
      /\ pc' = [pc EXCEPT ![c] = "idle"]
      /\ UNCHANGED <<build, fn, asked, bufSize, buf>>
  BY DEF NonblockingRead
<1>3. /\ bufSize[c] \in 0..MaxRequest /\ r \in 0..MaxRequest /\ buf[c] = 0
  BY <1>2, CryptographicRandomAssumption DEF IInv, TypeOK, ThreadInv
<1>4. /\ memory'[c] = [i \in 1..asked[c] |->
                         IF i <= buf[c] + r THEN Source(fn[c]) ELSE NoByte]
      /\ \A d \in Callers : d # c => memory'[d] = memory[d]
      /\ memory' = [d \in Callers |-> memory'[d]]
      /\ memory'[c] \in [1..asked[c] -> {"random", "urandom", NoByte}]
      /\ pool' \in 0..PoolSize
      /\ mutex' \in [Files -> Callers \cup {Free}]
  BY <1>1, <1>2, ReadLemma
<1>5. TypeOK'
  <2>1. \A d \in Callers :
          memory'[d] \in [1..asked'[d] -> {"random", "urandom", NoByte}]
    BY <1>2, <1>4 DEF IInv, TypeOK
  <2>2. result' \in [Callers -> 0..MaxRequest] BY <1>1, <1>3 DEF IInv, TypeOK
  <2>3. pc' \in [Callers -> {"idle", "lock", "read", "aborted"}]
    BY <1>2 DEF IInv, TypeOK
  <2> QED BY <1>2, <1>4, <2>1, <2>2, <2>3 DEF IInv, TypeOK
<1>6. ThreadInv(c)'
  <2>1. pc'[c] = "idle" /\ result'[c] = r BY <1>1, <1>2 DEF IInv, TypeOK
  <2>2. Written(c)' = buf[c] + r BY <1>2, <1>3, <2>1 DEF Written
  <2> QED BY <1>2, <1>4, <2>1, <2>2 DEF ThreadInv
<1>7. \A d \in Callers : d # c => pc'[d] = pc[d] /\ result'[d] = result[d]
  BY <1>1, <1>2 DEF IInv, TypeOK
<1> QED BY <1>2, <1>4, <1>5, <1>6, <1>7, OneThread

(* A nonblocking function that got an error has written nothing.           *)
LEMMA NonblockingErrorInv ==
  ASSUME IInv, NEW c \in Callers, NonblockingError(c) PROVE IInv'
<1>1. /\ pc[c] = "read" /\ ~Blocking(fn[c]) /\ pc' = [pc EXCEPT ![c] = "idle"]
      /\ result' = [result EXCEPT ![c] = 0]
      /\ UNCHANGED <<build, pool, fn, asked, bufSize, buf, memory>>
  BY DEF NonblockingError
<1>2. TypeOK'
  <2>1. mutex' \in [Files -> Callers \cup {Free}]
    BY DEF NonblockingError, Unlock, IInv, TypeOK
  <2>2. result' \in [Callers -> 0..MaxRequest]
    BY <1>1, CryptographicRandomAssumption DEF IInv, TypeOK
  <2>3. pc' \in [Callers -> {"idle", "lock", "read", "aborted"}]
    BY <1>1 DEF IInv, TypeOK
  <2> QED BY <1>1, <2>1, <2>2, <2>3 DEF IInv, TypeOK
<1>3. ThreadInv(c)'
  <2>1. pc'[c] = "idle" /\ result'[c] = 0 BY <1>1 DEF IInv, TypeOK
  <2>2. Written(c)' = buf[c]
    BY <1>1, <2>1 DEF Written, IInv, ThreadInv
  <2> QED BY <1>1, <2>1, <2>2 DEF IInv, ThreadInv
<1>4. \A d \in Callers : d # c => pc'[d] = pc[d] /\ result'[d] = result[d]
  BY <1>1 DEF IInv, TypeOK
<1> QED BY <1>1, <1>2, <1>3, <1>4, OneThread DEF IInv

(* A failed assertion stops every thread where it is.                      *)
LEMMA UnexpectedErrorInv ==
  ASSUME IInv, NEW c \in Callers, UnexpectedError(c) PROVE IInv'
<1>1. TypeOK' BY DEF UnexpectedError, IInv, TypeOK
<1>2. \A d \in Callers : pc'[d] = "aborted" BY DEF UnexpectedError
<1> QED BY <1>1, <1>2 DEF UnexpectedError, IInv, ThreadInv

LEMMA GainEntropyInv == IInv /\ GainEntropy => IInv'
<1> SUFFICES ASSUME IInv, GainEntropy PROVE IInv' OBVIOUS
<1>1. TypeOK'
  BY CryptographicRandomAssumption DEF GainEntropy, IInv, TypeOK
<1> QED BY <1>1 DEF GainEntropy, IInv, ThreadInv, Written

LEMMA StutterInv == IInv /\ UNCHANGED vars => IInv'
BY DEF vars, IInv, TypeOK, ThreadInv, Written

LEMMA NextInv == IInv /\ [Next]_vars => IInv'
<1> SUFFICES ASSUME IInv, [Next]_vars PROVE IInv' OBVIOUS
<1>1. ASSUME NEW c \in Callers, NEW f \in Functions, NEW n \in 0..MaxRequest,
             Call(c, f, n)
      PROVE  IInv'
  BY <1>1, CallInv
<1>2. ASSUME NEW c \in Callers, Serve(c) PROVE IInv'
  <2>1. CASE Lock(c) BY <2>1, LockInv
  <2>2. CASE BlockingRead(c) BY <2>2, BlockingReadInv
  <2>3. CASE Retry(c) BY <2>3, RetryInv
  <2>4. CASE UnexpectedError(c) BY <2>4, UnexpectedErrorInv
  <2>5. CASE NonblockingRead(c) BY <2>5, NonblockingReadInv
  <2>6. CASE NonblockingError(c) BY <2>6, NonblockingErrorInv
  <2> QED BY <1>2, <2>1, <2>2, <2>3, <2>4, <2>5, <2>6 DEF Serve
<1>3. CASE GainEntropy BY <1>3, GainEntropyInv
<1>4. CASE Aborted BY <1>4, StutterInv DEF Aborted
<1>5. CASE UNCHANGED vars BY <1>5, StutterInv
<1> QED BY <1>1, <1>2, <1>3, <1>4, <1>5 DEF Next

LEMMA Invariance == Spec => []IInv
<1>1. Init => IInv BY InitInv
<1>2. IInv /\ [Next]_vars => IInv' BY NextInv
<1> QED BY <1>1, <1>2, PTL DEF Spec

-----------------------------------------------------------------------------
(* The variables of the functions have their types: no size gets negative  *)
(* and no memory is written beyond its end.                                *)
THEOREM TypeCorrect == Spec => []TypeOK
<1>1. IInv => TypeOK BY DEF IInv
<1> QED BY <1>1, Invariance, PTL

(* What a function promises of the memory of its caller when it returns.   *)
THEOREM ContractKept == Spec => []Contract
<1>1. IInv => Contract BY DEF IInv, ThreadInv, Written, Contract
<1> QED BY <1>1, Invariance, PTL

(* A retry goes on where the last read ended: no gap and no overlap.       *)
THEOREM RetriesLeaveNoGap == Spec => []ResumesWhereItStopped
<1>1. IInv => ResumesWhereItStopped
  <2> SUFFICES ASSUME IInv, NEW c \in Callers, pc[c] \in {"lock", "read"}
               PROVE  /\ buf[c] + bufSize[c] = asked[c]
                      /\ \A i \in 1..asked[c] : memory[c][i] = NoByte <=> i > buf[c]
    BY DEF ResumesWhereItStopped
  <2>1. buf[c] \in Nat /\ asked[c] \in Nat
    BY CryptographicRandomAssumption DEF IInv, TypeOK
  <2>2. /\ buf[c] + bufSize[c] = asked[c]
        /\ memory[c] = [i \in 1..asked[c] |->
                          IF i <= buf[c] THEN Source(fn[c]) ELSE NoByte]
    BY DEF IInv, ThreadInv
  <2> QED BY <2>1, <2>2, Sources
<1> QED BY <1>1, Invariance, PTL

-----------------------------------------------------------------------------
(* The table calls the functions and does nothing else.                    *)
LEMMA EntriesCallFunctions == FacilitySpec => Spec
<1>1. FacilityInit => Init BY DEF FacilityInit
<1>2. [FacilityNext]_facilityVars => [Next]_vars
  <2>1. ASSUME NEW c \in Callers, NEW e \in Entries, NEW n \in 0..MaxRequest,
               EntryCall(c, e, n)
        PROVE  Next
    <3>1. Function(Method(e)) \in Functions
      BY DEF Entries, Method, Function, Functions
    <3> QED BY <2>1, <3>1 DEF EntryCall, Next
  <2> QED BY <2>1 DEF FacilityNext, Next, facilityVars
<1> QED BY <1>1, <1>2, PTL DEF FacilitySpec, Spec

\* Each thread runs the function that the entry it called leads to.
EntryInv ==
  /\ entry \in [Callers -> Entries]
  /\ \A c \in Callers : fn[c] = Function(Method(entry[c]))

LEMMA EntryInvariance == FacilitySpec => []EntryInv
<1>1. FacilityInit => EntryInv
  BY DEF FacilityInit, Init, EntryInv, Entries, Method, Function
<1>2. TypeOK /\ EntryInv /\ [FacilityNext]_facilityVars => EntryInv'
  <2> SUFFICES ASSUME TypeOK, EntryInv, [FacilityNext]_facilityVars
               PROVE  EntryInv'
    OBVIOUS
  <2>1. ASSUME NEW c \in Callers, NEW e \in Entries, NEW n \in 0..MaxRequest,
               EntryCall(c, e, n)
        PROVE  EntryInv'
    <3>1. entry' = [entry EXCEPT ![c] = e]
          /\ fn' = [fn EXCEPT ![c] = Function(Method(e))]
      BY <2>1 DEF EntryCall, Call
    <3> QED BY <3>1 DEF TypeOK, EntryInv
  <2>2. CASE UNCHANGED <<fn, entry>> BY <2>2 DEF EntryInv
  <2>3. ASSUME NEW c \in Callers, Serve(c) PROVE UNCHANGED fn
    BY <2>3 DEF Serve, Lock, BlockingRead, Retry, UnexpectedError,
                NonblockingRead, NonblockingError
  <2>4. GainEntropy \/ Aborted \/ UNCHANGED vars => UNCHANGED fn
    BY DEF GainEntropy, Aborted, vars
  <2> QED BY <2>1, <2>2, <2>3, <2>4 DEF FacilityNext, facilityVars
<1>3. FacilitySpec => []TypeOK BY EntriesCallFunctions, TypeCorrect, PTL
<1> QED BY <1>1, <1>2, <1>3, PTL DEF FacilitySpec

(* "Number of bytes generated": a client may use as many bytes as an entry *)
(* of the table returns, all of them after a blocking one, and no more.    *)
THEOREM EntriesKeepContract == FacilitySpec => []EntryContract
<1>1. IInv /\ EntryInv => EntryContract
  <2> SUFFICES ASSUME IInv, EntryInv, NEW c \in Callers, pc[c] = "idle",
                      NEW i \in 1..asked[c]
               PROVE  memory[c][i] # NoByte
                        <=> entry[c] \in BlockingEntries \/ i <= result[c]
    BY DEF EntryContract
  <2>1. Blocking(fn[c]) <=> entry[c] \in BlockingEntries
    <3>1. entry[c] \in Entries /\ fn[c] = Function(Method(entry[c]))
      BY DEF EntryInv
    <3> QED BY <3>1 DEF Entries, Method, Function, Blocking, BlockingEntries
  <2>2. memory[c][i] # NoByte <=> i <= Written(c)
    <3>1. memory[c] = [j \in 1..asked[c] |->
                         IF j <= Written(c) THEN Source(fn[c]) ELSE NoByte]
      BY DEF IInv, ThreadInv
    <3>2. memory[c][i] = IF i <= Written(c) THEN Source(fn[c]) ELSE NoByte
      BY <3>1
    <3> QED BY <3>2, Sources
  <2>3. i <= asked[c] BY DEF IInv, TypeOK
  <2> QED BY <2>1, <2>2, <2>3 DEF Written
<1> QED BY <1>1, EntriesCallFunctions, Invariance, EntryInvariance, PTL

-----------------------------------------------------------------------------
(* The mutexes of the files.                                               *)

\* A mutex is held by the thread that reads from its file, and by no other; a
\* build with getrandom(2) uses none.  A failed assertion stops all threads
\* and leaves the mutexes as they are.
MutexInv ==
  /\ \A c \in Callers :
       /\ pc[c] = "lock" => build = "files"
       /\ pc[c] = "read" /\ build = "files" => mutex[File(fn[c])] = c
  /\ \A f \in Files : \A c \in Callers :
       mutex[f] = c =>
         build = "files" /\ pc[c] \in {"read", "aborted"} /\ File(fn[c]) = f
  /\ (\E c \in Callers : pc[c] = "aborted") => \A c \in Callers : pc[c] = "aborted"

\* No two functions read from the same file.
LEMMA FileOfFunction ==
  /\ \A f \in Functions : File(f) \in Files
  /\ \A f, g \in Functions : File(f) = File(g) => f = g
BY DEF Files, File, Functions

LEMMA MutexInit == Init => MutexInv
BY CryptographicRandomAssumption DEF Init, MutexInv

LEMMA MutexCall ==
  ASSUME TypeOK, MutexInv, NEW c \in Callers, NEW f \in Functions,
         NEW n \in 0..MaxRequest, Call(c, f, n)
  PROVE  MutexInv'
<1>1. /\ pc[c] = "idle" /\ pc'[c] = (IF n = 0 THEN "idle" ELSE Attempt)
      /\ \A d \in Callers : d # c => pc'[d] = pc[d] /\ fn'[d] = fn[d]
      /\ UNCHANGED <<build, mutex>>
  BY DEF Call, TypeOK
<1>2. pc'[c] = "lock" => build = "files" BY <1>1 DEF Attempt
<1>3. pc'[c] = "read" => build # "files" BY <1>1 DEF Attempt
<1>4. pc'[c] # "aborted" BY <1>1 DEF Attempt
<1>5. \A g \in Files : mutex[g] # c BY <1>1 DEF MutexInv
<1> QED BY <1>1, <1>2, <1>3, <1>4, <1>5 DEF MutexInv

LEMMA MutexLock ==
  ASSUME TypeOK, MutexInv, NEW c \in Callers, Lock(c)
  PROVE  MutexInv'
<1>1. /\ pc[c] = "lock" /\ pc'[c] = "read"
      /\ \A d \in Callers : d # c => pc'[d] = pc[d]
      /\ UNCHANGED <<build, fn>> /\ build = "files"
  BY DEF Lock, TypeOK, MutexInv
<1>2. File(fn[c]) \in Files BY FileOfFunction DEF TypeOK
<1>3. /\ mutex[File(fn[c])] = Free /\ mutex'[File(fn[c])] = c
      /\ \A f \in Files : f # File(fn[c]) => mutex'[f] = mutex[f]
  BY <1>2 DEF Lock, TypeOK
<1>4. \A d \in Callers : pc[d] = "read" => File(fn[d]) # File(fn[c])
  BY <1>1, <1>3, CryptographicRandomAssumption DEF MutexInv
<1>5. \A d \in Callers : File(fn[d]) \in Files BY FileOfFunction DEF TypeOK
<1> QED BY <1>1, <1>2, <1>3, <1>4, <1>5 DEF MutexInv

\* However an attempt to read ends, it gives the mutex back.
LEMMA MutexUnlock ==
  ASSUME TypeOK, MutexInv, NEW c \in Callers, pc[c] = "read", Unlock(c),
         NEW where \in {"idle", Attempt}, pc' = [pc EXCEPT ![c] = where],
         UNCHANGED <<build, fn>>
  PROVE  MutexInv'
<1>1. /\ pc'[c] = where /\ \A d \in Callers : d # c => pc'[d] = pc[d]
      /\ pc'[c] = "lock" => build = "files"
      /\ pc'[c] = "read" => build # "files"
      /\ pc'[c] # "aborted"
  BY DEF TypeOK, Attempt
<1>2. File(fn[c]) \in Files BY FileOfFunction DEF TypeOK
<1>3. CASE build = "files"
  <2>1. /\ mutex[File(fn[c])] = c /\ mutex'[File(fn[c])] = Free
        /\ \A f \in Files : f # File(fn[c]) => mutex'[f] = mutex[f]
    BY <1>2, <1>3 DEF Unlock, TypeOK, MutexInv
  <2>2. \A f \in Files : mutex[f] = c => f = File(fn[c]) BY DEF MutexInv
  <2>3. \A d \in Callers : pc[d] = "read" /\ File(fn[d]) = File(fn[c]) => d = c
    BY <1>3, <2>1 DEF MutexInv
  <2>4. \A d \in Callers : File(fn[d]) \in Files BY FileOfFunction DEF TypeOK
  <2> QED BY <1>1, <1>3, <2>1, <2>2, <2>3, <2>4, CryptographicRandomAssumption DEF MutexInv
<1>4. CASE build # "files"
  <2>1. mutex' = mutex BY <1>4 DEF Unlock
  <2>2. \A f \in Files, d \in Callers : mutex[f] # d BY <1>4 DEF MutexInv
  <2> QED BY <1>1, <1>4, <2>1, <2>2 DEF MutexInv
<1> QED BY <1>3, <1>4

LEMMA MutexNext == TypeOK /\ MutexInv /\ [Next]_vars => MutexInv'
<1> SUFFICES ASSUME TypeOK, MutexInv, [Next]_vars PROVE MutexInv' OBVIOUS
<1>1. ASSUME NEW c \in Callers, NEW f \in Functions, NEW n \in 0..MaxRequest,
             Call(c, f, n)
      PROVE  MutexInv'
  BY <1>1, MutexCall
<1>2. ASSUME NEW c \in Callers, Serve(c) PROVE MutexInv'
  <2>1. CASE Lock(c) BY <2>1, MutexLock
  <2>2. CASE BlockingRead(c)
    <3>1. pc[c] = "read" /\ Unlock(c) /\ UNCHANGED <<build, fn>>
      BY <2>2 DEF BlockingRead, Read
    <3>2. pc' = [pc EXCEPT ![c] = "idle"] \/ pc' = [pc EXCEPT ![c] = Attempt]
      BY <2>2 DEF BlockingRead
    <3> QED BY <3>1, <3>2, MutexUnlock
  <2>3. CASE Retry(c) BY <2>3, MutexUnlock DEF Retry
  <2>4. CASE UnexpectedError(c)
    <3>1. /\ pc[c] = "read" /\ \A d \in Callers : pc'[d] = "aborted"
          /\ UNCHANGED <<build, mutex, fn>>
      BY <2>4 DEF UnexpectedError
    <3> QED BY <3>1 DEF MutexInv
  <2>5. CASE NonblockingRead(c) BY <2>5, MutexUnlock DEF NonblockingRead, Read
  <2>6. CASE NonblockingError(c) BY <2>6, MutexUnlock DEF NonblockingError
  <2> QED BY <1>2, <2>1, <2>2, <2>3, <2>4, <2>5, <2>6 DEF Serve
<1>3. CASE GainEntropy BY <1>3 DEF GainEntropy, MutexInv
<1>4. CASE Aborted \/ UNCHANGED vars BY <1>4 DEF Aborted, vars, MutexInv
<1> QED BY <1>1, <1>2, <1>3, <1>4 DEF Next

LEMMA MutexInvariance == Spec => []MutexInv
<1>1. Init => MutexInv BY MutexInit
<1>2. TypeOK /\ MutexInv /\ [Next]_vars => MutexInv' BY MutexNext
<1> QED BY <1>1, <1>2, TypeCorrect, PTL DEF Spec

\* A file is read by one thread at a time.
ReadersExclude ==
  build = "files" =>
    \A c, d \in Callers :
      pc[c] = "read" /\ pc[d] = "read" /\ fn[c] = fn[d] => c = d

\* A thread that has returned, or that waits for a mutex, holds none: what a
\* mutex is waited for is one read, never a chain of threads that wait.
NoMutexKept ==
  \A c \in Callers : pc[c] \in {"idle", "lock"} => \A f \in Files : mutex[f] # c

\* What a nonblocking function may have to wait for: the one read of another
\* thread that runs the same function, never a blocking function, which
\* keeps its mutex for as long as /dev/random is empty.
NonblockingQueue ==
  \A c \in Callers :
    pc[c] = "lock" /\ ~Blocking(fn[c]) /\ mutex[File(fn[c])] # Free =>
      \E d \in Callers \ {c} :
        mutex[File(fn[c])] = d /\ fn[d] = fn[c] /\ pc[d] = "read"

(* The mutexes of the build without getrandom(2) do what they are for, for *)
(* any number of threads, with retries, errors and short reads.            *)
THEOREM OneReaderPerFile == Spec => []ReadersExclude
<1>1. MutexInv => ReadersExclude BY DEF MutexInv, ReadersExclude
<1> QED BY <1>1, MutexInvariance, PTL

(* Every way out of a function, and every retry, gives the mutex back.     *)
THEOREM MutexesAreGivenBack == Spec => []NoMutexKept
<1>1. MutexInv => NoMutexKept BY DEF MutexInv, NoMutexKept
<1> QED BY <1>1, MutexInvariance, PTL

(* The safety part of NonblockingReturns: that each function has a file of *)
(* its own keeps the nonblocking functions from waiting for entropy.       *)
THEOREM NonblockingNeverWaitsForBlocking == Spec => []NonblockingQueue
<1>1. TypeOK /\ MutexInv => NonblockingQueue
  <2> SUFFICES ASSUME TypeOK, MutexInv, NEW c \in Callers, pc[c] = "lock",
                      mutex[File(fn[c])] # Free
               PROVE  \E d \in Callers \ {c} :
                        mutex[File(fn[c])] = d /\ fn[d] = fn[c] /\ pc[d] = "read"
    BY DEF NonblockingQueue
  <2>1. File(fn[c]) \in Files BY FileOfFunction DEF TypeOK
  <2>2. PICK d \in Callers : mutex[File(fn[c])] = d BY <2>1 DEF TypeOK
  <2>3. pc[d] = "read" /\ File(fn[d]) = File(fn[c]) BY <2>1, <2>2 DEF MutexInv
  <2>4. fn[d] = fn[c] BY <2>3, FileOfFunction DEF TypeOK
  <2> QED BY <2>2, <2>3, <2>4
<1> QED BY <1>1, TypeCorrect, MutexInvariance, PTL

-----------------------------------------------------------------------------
(* The sources of the entries.                                             *)

\* What is in the memory of a caller, wherever its function is.
SourceInv ==
  \A c \in Callers : \A i \in 1..asked[c] : memory[c][i] \in {NoByte, Source(fn[c])}

LEMMA SourceNext == IInv /\ SourceInv /\ [Next]_vars => SourceInv'
<1> SUFFICES ASSUME IInv, SourceInv, [Next]_vars PROVE SourceInv' OBVIOUS
<1>1. CASE UNCHANGED <<asked, memory, fn>> BY <1>1 DEF SourceInv
<1>2. ASSUME NEW c \in Callers, NEW f \in Functions, NEW n \in 0..MaxRequest,
             Call(c, f, n)
      PROVE  SourceInv'
  <2>1. memory' = [memory EXCEPT ![c] = [i \in 1..n |-> NoByte]]
        /\ memory = [d \in Callers |-> memory[d]]
    BY <1>2 DEF Call, IInv
  <2>2. memory'[c] = [i \in 1..n |-> NoByte] /\ asked'[c] = n
    BY <1>2, <2>1 DEF Call, IInv, TypeOK
  <2>3. \A d \in Callers : d # c =>
          memory'[d] = memory[d] /\ asked'[d] = asked[d] /\ fn'[d] = fn[d]
    BY <1>2, <2>1 DEF Call, IInv, TypeOK
  <2> QED BY <2>2, <2>3 DEF SourceInv
<1>3. ASSUME NEW c \in Callers, NEW r \in 1..bufSize[c], pc[c] = "read", Read(c, r),
             UNCHANGED <<fn, asked>>
      PROVE  SourceInv'
  <2>1. /\ memory'[c] = [i \in 1..asked[c] |->
                           IF i <= buf[c] + r THEN Source(fn[c]) ELSE NoByte]
        /\ \A d \in Callers : d # c => memory'[d] = memory[d]
    BY <1>3, ReadLemma
  <2>2. \A i \in 1..asked[c] : memory'[c][i] \in {NoByte, Source(fn[c])} BY <2>1
  <2>3. \A d \in Callers : d # c =>
          \A i \in 1..asked[d] : memory'[d][i] \in {NoByte, Source(fn[d])}
    BY <2>1 DEF SourceInv
  <2> QED BY <1>3, <2>2, <2>3 DEF SourceInv
<1>4. ASSUME NEW c \in Callers, Serve(c) PROVE SourceInv'
  <2>1. CASE BlockingRead(c)
    BY <1>3, <2>1 DEF BlockingRead
  <2>2. CASE NonblockingRead(c)
    BY <1>3, <2>2 DEF NonblockingRead
  <2>3. Lock(c) \/ Retry(c) \/ UnexpectedError(c) \/ NonblockingError(c)
          => UNCHANGED <<asked, memory, fn>>
    BY DEF Lock, Retry, UnexpectedError, NonblockingError
  <2> QED BY <1>1, <1>4, <2>1, <2>2, <2>3 DEF Serve
<1>5. GainEntropy \/ Aborted \/ UNCHANGED vars => UNCHANGED <<asked, memory, fn>>
  BY DEF GainEntropy, Aborted, vars
<1> QED BY <1>1, <1>2, <1>4, <1>5 DEF Next

LEMMA SourceInvariance == Spec => []SourceInv
<1>1. Init => SourceInv BY DEF Init, SourceInv
<1>2. IInv /\ SourceInv /\ [Next]_vars => SourceInv' BY SourceNext
<1> QED BY <1>1, <1>2, Invariance, PTL DEF Spec

\* What each entry of the table gives its clients: three of them bytes of the
\* source they are named for, and URandomNonblocking bytes of /dev/random.
EntryServes ==
  \A c \in Callers : \A i \in 1..asked[c] :
    memory[c][i] \in
      {NoByte, IF entry[c] = "URandomBlocking" THEN "urandom" ELSE "random"}

(* The table serves three entries from their source, whatever the kernel   *)
(* does; no byte of the fourth ever comes from /dev/urandom.               *)
THEOREM EntriesServe == FacilitySpec => []EntryServes
<1>1. EntryInv => \A c \in Callers :
        Source(fn[c]) = IF entry[c] = "URandomBlocking" THEN "urandom" ELSE "random"
  <2> SUFFICES ASSUME EntryInv, NEW c \in Callers
               PROVE  Source(fn[c]) = IF entry[c] = "URandomBlocking" THEN "urandom"
                                                                      ELSE "random"
    OBVIOUS
  <2>1. entry[c] \in Entries /\ fn[c] = Function(Method(entry[c])) BY DEF EntryInv
  <2> QED BY <2>1 DEF Entries, Method, Function, Source
<1>2. SourceInv /\ EntryInv => EntryServes BY <1>1 DEF SourceInv, EntryServes
<1> QED BY <1>2, EntriesCallFunctions, SourceInvariance, EntryInvariance, PTL

-----------------------------------------------------------------------------
(* How long a function takes.                                              *)

\* The steps that a thread has left in its function, of b bytes that it still
\* wants: an attempt for each of them, or one attempt if it does not block.
StepsFrom(place, blocks, b) ==
  CASE place = "lock" -> IF blocks THEN 2 * b ELSE 2
    [] place = "read" -> IF blocks THEN 2 * b - 1 ELSE 1
    [] OTHER          -> 0

StepsLeft(c) == StepsFrom(pc[c], Blocking(fn[c]), bufSize[c])

\* A nonblocking function has one attempt, a blocking one is at work as long as
\* bytes are missing.
StepsBounded ==
  \A c \in Callers :
    /\ StepsLeft(c) \in Nat
    /\ StepsLeft(c) = 0 <=> pc[c] \in {"idle", "aborted"}
    /\ ~Blocking(fn[c]) => StepsLeft(c) <= 2

Starts(c) == \E f \in Functions, n \in 0..MaxRequest : Call(c, f, n)

\* Each step of a thread but a Retry brings its function nearer to its return, and
\* no step of another thread takes it further from it.
EachStepLeads ==
  [][\A c \in Callers :
       /\ ~Starts(c) /\ ~Retry(c) => StepsLeft(c)' <= StepsLeft(c)
       /\ Serve(c) /\ ~Retry(c) => StepsLeft(c)' < StepsLeft(c)]_vars

LEMMA StepsBounds ==
  ASSUME IInv, NEW c \in Callers
  PROVE  /\ StepsLeft(c) \in Nat
         /\ StepsLeft(c) = 0 <=> pc[c] \in {"idle", "aborted"}
         /\ ~Blocking(fn[c]) => StepsLeft(c) <= 2
<1> DEFINE blocks == Blocking(fn[c])
           b == bufSize[c]
<1>1. /\ pc[c] \in {"idle", "lock", "read", "aborted"} /\ b \in Nat
      /\ pc[c] \in {"lock", "read"} => b > 0
  BY CryptographicRandomAssumption DEF IInv, TypeOK, ThreadInv
<1>2. StepsLeft(c) = StepsFrom(pc[c], blocks, b) BY DEF StepsLeft
<1> HIDE DEF blocks, b
<1>3. CASE pc[c] = "lock"
  <2>1. StepsLeft(c) = IF blocks THEN 2 * b ELSE 2 BY <1>2, <1>3 DEF StepsFrom
  <2> QED BY <1>1, <1>3, <2>1 DEF blocks
<1>4. CASE pc[c] = "read"
  <2>1. StepsLeft(c) = IF blocks THEN 2 * b - 1 ELSE 1 BY <1>2, <1>4 DEF StepsFrom
  <2> QED BY <1>1, <1>4, <2>1 DEF blocks
<1>5. CASE pc[c] \in {"idle", "aborted"}
  <2>1. StepsLeft(c) = 0 BY <1>2, <1>5 DEF StepsFrom
  <2> QED BY <1>5, <2>1
<1> QED BY <1>1, <1>3, <1>4, <1>5

(* A step of a thread that is not a Retry.                                 *)
LEMMA ServeLeads ==
  ASSUME IInv, NEW c \in Callers, Serve(c), ~Retry(c)
  PROVE  StepsLeft(c)' < StepsLeft(c)
<1> DEFINE blocks == Blocking(fn[c])
           b == bufSize[c]
<1>1. /\ pc \in [Callers -> {"idle", "lock", "read", "aborted"}]
      /\ bufSize \in [Callers -> 0..MaxRequest] /\ b \in Nat
      /\ pc[c] \in {"lock", "read"} => b > 0
  BY CryptographicRandomAssumption DEF IInv, TypeOK, ThreadInv
<1>2. /\ StepsLeft(c) = StepsFrom(pc[c], blocks, b)
      /\ StepsLeft(c)' = StepsFrom(pc'[c], Blocking(fn'[c]), bufSize'[c])
  BY DEF StepsLeft, Blocking
<1>3. CASE Lock(c)
  <2>1. pc[c] = "lock" /\ pc'[c] = "read" /\ fn' = fn /\ bufSize' = bufSize
    BY <1>1, <1>3 DEF Lock
  <2>2. /\ StepsLeft(c) = IF blocks THEN 2 * b ELSE 2
        /\ StepsLeft(c)' = IF blocks THEN 2 * b - 1 ELSE 1
    BY <1>2, <2>1 DEF StepsFrom
  <2> HIDE DEF blocks, b
  <2> QED BY <1>1, <2>2
<1>4. CASE BlockingRead(c)
  <2>1. PICK r \in 1..b :
          /\ pc[c] = "read" /\ blocks /\ fn' = fn /\ bufSize'[c] = b - r
          /\ \/ b = r /\ pc'[c] = "idle"
             \/ b > r /\ pc'[c] \in {"lock", "read"}
    BY <1>1, <1>4 DEF BlockingRead, Attempt
  <2>2. StepsLeft(c) = 2 * b - 1 BY <1>2, <2>1 DEF StepsFrom
  <2>3. StepsLeft(c)' \in {0, 2 * (b - r), 2 * (b - r) - 1}
    BY <1>2, <2>1 DEF StepsFrom
  <2> HIDE DEF blocks, b
  <2> QED BY <1>1, <2>1, <2>2, <2>3
<1>5. CASE UnexpectedError(c) \/ NonblockingRead(c) \/ NonblockingError(c)
  <2>1. pc[c] = "read" /\ pc'[c] \in {"idle", "aborted"}
    BY <1>1, <1>5 DEF UnexpectedError, NonblockingRead, NonblockingError
  <2>2. StepsLeft(c)' = 0 BY <1>2, <2>1 DEF StepsFrom
  <2>3. StepsLeft(c) \in Nat /\ StepsLeft(c) # 0 BY <2>1, StepsBounds
  <2> QED BY <2>2, <2>3
<1> QED BY <1>3, <1>4, <1>5 DEF Serve

(* A step of another thread, or of the kernel.                             *)
LEMMA OthersKeepSteps ==
  ASSUME IInv, NEW c \in Callers,
         \/ \E d \in Callers : d # c /\ (Starts(d) \/ Serve(d))
         \/ GainEntropy \/ Aborted
  PROVE  StepsLeft(c)' <= StepsLeft(c)
<1>1. StepsLeft(c) \in Nat BY StepsBounds
<1>2. CASE /\ pc'[c] = pc[c] /\ fn'[c] = fn[c] /\ bufSize'[c] = bufSize[c]
  <2>1. StepsLeft(c)' = StepsLeft(c) BY <1>2 DEF StepsLeft, Blocking
  <2> QED BY <1>1, <2>1
<1>3. CASE pc'[c] = "aborted"
  <2>1. StepsLeft(c)' = 0 BY <1>3 DEF StepsLeft, StepsFrom
  <2> QED BY <1>1, <2>1
<1>4. ASSUME NEW d \in Callers, d # c, Starts(d) \/ Serve(d)
      PROVE  \/ pc'[c] = "aborted"
             \/ pc'[c] = pc[c] /\ fn'[c] = fn[c] /\ bufSize'[c] = bufSize[c]
  <2>1. CASE Starts(d) BY <1>4, <2>1 DEF Starts, Call, IInv, TypeOK
  <2>2. CASE Lock(d) \/ Retry(d) BY <1>4, <2>2 DEF Lock, Retry, IInv, TypeOK
  <2>3. CASE BlockingRead(d) BY <1>4, <2>3 DEF BlockingRead, IInv, TypeOK
  <2>4. CASE UnexpectedError(d) BY <2>4 DEF UnexpectedError
  <2>5. CASE NonblockingRead(d) \/ NonblockingError(d)
    BY <1>4, <2>5 DEF NonblockingRead, NonblockingError, IInv, TypeOK
  <2> QED BY <1>4, <2>1, <2>2, <2>3, <2>4, <2>5 DEF Serve
<1>5. ASSUME GainEntropy \/ Aborted
      PROVE  pc'[c] = pc[c] /\ fn'[c] = fn[c] /\ bufSize'[c] = bufSize[c]
  BY <1>5 DEF GainEntropy, Aborted, vars
<1> QED BY <1>2, <1>3, <1>4, <1>5

LEMMA Bounded == IInv => StepsBounded
BY StepsBounds DEF StepsBounded

LEMMA BoundedNext == IInv' => StepsBounded'
BY Bounded, PTL

\* The safety part of NonblockingReturns and BlockingReturns: a nonblocking
\* function makes one attempt, of two steps, and a blocking one as many as it has
\* bytes to wait for, whatever other threads do; only reads that are interrupted
\* or refused, which it retries, may make it take longer.
THEOREM FunctionsEnd == Spec => []StepsBounded /\ EachStepLeads
<1>1. ASSUME IInv, Next, NEW c \in Callers
      PROVE  /\ ~Starts(c) /\ ~Retry(c) => StepsLeft(c)' <= StepsLeft(c)
             /\ Serve(c) /\ ~Retry(c) => StepsLeft(c)' < StepsLeft(c)
  <2>1. Serve(c) /\ ~Retry(c) => StepsLeft(c)' < StepsLeft(c)
    BY <1>1, ServeLeads
  <2>2. ASSUME ~Starts(c), ~Retry(c), ~Serve(c)
        PROVE  StepsLeft(c)' <= StepsLeft(c)
    <3>1. \/ \E d \in Callers : d # c /\ (Starts(d) \/ Serve(d))
          \/ GainEntropy \/ Aborted
      BY <1>1, <2>2 DEF Next, Starts
    <3> QED BY <1>1, <3>1, OthersKeepSteps
  <2>3. ASSUME Serve(c), ~Retry(c) PROVE StepsLeft(c)' <= StepsLeft(c)
    <3>1. StepsLeft(c) \in Nat BY <1>1, StepsBounds
    <3>2. IInv' BY <1>1, NextInv
    <3>3. StepsLeft(c)' \in Nat BY <3>2, BoundedNext DEF StepsBounded
    <3> QED BY <2>1, <2>3, <3>1, <3>3
  <2> QED BY <2>1, <2>2, <2>3
<1>2. IInv /\ [Next]_vars
        => [\A c \in Callers :
              /\ ~Starts(c) /\ ~Retry(c) => StepsLeft(c)' <= StepsLeft(c)
              /\ Serve(c) /\ ~Retry(c) => StepsLeft(c)' < StepsLeft(c)]_vars
  BY <1>1
<1> QED BY <1>2, Bounded, Invariance, PTL DEF Spec, EachStepLeads
=============================================================================

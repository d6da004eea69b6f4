------------------------- MODULE CryptographicRandom -------------------------
(***************************************************************************)
(* CryptographicRandom.cpp: the four C functions that fetch entropy from   *)
(* the kernel.  The blocking two retry until the caller's memory is full,  *)
(* the nonblocking two take what one attempt yields.                       *)
(*                                                                         *)
(* The kernel is external: /dev/random (GRND_RANDOM) yields bytes while    *)
(* its pool has some, /dev/urandom always does; a read may be cut short or *)
(* interrupted.  A build without getrandom(2) reads from one file per      *)
(* function instead, under the mutex of that file.                         *)
(***************************************************************************)
EXTENDS Naturals, FiniteSets

CONSTANTS
  Callers,      \* the threads
  Builds,       \* the builds considered: "getrandom", "files"
  Asserts,      \* the build checks assert()
  OtherErrors,  \* the kernel may fail with an errno the code does not expect
  PoolSize,     \* the capacity of the pool of /dev/random, in bytes
  MaxRequest,   \* bound: the largest request
  NoByte,       \* what memory holds that nothing was written to
  Free          \* no thread holds the mutex

ASSUME CryptographicRandomAssumption ==
  /\ Builds \subseteq {"getrandom", "files"}
  /\ Asserts \in BOOLEAN
  /\ OtherErrors \in BOOLEAN
  /\ PoolSize \in Nat \ {0}
  /\ MaxRequest \in Nat
  /\ NoByte \notin {"random", "urandom"}
  /\ Free \notin Callers

VARIABLES
  build,        \* the build of the library: does it have getrandom(2)?
  pool,         \* kernel: bytes /dev/random has to give
  mutex,        \* m_mutex of each file: its holder, or Free
  pc,           \* where each thread is
  fn,           \* the function it calls
  asked,        \* the size of its request
  bufSize,      \* its bufSize: what is left of the request
  buf,          \* its buf: the offset of the next byte in the memory
  memory,       \* its memory: the source of each byte
  result        \* what the function returned

vars == <<build, pool, mutex, pc, fn, asked, bufSize, buf, memory, result>>

-----------------------------------------------------------------------------
\* sharemindCryptographicRandom, ...URandom and their Nonblocking variants.
Functions == {"Random", "URandom", "RandomNonblocking", "URandomNonblocking"}

\* The random file or flags a function is defined with.
Source(f) == IF f \in {"Random", "RandomNonblocking"} THEN "random" ELSE "urandom"

Blocking(f) == f \in {"Random", "URandom"}

\* Defect: RandomNonblocking shares the file of the blocking function.
FileShared(f) ==
  CASE f = "Random"             -> "blockingCryptoRandomFile"
    [] f = "URandom"            -> "blockingCryptoURandomFile"
    [] f = "RandomNonblocking"  -> "blockingCryptoRandomFile"
    [] f = "URandomNonblocking" -> "nonblockingCryptoURandomFile"

\* The file it reads from in a build without getrandom(2).
File(f) ==
  CASE f = "Random"             -> "blockingCryptoRandomFile"
    [] f = "URandom"            -> "blockingCryptoURandomFile"
    [] f = "RandomNonblocking"  -> "nonblockingCryptoRandomFile"
    [] f = "URandomNonblocking" -> "nonblockingCryptoURandomFile"

Files == {File(f) : f \in Functions}

Init ==
  /\ build \in Builds
  /\ pool \in 0..PoolSize
  /\ mutex = [f \in Files |-> Free]
  /\ pc = [c \in Callers |-> "idle"]
  /\ fn = [c \in Callers |-> "Random"]
  /\ asked = [c \in Callers |-> 0]
  /\ bufSize = [c \in Callers |-> 0]
  /\ buf = [c \in Callers |-> 0]
  /\ memory = [c \in Callers |-> <<>>]
  /\ result = [c \in Callers |-> 0]

\* Where an attempt to read starts and what it leaves behind when it ends: the
\* mutex is held for the time of one read.
Attempt == IF build = "files" THEN "lock" ELSE "read"

Unlock(c) ==
  mutex' = IF build = "files" THEN [mutex EXCEPT ![File(fn[c])] = Free] ELSE mutex

-----------------------------------------------------------------------------
\* A request of no bytes returns at once.
Call(c, f, n) ==
  /\ pc[c] = "idle"
  /\ pc' = [pc EXCEPT ![c] = IF n = 0 THEN "idle" ELSE Attempt]
  /\ fn' = [fn EXCEPT ![c] = f]
  /\ asked' = [asked EXCEPT ![c] = n]
  /\ bufSize' = [bufSize EXCEPT ![c] = n]
  /\ buf' = [buf EXCEPT ![c] = 0]
  /\ memory' = [memory EXCEPT ![c] = [i \in 1..n |-> NoByte]]
  /\ result' = [result EXCEPT ![c] = 0]
  /\ UNCHANGED <<build, pool, mutex>>

Lock(c) ==
  /\ pc[c] = "lock"
  /\ mutex[File(fn[c])] = Free
  /\ mutex' = [mutex EXCEPT ![File(fn[c])] = c]
  /\ pc' = [pc EXCEPT ![c] = "read"]
  /\ UNCHANGED <<build, pool, fn, asked, bufSize, buf, memory, result>>

\* The kernel writes r bytes.
Read(c, r) ==
  /\ memory' = [memory EXCEPT ![c] =
                  [i \in 1..asked[c] |->
                     IF i \in (buf[c] + 1)..(buf[c] + r) THEN Source(fn[c])
                                                         ELSE memory[c][i]]]
  /\ Source(fn[c]) = "random" => r <= pool
  /\ pool' = IF Source(fn[c]) = "random" THEN pool - r ELSE pool
  /\ Unlock(c)

\* Defect: a short read is taken for the whole request.
BlockingReadOnce(c) ==
  /\ pc[c] = "read"
  /\ Blocking(fn[c])
  /\ \E r \in 1..bufSize[c] :
       /\ Read(c, r)
       /\ bufSize' = [bufSize EXCEPT ![c] = @ - r]
  /\ pc' = [pc EXCEPT ![c] = "idle"]
  /\ UNCHANGED <<build, fn, asked, buf, result>>

\* Defect: the next read goes where the last one went.
BlockingReadInPlace(c) ==
  /\ pc[c] = "read"
  /\ Blocking(fn[c])
  /\ \E r \in 1..bufSize[c] :
       /\ Read(c, r)
       /\ bufSize' = [bufSize EXCEPT ![c] = @ - r]
       /\ pc' = [pc EXCEPT ![c] = IF bufSize[c] = r THEN "idle" ELSE Attempt]
  /\ UNCHANGED <<build, fn, asked, buf, result>>

\* Defect: the loop does not end when nothing is left.
BlockingReadForever(c) ==
  /\ pc[c] = "read"
  /\ Blocking(fn[c])
  /\ \E r \in 1..bufSize[c] :
       /\ Read(c, r)
       /\ bufSize' = [bufSize EXCEPT ![c] = @ - r]
       /\ buf' = [buf EXCEPT ![c] = @ + r]
  /\ pc' = [pc EXCEPT ![c] = Attempt]
  /\ UNCHANGED <<build, fn, asked, result>>

\* A blocking function goes on until nothing is left.
BlockingRead(c) ==
  /\ pc[c] = "read"
  /\ Blocking(fn[c])
  /\ \E r \in 1..bufSize[c] :
       /\ Read(c, r)
       /\ bufSize' = [bufSize EXCEPT ![c] = @ - r]
       /\ \/ /\ bufSize[c] = r
             /\ pc' = [pc EXCEPT ![c] = "idle"]
             /\ UNCHANGED buf
          \/ /\ bufSize[c] > r
             /\ pc' = [pc EXCEPT ![c] = Attempt]
             /\ buf' = [buf EXCEPT ![c] = @ + r]
  /\ UNCHANGED <<build, fn, asked, result>>

\* EINTR, EAGAIN: the blocking functions try again.
Retry(c) ==
  /\ pc[c] = "read"
  /\ Blocking(fn[c])
  /\ Unlock(c)
  /\ pc' = [pc EXCEPT ![c] = Attempt]
  /\ UNCHANGED <<build, pool, fn, asked, bufSize, buf, memory, result>>

\* Any other errno, such as ENOSYS: the assertion ends the process.  Without
\* assertions this is a Retry.
UnexpectedError(c) ==
  /\ OtherErrors /\ Asserts
  /\ pc[c] = "read"
  /\ Blocking(fn[c])
  /\ pc' = [d \in Callers |-> "aborted"]
  /\ UNCHANGED <<build, pool, mutex, fn, asked, bufSize, buf, memory, result>>

\* A nonblocking function returns what it got.
NonblockingRead(c) ==
  /\ pc[c] = "read"
  /\ ~Blocking(fn[c])
  /\ \E r \in 1..bufSize[c] :
       /\ Read(c, r)
       /\ result' = [result EXCEPT ![c] = r]
  /\ pc' = [pc EXCEPT ![c] = "idle"]
  /\ UNCHANGED <<build, fn, asked, bufSize, buf>>

\* Defect: the -1 of a failed read is converted to a size.
NonblockingErrorAsSize(c) ==
  /\ pc[c] = "read"
  /\ ~Blocking(fn[c])
  /\ Unlock(c)
  /\ result' = [result EXCEPT ![c] = MaxRequest + 1]
  /\ pc' = [pc EXCEPT ![c] = "idle"]
  /\ UNCHANGED <<build, pool, fn, asked, bufSize, buf, memory>>

\* It returns 0 when it got an error, whichever: EAGAIN for an empty pool, ...
NonblockingError(c) ==
  /\ pc[c] = "read"
  /\ ~Blocking(fn[c])
  /\ Unlock(c)
  /\ result' = [result EXCEPT ![c] = 0]
  /\ pc' = [pc EXCEPT ![c] = "idle"]
  /\ UNCHANGED <<build, pool, fn, asked, bufSize, buf, memory>>

\* The kernel: entropy comes in.
GainEntropy ==
  /\ pool < PoolSize
  /\ pool' = pool + 1
  /\ UNCHANGED <<build, mutex, pc, fn, asked, bufSize, buf, memory, result>>

\* The process is gone.
Aborted == (\A c \in Callers : pc[c] = "aborted") /\ UNCHANGED vars

-----------------------------------------------------------------------------
Serve(c) ==
  \/ Lock(c)
  \/ BlockingRead(c)
  \/ Retry(c)
  \/ UnexpectedError(c)
  \/ NonblockingRead(c)
  \/ NonblockingError(c)

Next ==
  \/ \E c \in Callers, f \in Functions, n \in 0..MaxRequest : Call(c, f, n)
  \/ \E c \in Callers : Serve(c)
  \/ GainEntropy
  \/ Aborted

Spec == Init /\ [][Next]_vars

\* A thread that keeps finding a mutex free gets it in the end, and a read of
\* a nonblocking function returns; the pool may stay empty for ever.
Fairness ==
  \A c \in Callers :
    /\ SF_vars(Lock(c))
    /\ WF_vars(NonblockingRead(c) \/ NonblockingError(c))

\* Entropy keeps coming, a reader that waits is not passed over for ever, and
\* the signals that interrupt reads cease in the end.
Supply ==
  /\ WF_vars(GainEntropy)
  /\ \A c \in Callers : SF_vars(BlockingRead(c)) /\ <>[][~Retry(c)]_vars

-----------------------------------------------------------------------------
(* Properties.                                                             *)

\* The types of the variables.
TypeOK ==
  /\ build \in Builds
  /\ pool \in 0..PoolSize
  /\ mutex \in [Files -> Callers \cup {Free}]
  /\ pc \in [Callers -> {"idle", "lock", "read", "aborted"}]
  /\ fn \in [Callers -> Functions]
  /\ asked \in [Callers -> 0..MaxRequest]
  /\ bufSize \in [Callers -> 0..MaxRequest]
  /\ buf \in [Callers -> 0..MaxRequest]
  /\ \A c \in Callers :
       memory[c] \in [1..asked[c] -> {"random", "urandom", NoByte}]
  /\ result \in [Callers -> 0..MaxRequest]

\* When a function has returned, the first bytes of the memory come from its
\* own source and the others were not touched: all of them from a blocking
\* function, as many as it returned from a nonblocking one.  Retries and
\* short reads leave no gap.
Contract ==
  \A c \in Callers :
    pc[c] = "idle" =>
      LET written == IF Blocking(fn[c]) THEN asked[c] ELSE result[c]
      IN  memory[c] = [i \in 1..asked[c] |->
                         IF i <= written THEN Source(fn[c]) ELSE NoByte]

\* Where a retry goes on: after the bytes that are there, for those that are
\* not.
ResumesWhereItStopped ==
  \A c \in Callers :
    pc[c] \in {"lock", "read"} =>
      /\ buf[c] + bufSize[c] = asked[c]
      /\ \A i \in 1..asked[c] : memory[c][i] = NoByte <=> i > buf[c]

\* A nonblocking function returns even if /dev/random never yields another
\* byte and a blocking reader waits for one, mutex in hand.  (Only a failed
\* assertion of a blocking reader keeps it from returning.)
NonblockingReturns ==
  \A c \in Callers :
    pc[c] # "idle" /\ ~Blocking(fn[c]) ~> pc[c] \in {"idle", "aborted"}

\* A blocking function returns when entropy keeps coming, whoever else draws
\* on it, unless an assertion ends the process.
BlockingReturns ==
  Supply => \A c \in Callers : pc[c] # "idle" ~> pc[c] \in {"idle", "aborted"}
=============================================================================

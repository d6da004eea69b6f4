# A verification project for librandom

librandom provides Sharemind applications with random bytes: three seeded
generators (SNOW 2, ChaCha20, AES in CTR mode), an agent that buffers a
generator with a background thread, functions that fetch entropy from the
kernel, and a facility through which C and C++ clients reach all of it. This
directory models the library in TLA+, checks the models with TLC, and proves
theorems about each of them with TLAPS. `PROJECT.json` lists every run,
every definition with the lines it models, and the hazards that the properties
are there for.

File names below are those of `src/` in the repository.

## 1. Inventory

| Component | State | Operations | Talks to |
|---|---|---|---|
| `RandomEngine` (interface) | none | `fillBytes`, and on top of it `fillBlock`, `randomValue` | implemented by the engines and the agent |
| `RandomBufferAgent` | core engine, circular buffer, stop flag, thread | constructor, `fillBytes`, `fillerThread`, destructor | the filler calls the core engine and writes the buffer, the client reads it |
| ChaCha20 engine | 16 state words (two of them the counter), 256 byte buffer, bytes consumed | constructor, `fillBytes` | nothing |
| AES engine | outer and inner CTR generator, block counter, 128 byte buffer, bytes consumed | constructor, `fillBytes`, `aesNextBlock`, `aesReseedInner` | Crypto++ |
| SNOW 2 engine | 16 + 2 registers, 64 byte batch, `haveData` | constructor, `fillBytes` | nothing |
| Null engine | none | `fillBytes` writes zeroes | nothing |
| Kernel entropy functions | per function a file and its mutex (only without getrandom(2)) | two blocking, two nonblocking reads | the kernel |
| Entropy pool initialisation | per process a flag and its mutex; per machine a shared memory segment | `waitForEntropyInitialization`, called by the file constructors | the kernel, other processes |
| Facility and factory | default configuration, list of engines | entropy table, `getSeedSize`, `createRandomEngineWithSeed`, `clear` | all of the above |
| `RandomEngineFacade` | a pointer | move, `fillBytes` | a C engine |

What is hard, and what makes each component correct:

* **Agent.** Two threads share a buffer with no lock held across a read or a
  write. Correct means: no byte lost, repeated or reordered whatever the
  interleaving and however requests are split; the filler never overwrites
  unread bytes; calls larger than the buffer return; the destructor stops and
  joins a filler that may be anywhere in its loop, and nothing runs after it.
* **Engines.** Sequential, with the difficulty in boundaries no test reaches: a
  request that ends exactly where a buffer ends, the carry of the ChaCha20
  counter after 256 GB, the change of the AES key after 256 MB, buffers that
  are not initialised. Correct means: `fillBytes` hands out one keystream, and
  the counters agree with what was handed out.
* **Entropy functions.** Short reads, interrupts, errors, an empty pool, several
  threads. Correct means: what was written is exactly what is reported, retries
  resume in the right place, nonblocking calls do not block.
* **Initialisation.** Several processes, crashes, an estimate that falls as well
  as rises. Correct means: nobody reads before the kernel has gathered enough,
  and a process that need not wait does not.
* **SNOW 2 cipher.** A shift register that is not shifted but overwritten in
  place, with all taps counted modulo 16, and no test. Correct means: clocking it
  is clocking a shift register, loading keeps seeds apart, and the S-box is a
  permutation (it is not).
* **Facility.** Five steps of creation that may each fail, and destructors that
  join threads: of a failed call, of `clear()`, of a client that drops its
  pointer in a thread of its own. Correct means: a failed call leaves nothing
  behind and says why, an engine exists as long as a client may use it, and every
  call returns.

## 2. Modules

    Keystreams            vocabulary
      RandomEngine        abstract: what fillBytes promises
      RandomBufferAgent   implements RandomEngine (property EngineSpec)
      ChaCha20RandomEngine, AesRandomEngine, Snow2RandomEngine
                          implement RandomEngine (property EngineSpec)
    Snow2Cipher           abstract: a shift register and a state machine
      Snow2Registers      implements Snow2Cipher (property CipherSpec)
    CryptographicRandom   the entropy functions and the kernel
      FacilityEntropy     composes them with the facility's entropy table
    EntropyInitialization the constructors of the random files, many processes
    EngineProvider        abstract: what createRandomEngineWithSeed promises
      RandomFacility      implements EngineProvider (property ProviderSpec)
    KeystreamsProofs      lemmas on segments of keystreams and on division
      RandomBufferAgentProofs, ChaCha20RandomEngineProofs,
      AesRandomEngineProofs, Snow2RandomEngineProofs
    FacilityEntropyProofs, EntropyInitializationProofs, RandomFacilityProofs

`MC*.tla` give constants their values where a `.cfg` cannot. Definitions under a
comment that starts with "Defect:" are not part of the specifications: each is a
variant of the definition below it with a plausible mistake, and `PROJECT.json`
pairs it with the property that must fail when it takes that definition's place.

### RandomEngine

A keystream is a function from indices to bytes. `Call(n)` asks for n bytes and
`Return` hands out the next n; `position` counts those handed out. An engine's
own internal steps are invisible at this level.

### RandomBufferAgent

`filler` and `client` are the places of the two threads in the code. The filler
fills a part of the free space (`WriteFill`), publishes it (`WritePublish`),
and waits for space when there is none; the wait also looks at the stop flag
(`GracefulStop`). `fillBytes` copies bytes out (`ReadCopy`), frees their space
and returns or goes round its loop (`ReadReturn`, `DataAvailable`). The
destructor is `Destroy` (stop) and `Join`. `CircBufferSCSP` and `Stoppable` are
from another library: they are modelled from their use here, with copying and
publishing as separate steps and with partial reads and writes of any size.

### ChaCha20RandomEngine, AesRandomEngine, Snow2RandomEngine

One action per phase of `fillBytes`: the call with its locals, the early return,
a turn of the loop (`ConsumeBuffer`, or `DrainLeftover` and `ServeBatch` for SNOW
2), and the last copy. The memory of the client is modelled byte by byte; the
ciphers are constants: a block for each value of the two counter words
(ChaCha20), a byte stream for each key and vector (AES), one byte stream (SNOW
2). Machine words keep their width: the counter is reduced modulo `Modulus`. The
layout of the four ChaCha20 lanes in the buffer is modelled (`Lane`,
`OffsetInBlock`), as a comment in the code makes a claim about it.

### Snow2Registers, Snow2Cipher

The cipher of the SNOW 2 engine, at the level of its words. `RegistersInit` loads
a seed as the constructor does (big-endian key words and their inverses, then the
IV); `MixClock` is a turn of the loop that mixes, `StartBatch` the request for a
batch and `KeystreamClock` a turn of `snow_keystream_fast_p`. Words are numbers of
four bytes; the number of values of a byte, the tables and the exclusive or are
constants. `Snow2Cipher` is the cipher on a register that does shift: the
refinement reads the circular array from the word that is overwritten next.
`Snow2RandomEngine` takes the keystream as a constant; a batch there is what 16
steps of `KeystreamClock` make here.

### CryptographicRandom, FacilityEntropy

A caller is at `lock` or at `read` of one attempt; `Read` is the kernel's part of
a successful one, `Retry`, `UnexpectedError` and `NonblockingError` are the
others. `memory` records for each byte which source it came from. `build` is the
build of the library, fixed from the start: with getrandom(2), or with a file
and a mutex for each function. `FacilityEntropy` adds the way from an entry of
the C table over a method to a function.

### EntropyInitialization

The four file objects of a process are static: they are constructed in order by
one thread, and their constructors call `waitForEntropyInitialization`. The
actions are the steps of that function; `Credit` and `Debit` are the kernel's,
`Crash` kills and restarts a process. A failed assertion is `SampleAborts`.

### RandomFacility, EngineProvider

A call goes through the places `seed`, `core`, `buffer`, `wrap`, `register`, with
a success and its failures at each. `Throw` gives up what has been constructed;
the call is then at `unwind` until that is destroyed, and `Unwound` turns the
exception into an error code. `parts` holds which objects and thread exist of
each engine; `scopedEngines`, `shared` and `pointers` say who may use it, and
`leaving` are the engines whose destructors run. `clear()` is a sequence of
steps: `clear`, `ClearElement` for each engine of the list, `Cleared`. Shared
pointers are dropped meanwhile (`Release`), in threads of the clients' own. A
destructor is two steps: the filler thread ends (`FillerStops`, which
RandomBufferAgent shows to happen, `DestructorReturns`), and the rest goes
(`Destroyed`); the thread that waits for it is the one that let go last.

## 3. Runs

| Run | What is asked | Bounds, and why they are enough |
|---|---|---|
| `agent` | safety, refinement and liveness of the agent | buffer 3, requests 0..5, 9 bytes in all: requests smaller than, equal to and larger than the buffer, several in a row, every split of reads and writes |
| `chacha20` | safety and refinement | 4 lanes, 2 words of 1 byte, words modulo 8, requests 0..25, 150 bytes: every boundary of the 8 byte buffer, three refills in a call, both counter words wrap |
| `chacha20_comment` | a claim of the header comment, violated | one request |
| `aes` | safety, key changes, refinement | buffer 6 bytes, key limit 6 blocks, requests 0..20, 80 bytes: four changes of the key, at every offset |
| `snow2` | safety and refinement | batch 4, requests 0..14, 40 bytes: every boundary, three batches in a call |
| `facility_entropy` | contract of the functions through the table; nonblocking calls return, and so do blocking ones with a supply of entropy | two threads, requests 0..3 (so up to three short reads), pool of 2, all errors, both builds |
| `entropy_source` | what the entries are named for, violated | as above |
| `initialization` | nobody reads early; the segment releases | two processes, 3 bits needed, estimate up to 3, 5 bits credited, 1 crash |
| `initialization_assert` | an assertion of the code, violated | as above |
| `facility` | nothing leaks, engines are destroyed once, errors are right, refinement, every call returns | two engines at a time, every kind, mode and client, seeds of 0 and 48 bytes (none, and exactly what SNOW 2 needs) |
| `snow2_cipher` | loading keeps seeds apart; the registers implement the shift register | bytes of two bits, tables built like those of the code over the field of four elements, all seeds that differ from zero in one byte, mixing and two batches: every index wraps four times |
| `snow2_sbox` | the S-box is a permutation, violated | as above |

`snow2_cipher` and `snow2_sbox` use small bytes. Where a word goes does not
depend on its width; that the S-box fails at 8 bits as it does at 2, whatever the
tables hold, is the theorem `SubstitutionForgets`. In the same way
`WordsComeFromLanes` says for every number of lanes what `chacha20_comment` shows
of four.

Four runs show disagreements between the code and what is said of it:
`URandomNonblocking` of the C table serves /dev/random
(`RandomFacility.cpp:182`); `assert(estimatedEntropyBits > 0)` fails on a kernel
without entropy (`CryptographicRandom.cpp:109`); the comment on the interleaving
of ChaCha20 blocks is off by one (`ChaCha20RandomEngine.cpp:31`); and the SNOW 2
engine looks up two tables with the same byte (`Snow2RandomEngine.cpp:288`), so
that it is not the cipher its documentation names.

### Fairness

* Agent: weak fairness of each thread, that is, the scheduler runs both. Clients
  need not call anything.
* Nonblocking calls: strong fairness of taking the mutex of the function's file,
  and read(2) with O_NONBLOCK returns. Nothing is assumed of the entropy supply.
* Blocking calls: in addition entropy keeps coming, a waiting reader is not
  passed over for ever, and signals stop interrupting it. The code has no
  timeout, so without these assumptions it may wait for ever.
* Initialisation: every process runs; nothing is assumed of the kernel.
* Facility: weak fairness of the thread in a call, and of destructors and the
  filler threads they join. Clients need not call or drop anything.

## 4. Proofs

TLAPS proves, for every value of the constants that the named assumptions allow:

* **Agent** (`RandomBufferAgentProofs`): `TypeOK`, `RunAhead`, `InTransit`,
  `NoUseAfterDestroy`, and that the agent implements `RandomEngine`. The
  properties are not inductive by themselves. The invariant adds what the places
  of the threads say of the variables: that bytes copied and not freed are the
  first ones of the buffer, that a chunk is only pending at `publish`, that
  published and pending bytes fit in the buffer, and that the output of the call
  in progress is the segment of the keystream from `position` on. The main step is that
  concatenating adjacent segments gives a segment (`SegmentConcat`,
  `SegmentSplit`). Of its liveness two theorems prove what does not need fairness:
  one of the threads can go on while a call or the destructor runs
  (`NeverBothWait`), and each of their steps makes a number smaller (`Work`), so
  that they do not wake each other for ever (`NoLivelock`). The first needs a
  buffer with room; without it a request is never served (`NoRoomNoReturn`).
* **ChaCha20** (`ChaCha20RandomEngineProofs`): `TypeOK`, `MemcpyInBounds`,
  `LanesDoNotOverflow`, `CounterCountsBlocks`, and that the engine implements
  `RandomEngine`. The assumption `ChaCha20Assumption` has the number
  of lanes divide the number of values of a word, which the NOTE in the code
  relies on. The invariant says that the buffers generated are
  (bytes delivered + bytes left) / size of the buffer, that the two counter words
  are that number times the lanes, and that the buffer is the corresponding
  segment of the keystream. Carry and overflow rest on facts about quotient and
  remainder (`Division`, `DivisionUnique`, `ModIncrement`). Further theorems are
  about the keystream that clients see: byte n is the byte `Place(n)` of the
  cipher (`BytesHavePlaces`), no place is met twice before both counter words have
  had all their values (`NoByteTwice`), after which the keystream starts anew
  (`PeriodRepeats`), and the words of the buffer come from the lanes in turn
  (`WordsComeFromLanes`). The assertion at the end of `fillBytes` allows the buffer
  to be used up, with the comment that "the supply may deplete"; it never is then,
  as the loop has made the next blocks (`AssertionIsStrict`). Nothing depends on
  that: the next call would make them, as the first one does.
* **AES** (`AesRandomEngineProofs`): `TypeOK`, `MemcpyInBounds`, `KeyBudget`,
  `FreshKeys`, and that the engine implements `RandomEngine`. `AesAssumption` has
  the number of parallel blocks divide the key limit. The invariant says that
  for some e and t the inner generator has its key number e and has produced t
  buffers since (`Keyed`), and that the buffers of all keys together are the
  bytes delivered plus those left (`Generated`); t never exceeds the buffers per
  key. `MemcpyInBounds` needs in addition that the bytes of the keystream
  differ from the mark of unwritten memory. `KeysOnDemand` says how many keys have
  been made after so many bytes, however they were asked for, and `EachByteOnce`
  that the keystream uses each byte of each key once.
* **SNOW 2** (`Snow2RandomEngineProofs`): `TypeOK`, `BatchIsFull`, `MadeOnDemand`,
  and that the engine implements `RandomEngine`. The invariant says that bytes
  given plus `haveData` are the bytes clocked (`BatchInv`), which phase may find
  which batch (`PhaseInv`), and what the output is. A consequence is that the
  first phase never meets a full batch, a case the code provides for. The four
  steps that give bytes reduce to two lemmas, for the last bytes of a request
  (`LastGiveInv`) and for the last bytes of a batch (`NextBatchInv`).
* **Length of a call**: for each of the three engines `CallEnds` says how many steps
  `fillBytes` takes, as a function of the request and of what the buffer has left,
  and that each step counts one of them down.
* **Entropy functions and their table** (`FacilityEntropyProofs`): `TypeOK`,
  `Contract`, `ResumesWhereItStopped`, and `EntryContract` of the table. The
  invariant says for each thread that `buf` separates what was written from what
  was not, that something is left to read while it runs, and that a nonblocking
  function is at its first read (`ThreadInv`). The table's steps are steps of the
  functions (`EntriesCallFunctions`), so what holds of these holds of it;
  `EntriesServe` says which source each entry has, the wrong one included. A second
  invariant (`MutexInv`) is about the build with files: who reads holds the mutex
  of the file (`OneReaderPerFile`), who does not holds none
  (`MutexesAreGivenBack`), so that a nonblocking function queues behind one read of
  its own kind at most (`NonblockingNeverWaitsForBlocking`). `FunctionsEnd` bounds
  the steps of a function, retries aside.
* **Initialisation** (`EntropyInitializationProofs`): `TypeOK`, `EntropyGathered`,
  `WaitsOnce`. The estimate falls as well as rises, so a process that has counted
  enough cannot conclude anything from the estimate alone. The invariant
  (`CountInv`) is that what a process has counted, plus what it would count if it
  sampled now, was credited; and whatever tells a process that the wait is over
  came after that (`ToldInv`), crashes included: the segment does not lie
  (`SegmentsTellTruth`). Once it exists a process gets to `main()` in six steps of
  its own at most (`SegmentLeadsToMain`), which a crash of its own starts again; the
  exception is a process of a build with assertions that is at `sample` just then,
  which may be aborted (`initialization_assert`).
* **SNOW 2 cipher** (`Snow2RandomEngineProofs`, second part): that `Snow2Registers`
  implements `Snow2Cipher`, for bytes of any size, any tables and any seeds, and
  `SeedIsKept`. The refinement needs the types, the bounds of the loops and
  arithmetic modulo 16 (`tap k + 1` before a clocking is `tap k` after it).
  `SeedIsKept` rests on two facts: the bytes of a word can be read back from it,
  and the exclusive or with a known word can be undone (`BitXorAssumption`).
  `RegistersTypeCorrect` keeps the lookups in their tables. `SubstitutionForgets`
  refutes the S-box of the code for every size of bytes, by changing the byte of
  the argument that it does not use, and `ClockingForgets` draws the consequence:
  the registers of a batch do not determine those before it.
* **Facility** (`RandomFacilityProofs`): `TypeOK`, `NothingLeaks`,
  `ClientsEnginesExist`, `ErrorFlagIsRight`, `DestroyedOnce`, and that the facility
  implements `EngineProvider`. The invariant says whose an engine is and that one being
  destroyed is nobody's (`OwnerInv`), what there is of the one under construction
  at each place (`BuildingInv`), what has been checked of the arguments by then
  (`ArgumentsInv`), and that an exception on its way tells the truth (`CallInv`).
  `NothingSurvivesFailure` adds that a thread which waits for a destructor goes on
  only when nothing of the engine is left, `DroppedEnginesLiveOn` that only
  `clear()` takes engines from the list, and `CallsAreShort` bounds the steps of a
  call, whatever clients drop in the meantime.

Where a keystream is a constant, the theorems hold for every function on the
natural numbers; the bounds on requests and totals (`MaxRequest`, `MaxBytes`,
`MaxCrashes` and the like) are arbitrary natural numbers in the theorems.

Only model-checked: liveness (`CallReturns`, `DestructorReturns`,
`NonblockingReturns`, `BlockingReturns`, `SegmentReleases`, `CallsReturn`), which rests on
fairness and ENABLED and is out of the prover's reach. What these properties owe to
the code and not to the scheduler is proved: there is a number that the steps of
a call make smaller and that no other thread makes larger (`NoLivelock`,
`FunctionsEnd`, `SegmentLeadsToMain`, `CallsAreShort`), and the agent's threads do not
wait for each other (`NeverBothWait`). Left to TLC is that the threads which can go on
are run, and that one which waits for a mutex gets it. Every safety property that
a passing run checks is also proved.

## 5. Not modelled

* The contents of the SNOW 2 tables, the rounds of ChaCha20, and Crypto++. What
  the models show of an engine holds for whatever these compute.
* The constructor of ChaCha20 beyond its counter: it copies the seed to words of
  its own in one straight line.
* `NullRandomEngine`, a single memset, and `RandomEngineFacade`, a pointer that one
  thread moves and calls. Its rule, not to use a facade that was moved from, is
  the assertion in front of each method; a model could only repeat it.
* Threads sharing an engine or the facility: neither has a lock and no document
  allows it.
* What `CircBufferSCSP` does with a size of 0, which the factory passes on
  unchecked, is not in this repository. In the model, of which the theorems hold
  for this size too, `fillBytes` then never returns (`NoRoomNoReturn`); the run has
  a positive one.
* The handlers of `RandomEngine::Exception` and `RandomCtorSeedSelfGenerateError` in
  `handleException`: nothing that the handled calls do throws these, as
  `AesRandomEngine::supported()` is always true.
* Failures of ftok, shmget and ioctl, which end the process.
* The construction of the agent's members: it happens in the order of their
  declaration, before its thread exists.
* C clients using a pointer after `clear()`.

## 6. Plan

Done: the modules of section 2, the runs of section 3 and the proofs of section
4. What could come next:

1. `Snow2RandomEngine` over `Snow2Registers` in one module, so that its keystream
   is no longer a constant.
2. A composition of the facility with the agent, so that `FillerStops` is the
   agent's own step and the filler may be anywhere when its engine is given up.
3. The lanes and rounds of ChaCha20 against four blocks computed one by one.

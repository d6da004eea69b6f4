--------------------------- MODULE RandomFacility ---------------------------
(***************************************************************************)
(* RandomFacility.cpp, RandomFacility.h, RandomEngineFactory.cpp: making   *)
(* and owning random engines.  A call of createRandomEngineWithSeed checks *)
(* the seed, constructs the core engine, puts a RandomBufferAgent with its *)
(* thread in front of it if that is configured, wraps the result and       *)
(* enters the wrapper in a list.  Each of these steps may fail, and what   *)
(* the steps before it made is then destroyed.                             *)
(*                                                                         *)
(* C clients are given a pointer that stays valid as long as the list owns *)
(* the engine, and an error code; C++ clients a shared_ptr, or an          *)
(* exception.  The facility has no lock: its calls come one at a time.     *)
(*                                                                         *)
(* The thread that lets go of an engine last runs its destructor, which    *)
(* waits for the filler thread: a failed call as it unwinds, clear() for   *)
(* one engine after the other, or a client that drops its shared_ptr.      *)
(* That the filler stops is shown in RandomBufferAgent (DestructorReturns).*)
(***************************************************************************)
EXTENDS Naturals, FiniteSets

CONSTANTS
  Engines,      \* bound: the engines that exist at a time
  SeedSizes,    \* the sizes of the seeds clients pass
  None          \* no engine: nullptr

ASSUME FacilityAssumption ==
  /\ SeedSizes \subseteq Nat
  /\ None \notin Engines

VARIABLES
  parts,        \* the objects and the thread that exist of each engine
  scopedEngines,\* m_scopedEngines
  shared,       \* engines that C++ clients hold a shared_ptr to
  pointers,     \* engines that C clients were given since the last clear()
  leaving,      \* engines whose destructors are running
  pc,           \* where the call in progress is
  conf,         \* the arguments of the call in progress, or of the last one
  building,     \* the engine that call is constructing
  waiting,      \* the engine whose destructor it runs
  thrown,       \* the exception that unwinds it
  answer,       \* what it returned
  error         \* the variable that its errorPtr points to

owners == <<scopedEngines, shared, pointers>>

vars == <<parts, owners, leaving, pc, conf, building, waiting, thrown, answer,
          error>>

-----------------------------------------------------------------------------
\* SharemindCoreRandomEngineKind and SharemindRandomEngineBufferingMode: a C
\* client may pass a value that is none of theirs.
Kinds == {"NULL", "SNOW2", "CHACHA20", "AES", "other"}
Modes == {"NONE", "THREAD", "other"}

\* The arguments that matter: who calls, what for, with which size of seed, and
\* whether errorPtr is given.
Configurations ==
  [client : {"C"}, kind : Kinds, mode : Modes, seedSize : SeedSizes,
   errorPtr : BOOLEAN]
  \cup
  [client : {"C++"}, kind : Kinds, mode : Modes, seedSize : SeedSizes,
   errorPtr : {FALSE}]

getSeedSize(kind) ==
  CASE kind = "SNOW2"    -> 48
    [] kind = "CHACHA20" -> 40
    [] kind = "AES"      -> 32
    [] OTHER             -> 0

\* Defect: all seed errors are caught by their common base class.
ErrorCodeOfBase(exception) ==
  CASE exception = "RandomCtorGeneratorNotSupported" -> "GENERATOR_NOT_SUPPORTED"
    [] exception = "bad_alloc"                       -> "OUT_OF_MEMORY"
    [] exception = "RandomCtorOtherError"            -> "GENERAL_ERROR"
    [] exception \in {"RandomCtorSeedTooShort", "RandomCtorSeedNotSupported"}
                                                     -> "SEED_TOO_SHORT"
    [] OTHER                                         -> "UNKNOWN_ERROR"

Exceptions == {"RandomCtorSeedTooShort", "RandomCtorSeedNotSupported",
               "RandomCtorGeneratorNotSupported", "RandomCtorOtherError",
               "bad_alloc", "system_error"}

\* What handleException makes of an exception.
ErrorCode(exception) ==
  CASE exception = "RandomCtorGeneratorNotSupported" -> "GENERATOR_NOT_SUPPORTED"
    [] exception = "bad_alloc"                       -> "OUT_OF_MEMORY"
    [] exception = "RandomCtorOtherError"            -> "GENERAL_ERROR"
    [] exception = "RandomCtorSeedTooShort"          -> "SEED_TOO_SHORT"
    [] exception = "RandomCtorSeedNotSupported"      -> "SEED_NOT_SUPPORTED"
    [] OTHER                                         -> "UNKNOWN_ERROR"

Init ==
  /\ parts = [e \in Engines |-> {}]
  /\ scopedEngines = {}
  /\ shared = {}
  /\ pointers = {}
  /\ leaving = {}
  /\ pc = "idle"
  /\ conf \in {c \in Configurations : ~c.errorPtr}
  /\ building = None
  /\ waiting = None
  /\ thrown = "none"
  /\ answer = None
  /\ error = "OK"

-----------------------------------------------------------------------------
\* A client calls, its error variable initialised as clients do.
Call(c) ==
  /\ pc = "idle"
  /\ pc' = "seed"
  /\ conf' = c
  /\ answer' = None
  /\ error' = "OK"
  /\ UNCHANGED <<parts, owners, leaving, building, waiting, thrown>>

\* Defect: what has been constructed is left behind.
ThrowLeaking(exception) ==
  /\ pc' = "unwind"
  /\ thrown' = exception
  /\ building' = None
  /\ UNCHANGED <<parts, owners, leaving, conf, waiting, answer, error>>

\* Unwinding destroys what has been constructed.
Throw(exception) ==
  /\ pc' = "unwind"
  /\ thrown' = exception
  /\ leaving' = IF building = None THEN leaving ELSE leaving \cup {building}
  /\ waiting' = building
  /\ building' = None
  /\ UNCHANGED <<parts, owners, conf, answer, error>>

\* Then the C wrapper turns the exception into an error code and returns
\* nullptr.
Unwound ==
  /\ pc = "unwind"
  /\ waiting \notin leaving
  /\ pc' = "idle"
  /\ waiting' = None
  /\ thrown' = "none"
  /\ error' = IF conf.errorPtr THEN ErrorCode(thrown) ELSE error
  /\ UNCHANGED <<parts, owners, leaving, conf, building, answer>>

Proceed(place) ==
  /\ pc' = place
  /\ UNCHANGED <<owners, leaving, conf, waiting, thrown, answer, error>>

Add(objects) ==
  parts' = [parts EXCEPT ![building] = @ \cup objects]

\* The seed is long enough ...
SeedVerified ==
  /\ pc = "seed"
  /\ conf.seedSize >= getSeedSize(conf.kind)
  /\ Proceed("core")
  /\ UNCHANGED <<parts, building>>

\* ... or it is not.
SeedTooShort ==
  /\ pc = "seed"
  /\ conf.seedSize < getSeedSize(conf.kind)
  /\ Throw("RandomCtorSeedTooShort")

\* Defect: an unknown kind is not refused.
CoreConstructedOfAnyKind ==
  /\ pc = "core"
  /\ conf.kind = "NULL" => conf.seedSize = 0
  /\ \E e \in Engines :
       /\ parts[e] = {}
       /\ building' = e
       /\ parts' = [parts EXCEPT ![e] = {conf.kind}]
  /\ Proceed(IF conf.kind = "NULL" THEN "wrap" ELSE "buffer")

\* The core engine.  The null engine is one static object, its part the count
\* of a pointer to it, and gets no buffer whatever the mode.
CoreConstructed ==
  /\ pc = "core"
  /\ conf.kind # "other"
  /\ conf.kind = "NULL" => conf.seedSize = 0
  /\ \E e \in Engines :
       /\ parts[e] = {}
       /\ building' = e
       /\ parts' = [parts EXCEPT ![e] = {conf.kind}]
  /\ Proceed(IF conf.kind = "NULL" THEN "wrap" ELSE "buffer")

CoreRefused ==
  /\ pc = "core"
  /\ \/ /\ conf.kind = "other"
        /\ Throw("RandomCtorGeneratorNotSupported")
     \/ /\ conf.kind = "NULL"
        /\ conf.seedSize > 0
        /\ Throw("RandomCtorSeedNotSupported")

\* No memory: for the engine or for the count of its owners.
CoreFails ==
  /\ pc = "core"
  /\ conf.kind # "other"
  /\ conf.kind = "NULL" => conf.seedSize = 0
  /\ Throw("bad_alloc")

\* The agent starts its thread as the last thing in its constructor.
BufferAdded ==
  /\ pc = "buffer"
  /\ \/ /\ conf.mode = "NONE"
        /\ UNCHANGED parts
     \/ /\ conf.mode = "THREAD"
        /\ Add({"agent", "thread"})
  /\ Proceed("wrap")
  /\ UNCHANGED building

BufferRefused ==
  /\ pc = "buffer"
  /\ conf.mode = "other"
  /\ Throw("RandomCtorOtherError")

\* No memory for the agent or its buffer, or no thread.
BufferFails ==
  /\ pc = "buffer"
  /\ conf.mode = "THREAD"
  /\ \E exception \in {"bad_alloc", "system_error"} : Throw(exception)

\* The ScopedEngine that C clients see.
Wrapped ==
  /\ pc = "wrap"
  /\ Add({"scoped"})
  /\ Proceed("register")
  /\ UNCHANGED building

WrapFails ==
  /\ pc = "wrap"
  /\ Throw("bad_alloc")

\* Defect: a C client gets its engine before the list owns it.
RegisteredUnowned ==
  /\ pc = "register"
  /\ \/ /\ conf.client = "C"
        /\ pointers' = pointers \cup {building}
        /\ UNCHANGED <<scopedEngines, shared>>
     \/ /\ conf.client = "C++"
        /\ scopedEngines' = scopedEngines \cup {building}
        /\ shared' = shared \cup {building}
        /\ UNCHANGED pointers
  /\ answer' = building
  /\ building' = None
  /\ pc' = "idle"
  /\ UNCHANGED <<parts, leaving, conf, waiting, thrown, error>>

\* The list gets it, then the client.
Registered ==
  /\ pc = "register"
  /\ scopedEngines' = scopedEngines \cup {building}
  /\ \/ /\ conf.client = "C"
        /\ pointers' = pointers \cup {building}
        /\ UNCHANGED shared
     \/ /\ conf.client = "C++"
        /\ shared' = shared \cup {building}
        /\ UNCHANGED pointers
  /\ answer' = building
  /\ building' = None
  /\ pc' = "idle"
  /\ UNCHANGED <<parts, leaving, conf, waiting, thrown, error>>

RegisterFails ==
  /\ pc = "register"
  /\ Throw("bad_alloc")

-----------------------------------------------------------------------------
\* Defect: the client's thread destroys an engine that the list still owns.
ReleaseDestroying(e) ==
  /\ e \in shared
  /\ shared' = shared \ {e}
  /\ leaving' = leaving \cup {e}
  /\ UNCHANGED <<parts, scopedEngines, pointers, pc, conf, building, waiting, thrown,
                 answer, error>>

\* A C++ client drops its shared_ptr, in whichever thread: if clear() has been
\* called since, that thread destroys the engine.
Release(e) ==
  /\ e \in shared
  /\ shared' = shared \ {e}
  /\ leaving' = IF e \in scopedEngines THEN leaving ELSE leaving \cup {e}
  /\ UNCHANGED <<parts, scopedEngines, pointers, pc, conf, building, waiting, thrown,
                 answer, error>>

\* clear(), or the destructor of the facility: C clients' pointers are void.
clear ==
  /\ pc = "idle"
  /\ pc' = "clear"
  /\ pointers' = {}
  /\ UNCHANGED <<parts, scopedEngines, shared, leaving, conf, building, waiting,
                 thrown, answer, error>>

\* Defect: engines go although C++ clients hold them.
ClearElementShared(e) ==
  /\ pc = "clear"
  /\ waiting \notin leaving
  /\ e \in scopedEngines
  /\ scopedEngines' = scopedEngines \ {e}
  /\ leaving' = leaving \cup {e}
  /\ waiting' = e
  /\ UNCHANGED <<parts, shared, pointers, pc, conf, building, thrown, answer, error>>

\* Defect: engines that C++ clients hold stay in the list.
ClearElementUnshared(e) ==
  /\ pc = "clear"
  /\ waiting \notin leaving
  /\ e \in scopedEngines \ shared
  /\ scopedEngines' = scopedEngines \ {e}
  /\ leaving' = leaving \cup {e}
  /\ waiting' = e
  /\ UNCHANGED <<parts, shared, pointers, pc, conf, building, thrown, answer, error>>

\* The list lets go of one engine, in any order here, and destroys it unless a
\* client holds it.
ClearElement(e) ==
  /\ pc = "clear"
  /\ waiting \notin leaving
  /\ e \in scopedEngines
  /\ scopedEngines' = scopedEngines \ {e}
  /\ \/ /\ e \in shared
        /\ UNCHANGED <<leaving, waiting>>
     \/ /\ e \notin shared
        /\ leaving' = leaving \cup {e}
        /\ waiting' = e
  /\ UNCHANGED <<parts, shared, pointers, pc, conf, building, thrown, answer, error>>

Cleared ==
  /\ pc = "clear"
  /\ waiting \notin leaving
  /\ scopedEngines = {}
  /\ pc' = "idle"
  /\ waiting' = None
  /\ UNCHANGED <<parts, owners, leaving, conf, building, thrown, answer, error>>

-----------------------------------------------------------------------------
(* The destructor of an engine, and the thread it joins.                   *)

FillerStops(e) ==
  /\ e \in leaving
  /\ "thread" \in parts[e]
  /\ parts' = [parts EXCEPT ![e] = @ \ {"thread"}]
  /\ UNCHANGED <<owners, leaving, pc, conf, building, waiting, thrown, answer, error>>

Destroyed(e) ==
  /\ e \in leaving
  /\ "thread" \notin parts[e]
  /\ parts' = [parts EXCEPT ![e] = {}]
  /\ leaving' = leaving \ {e}
  /\ UNCHANGED <<owners, pc, conf, building, waiting, thrown, answer, error>>

-----------------------------------------------------------------------------
createRandomEngineWithSeed ==
  \/ SeedVerified    \/ SeedTooShort
  \/ CoreConstructed \/ CoreRefused   \/ CoreFails
  \/ BufferAdded     \/ BufferRefused \/ BufferFails
  \/ Wrapped         \/ WrapFails
  \/ Registered      \/ RegisterFails
  \/ Unwound

Next ==
  \/ \E c \in Configurations : Call(c)
  \/ createRandomEngineWithSeed
  \/ clear \/ (\E e \in Engines : ClearElement(e)) \/ Cleared
  \/ \E e \in Engines : Release(e) \/ FillerStops(e) \/ Destroyed(e)

Spec == Init /\ [][Next]_vars

\* The threads that call run, in particular those that run destructors, and so do
\* filler threads.
Fairness ==
  /\ WF_vars(createRandomEngineWithSeed)
  /\ WF_vars((\E e \in Engines : ClearElement(e)) \/ Cleared)
  /\ WF_vars(\E e \in Engines : FillerStops(e) \/ Destroyed(e))

FairSpec == Spec /\ Fairness

-----------------------------------------------------------------------------
(* Properties.                                                             *)

\* The types of the variables.
TypeOK ==
  /\ parts \in [Engines -> SUBSET ((Kinds \ {"other"})
                                     \cup {"agent", "thread", "scoped"})]
  /\ scopedEngines \subseteq Engines
  /\ shared \subseteq Engines
  /\ pointers \subseteq Engines
  /\ leaving \subseteq Engines
  /\ pc \in {"idle", "seed", "core", "buffer", "wrap", "register", "unwind", "clear"}
  /\ conf \in Configurations
  /\ building \in Engines \cup {None}
  /\ waiting \in Engines \cup {None}
  /\ thrown \in Exceptions \cup {"none"}
  /\ answer \in Engines \cup {None}
  /\ error \in {"OK", "UNKNOWN_ERROR", "GENERAL_ERROR", "OUT_OF_MEMORY",
                "GENERATOR_NOT_SUPPORTED", "SEED_TOO_SHORT",
                "SEED_NOT_SUPPORTED"}

\* Nothing leaks, in particular no filler thread goes on running behind a call
\* that failed at a later step: what exists belongs to the list, to a client or
\* to the call in progress, or is being destroyed.  When a failed call or
\* clear() has returned, what it destroyed is gone.
NothingLeaks ==
  /\ \A e \in Engines :
       parts[e] # {} => e \in scopedEngines \cup shared \cup {building} \cup leaving
  /\ pc = "idle" => building = None /\ waiting = None

\* Who may still use an engine: the list, a client or the call that makes it.
Owned == scopedEngines \cup shared \cup ({building} \ {None})

\* An engine is destroyed once: whichever of clear(), a client's thread and a
\* call that fails lets go of it last starts its destructor, none that lets go
\* of it earlier does, and once the destructor runs nobody has the engine, so that
\* nobody can start it again.
DestroyedOnce ==
  [][\A e \in Engines :
       /\ e \in leaving' \ leaving <=> e \in Owned \ Owned'
       /\ e \in leaving' => e \notin Owned']_vars

\* An engine is complete as long as a client may use it: a C client until
\* clear() and a C++ client until it drops its shared_ptr, also beyond clear().
\* An agent has its thread and its core engine, and a thread its agent.
ClientsEnginesExist ==
  \A e \in pointers \cup shared :
    \E kind \in Kinds \ {"other"} :
      \/ parts[e] = {kind, "scoped"}
      \/ parts[e] = {kind, "agent", "thread", "scoped"}

\* "e error flag.  Set only on error, not touched otherwise": a call that has
\* returned has set the variable if and only if it returned no engine.  The code
\* says what was wrong with the arguments: a seed that is too short, an engine
\* or a buffering mode that does not exist, a seed for an engine that has none.
\* An engine is never made of such arguments, and arguments without fault are
\* refused only for lack of memory or threads.
ErrorFlagIsRight ==
  pc \in {"idle", "clear"} =>
    LET short   == conf.seedSize < getSeedSize(conf.kind)
        useless == conf.kind = "NULL" /\ conf.seedSize > 0
        noKind  == conf.kind = "other"
        noMode  == conf.kind # "NULL" /\ conf.mode = "other"
    IN  /\ conf.errorPtr => (answer = None <=> error # "OK")
        /\ error = "SEED_TOO_SHORT" => short
        /\ error = "SEED_NOT_SUPPORTED" => useless
        /\ error = "GENERATOR_NOT_SUPPORTED" => noKind
        /\ error = "GENERAL_ERROR" => noMode
        /\ error = "UNKNOWN_ERROR" => conf.mode = "THREAD"
        /\ answer # None => ~(short \/ useless \/ noKind \/ noMode)

\* Every call returns, clear() included: joining the threads of engines that
\* are given up never stops it, nor does a client that keeps its engine.
CallsReturn == pc # "idle" ~> pc = "idle"

\* The facility is an EngineProvider: in spite of its many steps a call adds an
\* engine to those that clients may use, or leaves no trace.
Provider == INSTANCE EngineProvider WITH
  usable <- scopedEngines \cup shared,
  calling <- pc \notin {"idle", "clear"}

ProviderSpec == Provider!Spec
=============================================================================

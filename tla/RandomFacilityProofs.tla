------------------------ MODULE RandomFacilityProofs ------------------------
(***************************************************************************)
(* What holds of the facility for every number of engines, all sizes of    *)
(* seeds and every sequence of calls, whichever of their steps fail.       *)
(***************************************************************************)
EXTENDS RandomFacility, FiniteSetTheorems, TLAPS

CoreKinds == Kinds \ {"other"}

\* What a core engine, with its agent or without, consists of before and after
\* it is wrapped.
Bare(objects) ==
  \E kind \in CoreKinds :
    objects = {kind} \/ objects = {kind, "agent", "thread"}

Complete(objects) ==
  \E kind \in CoreKinds :
    \/ objects = {kind, "scoped"}
    \/ objects = {kind, "agent", "thread", "scoped"}

HasCore(objects) == \E kind \in CoreKinds : kind \in objects

\* The exception tells what is wrong with the arguments.
Justified(exception) ==
  /\ exception = "RandomCtorSeedTooShort" =>
       conf.seedSize < getSeedSize(conf.kind)
  /\ exception = "RandomCtorSeedNotSupported" =>
       conf.kind = "NULL" /\ conf.seedSize > 0
  /\ exception = "RandomCtorGeneratorNotSupported" => conf.kind = "other"
  /\ exception = "RandomCtorOtherError" =>
       conf.kind # "NULL" /\ conf.mode = "other"
  /\ exception = "system_error" => conf.mode = "THREAD"

\* Whose an engine is, and what there is of it.  A destructor has the core
\* engine for its last member.
OwnerInv ==
  /\ building = None <=> pc \notin {"buffer", "wrap", "register"}
  /\ building \notin scopedEngines \cup shared \cup leaving
  /\ leaving \cap (scopedEngines \cup shared) = {}
  /\ pointers \subseteq scopedEngines
  /\ \A e \in scopedEngines \cup shared : Complete(parts[e])
  /\ \A e \in leaving : HasCore(parts[e])
  /\ \A e \in Engines : e \notin scopedEngines \cup shared \cup {building} \cup leaving
                          => parts[e] = {}

\* What the call in progress waits for, and why.
CallInv ==
  /\ waiting = None \/ pc \in {"unwind", "clear"}
  /\ pc = "clear" => pointers = {}
  /\ pc = "unwind" => thrown \in Exceptions /\ Justified(thrown)

\* What there is of the engine of the call in progress.
BuildingInv ==
  /\ pc = "buffer" => parts[building] = {conf.kind}
  /\ pc = "wrap" => Bare(parts[building])
  /\ pc = "register" => Complete(parts[building])

\* What the call in progress knows about its arguments.
ArgumentsInv ==
  /\ pc \notin {"idle", "clear"} => answer = None /\ error = "OK"
  /\ pc \in {"core", "buffer", "wrap", "register"} =>
       conf.seedSize >= getSeedSize(conf.kind)
  /\ pc \in {"buffer", "wrap", "register"} =>
       conf.kind # "other" /\ (conf.kind = "NULL" => conf.seedSize = 0)
  /\ pc = "buffer" => conf.kind # "NULL"
  /\ pc \in {"wrap", "register"} => conf.kind = "NULL" \/ conf.mode # "other"

IInv == /\ TypeOK
        /\ OwnerInv
        /\ BuildingInv
        /\ ArgumentsInv
        /\ CallInv
        /\ ErrorFlagIsRight

-----------------------------------------------------------------------------
(* The arguments of a call.                                                *)
LEMMA ArgumentTypes ==
  ASSUME NEW c \in Configurations
  PROVE  /\ c.client \in {"C", "C++"}
         /\ c.kind \in Kinds
         /\ c.mode \in Modes
         /\ c.seedSize \in Nat
         /\ c.errorPtr \in BOOLEAN
BY FacilityAssumption DEF Configurations

LEMMA SeedSizeType == \A kind \in Kinds : getSeedSize(kind) \in Nat
BY DEF Kinds, getSeedSize

(* The invariant holds at first.                                           *)
LEMMA InitInv == Init => IInv
<1> SUFFICES ASSUME Init PROVE IInv OBVIOUS
<1> USE FacilityAssumption DEF Init
<1>1. conf \in Configurations /\ ~conf.errorPtr OBVIOUS
<1>2. TypeOK BY <1>1 DEF TypeOK
<1>3. OwnerInv BY DEF OwnerInv
<1>4. BuildingInv /\ ArgumentsInv /\ CallInv
  BY DEF BuildingInv, ArgumentsInv, CallInv
<1>5. ErrorFlagIsRight BY <1>1 DEF ErrorFlagIsRight
<1> QED BY <1>2, <1>3, <1>4, <1>5 DEF IInv

LEMMA CallKeeps ==
  ASSUME IInv, NEW c \in Configurations, Call(c)
  PROVE  IInv'
<1>1. TypeOK' BY DEF Call, owners, IInv, TypeOK
<1>2. OwnerInv' BY DEF Call, owners, IInv, OwnerInv
<1>3. BuildingInv' /\ ArgumentsInv' BY DEF Call, BuildingInv, ArgumentsInv
<1>4. CallInv' BY DEF Call, owners, IInv, CallInv
<1>5. ErrorFlagIsRight' BY DEF Call, ErrorFlagIsRight
<1> QED BY <1>1, <1>2, <1>3, <1>4, <1>5 DEF IInv

(* A call that fails, at whichever step, destroys what it has made of its  *)
(* engine.                                                                 *)
LEMMA ThrowKeeps ==
  ASSUME IInv, pc \notin {"idle", "clear", "unwind"},
         NEW exception \in Exceptions, Throw(exception), Justified(exception)
  PROVE  IInv'
<1>1. /\ building' = None /\ pc' = "unwind" /\ thrown' = exception
      /\ waiting' = building
      /\ leaving' = IF building = None THEN leaving ELSE leaving \cup {building}
      /\ UNCHANGED <<parts, scopedEngines, shared, pointers, conf, answer, error>>
      /\ answer = None /\ error = "OK"
  BY DEF Throw, owners, IInv, ArgumentsInv
<1>2. building \in Engines \cup {None} BY DEF IInv, TypeOK
<1>3. TypeOK' BY <1>1, <1>2 DEF IInv, TypeOK
<1>4. building # None => HasCore(parts[building])
  <2>1. \A objects : Bare(objects) \/ Complete(objects) => HasCore(objects)
    BY DEF Bare, Complete, HasCore
  <2>2. ASSUME pc = "buffer" PROVE HasCore({conf.kind})
    BY <2>2, ArgumentTypes DEF IInv, TypeOK, ArgumentsInv, HasCore, CoreKinds
  <2> QED BY <2>1, <2>2 DEF IInv, OwnerInv, BuildingInv
<1>5. OwnerInv'
  <2>1. None \notin scopedEngines \cup shared \cup leaving'
    BY <1>1, <1>2, FacilityAssumption DEF IInv, TypeOK
  <2>2. leaving' \cap (scopedEngines \cup shared) = {}
    BY <1>1 DEF IInv, OwnerInv
  <2>3. \A e \in leaving' : HasCore(parts[e])
    BY <1>1, <1>4 DEF IInv, OwnerInv
  <2>4. ASSUME NEW e \in Engines, e \notin scopedEngines \cup shared \cup leaving'
        PROVE  parts[e] = {}
    <3>1. e # building BY <1>1, <2>4, FacilityAssumption
    <3> QED BY <1>1, <2>4, <3>1 DEF IInv, OwnerInv
  <2> QED BY <1>1, <2>1, <2>2, <2>3, <2>4 DEF IInv, OwnerInv
<1>6. BuildingInv' /\ ArgumentsInv' BY <1>1 DEF BuildingInv, ArgumentsInv
<1>7. CallInv' BY <1>1 DEF CallInv, Justified
<1>8. ErrorFlagIsRight' BY <1>1 DEF ErrorFlagIsRight
<1> QED BY <1>3, <1>5, <1>6, <1>7, <1>8 DEF IInv

(* The error variable is set to what was thrown.                           *)
LEMMA UnwoundKeeps ==
  ASSUME IInv, Unwound
  PROVE  IInv'
<1>1. /\ pc = "unwind" /\ pc' = "idle" /\ waiting' = None /\ thrown' = "none"
      /\ UNCHANGED <<parts, scopedEngines, shared, pointers, leaving, conf, building,
                     answer>>
      /\ answer = None
      /\ error' = IF conf.errorPtr THEN ErrorCode(thrown) ELSE "OK"
  BY DEF Unwound, owners, IInv, ArgumentsInv
<1>2. thrown \in Exceptions /\ Justified(thrown) BY <1>1 DEF IInv, CallInv
<1>3. TypeOK'
  <2>1. error' \in {"OK", "UNKNOWN_ERROR", "GENERAL_ERROR", "OUT_OF_MEMORY",
                    "GENERATOR_NOT_SUPPORTED", "SEED_TOO_SHORT",
                    "SEED_NOT_SUPPORTED"}
    BY <1>1 DEF ErrorCode
  <2> QED BY <1>1, <2>1 DEF IInv, TypeOK
<1>4. OwnerInv' BY <1>1 DEF IInv, OwnerInv
<1>5. BuildingInv' /\ ArgumentsInv' BY <1>1 DEF BuildingInv, ArgumentsInv
<1>6. CallInv' BY <1>1 DEF CallInv
<1>7. ErrorFlagIsRight'
  <2>1. error' # "OK" <=> conf.errorPtr BY <1>1 DEF ErrorCode
  <2>2. /\ error' = "SEED_TOO_SHORT" => thrown = "RandomCtorSeedTooShort"
        /\ error' = "SEED_NOT_SUPPORTED" => thrown = "RandomCtorSeedNotSupported"
        /\ error' = "GENERATOR_NOT_SUPPORTED"
             => thrown = "RandomCtorGeneratorNotSupported"
        /\ error' = "GENERAL_ERROR" => thrown = "RandomCtorOtherError"
        /\ error' = "UNKNOWN_ERROR" => thrown = "system_error"
    BY <1>1, <1>2 DEF ErrorCode, Exceptions
  <2> QED BY <1>1, <1>2, <2>1, <2>2 DEF Justified, ErrorFlagIsRight
<1> QED BY <1>3, <1>4, <1>5, <1>6, <1>7 DEF IInv

(* A step of a call that succeeds and changes only the engine it builds.   *)
LEMMA ProceedInv ==
  ASSUME IInv, pc \in {"seed", "core", "buffer", "wrap"},
         NEW place \in {"core", "buffer", "wrap", "register"},
         Proceed(place),
         building' \in Engines \cup {None},
         building' = None <=> place = "core",
         building' \notin scopedEngines \cup shared \cup leaving,
         parts' \in [Engines -> SUBSET (CoreKinds
                                          \cup {"agent", "thread", "scoped"})],
         \A e \in Engines : e # building' => parts'[e] = parts[e],
         building # None => building' = building,
         BuildingInv',
         ArgumentsInv'
  PROVE  IInv'
<1>1. /\ pc' = place
      /\ UNCHANGED <<scopedEngines, shared, pointers, leaving, conf, waiting, thrown,
                     answer, error>>
  BY DEF Proceed, owners
<1>2. TypeOK' BY <1>1 DEF IInv, TypeOK, CoreKinds
<1>3. OwnerInv'
  <2>1. \A e \in scopedEngines \cup shared \cup leaving : parts'[e] = parts[e]
    BY DEF IInv, TypeOK
  <2>2. /\ \A e \in scopedEngines \cup shared : Complete(parts'[e])
        /\ \A e \in leaving : HasCore(parts'[e])
    BY <2>1 DEF IInv, OwnerInv
  <2>3. ASSUME NEW e \in Engines,
               e \notin scopedEngines \cup shared \cup {building'} \cup leaving
        PROVE  parts'[e] = {}
    <3>1. parts'[e] = parts[e] BY <2>3
    <3>2. e # building BY <2>3, FacilityAssumption
    <3> QED BY <2>3, <3>1, <3>2 DEF IInv, OwnerInv
  <2> QED BY <1>1, <2>2, <2>3 DEF IInv, OwnerInv
<1>4. CallInv' BY <1>1 DEF IInv, CallInv
<1>5. ErrorFlagIsRight' BY <1>1 DEF ErrorFlagIsRight
<1> QED BY <1>2, <1>3, <1>4, <1>5 DEF IInv

LEMMA SeedVerifiedInv ==
  ASSUME IInv, SeedVerified
  PROVE  IInv'
<1>1. building = None BY DEF SeedVerified, IInv, OwnerInv
<1>2. BuildingInv' BY DEF SeedVerified, Proceed, BuildingInv
<1>3. ArgumentsInv' BY DEF SeedVerified, Proceed, IInv, ArgumentsInv
<1>4. /\ parts' \in [Engines -> SUBSET (CoreKinds
                                          \cup {"agent", "thread", "scoped"})]
      /\ building' = None /\ parts' = parts
      /\ building' \notin scopedEngines \cup shared \cup leaving
  BY <1>1, FacilityAssumption DEF SeedVerified, IInv, TypeOK, CoreKinds
<1> QED BY <1>1, <1>2, <1>3, <1>4, ProceedInv DEF SeedVerified

LEMMA SeedTooShortInv ==
  ASSUME IInv, SeedTooShort
  PROVE  IInv'
<1>1. Justified("RandomCtorSeedTooShort") BY DEF SeedTooShort, Justified
<1>2. "RandomCtorSeedTooShort" \in Exceptions BY DEF Exceptions
<1> QED BY <1>1, <1>2, ThrowKeeps DEF SeedTooShort

LEMMA CoreConstructedInv ==
  ASSUME IInv, CoreConstructed
  PROVE  IInv'
<1> DEFINE place == IF conf.kind = "NULL" THEN "wrap" ELSE "buffer"
<1>1. PICK e \in Engines : /\ parts[e] = {}
                           /\ building' = e
                           /\ parts' = [parts EXCEPT ![e] = {conf.kind}]
  BY DEF CoreConstructed
<1>2. /\ conf.kind \in CoreKinds /\ (conf.kind = "NULL" => conf.seedSize = 0)
      /\ conf.seedSize >= getSeedSize(conf.kind)
      /\ answer = None /\ error = "OK" /\ building = None
  BY ArgumentTypes
     DEF CoreConstructed, IInv, TypeOK, ArgumentsInv, OwnerInv, CoreKinds
<1>3. Proceed(place) /\ place \in {"wrap", "buffer"} BY DEF CoreConstructed
<1>4. ~Complete({}) /\ ~HasCore({}) BY DEF Complete, HasCore
<1>5. e \notin scopedEngines \cup shared \cup leaving
  BY <1>1, <1>4 DEF IInv, OwnerInv
<1>6. /\ parts' \in [Engines -> SUBSET (CoreKinds
                                          \cup {"agent", "thread", "scoped"})]
      /\ parts'[e] = {conf.kind}
      /\ \A f \in Engines : f # e => parts'[f] = parts[f]
  BY <1>1, <1>2 DEF IInv, TypeOK, CoreKinds
<1>7. BuildingInv'
  <2>1. Bare({conf.kind}) BY <1>2 DEF Bare
  <2>2. pc' = place /\ conf' = conf BY <1>3 DEF Proceed
  <2> QED BY <1>1, <1>6, <2>1, <2>2 DEF BuildingInv
<1>8. ArgumentsInv'
  <2>1. pc' = place /\ UNCHANGED <<conf, answer, error>> BY <1>3 DEF Proceed
  <2> QED BY <1>2, <2>1 DEF ArgumentsInv, CoreKinds
<1>9. e # None BY FacilityAssumption
<1> HIDE DEF place
<1> QED BY <1>1, <1>2, <1>3, <1>5, <1>6, <1>7, <1>8, <1>9, ProceedInv
        DEF CoreConstructed

LEMMA CoreRefusedInv ==
  ASSUME IInv, CoreRefused
  PROVE  IInv'
<1>1. CASE conf.kind = "other" /\ Throw("RandomCtorGeneratorNotSupported")
  <2>1. Justified("RandomCtorGeneratorNotSupported") BY <1>1 DEF Justified
  <2>2. "RandomCtorGeneratorNotSupported" \in Exceptions BY DEF Exceptions
  <2> QED BY <1>1, <2>1, <2>2, ThrowKeeps DEF CoreRefused
<1>2. CASE /\ conf.kind = "NULL"
           /\ conf.seedSize > 0
           /\ Throw("RandomCtorSeedNotSupported")
  <2>1. Justified("RandomCtorSeedNotSupported") BY <1>2 DEF Justified
  <2>2. "RandomCtorSeedNotSupported" \in Exceptions BY DEF Exceptions
  <2> QED BY <1>2, <2>1, <2>2, ThrowKeeps DEF CoreRefused
<1> QED BY <1>1, <1>2 DEF CoreRefused

LEMMA OutOfMemoryInv ==
  ASSUME IInv, pc \notin {"idle", "clear", "unwind"}, Throw("bad_alloc")
  PROVE  IInv'
<1>1. Justified("bad_alloc") BY DEF Justified
<1>2. "bad_alloc" \in Exceptions BY DEF Exceptions
<1> QED BY <1>1, <1>2, ThrowKeeps

(* The engine being built: it is nobody's yet.                             *)
LEMMA BuildingType ==
  ASSUME IInv, pc \in {"buffer", "wrap", "register"}
  PROVE  /\ building \in Engines
         /\ building # None
         /\ building \notin scopedEngines \cup shared \cup pointers \cup leaving
BY FacilityAssumption DEF IInv, TypeOK, OwnerInv

LEMMA BufferAddedInv ==
  ASSUME IInv, BufferAdded
  PROVE  IInv'
<1>1. pc = "buffer" /\ Proceed("wrap") /\ building' = building
  BY DEF BufferAdded
<1>2. building \in Engines /\ building # None
  BY <1>1, BuildingType
<1>3. parts[building] = {conf.kind} /\ conf.kind \in CoreKinds
  BY <1>1, ArgumentTypes
     DEF IInv, TypeOK, BuildingInv, ArgumentsInv, CoreKinds
<1>4. /\ parts' \in [Engines -> SUBSET (CoreKinds
                                          \cup {"agent", "thread", "scoped"})]
      /\ parts'[building] \in {{conf.kind}, {conf.kind, "agent", "thread"}}
      /\ \A e \in Engines : e # building => parts'[e] = parts[e]
  <2>1. CASE parts' = parts
    BY <2>1, <1>2, <1>3 DEF IInv, TypeOK, CoreKinds
  <2>2. CASE Add({"agent", "thread"})
    <3>1. parts'[building] = {conf.kind} \cup {"agent", "thread"}
      BY <2>2, <1>2, <1>3 DEF Add, IInv, TypeOK
    <3> QED BY <2>2, <3>1, <1>2, <1>3 DEF Add, IInv, TypeOK, CoreKinds
  <2> QED BY <2>1, <2>2 DEF BufferAdded
<1>5. BuildingInv'
  <2>1. Bare(parts'[building]) BY <1>3, <1>4 DEF Bare
  <2> QED BY <1>1, <2>1 DEF Proceed, BuildingInv
<1>6. ArgumentsInv'
  <2>1. conf.mode # "other" BY DEF BufferAdded
  <2> QED BY <1>1, <2>1 DEF Proceed, IInv, ArgumentsInv
<1>7. building \notin scopedEngines \cup shared \cup leaving BY <1>1, BuildingType
<1> QED BY <1>1, <1>2, <1>4, <1>5, <1>6, <1>7, ProceedInv

LEMMA BufferRefusedInv ==
  ASSUME IInv, BufferRefused
  PROVE  IInv'
<1>1. Justified("RandomCtorOtherError")
  BY DEF BufferRefused, IInv, ArgumentsInv, Justified
<1>2. "RandomCtorOtherError" \in Exceptions BY DEF Exceptions
<1> QED BY <1>1, <1>2, ThrowKeeps DEF BufferRefused

LEMMA BufferFailsInv ==
  ASSUME IInv, BufferFails
  PROVE  IInv'
<1>1. PICK exception \in {"bad_alloc", "system_error"} : Throw(exception)
  BY DEF BufferFails
<1>2. Justified(exception) BY DEF BufferFails, Justified
<1>3. exception \in Exceptions BY DEF Exceptions
<1> QED BY <1>1, <1>2, <1>3, ThrowKeeps DEF BufferFails

LEMMA WrappedInv ==
  ASSUME IInv, Wrapped
  PROVE  IInv'
<1>1. pc = "wrap" /\ Proceed("register") /\ building' = building
  BY DEF Wrapped
<1>2. building \in Engines /\ building # None
      /\ building \notin scopedEngines \cup shared \cup leaving
  BY <1>1, BuildingType
<1>3. /\ parts' \in [Engines -> SUBSET (CoreKinds
                                          \cup {"agent", "thread", "scoped"})]
      /\ parts'[building] = parts[building] \cup {"scoped"}
      /\ \A e \in Engines : e # building => parts'[e] = parts[e]
  BY <1>2 DEF Wrapped, Add, IInv, TypeOK, CoreKinds
<1>4. BuildingInv'
  <2>1. PICK kind \in CoreKinds :
          \/ parts[building] = {kind}
          \/ parts[building] = {kind, "agent", "thread"}
    BY <1>1 DEF IInv, BuildingInv, Bare
  <2>2. \/ parts'[building] = {kind, "scoped"}
        \/ parts'[building] = {kind, "agent", "thread", "scoped"}
    BY <1>3, <2>1
  <2>3. Complete(parts'[building]) BY <2>2 DEF Complete
  <2> QED BY <1>1, <2>3 DEF Proceed, BuildingInv
<1>5. ArgumentsInv' BY <1>1 DEF Proceed, IInv, ArgumentsInv
<1> QED BY <1>1, <1>2, <1>3, <1>4, <1>5, ProceedInv

(* The list, or the list and the client, get an engine that is complete.   *)
LEMMA RegisteredInv ==
  ASSUME IInv, Registered
  PROVE  IInv'
<1>1. /\ pc = "register" /\ pc' = "idle" /\ answer' = building
      /\ building' = None
      /\ scopedEngines' = scopedEngines \cup {building}
      /\ shared' \in {shared, shared \cup {building}}
      /\ pointers' \in {pointers, pointers \cup {building}}
      /\ UNCHANGED <<parts, leaving, conf, waiting, thrown, error>>
  BY DEF Registered
<1>2. building \in Engines /\ building # None /\ building \notin leaving
  BY <1>1, BuildingType
<1>3. TypeOK' BY <1>1, <1>2 DEF IInv, TypeOK
<1>4. OwnerInv'
  <2>1. Complete(parts[building]) BY <1>1 DEF IInv, BuildingInv
  <2>2. \A e \in scopedEngines' \cup shared' : Complete(parts'[e])
    BY <1>1, <2>1 DEF IInv, OwnerInv
  <2>3. None \notin scopedEngines' \cup shared' \cup leaving
    BY <1>1, <1>2, FacilityAssumption DEF IInv, TypeOK
  <2>4. pointers' \subseteq scopedEngines' BY <1>1 DEF IInv, OwnerInv
  <2>5. \A e \in Engines :
          e \notin scopedEngines' \cup shared' \cup {building'} \cup leaving
            => parts'[e] = {}
    BY <1>1 DEF IInv, OwnerInv
  <2>6. leaving \cap (scopedEngines' \cup shared') = {}
    BY <1>1, <1>2 DEF IInv, OwnerInv
  <2> QED BY <1>1, <2>2, <2>3, <2>4, <2>5, <2>6 DEF IInv, OwnerInv
<1>5. BuildingInv' /\ ArgumentsInv' BY <1>1 DEF BuildingInv, ArgumentsInv
<1>6. error' = "OK" BY <1>1 DEF IInv, ArgumentsInv
<1>7. CallInv' BY <1>1 DEF IInv, CallInv
<1>8. ErrorFlagIsRight'
  <2>1. /\ conf.seedSize \in Nat /\ getSeedSize(conf.kind) \in Nat
    BY ArgumentTypes, SeedSizeType DEF IInv, TypeOK
  <2>2. /\ ~(conf.seedSize < getSeedSize(conf.kind))
        /\ ~(conf.kind = "NULL" /\ conf.seedSize > 0)
        /\ conf.kind # "other"
        /\ ~(conf.kind # "NULL" /\ conf.mode = "other")
    BY <1>1, <2>1 DEF IInv, ArgumentsInv
  <2> QED BY <1>1, <1>2, <1>6, <2>2 DEF ErrorFlagIsRight
<1> QED BY <1>3, <1>4, <1>5, <1>7, <1>8 DEF IInv

(* What clients and the list let go is destroyed.                         *)
LEMMA LetGoKeeps ==
  ASSUME IInv,
         scopedEngines' \subseteq scopedEngines,
         shared' \subseteq shared,
         pointers' \subseteq pointers \cap scopedEngines',
         leaving' = leaving \cup ((scopedEngines \cup shared)
                                    \ (scopedEngines' \cup shared')),
         waiting' \in Engines \cup {None},
         pc' = "clear" \/ waiting' = waiting,
         \/ pc' = pc
         \/ pc = "idle" /\ pc' = "clear" /\ pointers' = {}
         \/ pc = "clear" /\ pc' = "idle" /\ waiting' = None,
         UNCHANGED <<parts, conf, building, thrown, answer, error>>
  PROVE  IInv'
<1>1. scopedEngines \subseteq Engines /\ shared \subseteq Engines
  BY DEF IInv, TypeOK
<1>2. TypeOK' BY <1>1 DEF IInv, TypeOK
<1>3. OwnerInv'
  <2>1. building' = None <=> pc' \notin {"buffer", "wrap", "register"}
    BY DEF IInv, OwnerInv
  <2>2. building' \notin scopedEngines' \cup shared' \cup leaving'
    BY DEF IInv, OwnerInv
  <2>3. leaving' \cap (scopedEngines' \cup shared') = {} BY DEF IInv, OwnerInv
  <2>4. \A e \in scopedEngines' \cup shared' : Complete(parts'[e])
    BY DEF IInv, OwnerInv
  <2>5. \A e \in leaving' : HasCore(parts'[e])
    <3>1. \A objects : Complete(objects) => HasCore(objects)
      BY DEF Complete, HasCore
    <3> QED BY <3>1 DEF IInv, OwnerInv
  <2>6. \A e \in Engines :
          e \notin scopedEngines' \cup shared' \cup {building'} \cup leaving'
            => parts'[e] = {}
    BY DEF IInv, OwnerInv
  <2> QED BY <2>1, <2>2, <2>3, <2>4, <2>5, <2>6 DEF OwnerInv
<1>4. BuildingInv' BY DEF IInv, BuildingInv
<1>5. ArgumentsInv' BY DEF IInv, ArgumentsInv
<1>6. CallInv'
  <2>1. waiting' = None \/ pc' \in {"unwind", "clear"} BY DEF IInv, CallInv
  <2>2. pc' = "clear" => pointers' = {} BY DEF IInv, CallInv
  <2>3. pc' = "unwind" => thrown' \in Exceptions /\ Justified(thrown)'
    BY DEF IInv, CallInv, Justified
  <2> QED BY <2>1, <2>2, <2>3 DEF CallInv
<1>7. ErrorFlagIsRight' BY DEF IInv, ErrorFlagIsRight
<1> QED BY <1>2, <1>3, <1>4, <1>5, <1>6, <1>7 DEF IInv

LEMMA ReleaseKeeps ==
  ASSUME IInv, NEW e \in Engines, Release(e)
  PROVE  IInv'
<1>1. pointers' \subseteq pointers \cap scopedEngines'
  BY DEF Release, IInv, OwnerInv
<1>2. leaving' = leaving \cup ((scopedEngines \cup shared)
                                 \ (scopedEngines' \cup shared'))
  BY DEF Release
<1>3. waiting' \in Engines \cup {None} BY DEF Release, IInv, TypeOK
<1> QED BY <1>1, <1>2, <1>3, LetGoKeeps DEF Release

LEMMA ClearKeeps ==
  ASSUME IInv, clear
  PROVE  IInv'
<1>1. waiting' \in Engines \cup {None} BY DEF clear, IInv, TypeOK
<1> QED BY <1>1, LetGoKeeps DEF clear

LEMMA ClearElementKeeps ==
  ASSUME IInv, NEW e \in Engines, ClearElement(e)
  PROVE  IInv'
<1>1. pointers' \subseteq pointers \cap scopedEngines'
  BY DEF ClearElement, IInv, CallInv
<1>2. leaving' = leaving \cup ((scopedEngines \cup shared)
                                 \ (scopedEngines' \cup shared'))
  BY DEF ClearElement
<1>3. waiting' \in Engines \cup {None} BY DEF ClearElement, IInv, TypeOK
<1> QED BY <1>1, <1>2, <1>3, LetGoKeeps DEF ClearElement

LEMMA ClearedKeeps ==
  ASSUME IInv, Cleared
  PROVE  IInv'
<1>1. pointers' \subseteq pointers \cap scopedEngines'
  BY DEF Cleared, owners, IInv, CallInv
<1>2. waiting' = None /\ pc = "clear" /\ pc' = "idle" BY DEF Cleared
<1>3. leaving' = leaving \cup ((scopedEngines \cup shared)
                                 \ (scopedEngines' \cup shared'))
  BY DEF Cleared, owners
<1>4. TypeOK' BY DEF Cleared, owners, IInv, TypeOK
<1>5. OwnerInv' BY DEF Cleared, owners, IInv, OwnerInv
<1>6. BuildingInv' /\ ArgumentsInv' /\ CallInv'
  BY DEF Cleared, BuildingInv, ArgumentsInv, CallInv
<1>7. ErrorFlagIsRight' BY DEF Cleared, IInv, ErrorFlagIsRight
<1> QED BY <1>4, <1>5, <1>6, <1>7 DEF IInv

(* What is being destroyed is nobody's.                                    *)
LEMMA DestructorKeeps ==
  ASSUME IInv, NEW e \in leaving, NEW rest \in SUBSET parts[e],
         parts' = [parts EXCEPT ![e] = rest],
         \/ HasCore(rest) /\ leaving' = leaving
         \/ rest = {} /\ leaving' = leaving \ {e},
         UNCHANGED <<scopedEngines, shared, pointers, pc, conf, building, waiting,
                     thrown, answer, error>>
  PROVE  IInv'
<1>1. /\ e \in Engines
      /\ e \notin scopedEngines \cup shared
      /\ e # building
  BY DEF IInv, TypeOK, OwnerInv
<1>2. /\ parts'[e] = rest
      /\ \A f \in Engines : f # e => parts'[f] = parts[f]
  BY <1>1 DEF IInv, TypeOK
<1>3. TypeOK'
  <2>1. parts' \in [Engines -> SUBSET ((Kinds \ {"other"})
                                         \cup {"agent", "thread", "scoped"})]
    BY <1>1 DEF IInv, TypeOK
  <2> QED BY <2>1 DEF IInv, TypeOK
<1>4. OwnerInv'
  <2>1. \A f \in scopedEngines \cup shared : parts'[f] = parts[f]
    BY <1>1, <1>2 DEF IInv, TypeOK
  <2>2. \A f \in leaving' : HasCore(parts'[f])
    <3>1. \A f \in leaving : f # e => HasCore(parts'[f])
      BY <1>2 DEF IInv, TypeOK, OwnerInv
    <3> QED BY <1>2, <3>1
  <2>3. \A f \in Engines :
          f \notin scopedEngines \cup shared \cup {building} \cup leaving'
            => parts'[f] = {}
    BY <1>2 DEF IInv, OwnerInv
  <2> QED BY <2>1, <2>2, <2>3 DEF IInv, OwnerInv
<1>5. BuildingInv'
  <2>1. pc \in {"buffer", "wrap", "register"} => parts'[building] = parts[building]
    BY <1>1, <1>2, BuildingType
  <2> QED BY <2>1 DEF IInv, BuildingInv
<1>6. ArgumentsInv' /\ CallInv' BY DEF IInv, ArgumentsInv, CallInv, Justified
<1>7. ErrorFlagIsRight' BY DEF IInv, ErrorFlagIsRight
<1> QED BY <1>3, <1>4, <1>5, <1>6, <1>7 DEF IInv

LEMMA FillerStopsKeeps ==
  ASSUME IInv, NEW e \in Engines, FillerStops(e)
  PROVE  IInv'
<1> DEFINE rest == parts[e] \ {"thread"}
<1>1. HasCore(parts[e]) BY DEF FillerStops, IInv, OwnerInv
<1>2. HasCore(rest) BY <1>1 DEF HasCore, CoreKinds, Kinds
<1>3. parts' = [parts EXCEPT ![e] = rest] /\ leaving' = leaving /\ e \in leaving
  BY DEF FillerStops
<1>4. UNCHANGED <<scopedEngines, shared, pointers, pc, conf, building, waiting,
                  thrown, answer, error>>
  BY DEF FillerStops, owners
<1>5. rest \in SUBSET parts[e] OBVIOUS
<1> HIDE DEF rest
<1> QED BY <1>2, <1>3, <1>4, <1>5, DestructorKeeps

LEMMA DestroyedKeeps ==
  ASSUME IInv, NEW e \in Engines, Destroyed(e)
  PROVE  IInv'
<1>1. parts' = [parts EXCEPT ![e] = {}] /\ leaving' = leaving \ {e} /\ e \in leaving
  BY DEF Destroyed
<1>2. UNCHANGED <<scopedEngines, shared, pointers, pc, conf, building, waiting,
                  thrown, answer, error>>
  BY DEF Destroyed, owners
<1> QED BY <1>1, <1>2, DestructorKeeps

LEMMA StutterKeeps ==
  ASSUME IInv, UNCHANGED vars
  PROVE  IInv'
BY DEF vars, owners, IInv, TypeOK, OwnerInv, BuildingInv, ArgumentsInv, CallInv,
       Justified, ErrorFlagIsRight

(* Every step keeps the invariant.                                         *)
LEMMA NextInv == IInv /\ [Next]_vars => IInv'
<1> SUFFICES ASSUME IInv, [Next]_vars PROVE IInv' OBVIOUS
<1>1. ASSUME NEW c \in Configurations, Call(c) PROVE IInv' BY <1>1, CallKeeps
<1>2. CASE createRandomEngineWithSeed
  <2>1. CASE SeedVerified BY <2>1, SeedVerifiedInv
  <2>2. CASE SeedTooShort BY <2>2, SeedTooShortInv
  <2>3. CASE CoreConstructed BY <2>3, CoreConstructedInv
  <2>4. CASE CoreRefused BY <2>4, CoreRefusedInv
  <2>5. CASE CoreFails BY <2>5, OutOfMemoryInv DEF CoreFails
  <2>6. CASE BufferAdded BY <2>6, BufferAddedInv
  <2>7. CASE BufferRefused BY <2>7, BufferRefusedInv
  <2>8. CASE BufferFails BY <2>8, BufferFailsInv
  <2>9. CASE Wrapped BY <2>9, WrappedInv
  <2>10. CASE WrapFails BY <2>10, OutOfMemoryInv DEF WrapFails
  <2>11. CASE Registered BY <2>11, RegisteredInv
  <2>12. CASE RegisterFails BY <2>12, OutOfMemoryInv DEF RegisterFails
  <2>13. CASE Unwound BY <2>13, UnwoundKeeps
  <2> QED BY <1>2, <2>1, <2>2, <2>3, <2>4, <2>5, <2>6, <2>7, <2>8, <2>9, <2>10,
             <2>11, <2>12, <2>13
          DEF createRandomEngineWithSeed
<1>3. CASE clear BY <1>3, ClearKeeps
<1>4. ASSUME NEW e \in Engines, ClearElement(e) PROVE IInv'
  BY <1>4, ClearElementKeeps
<1>5. CASE Cleared BY <1>5, ClearedKeeps
<1>6. ASSUME NEW e \in Engines, Release(e) PROVE IInv' BY <1>6, ReleaseKeeps
<1>7. ASSUME NEW e \in Engines, FillerStops(e) PROVE IInv'
  BY <1>7, FillerStopsKeeps
<1>8. ASSUME NEW e \in Engines, Destroyed(e) PROVE IInv' BY <1>8, DestroyedKeeps
<1>9. CASE UNCHANGED vars BY <1>9, StutterKeeps
<1> QED BY <1>1, <1>2, <1>3, <1>4, <1>5, <1>6, <1>7, <1>8, <1>9 DEF Next

LEMMA Invariance == Spec => []IInv
BY InitInv, NextInv, PTL DEF Spec

-----------------------------------------------------------------------------
\* The variables always have their types.
THEOREM TypeCorrect == Spec => []TypeOK
<1>1. IInv => TypeOK BY DEF IInv
<1> QED BY <1>1, Invariance, PTL

\* Whichever step of createRandomEngineWithSeed fails, and whatever clients do
\* meanwhile, no object and no filler thread outlives its owners.
THEOREM NoLeak == Spec => []NothingLeaks
<1>1. IInv => NothingLeaks BY DEF IInv, OwnerInv, CallInv, NothingLeaks
<1> QED BY <1>1, Invariance, PTL

\* A pointer of a C client is good until clear(), a shared_ptr of a C++ client
\* as long as it is held, and the engine behind it is complete.
THEOREM NoDanglingEngine == Spec => []ClientsEnginesExist
<1>1. IInv => ClientsEnginesExist
  <2> SUFFICES ASSUME IInv, NEW e \in pointers \cup shared
               PROVE  Complete(parts[e])
    BY DEF ClientsEnginesExist, Complete, CoreKinds
  <2> QED BY DEF IInv, OwnerInv
<1> QED BY <1>1, Invariance, PTL

\* A call that has returned has set the error variable if and only if it
\* returned no engine, and to what was wrong.
THEOREM FlagCorrect == Spec => []ErrorFlagIsRight
<1>1. IInv => ErrorFlagIsRight BY DEF IInv
<1> QED BY <1>1, Invariance, PTL

-----------------------------------------------------------------------------
(* A call that throws has failed once it has unwound.                      *)
LEMMA ThrowStutters ==
  ASSUME pc \notin {"idle", "clear"}, NEW exception, Throw(exception)
  PROVE  UNCHANGED Provider!vars
BY DEF Throw, owners, Provider!vars

LEMMA ProceedStutters ==
  ASSUME pc \notin {"idle", "clear"}, NEW place, place \notin {"idle", "clear"},
         Proceed(place)
  PROVE  UNCHANGED Provider!vars
BY DEF Proceed, owners, Provider!vars

(* Every step of the facility is one of the provider, or none.             *)
LEMMA NextProvides == IInv /\ [Next]_vars => [Provider!Next]_Provider!vars
<1> SUFFICES ASSUME IInv, [Next]_vars
             PROVE  [Provider!Next]_Provider!vars
  OBVIOUS
<1>1. ASSUME NEW c \in Configurations, Call(c) PROVE Provider!Call
  BY <1>1 DEF Call, owners, Provider!Call
<1>2. ASSUME createRandomEngineWithSeed
      PROVE  Provider!Succeed \/ Provider!Fail \/ UNCHANGED Provider!vars
  <2>1. CASE SeedVerified
    BY <2>1, ProceedStutters DEF SeedVerified
  <2>2. CASE SeedTooShort BY <2>2, ThrowStutters DEF SeedTooShort
  <2>3. CASE CoreConstructed
    BY <2>3, ProceedStutters DEF CoreConstructed
  <2>4. CASE CoreRefused BY <2>4, ThrowStutters DEF CoreRefused
  <2>5. CASE CoreFails BY <2>5, ThrowStutters DEF CoreFails
  <2>6. CASE BufferAdded BY <2>6, ProceedStutters DEF BufferAdded
  <2>7. CASE BufferRefused BY <2>7, ThrowStutters DEF BufferRefused
  <2>8. CASE BufferFails BY <2>8, ThrowStutters DEF BufferFails
  <2>9. CASE Wrapped BY <2>9, ProceedStutters DEF Wrapped
  <2>10. CASE WrapFails BY <2>10, ThrowStutters DEF WrapFails
  <2>11. CASE Registered
    <3>1. building \in Engines \ (scopedEngines \cup shared)
      BY <2>11, BuildingType DEF Registered
    <3> QED BY <2>11, <3>1 DEF Registered, Provider!Succeed
  <2>12. CASE RegisterFails BY <2>12, ThrowStutters DEF RegisterFails
  <2>13. CASE Unwound BY <2>13 DEF Unwound, owners, Provider!Fail
  <2> QED BY <1>2, <2>1, <2>2, <2>3, <2>4, <2>5, <2>6, <2>7, <2>8, <2>9, <2>10,
             <2>11, <2>12, <2>13
          DEF createRandomEngineWithSeed
<1>3. ASSUME clear \/ Cleared PROVE UNCHANGED Provider!vars
  BY <1>3 DEF clear, Cleared, owners, Provider!vars
<1>4. ASSUME NEW e \in Engines, ClearElement(e) \/ Release(e)
      PROVE  Provider!Withdraw
  BY <1>4 DEF ClearElement, Release, Provider!Withdraw
<1>5. ASSUME NEW e \in Engines, FillerStops(e) \/ Destroyed(e)
      PROVE  UNCHANGED Provider!vars
  BY <1>5 DEF FillerStops, Destroyed, owners, Provider!vars
<1>6. ASSUME UNCHANGED vars PROVE UNCHANGED Provider!vars
  BY <1>6 DEF vars, owners, Provider!vars
<1>7. Provider!Call \/ Provider!Succeed \/ Provider!Fail \/ Provider!Withdraw
        => Provider!Next
  BY DEF Provider!Next
<1> QED BY <1>1, <1>2, <1>3, <1>4, <1>5, <1>6, <1>7 DEF Next

\* The facility implements the EngineProvider, whose calls take one step: no
\* client sees that a call has many, or that some of them were done before a
\* later one failed.
THEOREM FacilityProvides == Spec => ProviderSpec
<1>1. Init => Provider!Init BY DEF Init, Provider!Init
<1> QED BY <1>1, NextProvides, Invariance, PTL
        DEF Spec, ProviderSpec, Provider!Spec

-----------------------------------------------------------------------------
(* What a call waits for, and how long it takes.                           *)

\* The engine whose destructor the call runs is nobody's any more, and the list
\* that clear() goes through has an end.
WaitingInv ==
  /\ IsFiniteSet(scopedEngines)
  /\ waiting \notin scopedEngines \cup shared

\* What a failed call has made, or clear() was the last to own, is gone when
\* the destructor returns: the thread, the agent and the core engine.
WaitsForItsEngine ==
  waiting # None => waiting \in leaving \/ parts[waiting] = {}

\* An engine in the list is left alone until clear().
OwnedIsKept ==
  [][pc # "clear" =>
       /\ scopedEngines \subseteq scopedEngines'
       /\ \A e \in scopedEngines : parts'[e] = parts[e]]_vars

\* The steps that a destructor has left, the end of the filler thread included.
Joining(e) ==
  IF e \notin leaving THEN 0 ELSE IF "thread" \in parts[e] THEN 2 ELSE 1

\* The steps that a call has left at most, without the destructor it waits for,
\* when the list has n engines.
StepsFrom(place, n) ==
  CASE place = "seed"     -> 8
    [] place = "core"     -> 7
    [] place = "buffer"   -> 6
    [] place = "wrap"     -> 5
    [] place = "register" -> 4
    [] place = "unwind"   -> 1
    [] place = "clear"    -> 3 * n + 1
    [] OTHER              -> 0

StepsLeft == StepsFrom(pc, Cardinality(scopedEngines)) + Joining(waiting)

\* The steps of a call, and those of the destructor it waits for.
CallSteps ==
  \/ createRandomEngineWithSeed
  \/ (\E e \in Engines : ClearElement(e)) \/ Cleared
  \/ FillerStops(waiting) \/ Destroyed(waiting)

\* Each of them brings the call nearer to its end, and no step of a client or of
\* another destructor takes it further from it.
EachStepLeads ==
  [][~((\E c \in Configurations : Call(c)) \/ clear) =>
       /\ StepsLeft' <= StepsLeft
       /\ CallSteps => StepsLeft' < StepsLeft]_vars

\* Nothing is left to do when no call is in progress, and eight steps at most when
\* one makes an engine.
StepsBounded ==
  /\ StepsLeft \in Nat
  /\ pc # "clear" => StepsLeft \in 0..8
  /\ pc = "idle" => StepsLeft = 0

LEMMA WaitingInit == Init => WaitingInv
BY FS_EmptySet DEF Init, WaitingInv

(* What a call destroys, no client has, and nobody gets again.             *)
LEMMA ThrowWaits ==
  ASSUME IInv, WaitingInv, NEW exception, Throw(exception)
  PROVE  WaitingInv'
BY DEF Throw, owners, IInv, OwnerInv, WaitingInv

LEMMA WaitingNext == IInv /\ WaitingInv /\ [Next]_vars => WaitingInv'
<1> SUFFICES ASSUME IInv, WaitingInv, [Next]_vars PROVE WaitingInv' OBVIOUS
<1>1. ASSUME UNCHANGED <<scopedEngines, shared, waiting>> PROVE WaitingInv'
  BY <1>1 DEF WaitingInv
<1>2. ASSUME NEW c \in Configurations, Call(c) PROVE WaitingInv'
  BY <1>1, <1>2 DEF Call, owners
<1>3. ASSUME createRandomEngineWithSeed PROVE WaitingInv'
  <2>1. ASSUME SeedVerified \/ CoreConstructed \/ BufferAdded \/ Wrapped
        PROVE  WaitingInv'
    BY <1>1, <2>1 DEF SeedVerified, CoreConstructed, BufferAdded, Wrapped, Proceed, owners
  <2>2. ASSUME SeedTooShort \/ CoreRefused \/ CoreFails \/ BufferRefused
                 \/ BufferFails \/ WrapFails \/ RegisterFails
        PROVE  WaitingInv'
    BY <2>2, ThrowWaits DEF SeedTooShort, CoreRefused, CoreFails, BufferRefused,
                            BufferFails, WrapFails, RegisterFails
  <2>3. ASSUME Registered PROVE WaitingInv'
    <3>1. IsFiniteSet(scopedEngines \cup {building})
      BY FS_AddElement DEF WaitingInv
    <3>2. waiting = None BY <2>3 DEF Registered, IInv, CallInv
    <3>3. None \notin scopedEngines \cup shared \cup {building}
      BY <2>3, BuildingType, FacilityAssumption DEF Registered, IInv, TypeOK
    <3> QED BY <2>3, <3>1, <3>2, <3>3 DEF Registered, WaitingInv
  <2>4. ASSUME Unwound PROVE WaitingInv'
    BY <2>4, FacilityAssumption DEF Unwound, owners, IInv, TypeOK, WaitingInv
  <2> QED BY <1>3, <2>1, <2>2, <2>3, <2>4 DEF createRandomEngineWithSeed
<1>4. ASSUME clear PROVE WaitingInv' BY <1>1, <1>4 DEF clear
<1>5. ASSUME NEW e \in Engines, ClearElement(e) PROVE WaitingInv'
  <2>1. IsFiniteSet(scopedEngines \ {e}) BY FS_RemoveElement DEF WaitingInv
  <2> QED BY <1>5, <2>1 DEF ClearElement, WaitingInv
<1>6. ASSUME Cleared PROVE WaitingInv'
  BY <1>6, FacilityAssumption DEF Cleared, owners, IInv, TypeOK, WaitingInv
<1>7. ASSUME NEW e \in Engines, Release(e) PROVE WaitingInv'
  BY <1>7 DEF Release, WaitingInv
<1>8. ASSUME NEW e \in Engines, FillerStops(e) \/ Destroyed(e) PROVE WaitingInv'
  BY <1>1, <1>8 DEF FillerStops, Destroyed, owners
<1>9. ASSUME UNCHANGED vars PROVE WaitingInv'
  BY <1>1, <1>9 DEF vars, owners
<1> QED BY <1>2, <1>3, <1>4, <1>5, <1>6, <1>7, <1>8, <1>9 DEF Next

LEMMA WaitingInvariance == Spec => [](IInv /\ WaitingInv)
BY WaitingInit, WaitingNext, Invariance, PTL DEF Spec

\* A call that fails returns only when the destructor has joined the filler
\* thread and freed what the call had made; clear() goes on to the next engine
\* only then.
THEOREM NothingSurvivesFailure == Spec => []WaitsForItsEngine
<1>1. IInv /\ WaitingInv => WaitsForItsEngine
  <2> SUFFICES ASSUME IInv, WaitingInv, waiting # None, waiting \notin leaving
               PROVE  parts[waiting] = {}
    BY DEF WaitsForItsEngine
  <2>1. waiting \in Engines /\ waiting # building
    BY DEF IInv, TypeOK, OwnerInv, CallInv
  <2> QED BY <2>1 DEF IInv, OwnerInv, WaitingInv
<1> QED BY <1>1, WaitingInvariance, PTL

\* What a step does to the engines that someone owns and to those being
\* destroyed: it lets go of some, and their destructors start; it finishes some
\* destructors; or the call in progress makes one that nobody had.
HandsOn ==
  /\ leaving' \ leaving = Owned \ Owned'
  /\ leaving' \cap Owned' = {}

LEMMA ThrowHandsOn ==
  ASSUME IInv, NEW exception, Throw(exception)
  PROVE  HandsOn
<1>1. /\ building \in Engines \cup {None} /\ leaving \cap Owned = {}
      /\ building \notin scopedEngines \cup shared \cup leaving
  BY DEF IInv, TypeOK, OwnerInv, Owned
<1>2. /\ building' = None /\ UNCHANGED <<scopedEngines, shared>>
      /\ leaving' = IF building = None THEN leaving ELSE leaving \cup {building}
  BY DEF Throw, owners
<1>3. Owned' = scopedEngines \cup shared BY <1>2 DEF Owned
<1> QED BY <1>1, <1>2, <1>3 DEF HandsOn, Owned

LEMMA EachStepHandsOn == IInv /\ [Next]_vars => HandsOn
<1> SUFFICES ASSUME IInv, [Next]_vars PROVE HandsOn OBVIOUS
<1>1. leaving \cap Owned = {} BY DEF IInv, OwnerInv, Owned
<1>2. ASSUME UNCHANGED <<leaving, scopedEngines, shared, building>> PROVE HandsOn
  BY <1>1, <1>2 DEF HandsOn, Owned
<1>3. ASSUME createRandomEngineWithSeed PROVE HandsOn
  <2>1. CASE SeedVerified \/ BufferAdded \/ Wrapped \/ Unwound
    BY <1>2, <2>1 DEF SeedVerified, BufferAdded, Wrapped, Unwound, Proceed, owners
  <2>2. CASE SeedTooShort \/ CoreRefused \/ CoreFails \/ BufferRefused
               \/ BufferFails \/ WrapFails \/ RegisterFails
    BY <2>2, ThrowHandsOn DEF SeedTooShort, CoreRefused, CoreFails, BufferRefused,
                              BufferFails, WrapFails, RegisterFails
  <2>3. CASE CoreConstructed
    <3>1. PICK e \in Engines : parts[e] = {} /\ building' = e BY <2>3 DEF CoreConstructed
    <3>2. e \notin leaving BY <3>1 DEF IInv, OwnerInv, HasCore
    <3>3. /\ UNCHANGED <<leaving, scopedEngines, shared>> /\ building = None
      BY <2>3 DEF CoreConstructed, Proceed, owners, IInv, OwnerInv
    <3> QED BY <1>1, <3>1, <3>2, <3>3 DEF HandsOn, Owned
  <2>4. CASE Registered
    <3>1. building \in Engines BY <2>4, BuildingType DEF Registered
    <3>2. /\ leaving' = leaving /\ building' = None
          /\ scopedEngines' = scopedEngines \cup {building}
          /\ shared' = shared \/ shared' = shared \cup {building}
      BY <2>4 DEF Registered
    <3>3. Owned' = Owned BY <3>1, <3>2, FacilityAssumption DEF Owned, IInv, TypeOK
    <3> QED BY <1>1, <3>2, <3>3 DEF HandsOn
  <2> QED BY <1>3, <2>1, <2>2, <2>3, <2>4 DEF createRandomEngineWithSeed
<1>4. ASSUME NEW e \in Engines, Release(e) \/ ClearElement(e) PROVE HandsOn
  <2>1. /\ leaving' = leaving \cup ((scopedEngines \cup shared)
                                       \ (scopedEngines' \cup shared'))
        /\ scopedEngines' \cup shared' \subseteq scopedEngines \cup shared
        /\ building' = building
    BY <1>4 DEF Release, ClearElement
  <2>2. building \notin scopedEngines \cup shared BY DEF IInv, OwnerInv
  <2> QED BY <1>1, <2>1, <2>2 DEF HandsOn, Owned
<1>5. ASSUME NEW e \in Engines, FillerStops(e) \/ Destroyed(e) PROVE HandsOn
  BY <1>1, <1>5 DEF FillerStops, Destroyed, owners, HandsOn, Owned
<1>6. ASSUME (\E c \in Configurations : Call(c)) \/ clear \/ Cleared \/ UNCHANGED vars
      PROVE  HandsOn
  BY <1>2, <1>6 DEF Call, clear, Cleared, vars, owners
<1> QED BY <1>3, <1>4, <1>5, <1>6 DEF Next

\* The destructor of an engine is started by the step that lets go of it last,
\* clear() and the threads of any number of clients racing to do so, and by no
\* other.
THEOREM OneDestructor == Spec => DestroyedOnce
<1>1. IInv /\ [Next]_vars
        => [\A e \in Engines : /\ e \in leaving' \ leaving <=> e \in Owned \ Owned'
                               /\ e \in leaving' => e \notin Owned']_vars
  BY EachStepHandsOn DEF HandsOn
<1> QED BY <1>1, Invariance, PTL DEF Spec, DestroyedOnce

\* An engine that its C++ client has dropped lives on in the list, its filler
\* thread included, until clear(): no other step, however many calls succeed or
\* fail meanwhile, takes it from the list or touches what there is of it.
THEOREM DroppedEnginesLiveOn == Spec => OwnedIsKept
<1> DEFINE Kept == pc # "clear" =>
                     /\ scopedEngines \subseteq scopedEngines'
                     /\ \A e \in scopedEngines : parts'[e] = parts[e]
<1>1. IInv /\ [Next]_vars => [Kept]_vars
  <2> SUFFICES ASSUME IInv, Next, pc # "clear"
               PROVE  /\ scopedEngines \subseteq scopedEngines'
                      /\ \A e \in scopedEngines : parts'[e] = parts[e]
    OBVIOUS
  <2>1. ASSUME createRandomEngineWithSeed
        PROVE  /\ scopedEngines \subseteq scopedEngines'
               /\ \A e \in scopedEngines : parts'[e] = parts[e]
    <3>1. CASE SeedVerified BY <3>1 DEF SeedVerified, Proceed, owners
    <3>2. CASE CoreConstructed
      <4>1. PICK e \in Engines : parts[e] = {} /\ parts' = [parts EXCEPT ![e] = {conf.kind}]
        BY <3>2 DEF CoreConstructed
      <4>2. ~Complete({}) BY DEF Complete
      <4>3. e \notin scopedEngines BY <4>1, <4>2 DEF IInv, OwnerInv
      <4> QED BY <3>2, <4>1, <4>3 DEF CoreConstructed, Proceed, owners, IInv, TypeOK
    <3>3. CASE BufferAdded \/ Wrapped
      <4>1. building \in Engines \ scopedEngines
        BY <3>3, BuildingType DEF BufferAdded, Wrapped
      <4> QED BY <3>3, <4>1 DEF BufferAdded, Wrapped, Add, Proceed, owners, IInv, TypeOK
    <3>4. CASE Registered BY <3>4 DEF Registered
    <3>5. CASE SeedTooShort \/ CoreRefused \/ CoreFails \/ BufferRefused
                 \/ BufferFails \/ WrapFails \/ RegisterFails
      BY <3>5 DEF SeedTooShort, CoreRefused, CoreFails, BufferRefused, BufferFails,
                  WrapFails, RegisterFails, Throw, owners
    <3>6. CASE Unwound BY <3>6 DEF Unwound, owners
    <3> QED BY <2>1, <3>1, <3>2, <3>3, <3>4, <3>5, <3>6 DEF createRandomEngineWithSeed
  <2>2. CASE (\E c \in Configurations : Call(c)) \/ clear
    BY <2>2 DEF Call, clear, owners
  <2>3. CASE \E e \in Engines : Release(e) BY <2>3 DEF Release
  <2>4. CASE \E e \in Engines : FillerStops(e) \/ Destroyed(e)
    <3>1. PICK e \in Engines : FillerStops(e) \/ Destroyed(e) BY <2>4
    <3>2. e \notin scopedEngines BY <3>1 DEF FillerStops, Destroyed, IInv, OwnerInv
    <3> QED BY <3>1, <3>2 DEF FillerStops, Destroyed, owners, IInv, TypeOK
  <2> QED BY <2>1, <2>2, <2>3, <2>4 DEF Next, ClearElement, Cleared
<1> QED BY <1>1, Invariance, PTL DEF Spec, OwnedIsKept

-----------------------------------------------------------------------------
(* The steps of a call are counted.                                        *)
LEMMA JoiningType == \A e : Joining(e) \in 0..2
BY DEF Joining

LEMMA StepsFromType ==
  ASSUME NEW place, NEW n \in Nat
  PROVE  /\ StepsFrom(place, n) \in Nat
         /\ place # "clear" => StepsFrom(place, n) \in 0..8
BY DEF StepsFrom

LEMMA BoundsOfSteps ==
  ASSUME IInv, WaitingInv
  PROVE  StepsBounded
<1> DEFINE n == Cardinality(scopedEngines)
           own == StepsFrom(pc, n)
           joining == Joining(waiting)
<1>1. n \in Nat BY FS_CardinalityType DEF WaitingInv
<1>2. own \in Nat /\ joining \in 0..2 BY <1>1, StepsFromType, JoiningType
<1>3. pc \notin {"unwind", "clear"} => joining = 0
  BY FacilityAssumption DEF Joining, IInv, TypeOK, CallInv
<1>4. pc # "clear" => own \in 0..8 /\ (pc = "unwind" => own = 1)
  BY <1>1, StepsFromType DEF StepsFrom
<1>5. pc = "idle" => own = 0 BY DEF StepsFrom
<1>6. StepsLeft = own + joining BY DEF StepsLeft
<1> HIDE DEF own, joining
<1> QED BY <1>2, <1>3, <1>4, <1>5, <1>6 DEF StepsBounded

(* A step at one place of the call, with the list as it is.                *)
LEMMA ForwardLeads ==
  ASSUME IInv, WaitingInv, scopedEngines' = scopedEngines \/ pc' = "idle",
         waiting = None \/ waiting \notin leaving,
         \/ pc' = "unwind" /\ pc \in {"seed", "core", "buffer", "wrap", "register"}
         \/ /\ waiting' = None \/ waiting' \notin leaving'
            /\ None \notin leaving'
            /\ \/ pc = "seed" /\ pc' = "core"
               \/ pc = "core" /\ pc' \in {"buffer", "wrap"}
               \/ pc = "buffer" /\ pc' = "wrap"
               \/ pc = "wrap" /\ pc' = "register"
               \/ pc \in {"register", "unwind", "clear"} /\ pc' = "idle"
  PROVE  StepsLeft' < StepsLeft
<1> DEFINE n == Cardinality(scopedEngines)
<1>1. n \in Nat BY FS_CardinalityType DEF WaitingInv
<1>2. Joining(waiting) = 0
  BY FacilityAssumption DEF Joining, IInv, TypeOK
<1>3. StepsLeft = StepsFrom(pc, n) BY <1>1, <1>2, StepsFromType DEF StepsLeft
<1>4. StepsLeft' = StepsFrom(pc', n') + Joining(waiting)' BY DEF StepsLeft
<1>5. pc' = "idle" \/ n' = n OBVIOUS
<1>6. CASE pc' = "unwind" /\ pc \in {"seed", "core", "buffer", "wrap", "register"}
  <2>1. Joining(waiting)' \in 0..2 BY DEF Joining
  <2>2. StepsFrom(pc', n') = 1 BY <1>6 DEF StepsFrom
  <2>3. StepsFrom(pc, n) \in 4..8 BY <1>6 DEF StepsFrom
  <2> QED BY <1>3, <1>4, <2>1, <2>2, <2>3
<1>7. CASE pc' # "unwind"
  <2>1. Joining(waiting)' = 0 BY <1>7 DEF Joining
  <2>2. StepsFrom(pc', n') \in Nat /\ StepsFrom(pc', n') < StepsFrom(pc, n)
    BY <1>1, <1>7 DEF StepsFrom
  <2>3. StepsFrom(pc, n) \in Nat BY <1>1, StepsFromType
  <2> QED BY <1>3, <1>4, <2>1, <2>2, <2>3
<1> QED BY <1>6, <1>7

LEMMA ThrowLeads ==
  ASSUME IInv, WaitingInv, pc \in {"seed", "core", "buffer", "wrap", "register"},
         NEW exception, Throw(exception)
  PROVE  StepsLeft' < StepsLeft
<1>1. waiting = None BY DEF IInv, CallInv
<1> QED BY <1>1, ForwardLeads DEF Throw, owners

LEMMA CallLeads ==
  ASSUME IInv, WaitingInv, createRandomEngineWithSeed
  PROVE  StepsLeft' < StepsLeft
<1>1. None \notin leaving BY FacilityAssumption DEF IInv, TypeOK
<1>2. CASE SeedVerified \/ CoreConstructed \/ BufferAdded \/ Wrapped
  <2>1. PICK place : /\ Proceed(place)
                     /\ \/ pc = "seed" /\ place = "core"
                        \/ pc = "core" /\ place \in {"buffer", "wrap"}
                        \/ pc = "buffer" /\ place = "wrap"
                        \/ pc = "wrap" /\ place = "register"
    BY <1>2 DEF SeedVerified, CoreConstructed, BufferAdded, Wrapped
  <2>2. waiting = None BY <2>1 DEF IInv, CallInv
  <2>3. /\ pc' = place /\ waiting' = None /\ leaving' = leaving
        /\ scopedEngines' = scopedEngines
    BY <2>1, <2>2 DEF Proceed, owners
  <2> QED BY <1>1, <2>1, <2>2, <2>3, ForwardLeads
<1>3. CASE SeedTooShort \/ CoreRefused \/ CoreFails \/ BufferRefused
             \/ BufferFails \/ WrapFails \/ RegisterFails
  <2>1. PICK exception : Throw(exception)
    BY <1>3 DEF SeedTooShort, CoreRefused, CoreFails, BufferRefused, BufferFails,
                WrapFails, RegisterFails
  <2>2. pc \in {"seed", "core", "buffer", "wrap", "register"}
    BY <1>3 DEF SeedTooShort, CoreRefused, CoreFails, BufferRefused, BufferFails,
                WrapFails, RegisterFails
  <2> QED BY <2>1, <2>2, ThrowLeads
<1>4. CASE Registered
  <2>1. /\ pc = "register" /\ pc' = "idle" /\ waiting' = waiting /\ leaving' = leaving
    BY <1>4 DEF Registered
  <2>2. waiting = None BY <2>1 DEF IInv, CallInv
  <2> QED BY <1>1, <2>1, <2>2, ForwardLeads
<1>5. CASE Unwound
  <2>1. /\ pc = "unwind" /\ pc' = "idle" /\ waiting' = None /\ leaving' = leaving
        /\ waiting \notin leaving
    BY <1>5 DEF Unwound
  <2> QED BY <1>1, <2>1, ForwardLeads
<1> QED BY <1>2, <1>3, <1>4, <1>5 DEF createRandomEngineWithSeed

(* clear() has a shorter list after each element.                          *)
LEMMA ClearElementLeads ==
  ASSUME IInv, WaitingInv, NEW e \in Engines, ClearElement(e)
  PROVE  StepsLeft' < StepsLeft
<1> DEFINE n == Cardinality(scopedEngines)
<1>1. /\ pc = "clear" /\ pc' = "clear" /\ waiting \notin leaving
      /\ e \in scopedEngines /\ scopedEngines' = scopedEngines \ {e}
  BY DEF ClearElement
<1>2. n \in Nat /\ n' = n - 1
  BY <1>1, FS_CardinalityType, FS_RemoveElement DEF WaitingInv
<1>3. StepsLeft = 3 * n + 1
  BY <1>1, <1>2 DEF StepsLeft, StepsFrom, Joining
<1>4. StepsFrom(pc', n') = 3 * n' + 1 BY <1>1 DEF StepsFrom
<1>5. Joining(waiting)' \in 0..2 BY DEF Joining
<1>6. StepsLeft' = (3 * n' + 1) + Joining(waiting)' BY <1>4 DEF StepsLeft
<1> QED BY <1>2, <1>3, <1>5, <1>6

(* A step that leaves the call and its list as they are.                   *)
LEMMA JoiningLeads ==
  ASSUME IInv, WaitingInv, UNCHANGED <<pc, scopedEngines, waiting>>,
         NEW d \in 0..2, Joining(waiting)' = d, d <= Joining(waiting)
  PROVE  /\ StepsLeft' <= StepsLeft
         /\ d < Joining(waiting) => StepsLeft' < StepsLeft
<1> DEFINE own == StepsFrom(pc, Cardinality(scopedEngines))
<1>1. own \in Nat BY FS_CardinalityType, StepsFromType DEF WaitingInv
<1>2. StepsLeft = own + Joining(waiting) BY DEF StepsLeft
<1>3. StepsLeft' = own + d BY DEF StepsLeft
<1>4. Joining(waiting) \in 0..2 BY JoiningType
<1> HIDE DEF own
<1> QED BY <1>1, <1>2, <1>3, <1>4

(* The destructor that the call waits for, or another one.                 *)
LEMMA DestructorLeads ==
  ASSUME IInv, WaitingInv, NEW e \in Engines, FillerStops(e) \/ Destroyed(e)
  PROVE  /\ StepsLeft' <= StepsLeft
         /\ e = waiting => StepsLeft' < StepsLeft
<1>1. UNCHANGED <<pc, scopedEngines, waiting>> /\ e \in leaving
  BY DEF FillerStops, Destroyed, owners
<1>2. CASE e # waiting
  <2>1. Joining(waiting)' = Joining(waiting)
    BY <1>1, <1>2 DEF Joining, FillerStops, Destroyed, IInv, TypeOK
  <2>2. Joining(waiting) \in 0..2 BY JoiningType
  <2>3. Joining(waiting) <= Joining(waiting) BY <2>2
  <2> QED BY <1>1, <1>2, <2>1, <2>2, <2>3, JoiningLeads
<1>3. CASE e = waiting
  <2>1. CASE FillerStops(e)
    <3>1. Joining(waiting) = 2 BY <1>3, <2>1 DEF FillerStops, Joining
    <3>2. Joining(waiting)' = 1
      BY <1>1, <1>3, <2>1 DEF FillerStops, Joining, IInv, TypeOK
    <3> QED BY <1>1, <3>1, <3>2, JoiningLeads
  <2>2. CASE Destroyed(e)
    <3>1. Joining(waiting) = 1 BY <1>3, <2>2 DEF Destroyed, Joining
    <3>2. Joining(waiting)' = 0 BY <1>1, <1>3, <2>2 DEF Destroyed, Joining
    <3> QED BY <1>1, <3>1, <3>2, JoiningLeads
  <2> QED BY <2>1, <2>2
<1> QED BY <1>2, <1>3

(* A client lets go of an engine, which is not the one the call destroys.  *)
LEMMA ReleaseLeads ==
  ASSUME IInv, WaitingInv, NEW e \in Engines, Release(e)
  PROVE  StepsLeft' <= StepsLeft
<1>1. UNCHANGED <<pc, scopedEngines, waiting, parts>> BY DEF Release
<1>2. e # waiting BY DEF Release, WaitingInv
<1>3. Joining(waiting)' = Joining(waiting) BY <1>1, <1>2 DEF Joining, Release
<1>4. Joining(waiting) \in 0..2 BY JoiningType
<1>5. Joining(waiting) <= Joining(waiting) BY <1>4
<1> QED BY <1>1, <1>3, <1>4, <1>5, JoiningLeads

\* The safety part of CallsReturn: a call that makes an engine or fails to has
\* eight steps at most, the destructor it waits for included, and clear() three
\* for each engine in the list and one more, whatever clients drop meanwhile and
\* whichever destructors run beside it.
THEOREM CallsAreShort == Spec => []StepsBounded /\ EachStepLeads
<1> DEFINE Leads == ~((\E c \in Configurations : Call(c)) \/ clear) =>
                      /\ StepsLeft' <= StepsLeft
                      /\ CallSteps => StepsLeft' < StepsLeft
<1>1. IInv /\ WaitingInv => StepsBounded BY BoundsOfSteps
<1>2. IInv /\ WaitingInv /\ StepsBounded /\ StepsBounded' /\ [Next]_vars => [Leads]_vars
  <2> SUFFICES ASSUME IInv, WaitingInv, StepsBounded, StepsBounded', Next,
                      ~((\E c \in Configurations : Call(c)) \/ clear)
               PROVE  /\ StepsLeft' <= StepsLeft
                      /\ CallSteps => StepsLeft' < StepsLeft
    OBVIOUS
  <2>1. StepsLeft \in Nat /\ StepsLeft' \in Nat BY DEF StepsBounded
  <2>2. ASSUME createRandomEngineWithSeed PROVE StepsLeft' < StepsLeft
    BY <2>2, CallLeads
  <2>3. ASSUME NEW e \in Engines, ClearElement(e) PROVE StepsLeft' < StepsLeft
    BY <2>3, ClearElementLeads
  <2>4. ASSUME Cleared PROVE StepsLeft' < StepsLeft
    <3>1. /\ pc = "clear" /\ pc' = "idle" /\ waiting' = None /\ leaving' = leaving
          /\ waiting \notin leaving /\ scopedEngines' = scopedEngines
      BY <2>4 DEF Cleared, owners
    <3>2. None \notin leaving' BY <3>1, FacilityAssumption DEF IInv, TypeOK
    <3> QED BY <3>1, <3>2, ForwardLeads
  <2>5. ASSUME FillerStops(waiting) \/ Destroyed(waiting) PROVE StepsLeft' < StepsLeft
    <3>1. waiting \in Engines BY <2>5 DEF FillerStops, Destroyed, IInv, TypeOK
    <3> QED BY <2>5, <3>1, DestructorLeads
  <2>6. ASSUME NEW e \in Engines, FillerStops(e) \/ Destroyed(e)
        PROVE  StepsLeft' <= StepsLeft
    BY <2>6, DestructorLeads
  <2>7. ASSUME NEW e \in Engines, Release(e) PROVE StepsLeft' <= StepsLeft
    BY <2>7, ReleaseLeads
  <2>8. CallSteps => StepsLeft' < StepsLeft
    BY <2>2, <2>3, <2>4, <2>5 DEF CallSteps
  <2>9. StepsLeft' <= StepsLeft
    <3>1. CASE CallSteps BY <2>1, <2>8, <3>1
    <3>2. CASE ~CallSteps BY <2>6, <2>7, <3>2 DEF Next, CallSteps
    <3> QED BY <3>1, <3>2
  <2> QED BY <2>8, <2>9
<1> QED BY <1>1, <1>2, WaitingInvariance, PTL DEF Spec, EachStepLeads
=============================================================================

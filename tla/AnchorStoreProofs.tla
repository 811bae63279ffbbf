-------------------------- MODULE AnchorStoreProofs --------------------------
(* Proofs about AnchorStore, for every number of instances, transactions,  *)
(* challenges, sequences and losses of power.                              *)
EXTENDS AnchorStore, SequenceTheorems, TLAPS

LEMMA GenesisIsState == Genesis \in State
BY ConstantsAssumption DEF Genesis, State, ChainHead

LEMMA ProposedIsState ==
    ASSUME NEW c \in Requests
    PROVE  ProposedState(c) \in State
<1> DEFINE link == [sequence |-> c.sequence, transaction |-> c.transaction]
<1>1. c \in Challenge
    BY ConstantsAssumption
<1>2. link \in Link /\ c.prior \in Seq(Link) /\ c.sequence \in 1..MaxSequence
    BY <1>1 DEF Challenge, Link, ChainHead
<1>3. Append(c.prior, link) \in Seq(Link)
    BY <1>2
<1> QED
    BY <1>2, <1>3, ConstantsAssumption
       DEF ProposedState, DeriveProposedHead, State, ChainHead

LEMMA WithNextTyped ==
    ASSUME NEW e \in BOOLEAN, disk \in Directory, images \subseteq Directory,
           Metadata(WithNext(disk, e), {WithNext(d, e) : d \in images})
    PROVE  disk' \in Directory /\ images' \subseteq Directory
<1>1. \A d \in Directory : WithNext(d, e) \in Directory
    BY DEF Directory, WithNext
<1>2. disk' \in Directory
    BY <1>1, Zenon DEF Metadata
<1>3. ASSUME NEW d \in images' PROVE d \in Directory
    BY <1>1, <1>3, Zenon DEF Metadata
<1> QED BY <1>2, <1>3

LEMMA PublishedTyped ==
    \A c \in Content : Published(c) \in Directory
BY DEF Directory, Published

(* The request of an instance that replaces the state file is a real one.  *)
RequestPresent ==
    \A i \in Instances :
        pc[i] \in ReplaceSteps \cup {"sign"} => request[i] \in Requests

Typed == TypeOK /\ RequestPresent

LEMMA TypedInit == Init => Typed
<1> SUFFICES ASSUME Init PROVE Typed
    OBVIOUS
<1>1. TypeOK
    BY GenesisIsState, ConstantsAssumption
       DEF Init, TypeOK, Directory, Content, OpenFile, NoFile, Steps, Modes
<1>2. RequestPresent
    BY DEF Init, RequestPresent, ReplaceSteps
<1> QED BY <1>1, <1>2 DEF Typed

LEMMA DroppedTyped ==
    ASSUME Typed, NEW i \in Instances, Dropped(i),
           UNCHANGED <<disk, images, signed, losses>>
    PROVE  Typed'
<1>1. TypeOK'
    BY GenesisIsState
       DEF Typed, TypeOK, Dropped, GoTo, OpenFile, NoFile, Content, Steps, Modes
<1>2. RequestPresent'
    BY DEF Typed, TypeOK, RequestPresent, Dropped, GoTo, ReplaceSteps
<1> QED BY <1>1, <1>2 DEF Typed

LEMMA TypedStep == Typed /\ [Next]_vars => Typed'
<1> SUFFICES ASSUME Typed, [Next]_vars PROVE Typed'
    OBVIOUS
<1> USE GenesisIsState, ConstantsAssumption
<1>1. CASE UNCHANGED vars
    BY <1>1 DEF vars, files, exchange, Typed, TypeOK, RequestPresent
<1>2. CASE PowerLoss
    BY <1>2 DEF PowerLoss, Typed, TypeOK, RequestPresent, OpenFile, NoFile,
                Content, Steps, Modes, ReplaceSteps
<1>3. ASSUME NEW i \in Instances, Construct(i)
      PROVE  Typed'
  <2> USE DEF Typed, TypeOK, GoTo, Steps, ConstructorSteps, ReplaceSteps,
              files, exchange
  <2>1. ASSUME NEW m \in Modes, AdmitAndLockRoot(i, m)
        PROVE  Typed'
      BY <2>1 DEF AdmitAndLockRoot, LockAvailable, RequestPresent
  <2>2. CASE RemoveLeftoverNext(i)
    <3>1. disk' \in Directory /\ images' \subseteq Directory
      <4>1. CASE UNCHANGED <<disk, images>>
          BY <4>1
      <4>2. CASE Metadata(WithNext(disk, FALSE),
                          {WithNext(d, FALSE) : d \in images})
          BY <4>2, WithNextTyped
      <4> QED BY <2>2, <4>1, <4>2 DEF RemoveLeftoverNext
    <3>2. pc' \in [Instances -> Steps] /\ RequestPresent'
        BY <2>2, ZenonT(40) DEF RemoveLeftoverNext, AfterCleanup, RequestPresent
    <3> QED BY <2>2, <3>1, <3>2 DEF RemoveLeftoverNext
  <2>3. CASE SyncCleanup(i)
      BY <2>3 DEF SyncCleanup, AfterCleanup, SyncDirectory, RequestPresent
  <2>4. CASE ReadState(i)
      BY <2>4, DroppedTyped DEF ReadState, RequestPresent
  <2>5. CASE CreateInitial(i)
      BY <2>5, DroppedTyped DEF CreateInitial, CreateExclusive, Metadata, WithState, Directory,
                                Content, RequestPresent
  <2>6. CASE WriteInitial(i)
      BY <2>6 DEF WriteInitial, Metadata, WithState, Directory, Content,
                  RequestPresent
  <2>7. CASE SyncInitial(i)
      BY <2>7 DEF SyncInitial, WithState, Directory, RequestPresent
  <2>8. CASE SyncInitialRoot(i)
      BY <2>8 DEF SyncInitialRoot, SyncDirectory, RequestPresent
  <2>9. CASE FailConstructor(i)
      BY <2>9, DroppedTyped DEF FailConstructor
  <2> QED BY <1>3, <2>1, <2>2, <2>3, <2>4, <2>5, <2>6, <2>7, <2>8, <2>9
          DEF Construct
<1>4. ASSUME NEW i \in Instances, Exchange(i)
      PROVE  Typed'
  <2> USE DEF Typed, TypeOK, GoTo, Steps, ConstructorSteps, ReplaceSteps,
              files, exchange
  <2>1. ASSUME NEW c \in Requests, BeginAdvance(i, c)
        PROVE  Typed'
      BY <2>1 DEF BeginAdvance, Poison, RequestPresent
  <2>2. ASSUME NEW c \in Requests, ObserveInPlace(i, c)
        PROVE  Typed'
      BY <2>2 DEF ObserveInPlace, RequestPresent
  <2>3. CASE CreateNext(i)
    <3>1. disk' \in Directory /\ images' \subseteq Directory
        BY <2>3, WithNextTyped DEF CreateNext
    <3> QED BY <2>3, <3>1 DEF CreateNext, OpenFile, File, Content,
                              RequestPresent
  <2>4. CASE WriteNext(i)
      BY <2>4, ProposedIsState DEF WriteNext, OpenFile, File, Content,
                                   RequestPresent
  <2>5. CASE SyncNext(i)
      BY <2>5 DEF SyncNext, SyncedFile, OpenFile, File, RequestPresent
  <2>6. CASE RenameNext(i)
    <3>1. disk' \in Directory /\ images' \subseteq Directory
        BY <2>6, PublishedTyped DEF RenameNext, Metadata, OpenFile
    <3> QED BY <2>6, <3>1 DEF RenameNext, OpenFile, NoFile, Content,
                              RequestPresent
  <2>7. CASE SyncRoot(i)
      BY <2>7, ProposedIsState DEF SyncRoot, SyncDirectory, RequestPresent
  <2>8. CASE Sign(i)
      BY <2>8, ProposedIsState DEF Sign, Observation, RequestPresent
  <2>9. CASE FailExchange(i)
      BY <2>9 DEF FailExchange, OpenFile, NoFile, Content, RequestPresent
  <2> QED BY <1>4, <2>1, <2>2, <2>3, <2>4, <2>5, <2>6, <2>7, <2>8, <2>9
          DEF Exchange
<1>5. ASSUME NEW i \in Instances, Stop(i)
      PROVE  Typed'
    BY <1>5, DroppedTyped DEF Stop
<1> QED BY <1>1, <1>2, <1>3, <1>4, <1>5 DEF Next

(* Every reachable state of the store is well typed.                       *)
THEOREM TypeCorrect == Spec => []TypeOK
<1>1. Typed => TypeOK
    BY DEF Typed
<1> QED BY <1>1, TypedInit, TypedStep, PTL DEF Spec

(***************************************************************************)
(* The inductive invariant.  What an instance knows about the directory    *)
(* follows from its program counter, because it alone holds the lock.      *)
(***************************************************************************)
(* One link per sequence.                                                  *)
WellFormed(s) == Len(s.head) = s.sequence

ChainShape ==
    /\ \A d \in images : d.state \in State => WellFormed(d.state)
    /\ \A i \in Instances : WellFormed(cache[i])
    /\ \A o \in signed : WellFormed(o.state)

(* The replacement sequence: the cache is at the prior of the challenge,   *)
(* the visible file moves from the cache to the proposed state exactly at  *)
(* the rename, and the renamed bytes were synced before.                   *)
Replacing(i) ==
    /\ pc[i] \in ReplaceSteps => AtPrior(i, request[i]) /\ poisoned[i]
    /\ pc[i] \in ReplaceSteps \ {"sync_root"} => disk.state = cache[i]
    /\ pc[i] = "sync_root" => disk.state = ProposedState(request[i])
    /\ pc[i] \in {"sync_next", "rename_next"}
          => temp.visible = ProposedState(request[i])
    /\ pc[i] = "rename_next" => temp.kept = {temp.visible}

(* The initial state file is partial until it is written.                  *)
Initializing(i) ==
    /\ pc[i] = "write_initial" => disk.state = Partial
    /\ pc[i] \in {"sync_initial", "sync_initial_root"} => disk.state = Genesis

(* What is about to be signed was resolved against the current cache, and  *)
(* only one state can survive a loss of power if this exchange wrote it.   *)
Signing(i) ==
    /\ pc[i] \in {"idle", "sign"} /\ ~poisoned[i] => cache[i] = disk.state
    /\ pc[i] = "sign" =>
          /\ ~poisoned[i]
          /\ position[i] = "Proposed" => cache[i] = ProposedState(request[i])
          /\ position[i] = "Prior" => AtPrior(i, request[i])
          /\ wrote[i] => \A d \in images : d = disk

Coherent ==
    /\ SingleWriter
    /\ disk \in images
    /\ \A i \in Instances : Replacing(i) /\ Initializing(i) /\ Signing(i)

IInv == Typed /\ Coherent /\ ChainShape /\ SignedStaysVisible /\ WrittenIsDurable

LEMMA WithNextKeeps ==
    ASSUME NEW e \in BOOLEAN, disk \in Directory, disk \in images,
           Metadata(WithNext(disk, e), {WithNext(d, e) : d \in images})
    PROVE  (disk \in images)' /\ disk'.state = disk.state
<1>1. (disk \in images)'
    BY Zenon DEF Metadata
<1>2. \A d \in Directory : WithNext(d, e).state = d.state
    BY DEF Directory, WithNext
<1> QED BY <1>1, <1>2, Zenon DEF Metadata

LEMMA CoherentInit == Init => Coherent
BY DEF Init, Coherent, SingleWriter, Replacing, Initializing, Signing,
       ReplaceSteps

(* The lock leaves every other instance down.                              *)
LEMMA OthersAreDown ==
    ASSUME Coherent, NEW i \in Instances, pc[i] # "down" \/ lock = Nobody
    PROVE  \A j \in Instances \ {i} : pc[j] = "down"
BY ConstantsAssumption DEF Coherent, SingleWriter

(* So only the instance that takes a step has anything to show.            *)
LEMMA Focus ==
    ASSUME NEW i \in Instances,
           \A j \in Instances \ {i} : pc'[j] = "down",
           pc'[i] # "down" => lock' = i,
           (disk \in images)',
           Replacing(i)', Initializing(i)', Signing(i)'
    PROVE  Coherent'
BY DEF Coherent, SingleWriter, Replacing, Initializing, Signing, ReplaceSteps

LEMMA DroppedCoherent ==
    ASSUME Typed, Coherent, NEW i \in Instances, pc[i] # "down",
           Dropped(i), UNCHANGED <<disk, images>>
    PROVE  Coherent'
<1>1. pc' = [pc EXCEPT ![i] = "down"] /\ pc'[i] = "down"
    BY DEF Dropped, GoTo, Typed, TypeOK
<1>2. \A j \in Instances \ {i} : pc'[j] = "down"
    BY <1>1, OthersAreDown DEF Typed, TypeOK
<1>3. Replacing(i)' /\ Initializing(i)' /\ Signing(i)'
    BY <1>1 DEF Replacing, Initializing, Signing, ReplaceSteps
<1> QED BY <1>1, <1>2, <1>3, Focus DEF Coherent

LEMMA CoherentStep == Typed /\ Typed' /\ Coherent /\ [Next]_vars => Coherent'
<1> SUFFICES ASSUME Typed, Typed', Coherent, [Next]_vars PROVE Coherent'
    OBVIOUS
<1>1. CASE UNCHANGED vars
    BY <1>1 DEF vars, files, exchange, Coherent, SingleWriter, Replacing,
                Initializing, Signing, AtPrior
<1>2. CASE PowerLoss
    BY <1>2 DEF PowerLoss, Coherent, SingleWriter, Replacing, Initializing,
                Signing, ReplaceSteps
<1>3. ASSUME NEW i \in Instances, Construct(i)
      PROVE  Coherent'
  <2> USE DEF GoTo, Typed, TypeOK, Replacing, Initializing, Signing,
              ReplaceSteps, Coherent, SingleWriter, files, exchange
  <2>a. \A j \in Instances \ {i} : pc[j] = "down" /\ pc'[j] = "down"
    <3>1. pc[i] # "down" \/ lock = Nobody
        BY <1>3 DEF Construct, AdmitAndLockRoot, LockAvailable, RemoveLeftoverNext,
             SyncCleanup, ReadState, CreateInitial, WriteInitial, SyncInitial,
             SyncInitialRoot, FailConstructor, ConstructorSteps
    <3>2. \A j \in Instances \ {i} : pc'[j] = pc[j]
        BY <1>3 DEF Construct, AdmitAndLockRoot, LockAvailable, RemoveLeftoverNext,
             SyncCleanup, ReadState, CreateInitial, WriteInitial, SyncInitial,
             SyncInitialRoot, FailConstructor, Dropped
    <3> QED BY <3>1, <3>2, OthersAreDown
  <2>1. ASSUME NEW m \in Modes, AdmitAndLockRoot(i, m)
        PROVE  Coherent'
      BY <2>1, <2>a, Focus DEF AdmitAndLockRoot, LockAvailable
  <2>2. CASE RemoveLeftoverNext(i)
    <3>1. (disk \in images)' /\ disk'.state = disk.state
      <4>1. CASE UNCHANGED <<disk, images>>
          BY <4>1
      <4>2. CASE Metadata(WithNext(disk, FALSE),
                          {WithNext(d, FALSE) : d \in images})
          BY <4>2, WithNextKeeps
      <4> QED BY <2>2, <4>1, <4>2 DEF RemoveLeftoverNext
    <3>2. lock' = i
        BY <2>2 DEF RemoveLeftoverNext
    <3>3. \/ pc'[i] \in {"cleanup_sync", "read", "create_initial"}
          \/ /\ pc'[i] \in {"replace_cleanup_sync", "create_next"}
             /\ pc[i] \in ReplaceSteps
        BY <2>2 DEF RemoveLeftoverNext, AfterCleanup
    <3>4. Replacing(i)' /\ Initializing(i)' /\ Signing(i)'
        BY <2>2, <3>1, <3>3 DEF RemoveLeftoverNext, AtPrior
    <3> QED BY <2>a, <3>1, <3>2, <3>4, Focus
  <2>3. CASE SyncCleanup(i)
    <3>1. lock' = i /\ (disk \in images)' /\ disk' = disk
        BY <2>3 DEF SyncCleanup, SyncDirectory
    <3>2. \/ pc'[i] \in {"read", "create_initial"}
          \/ pc'[i] = "create_next" /\ pc[i] \in ReplaceSteps
        BY <2>3 DEF SyncCleanup, AfterCleanup
    <3>3. Replacing(i)' /\ Initializing(i)' /\ Signing(i)'
        BY <2>3, <3>1, <3>2 DEF SyncCleanup, AtPrior
    <3> QED BY <2>a, <3>1, <3>3, Focus
  <2>4. CASE ReadState(i)
      BY <2>4, <2>a, Focus, DroppedCoherent DEF ReadState
  <2>5. CASE CreateInitial(i)
      BY <2>5, <2>a, Focus, DroppedCoherent
         DEF CreateInitial, CreateExclusive, Metadata, WithState, Directory
  <2>6. CASE WriteInitial(i)
    <3>1. (disk \in images)'
        BY <2>6 DEF WriteInitial, Metadata
    <3>2. disk'.state = Genesis /\ lock' = i
        BY <2>6 DEF WriteInitial, Metadata, WithState, Directory
    <3> QED BY <2>6, <2>a, <3>1, <3>2, Focus DEF WriteInitial
  <2>7. CASE SyncInitial(i)
      BY <2>7, <2>a, Focus, GenesisIsState, ConstantsAssumption
         DEF SyncInitial, WithState
  <2>8. CASE SyncInitialRoot(i)
      BY <2>8, <2>a, Focus
         DEF SyncInitialRoot, SyncDirectory
  <2>9. CASE FailConstructor(i)
      BY <2>9, DroppedCoherent DEF FailConstructor, ConstructorSteps
  <2> QED BY <1>3, <2>1, <2>2, <2>3, <2>4, <2>5, <2>6, <2>7, <2>8, <2>9
          DEF Construct
<1>4. ASSUME NEW i \in Instances, Exchange(i)
      PROVE  Coherent'
  <2> USE DEF GoTo, Typed, TypeOK, Replacing, Initializing, Signing,
              ReplaceSteps, Coherent, SingleWriter, files, exchange
  <2>a. \A j \in Instances \ {i} : pc[j] = "down" /\ pc'[j] = "down"
    <3>1. pc[i] # "down"
        BY <1>4 DEF Exchange, BeginAdvance, ObserveInPlace, CreateNext,
             WriteNext, SyncNext, RenameNext, SyncRoot, Sign, FailExchange
    <3>2. \A j \in Instances \ {i} : pc'[j] = pc[j]
        BY <1>4 DEF Exchange, BeginAdvance, ObserveInPlace, CreateNext,
             WriteNext, SyncNext, RenameNext, SyncRoot, Sign, FailExchange
    <3> QED BY <3>1, <3>2, OthersAreDown
  <2>1. ASSUME NEW c \in Requests, BeginAdvance(i, c)
        PROVE  Coherent'
      BY <2>1, <2>a, Focus DEF BeginAdvance, Poison, AtPrior
  <2>2. ASSUME NEW c \in Requests, ObserveInPlace(i, c)
        PROVE  Coherent'
      BY <2>2, <2>a, Focus DEF ObserveInPlace, AtPrior, AtProposed
  <2>3. CASE CreateNext(i)
    <3>1. (disk \in images)' /\ disk'.state = disk.state
        BY <2>3, WithNextKeeps DEF CreateNext
    <3> QED BY <2>3, <2>a, <3>1, Focus DEF CreateNext, AtPrior
  <2>4. CASE WriteNext(i)
      BY <2>4, <2>a, Focus
         DEF WriteNext, File, AtPrior
  <2>5. CASE SyncNext(i)
      BY <2>5, <2>a, Focus
         DEF SyncNext, SyncedFile, File, AtPrior
  <2>6. CASE RenameNext(i)
    <3>1. (disk \in images)'
        BY <2>6 DEF RenameNext, Metadata
    <3>2. disk'.state = ProposedState(request[i])
        BY <2>6 DEF RenameNext, Metadata, Published
    <3> QED BY <2>6, <2>a, <3>1, <3>2, Focus DEF RenameNext, AtPrior
  <2>7. CASE SyncRoot(i)
      BY <2>7, <2>a, Focus
         DEF SyncRoot, SyncDirectory
  <2>8. CASE Sign(i)
      BY <2>8, <2>a, Focus
         DEF Sign
  <2>9. CASE FailExchange(i)
      BY <2>9, <2>a, Focus
         DEF FailExchange, AtPrior
  <2> QED BY <1>4, <2>1, <2>2, <2>3, <2>4, <2>5, <2>6, <2>7, <2>8, <2>9
          DEF Exchange
<1>5. ASSUME NEW i \in Instances, Stop(i)
      PROVE  Coherent'
    BY <1>5, DroppedCoherent DEF Stop
<1> QED BY <1>1, <1>2, <1>3, <1>4, <1>5 DEF Next

(***************************************************************************)
(* What one step may do to the directory, to a cache and to the signed     *)
(* observations.  Every safety property follows from these four facts.     *)
(***************************************************************************)
AdvancesTo(content) ==
    \E i \in Instances :
        /\ request[i] \in Requests
        /\ AtPrior(i, request[i])
        /\ cache[i] = disk.state
        /\ content = ProposedState(request[i])

VisibleStep ==
    \/ disk'.state = disk.state
    \/ disk.state \notin State /\ disk'.state \in {Partial, Genesis}
    \/ AdvancesTo(disk'.state)

KeptStep ==
    \A e \in images' :
        \/ \E d \in images : e.state = d.state
        \/ /\ e.state \in {Partial, Genesis}
           /\ \E d \in images : d.state \notin State
        \/ AdvancesTo(e.state)

CacheStep ==
    \A j \in Instances : cache'[j] \in {cache[j], Genesis, disk.state}

SignedStep ==
    \A o \in signed' \ signed :
        /\ o.state = disk.state
        /\ UNCHANGED <<disk, images>>
        /\ o.wrote => \A d \in images : d = disk

Effects == KeptStep /\ CacheStep /\ SignedStep
           /\ (losses' = losses => VisibleStep)

LEMMA NothingMoves ==
    ASSUME UNCHANGED <<disk, images, signed>>,
           \A j \in Instances : cache'[j] \in {cache[j], Genesis, disk.state}
    PROVE  Effects
BY DEF Effects, KeptStep, CacheStep, SignedStep, VisibleStep

LEMMA WithNextEffects ==
    ASSUME NEW e \in BOOLEAN, disk \in Directory, images \subseteq Directory,
           disk \in images, UNCHANGED <<cache, signed>>,
           Metadata(WithNext(disk, e), {WithNext(d, e) : d \in images})
    PROVE  Effects
<1>1. disk'.state = disk.state
    BY WithNextKeeps
<1>2. \A d \in Directory : WithNext(d, e).state = d.state
    BY DEF Directory, WithNext
<1>3. \A f \in images' : \E d \in images : f.state = d.state
    BY <1>2, Zenon DEF Metadata
<1> QED BY <1>1, <1>3 DEF Effects, KeptStep, CacheStep, SignedStep, VisibleStep

LEMMA StepEffects == Typed /\ Typed' /\ Coherent /\ [Next]_vars => Effects
<1> SUFFICES ASSUME Typed, Typed', Coherent, [Next]_vars PROVE Effects
    OBVIOUS
<1>a. /\ disk \in Directory /\ images \subseteq Directory
      /\ disk \in images /\ cache \in [Instances -> State]
    BY DEF Typed, TypeOK, Coherent
<1> USE <1>a
<1>1. CASE UNCHANGED vars
    BY <1>1, NothingMoves DEF vars, files
<1>2. CASE PowerLoss
    BY <1>2 DEF PowerLoss, Effects, KeptStep, CacheStep, SignedStep,
                Typed, TypeOK
<1>d. ASSUME NEW i \in Instances, Dropped(i), UNCHANGED <<disk, images, signed>>
      PROVE  Effects
    BY <1>d, NothingMoves DEF Dropped
<1>3. ASSUME NEW i \in Instances, Construct(i)
      PROVE  Effects
  <2> USE DEF files, exchange
  <2>1. ASSUME NEW m \in Modes, AdmitAndLockRoot(i, m)
        PROVE  Effects
      BY <2>1, NothingMoves DEF AdmitAndLockRoot, LockAvailable
  <2>2. CASE RemoveLeftoverNext(i)
      BY <2>2, NothingMoves, WithNextEffects DEF RemoveLeftoverNext
  <2>3. CASE SyncCleanup(i)
      BY <2>3 DEF SyncCleanup, SyncDirectory, Effects, KeptStep, CacheStep,
                  SignedStep, VisibleStep
  <2>4. CASE ReadState(i)
      BY <2>4, <1>d, NothingMoves DEF ReadState
  <2>5. CASE CreateInitial(i)
    <3>1. CASE disk.state = Absent
      <4>1. disk'.state = Partial /\ Absent \notin State
          BY <2>5, <3>1, ConstantsAssumption
             DEF CreateInitial, CreateExclusive, Metadata, WithState, Directory
      <4>2. \A e \in images' : e \in images \/ e.state = Partial
          BY <2>5, <3>1 DEF CreateInitial, CreateExclusive, Metadata, WithState, Directory
      <4> QED BY <2>5, <3>1, <4>1, <4>2
              DEF CreateInitial, CreateExclusive, Effects, KeptStep, CacheStep, SignedStep,
                  VisibleStep
    <3> QED BY <2>5, <3>1, <1>d DEF CreateInitial, CreateExclusive
  <2>6. CASE WriteInitial(i)
    <3>1. disk.state = Partial /\ Partial \notin State
        BY <2>6, ConstantsAssumption DEF WriteInitial, Coherent, Initializing
    <3>2. disk'.state = Genesis
        BY <2>6 DEF WriteInitial, Metadata, WithState, Directory
    <3>3. \A e \in images' : e \in images \/ e.state = Genesis
        BY <2>6 DEF WriteInitial, Metadata, WithState, Directory
    <3> QED BY <2>6, <3>1, <3>2, <3>3
            DEF WriteInitial, Effects, KeptStep, CacheStep, SignedStep,
                VisibleStep
  <2>7. CASE SyncInitial(i)
    <3>1. disk.state = Genesis /\ Partial \notin State
        BY <2>7, ConstantsAssumption DEF SyncInitial, Coherent, Initializing
    <3>2. \A e \in images' :
            e \in images \/ (e.state = Genesis
                             /\ \E d \in images : d.state = Partial)
        BY <2>7, <3>1 DEF SyncInitial, WithState, Directory
    <3> QED BY <2>7, <3>1, <3>2
            DEF SyncInitial, Effects, KeptStep, CacheStep, SignedStep,
                VisibleStep
  <2>8. CASE SyncInitialRoot(i)
      BY <2>8 DEF SyncInitialRoot, SyncDirectory, Effects, KeptStep, CacheStep,
                  SignedStep, VisibleStep
  <2>9. CASE FailConstructor(i)
      BY <2>9, <1>d DEF FailConstructor
  <2> QED BY <1>3, <2>1, <2>2, <2>3, <2>4, <2>5, <2>6, <2>7, <2>8, <2>9
          DEF Construct
<1>4. ASSUME NEW i \in Instances, Exchange(i)
      PROVE  Effects
  <2> USE DEF files, exchange
  <2>1. ASSUME NEW c \in Requests, BeginAdvance(i, c)
        PROVE  Effects
      BY <2>1, NothingMoves DEF BeginAdvance, Poison
  <2>2. ASSUME NEW c \in Requests, ObserveInPlace(i, c)
        PROVE  Effects
      BY <2>2, NothingMoves DEF ObserveInPlace
  <2>3. CASE CreateNext(i)
      BY <2>3, WithNextEffects DEF CreateNext
  <2>4. CASE WriteNext(i)
      BY <2>4, NothingMoves DEF WriteNext
  <2>5. CASE SyncNext(i)
      BY <2>5, NothingMoves DEF SyncNext
  <2>6. CASE RenameNext(i)
    <3>1. /\ request[i] \in Requests /\ AtPrior(i, request[i])
          /\ cache[i] = disk.state
          /\ temp.visible = ProposedState(request[i])
          /\ temp.kept = {temp.visible}
        BY <2>6 DEF RenameNext, Coherent, Replacing, Typed, RequestPresent,
                    ReplaceSteps
    <3>2. AdvancesTo(temp.visible)
        BY <3>1 DEF AdvancesTo
    <3>3. /\ disk'.state = temp.visible
          /\ \A e \in images' : e \in images \/ e.state = temp.visible
        BY <2>6, <3>1 DEF RenameNext, Metadata, Published
    <3> QED BY <2>6, <3>2, <3>3 DEF RenameNext, Effects, KeptStep, CacheStep,
                                    SignedStep, VisibleStep
  <2>7. CASE SyncRoot(i)
    <3>1. disk.state = ProposedState(request[i])
        BY <2>7 DEF SyncRoot, Coherent, Replacing
    <3> QED BY <2>7, <3>1 DEF SyncRoot, SyncDirectory, Effects, KeptStep,
                              CacheStep, SignedStep, VisibleStep
  <2>8. CASE Sign(i)
    <3>1. /\ position[i] = "Proposed" => disk.state = ProposedState(request[i])
          /\ wrote[i] => \A d \in images : d = disk
        BY <2>8 DEF Sign, Coherent, Signing
    <3> QED BY <2>8, <3>1 DEF Sign, Effects, KeptStep, CacheStep, SignedStep,
                              VisibleStep
  <2>9. CASE FailExchange(i)
      BY <2>9, NothingMoves DEF FailExchange
  <2> QED BY <1>4, <2>1, <2>2, <2>3, <2>4, <2>5, <2>6, <2>7, <2>8, <2>9
          DEF Exchange
<1>5. ASSUME NEW i \in Instances, Stop(i)
      PROVE  Effects
    BY <1>5, <1>d DEF Stop
<1> QED BY <1>1, <1>2, <1>3, <1>4, <1>5 DEF Next

(***************************************************************************)
(* Chains.                                                                 *)
(***************************************************************************)
LEMMA ExtendsReflexive == \A s \in State : Extends(s, s)
BY DEF Extends, State, ChainHead

LEMMA ExtendsTransitive ==
    ASSUME NEW s \in State, NEW t \in State, NEW u \in State,
           Extends(s, t), Extends(t, u)
    PROVE  Extends(s, u)
BY DEF Extends, State, ChainHead

(* The derived head is the prior head and one more link.                   *)
LEMMA ProposedExtends ==
    ASSUME NEW s \in State, NEW c \in Requests,
           s.sequence + 1 = c.sequence, s.head = c.prior
    PROVE  /\ Extends(s, ProposedState(c))
           /\ WellFormed(s) => WellFormed(ProposedState(c))
<1> DEFINE link == [sequence |-> c.sequence, transaction |-> c.transaction]
<1>1. c \in Challenge
    BY ConstantsAssumption
<1>2. link \in Link /\ s.head \in Seq(Link) /\ s.sequence \in Nat
    BY <1>1, ConstantsAssumption DEF Challenge, Link, State, ChainHead
<1> HIDE DEF link
<1>3. /\ Len(Append(s.head, link)) = Len(s.head) + 1
      /\ \A k \in 1..Len(s.head) : Append(s.head, link)[k] = s.head[k]
      /\ Len(s.head) \in Nat
    BY <1>2
<1>4. ProposedState(c) = [sequence |-> s.sequence + 1,
                          head |-> Append(s.head, link)]
    BY DEF ProposedState, DeriveProposedHead, link
<1> QED BY <1>2, <1>3, <1>4 DEF Extends, WellFormed

(* Two states of one sequence on the chain of a third are the same.        *)
LEMMA OneStatePerSequence ==
    ASSUME NEW s \in State, NEW t \in State, NEW u \in State,
           WellFormed(s), WellFormed(t), Extends(s, u), Extends(t, u),
           s.sequence = t.sequence
    PROVE  s = t
<1>1. s.head \in Seq(Link) /\ t.head \in Seq(Link)
    BY DEF State, ChainHead
<1>2. Len(s.head) = Len(t.head)
    BY DEF WellFormed
<1>3. \A k \in 1..Len(s.head) : s.head[k] = t.head[k]
    BY <1>2 DEF Extends
<1>4. s.head = t.head
    BY <1>1, <1>2, <1>3, SeqEqual
<1> QED BY <1>4 DEF State

(***************************************************************************)
(* The invariant is inductive.                                             *)
(***************************************************************************)
LEMMA InvariantInit == Init => IInv
<1> SUFFICES ASSUME Init PROVE IInv
    OBVIOUS
<1>1. ChainShape
    BY ConstantsAssumption DEF Init, ChainShape, WellFormed, Genesis
<1> QED BY <1>1, TypedInit, CoherentInit
        DEF Init, IInv, SignedStaysVisible, WrittenIsDurable

(* An advance goes to a well-formed state on the chain of the visible one. *)
LEMMA AdvanceExtends ==
    ASSUME IInv, NEW content, AdvancesTo(content)
    PROVE  /\ disk.state \in State /\ content \in State
           /\ Extends(disk.state, content) /\ WellFormed(content)
<1>1. PICK i \in Instances :
        /\ request[i] \in Requests /\ AtPrior(i, request[i])
        /\ cache[i] = disk.state /\ content = ProposedState(request[i])
    BY DEF AdvancesTo
<1>2. cache[i] \in State /\ WellFormed(cache[i])
    BY DEF IInv, Typed, TypeOK, ChainShape
<1> QED BY <1>1, <1>2, ProposedExtends, ProposedIsState DEF AtPrior

LEMMA LossesStep ==
    ASSUME [Next]_vars PROVE losses' = losses \/ losses' = losses + 1
<1>1. CASE UNCHANGED vars
    BY <1>1 DEF vars
<1>2. CASE PowerLoss
    BY <1>2 DEF PowerLoss
<1>3. ASSUME NEW i \in Instances, Construct(i)
      PROVE  losses' = losses
    BY <1>3 DEF Construct, AdmitAndLockRoot, LockAvailable, RemoveLeftoverNext, SyncCleanup,
         ReadState, CreateInitial, WriteInitial, SyncInitial, SyncInitialRoot,
         FailConstructor
<1>4. ASSUME NEW i \in Instances, Exchange(i)
      PROVE  losses' = losses
    BY <1>4 DEF Exchange, BeginAdvance, ObserveInPlace, CreateNext, WriteNext,
         SyncNext, RenameNext, SyncRoot, Sign, FailExchange
<1>5. ASSUME NEW i \in Instances, Stop(i)
      PROVE  losses' = losses
    BY <1>5 DEF Stop
<1> QED BY <1>1, <1>2, <1>3, <1>4, <1>5 DEF Next

LEMMA InvariantStep == IInv /\ [Next]_vars => IInv'
<1> SUFFICES ASSUME IInv, [Next]_vars PROVE IInv'
    OBVIOUS
<1>1. Typed'
    BY TypedStep DEF IInv
<1>2. Coherent'
    BY <1>1, CoherentStep DEF IInv
<1>3. Effects
    BY <1>1, StepEffects DEF IInv
<1>4. /\ disk \in images /\ images \subseteq Directory
      /\ signed \subseteq Observation /\ signed' \subseteq Observation
      /\ Partial \notin State
    BY <1>1, ConstantsAssumption DEF IInv, Typed, TypeOK, Coherent
<1>5. ChainShape'
  <2>1. ASSUME NEW e \in images', e.state \in State
        PROVE  WellFormed(e.state)
    <3>1. CASE \E d \in images : e.state = d.state
        BY <2>1, <3>1 DEF IInv, ChainShape
    <3>2. CASE e.state \in {Partial, Genesis}
        BY <2>1, <3>2, <1>4 DEF WellFormed, Genesis
    <3>3. CASE AdvancesTo(e.state)
        BY <3>3, AdvanceExtends
    <3> QED BY <1>3, <2>1, <3>1, <3>2, <3>3 DEF Effects, KeptStep
  <2>2. ASSUME NEW j \in Instances
        PROVE  WellFormed(cache'[j])
    <3>1. cache'[j] \in {cache[j], Genesis, disk.state} /\ cache'[j] \in State
        BY <1>1, <1>3 DEF Effects, CacheStep, Typed, TypeOK
    <3>2. WellFormed(Genesis)
        BY DEF WellFormed, Genesis
    <3> QED BY <3>1, <3>2, <1>4 DEF IInv, ChainShape
  <2>3. ASSUME NEW o \in signed'
        PROVE  WellFormed(o.state)
    <3>1. o.state \in State
        BY <1>4 DEF Observation
    <3> QED BY <1>3, <1>4, <3>1 DEF Effects, SignedStep, IInv, ChainShape
  <2> QED BY <2>1, <2>2, <2>3 DEF ChainShape, WellFormed
<1>6. SignedStaysVisible'
  <2> SUFFICES ASSUME losses' = 0, NEW o \in signed'
               PROVE  Preserved(o.state, disk')
      BY DEF SignedStaysVisible, Preserved, Extends
  <2>1. losses = 0 /\ losses' = losses
    <3>1. losses \in Nat
        BY ConstantsAssumption DEF IInv, Typed, TypeOK
    <3>2. losses' = losses \/ losses' = losses + 1
        BY LossesStep
    <3> QED BY <3>1, <3>2
  <2>2. o.state \in State
      BY <1>4 DEF Observation
  <2>3. CASE o \notin signed
      BY <1>3, <2>2, <2>3, ExtendsReflexive DEF Effects, SignedStep, Preserved
  <2>4. CASE o \in signed
    <3>1. disk.state \in State /\ Extends(o.state, disk.state)
        BY <2>1, <2>4 DEF IInv, SignedStaysVisible, Preserved
    <3>2. disk'.state = disk.state \/ AdvancesTo(disk'.state)
        BY <1>3, <2>1, <3>1 DEF Effects, VisibleStep
    <3> QED BY <2>2, <3>1, <3>2, AdvanceExtends, ExtendsTransitive DEF Preserved
  <2> QED BY <2>3, <2>4
<1>7. WrittenIsDurable'
  <2> SUFFICES ASSUME NEW o \in signed', o.wrote, NEW e \in images'
               PROVE  Preserved(o.state, e)
      BY DEF WrittenIsDurable, Preserved, Extends
  <2>1. o.state \in State
      BY <1>4 DEF Observation
  <2>2. CASE o \notin signed
    <3>1. o.state = disk.state /\ e = disk
        BY <1>3, <2>2 DEF Effects, SignedStep
    <3> QED BY <2>1, <3>1, ExtendsReflexive DEF Preserved
  <2>3. CASE o \in signed
    <3>1. \A d \in images : d.state \in State /\ Extends(o.state, d.state)
        BY <2>3 DEF IInv, WrittenIsDurable, Preserved
    <3>2. (\E d \in images : e.state = d.state) \/ AdvancesTo(e.state)
        BY <1>3, <3>1 DEF Effects, KeptStep
    <3> QED BY <2>1, <3>1, <3>2, <1>4, AdvanceExtends, ExtendsTransitive
            DEF Preserved
  <2> QED BY <2>2, <2>3
<1> QED BY <1>1, <1>2, <1>5, <1>6, <1>7 DEF IInv

(* The inductive invariant: the lock, cache and disk agree per instance,   *)
(* the visible state is a chain, and what was signed stays on it.          *)
THEOREM Invariant == Spec => []IInv
BY InvariantInit, InvariantStep, PTL DEF Spec

(* admit_and_lock_root: an instance past admission holds the lock alone.   *)
THEOREM SingleWriterHolds == Spec => []SingleWriter
<1>1. IInv => SingleWriter
    BY DEF IInv, Coherent
<1> QED BY <1>1, Invariant, PTL

(* observe_with_hooks: a usable instance answers from a cache that equals  *)
(* the visible state file.                                                 *)
THEOREM CacheCurrentHolds == Spec => []CacheCurrent
<1>1. IInv => CacheCurrent
    BY DEF IInv, Coherent, Signing, CacheCurrent
<1> QED BY <1>1, Invariant, PTL

(* While power holds, nothing signed as Proposed ever leaves the chain of  *)
(* the visible state file.                                                 *)
THEOREM SignedStaysVisibleHolds == Spec => []SignedStaysVisible
<1>1. IInv => SignedStaysVisible
    BY DEF IInv
<1> QED BY <1>1, Invariant, PTL

(* While power holds, no sequence is signed as Proposed for two states.    *)
THEOREM NoForkHolds == Spec => []NoFork
<1>1. IInv => NoFork
  <2> SUFFICES ASSUME IInv, losses = 0, NEW o \in signed, NEW p \in signed,
                      o.state.sequence = p.state.sequence
               PROVE  o.state = p.state
      BY DEF NoFork
  <2>1. /\ o.state \in State /\ p.state \in State
        /\ WellFormed(o.state) /\ WellFormed(p.state)
      BY DEF IInv, Typed, TypeOK, Observation, ChainShape
  <2>2. /\ disk.state \in State
        /\ Extends(o.state, disk.state) /\ Extends(p.state, disk.state)
      BY DEF IInv, SignedStaysVisible, Preserved
  <2> QED BY <2>1, <2>2, OneStatePerSequence
<1> QED BY <1>1, Invariant, PTL

(* While power holds, Prior (the client's permission to abort) is answered *)
(* only for a sequence nobody saw as Proposed.                             *)
THEOREM PriorUncontradictedHolds == Spec => []PriorUncontradicted
<1>1. IInv => PriorUncontradicted
  <2> SUFFICES ASSUME IInv, losses = 0, NEW i \in Instances, pc[i] = "sign",
                      position[i] = "Prior", NEW o \in signed
               PROVE  o.state.sequence < request[i].sequence
      BY DEF PriorUncontradicted
  <2>1. cache[i] = disk.state /\ cache[i].sequence + 1 = request[i].sequence
      BY DEF IInv, Coherent, Signing, AtPrior
  <2>2. o.state.sequence <= disk.state.sequence
      BY DEF IInv, SignedStaysVisible, Preserved, Extends
  <2>3. o.state.sequence \in Nat /\ cache[i].sequence \in Nat
      BY ConstantsAssumption DEF IInv, Typed, TypeOK, Observation, State
  <2> QED BY <2>1, <2>2, <2>3
<1> QED BY <1>1, Invariant, PTL

(* A state signed by the exchange that wrote it survives every loss of     *)
(* power.                                                                  *)
THEOREM WrittenIsDurableHolds == Spec => []WrittenIsDurable
<1>1. IInv => WrittenIsDurable
    BY DEF IInv
<1> QED BY <1>1, Invariant, PTL

(* Exchanges that wrote what they signed never fork the chain, whatever    *)
(* losses of power fall between them.                                      *)
THEOREM NoForkAmongWrittenHolds == Spec => []NoForkAmongWritten
<1>1. IInv => NoForkAmongWritten
  <2> SUFFICES ASSUME IInv, NEW o \in signed, NEW p \in signed, o.wrote,
                      p.wrote, o.state.sequence = p.state.sequence
               PROVE  o.state = p.state
      BY DEF NoForkAmongWritten
  <2>1. /\ o.state \in State /\ p.state \in State
        /\ WellFormed(o.state) /\ WellFormed(p.state)
      BY DEF IInv, Typed, TypeOK, Observation, ChainShape
  <2>2. disk \in images
      BY DEF IInv, Coherent
  <2>3. /\ disk.state \in State
        /\ Extends(o.state, disk.state) /\ Extends(p.state, disk.state)
      BY <2>2 DEF IInv, WrittenIsDurable, Preserved
  <2> QED BY <2>1, <2>3, OneStatePerSequence
<1> QED BY <1>1, Invariant, PTL

(* What becomes of a state file without a canonical record: whoever comes   *)
(* next has cleaned up at most, and finds it or fails to create another.    *)
Early == {"down", "cleanup", "cleanup_sync", "read", "create_initial"}
Stuck == losses # 0 \/ (disk.state = Partial /\ \A i \in Instances : pc[i] \in Early)

LEMMA StuckStarts == IInv /\ Unusable => Stuck
BY ConstantsAssumption DEF IInv, Coherent, SingleWriter, Unusable, Stuck, Early

LEMMA StuckStays == IInv /\ Stuck /\ [Next]_vars => Stuck'
<1> SUFFICES ASSUME IInv, Stuck, [Next]_vars
             PROVE  Stuck'
    OBVIOUS
<1>0. losses \in Nat /\ pc \in [Instances -> Steps]
    BY ConstantsAssumption DEF IInv, Typed, TypeOK
<1>1. CASE losses # 0
    BY <1>0, <1>1, LossesStep DEF Stuck
<1>2. CASE UNCHANGED vars
    BY <1>2 DEF vars, files, Stuck
<1>3. CASE PowerLoss
    BY <1>0, <1>3 DEF PowerLoss, Stuck
<1>4. CASE losses = 0 /\ \E i \in Instances : Construct(i) \/ Exchange(i) \/ Stop(i)
  <2>1. PICK i \in Instances : Construct(i) \/ Exchange(i) \/ Stop(i)
      BY <1>4
  <2>2. disk.state = Partial /\ \A j \in Instances : pc[j] \in Early
      BY <1>4 DEF Stuck
  <2>3. disk.state # Absent /\ disk.state \notin State /\ disk \in Directory
      BY <2>2, ConstantsAssumption DEF IInv, Typed, TypeOK
  <2>4. disk'.state = disk.state /\ \E step \in Early : pc' = [pc EXCEPT ![i] = step]
    <3>1. pc[i] \in Early
        BY <2>2
    <3>2. ASSUME Dropped(i), UNCHANGED disk
          PROVE  disk'.state = disk.state /\ \E step \in Early : pc' = [pc EXCEPT ![i] = step]
        BY <3>2 DEF Dropped, GoTo, Early
    <3>3. CASE \E m \in Modes : AdmitAndLockRoot(i, m)
        BY <3>3 DEF AdmitAndLockRoot, GoTo, Early, files
    <3>4. CASE RemoveLeftoverNext(i)
      <4>1. AfterCleanup(i) \in Early
          BY <3>1 DEF AfterCleanup, Early, ReplaceSteps
      <4>2. WithNext(disk, FALSE).state = disk.state
          BY <2>3 DEF WithNext, Directory
      <4>3. disk'.state = disk.state
          BY <3>4, <4>2, Zenon DEF RemoveLeftoverNext, Metadata
      <4>4. \E step \in Early : pc' = [pc EXCEPT ![i] = step]
          BY <3>1, <3>4, <4>1 DEF RemoveLeftoverNext, GoTo, Early
      <4> QED BY <4>3, <4>4
    <3>5. CASE SyncCleanup(i)
      <4>1. AfterCleanup(i) \in Early
          BY <3>1 DEF AfterCleanup, Early, ReplaceSteps
      <4> QED BY <3>5, <4>1 DEF SyncCleanup, SyncDirectory, GoTo
    <3>6. CASE ReadState(i)
        BY <2>3, <3>2, <3>6 DEF ReadState
    <3>7. CASE CreateInitial(i)
        BY <2>3, <3>2, <3>7 DEF CreateInitial, CreateExclusive
    <3>8. CASE FailConstructor(i) \/ Stop(i)
        BY <3>2, <3>8 DEF FailConstructor, Stop
    <3>9. ~ (WriteInitial(i) \/ SyncInitial(i) \/ SyncInitialRoot(i) \/ Exchange(i))
        BY <3>1 DEF Early, WriteInitial, SyncInitial, SyncInitialRoot, Exchange, BeginAdvance,
           ObserveInPlace, CreateNext, WriteNext, SyncNext, RenameNext, SyncRoot, Sign,
           FailExchange, ReplaceSteps
    <3> QED BY <2>1, <3>3, <3>4, <3>5, <3>6, <3>7, <3>8, <3>9 DEF Construct
  <2> QED BY <1>0, <2>2, <2>4 DEF Stuck
<1> QED BY <1>1, <1>2, <1>3, <1>4 DEF Next

(* read_state and create_initial_state: a state file that a dead            *)
(* constructor left without a canonical record is never reset to genesis.   *)
THEOREM InvalidStateNeverResetHolds == Spec => InvalidStateNeverReset
<1>1. IInv /\ Unusable => Stuck
    BY StuckStarts
<1>2. IInv /\ Stuck /\ [Next]_vars => Stuck'
    BY StuckStays
<1>3. Stuck => (losses = 0 => disk.state = Partial)
    BY DEF Stuck
<1> QED BY <1>1, <1>2, <1>3, Invariant, PTL DEF Spec, InvalidStateNeverReset

(* No step but a loss of power takes the visible state back.               *)
THEOREM MonotonicVisibleHolds == Spec => MonotonicVisible
<1> DEFINE A == losses' = losses /\ disk.state \in State
                    => Preserved(disk.state, disk')
<1>1. IInv /\ [Next]_vars => A
  <2> SUFFICES ASSUME IInv, [Next]_vars, losses' = losses, disk.state \in State
               PROVE  Preserved(disk.state, disk')
      OBVIOUS
  <2>1. VisibleStep
      BY TypedStep, StepEffects DEF IInv, Effects
  <2>2. disk'.state = disk.state \/ AdvancesTo(disk'.state)
      BY <2>1 DEF VisibleStep
  <2> QED BY <2>2, AdvanceExtends, ExtendsReflexive DEF Preserved
<1> QED BY <1>1, Invariant, PTL DEF Spec, MonotonicVisible

(***************************************************************************)
(* Without losses of power the store is a monotonic anchor.                *)
(***************************************************************************)
LEMMA ChainOfTyped ==
    ASSUME NEW h \in Seq(Link)
    PROVE  ChainOf(h) \in Seq(Transactions) /\ Len(ChainOf(h)) = Len(h)
<1>1. \A k \in 1..Len(h) : h[k] \in Link
    BY ElementOfSeq
<1>2. \A k \in 1..Len(h) : h[k].transaction \in Transactions
    BY <1>1 DEF Link
<1> QED BY <1>2 DEF ChainOf

LEMMA ChainOfAppend ==
    ASSUME NEW h \in Seq(Link), NEW l \in Link
    PROVE  ChainOf(Append(h, l)) = Append(ChainOf(h), l.transaction)
<1>1. /\ Append(h, l) \in Seq(Link) /\ Len(Append(h, l)) = Len(h) + 1
      /\ l.transaction \in Transactions
    BY AppendProperties DEF Link
<1>2. /\ ChainOf(h) \in Seq(Transactions) /\ Len(ChainOf(h)) = Len(h)
      /\ ChainOf(Append(h, l)) \in Seq(Transactions)
      /\ Len(ChainOf(Append(h, l))) = Len(h) + 1
    BY <1>1, ChainOfTyped
<1>3. Append(ChainOf(h), l.transaction) \in Seq(Transactions)
    BY <1>1, <1>2
<1>4. ASSUME NEW k \in 1..(Len(h) + 1)
      PROVE  ChainOf(Append(h, l))[k] = Append(ChainOf(h), l.transaction)[k]
    BY <1>2 DEF ChainOf
<1> QED BY <1>2, <1>3, <1>4, SeqEqual

(* Only Sign adds an observation, and it adds the visible state.           *)
LEMMA SignedGrows ==
    ASSUME IInv, [Next]_vars
    PROVE  \/ signed' = signed
           \/ \E o \in Observation :
                /\ signed' = signed \cup {o}
                /\ o.state = disk.state /\ o.state.sequence # 0
                /\ disk' = disk
<1>1. CASE UNCHANGED vars
    BY <1>1 DEF vars
<1>2. CASE PowerLoss
    BY <1>2 DEF PowerLoss
<1>3. ASSUME NEW i \in Instances, Construct(i)
      PROVE  signed' = signed
    BY <1>3 DEF Construct, AdmitAndLockRoot, LockAvailable, RemoveLeftoverNext, SyncCleanup,
         ReadState, CreateInitial, WriteInitial, SyncInitial, SyncInitialRoot,
         FailConstructor
<1>4. ASSUME NEW i \in Instances, Exchange(i), ~Sign(i)
      PROVE  signed' = signed
    BY <1>4 DEF Exchange, BeginAdvance, ObserveInPlace, CreateNext, WriteNext,
         SyncNext, RenameNext, SyncRoot, FailExchange
<1>5. ASSUME NEW i \in Instances, Sign(i), signed' # signed
      PROVE  \E o \in Observation :
                /\ signed' = signed \cup {o}
                /\ o.state = disk.state /\ o.state.sequence # 0
                /\ disk' = disk
  <2> DEFINE o == [state |-> ProposedState(request[i]), wrote |-> wrote[i]]
  <2>1. /\ signed' = signed \cup {o} /\ disk' = disk
        /\ pc[i] = "sign" /\ position[i] = "Proposed"
      BY <1>5 DEF Sign, files
  <2>2. disk.state = ProposedState(request[i])
      BY <2>1 DEF IInv, Coherent, Signing
  <2>3. request[i] \in Requests /\ wrote[i] \in BOOLEAN
      BY <2>1 DEF IInv, Typed, TypeOK, RequestPresent
  <2>4. o \in Observation
      BY <2>3, ProposedIsState DEF Observation
  <2>5. ProposedState(request[i]).sequence # 0
      BY <2>3, ConstantsAssumption DEF ProposedState, Challenge
  <2> QED BY <2>1, <2>2, <2>4, <2>5
<1>6. ASSUME NEW i \in Instances, Stop(i)
      PROVE  signed' = signed
    BY <1>6 DEF Stop
<1> QED BY <1>1, <1>2, <1>3, <1>4, <1>5, <1>6 DEF Next

VisibleChain == IF disk.state \in State THEN ChainOf(disk.state.head) ELSE <<>>

(* An advance of the visible state appends one transaction to its chain.   *)
LEMMA AdvanceAppends ==
    ASSUME IInv, AdvancesTo(disk'.state)
    PROVE  \E t \in Transactions :
              VisibleChain' = Append(VisibleChain, t)
              /\ Len(VisibleChain) < MaxSequence
<1>1. PICK i \in Instances :
        /\ request[i] \in Requests /\ AtPrior(i, request[i])
        /\ cache[i] = disk.state /\ disk'.state = ProposedState(request[i])
    BY DEF AdvancesTo
<1> DEFINE c == request[i]
           l == [sequence |-> c.sequence, transaction |-> c.transaction]
<1>2. disk.state \in State /\ disk'.state \in State /\ WellFormed(disk.state)
    BY <1>1, AdvanceExtends, ProposedIsState DEF IInv, ChainShape, Coherent
<1>3. l \in Link /\ c.transaction \in Transactions
    BY <1>1, ConstantsAssumption DEF Challenge, Link
<1>4. disk'.state.head = Append(disk.state.head, l)
    BY <1>1 DEF ProposedState, DeriveProposedHead, AtPrior
<1>5. disk.state.head \in Seq(Link)
    BY <1>2 DEF State, ChainHead
<1>6. VisibleChain' = Append(VisibleChain, c.transaction)
    BY <1>2, <1>3, <1>4, <1>5, ChainOfAppend DEF VisibleChain
<1>7. Len(VisibleChain) < MaxSequence
    BY <1>1, <1>2, <1>5, ChainOfTyped DEF VisibleChain, WellFormed, AtPrior
<1> QED BY <1>3, <1>6, <1>7

(* With no loss of power in the environment, every behaviour of the store  *)
(* is a behaviour of MonotonicAnchor: crashes, failures, restarts and      *)
(* retries are invisible to the clients that believe its signatures.       *)
THEOREM Refinement ==
    ASSUME MaxPowerLosses = 0
    PROVE  Spec => ImplementsMonotonicAnchor
<1>1. Init => Anchor!Init
    BY ConstantsAssumption DEF Init, Anchor!Init
<1>2. IInv /\ [Next]_vars => [Anchor!Next]_Anchor!vars
  <2> SUFFICES ASSUME IInv, [Next]_vars
               PROVE  [Anchor!Next]_Anchor!vars
      OBVIOUS
  <2> DEFINE Observed == {ChainOf(o.state.head) : o \in signed}
  <2>1. IInv' /\ Effects
      BY InvariantStep, TypedStep, StepEffects DEF IInv
  <2>2. losses' = losses
      BY <2>1, LossesStep DEF IInv, Typed, TypeOK
  <2>3. CASE signed' # signed
    <3>1. PICK o \in Observation :
            /\ signed' = signed \cup {o} /\ disk' = disk
            /\ o.state = disk.state /\ o.state.sequence # 0
        BY <2>3, SignedGrows
    <3>2. o.state \in State /\ VisibleChain = ChainOf(o.state.head)
        BY <3>1 DEF Observation, VisibleChain
    <3>3. WellFormed(o.state) /\ o.state.head \in Seq(Link)
        BY <3>1, <3>2 DEF IInv, ChainShape, Coherent, State, ChainHead
    <3>4. VisibleChain # <<>>
        BY <3>1, <3>2, <3>3, ChainOfTyped DEF WellFormed
    <3>5. Observed' = Observed \cup {VisibleChain}
        BY <3>1, <3>2
    <3>6. VisibleChain' = VisibleChain
        BY <3>1 DEF VisibleChain
    <3> QED BY <3>4, <3>5, <3>6
            DEF Anchor!Next, Anchor!Observe, VisibleChain
  <2>4. CASE signed' = signed /\ AdvancesTo(disk'.state)
    <3>1. PICK t \in Transactions :
            /\ VisibleChain' = Append(VisibleChain, t)
            /\ Len(VisibleChain) < MaxSequence
        BY <2>4, AdvanceAppends
    <3>2. Observed' = Observed
        BY <2>4
    <3> QED BY <3>1, <3>2
            DEF Anchor!Next, Anchor!Anchor, VisibleChain
  <2>5. CASE signed' = signed /\ ~AdvancesTo(disk'.state)
    <3>1. \/ disk'.state = disk.state
          \/ disk.state \notin State /\ disk'.state \in {Partial, Genesis}
        BY <2>1, <2>2, <2>5 DEF Effects, VisibleStep
    <3>2. ChainOf(Genesis.head) = <<>>
        BY DEF ChainOf, Genesis
    <3>3. VisibleChain' = VisibleChain
        BY <3>1, <3>2, ConstantsAssumption DEF VisibleChain
    <3>4. Observed' = Observed
        BY <2>5
    <3> QED BY <3>3, <3>4 DEF Anchor!vars, VisibleChain
  <2> QED BY <2>3, <2>4, <2>5
<1> QED BY <1>1, <1>2, Invariant, PTL
        DEF Spec, Anchor!Spec, ImplementsMonotonicAnchor

=============================================================================

------------------------ MODULE RetainedJournalProofs ------------------------
(* Proofs about RetainedJournal, for every set of values, every length of  *)
(* the history and every number of faults.                                 *)
EXTENDS RetainedJournal, TLAPS

(***************************************************************************)
(* The inductive invariant.  Only five shapes of directory ever exist: the *)
(* acknowledged record or its one successor in flight, alone under the     *)
(* canonical or the recovery name, or the successor staged beside it.      *)
(***************************************************************************)
Only(name, content) ==
    [n \in Names |-> IF n = name THEN content ELSE Absent]
Staged(prior, next) ==
    [n \in Names |-> IF n = "canonical" THEN prior
                     ELSE IF n = "redo" THEN next ELSE Absent]

Shape(d) ==
    \/ d \in {Only("canonical", acknowledged), Only("recovery", acknowledged)}
    \/ \E v \in Values :
          LET next == Append(History(acknowledged), v)
          IN  d \in {Staged(acknowledged, next), Only("canonical", next),
                     Only("recovery", next)}

(* One successor in flight: what a loss of power may leave is either that  *)
(* one or the acknowledged record.                                         *)
OneInFlight ==
    \A d \in images \cup {disk} :
        Shape(d) /\ Planned(d) \in {acknowledged, Planned(disk)}

(* A commit, from BeginCommit to the sync of the promoted name.            *)
Committing ==
    /\ pc \in CommitSteps =>
          /\ task = "commit" /\ staged = "redo" /\ expected = acknowledged
          /\ Successor(acknowledged, bytes)
          /\ Len(History(acknowledged)) < MaxVersion
    /\ pc \in CommitSteps \ {"sync_redo"} =>
          disk = Only("canonical", acknowledged)
    /\ pc = "sync_redo" => disk = Staged(acknowledged, bytes)
    /\ pc = "rename_redo" => temp = {bytes}

(* A stabilization moves the record to the recovery name and back.         *)
Stabilizing ==
    /\ pc \in StabilizeSteps => task = "stabilize"
    /\ pc \in Busy /\ task = "stabilize" => staged = "recovery"
                                            /\ expected = Absent
    /\ pc = "rename_recovery" => disk = Only("canonical", bytes)
    /\ pc = "sync_recovery" => disk = Only("recovery", bytes)
    /\ pc = "sync_recovered" =>
          disk = Only("canonical", bytes) /\ images = {disk}

(* A promotion finds what it expects; once its sync returned, nothing but  *)
(* the promoted record can survive.                                        *)
Promoting ==
    /\ pc = "promote" =>
          \/ /\ staged = "redo" /\ expected = acknowledged
             /\ disk = Staged(acknowledged, bytes)
          \/ /\ staged = "recovery" /\ expected = Absent
             /\ disk = Only("recovery", bytes)
    /\ pc = "sync_canonical" => disk = Only("canonical", bytes) /\ dirty
    /\ pc = "finish" => disk = Only("canonical", bytes) /\ images = {disk}
    /\ pc \in Busy => Planned(disk) = IF pc \in CommitSteps \ {"sync_redo"}
                                      THEN acknowledged ELSE bytes

Usable ==
    pc = "idle" /\ ~poisoned =>
        record = acknowledged /\ disk = Only("canonical", acknowledged)

IInv == TypeOK /\ OneInFlight /\ Committing /\ Stabilizing /\ Promoting /\ Usable

(***************************************************************************)
(* Directories.                                                            *)
(***************************************************************************)
LEMMA OnlyPlanned ==
    \A c : /\ Planned(Only("canonical", c)) = c
           /\ Planned(Only("recovery", c)) = c
BY DEF Planned, Only, Names

LEMMA StagedPlanned ==
    \A a, b : b # Absent => Planned(Staged(a, b)) = b
BY DEF Planned, Staged, Names

LEMMA ShapesTyped ==
    ASSUME NEW a \in Content, NEW b \in Content
    PROVE  /\ Only("canonical", a) \in Directory
           /\ Only("recovery", a) \in Directory
           /\ Staged(a, b) \in Directory
BY DEF Only, Staged, Directory, Content

LEMMA NothingThere ==
    ASSUME NEW d \in Directory, \A n \in Names : d[n] = Absent
    PROVE  d = Only("canonical", Absent)
BY DEF Only, Directory

LEMMA OneName ==
    ASSUME NEW d \in Directory, d["redo"] = Absent
    PROVE  /\ d["recovery"] = Absent => d = Only("canonical", d["canonical"])
           /\ d["canonical"] = Absent => d = Only("recovery", d["recovery"])
BY DEF Only, Directory, Names

LEMMA MoveToRecovery ==
    \A b : [Only("canonical", b) EXCEPT
              !["recovery"] = Only("canonical", b)["canonical"],
              !["canonical"] = Absent] = Only("recovery", b)
BY DEF Only, Names

LEMMA MoveBack ==
    \A b : [Only("recovery", b) EXCEPT
              !["canonical"] = Only("recovery", b)["recovery"],
              !["recovery"] = Absent] = Only("canonical", b)
BY DEF Only, Names

LEMMA MoveRedo ==
    \A a, b : [Staged(a, b) EXCEPT
              !["canonical"] = Staged(a, b)["redo"],
              !["redo"] = Absent] = Only("canonical", b)
BY DEF Only, Staged, Names

LEMMA AddRedo ==
    \A a, b : [Only("canonical", a) EXCEPT !["redo"] = b] = Staged(a, b)
BY DEF Only, Staged, Names

LEMMA SuccessorIsRecord ==
    ASSUME NEW a \in Record \cup {Absent}, NEW v \in Values
    PROVE  /\ Append(History(a), v) \in Record
           /\ Append(History(a), v) # Absent /\ Append(History(a), v) # Torn
           /\ History(a) \in Seq(Values)
<1>1. History(a) \in Seq(Values)
    BY DEF History, Record
<1> QED BY <1>1, JournalAssumption DEF Record

(***************************************************************************)
(* Types.                                                                  *)
(***************************************************************************)
LEMMA TypedInit == Init => TypeOK
<1> SUFFICES ASSUME Init PROVE TypeOK
    OBVIOUS
<1>1. disk \in Directory
    BY DEF Init, Directory, Content
<1>2. faults \in 0..MaxFaults
    BY JournalAssumption DEF Init
<1>3. pc \in {"down", "idle"} \cup Busy /\ pc \notin Busy
    BY DEF Init, Busy, CommitSteps, StabilizeSteps, PromoteSteps
<1> QED BY <1>1, <1>2, <1>3 DEF Init, TypeOK, Content

LEMMA FaultTyped ==
    ASSUME faults \in 0..MaxFaults, Fault PROVE faults' \in 0..MaxFaults
BY JournalAssumption DEF Fault

LEMMA RenameTyped ==
    ASSUME TypeOK, NEW from \in Names, NEW to \in Names, Rename(from, to)
    PROVE  disk' \in Directory /\ images' \subseteq Directory /\ dirty' \in BOOLEAN
BY DEF TypeOK, Rename, Mutate, Directory, Content

LEMMA SyncTyped ==
    ASSUME TypeOK, Sync
    PROVE  disk' \in Directory /\ images' \subseteq Directory /\ dirty' \in BOOLEAN
BY DEF TypeOK, Sync

LEMMA TypedStep == TypeOK /\ [Next]_vars => TypeOK'
<1> SUFFICES ASSUME TypeOK, [Next]_vars PROVE TypeOK'
    OBVIOUS
<1> USE JournalAssumption DEF GoTo, files, plan, ledger, Busy, CommitSteps,
        StabilizeSteps, PromoteSteps
<1>1. CASE UNCHANGED vars
    BY <1>1 DEF vars, TypeOK
<1>2. CASE PlanRecovery
  <2>1. /\ Planned(disk) \in Record \cup {Absent}
        /\ ExpectedCanonical(disk) \in Record \cup {Absent}
        /\ disk["recovery"] # Absent => Planned(disk) \in Record
        /\ disk["redo"] # Absent => Planned(disk) \in Record
        /\ disk["canonical"] # Absent => Planned(disk) \in Record
      BY <1>2 DEF PlanRecovery, FreshLedger, Admissible, Planned, ExpectedCanonical, TypeOK,
                  Directory, Content, Names
  <2>2. /\ bytes' \in Record \cup {Absent} /\ expected' \in Content
        /\ pc' \in {"idle", "promote", "rename_recovery"}
        /\ pc' \in Busy => bytes' \in Record
      BY <1>2, <2>1 DEF PlanRecovery, FreshLedger, Content, StabilizeStart
  <2>3. task' \in {"commit", "promote", "stabilize"}
        /\ staged' \in {"redo", "recovery"}
      BY <1>2 DEF PlanRecovery, FreshLedger, TypeOK, RecoveryName
  <2>4. record' \in Record \cup {Absent}
      BY <1>2 DEF PlanRecovery, FreshLedger, TypeOK
  <2> QED BY <1>2, <2>2, <2>3, <2>4 DEF PlanRecovery, FreshLedger, TypeOK
<1>3. CASE RenameCanonicalToRecovery
    BY <1>3, RenameTyped DEF RenameCanonicalToRecovery, RecoveryName, Names,
                             TypeOK
<1>4. CASE SyncRecoveryName
    BY <1>4, SyncTyped DEF SyncRecoveryName, TypeOK
<1>5. CASE SyncRecovered
    BY <1>5, SyncTyped DEF SyncRecovered, TypeOK
<1>6. ASSUME NEW v \in Values, BeginCommit(v)
      PROVE  TypeOK'
  <2>1. bytes' \in Record
      BY <1>6, SuccessorIsRecord DEF BeginCommit, TypeOK
  <2> QED BY <1>6, <2>1 DEF BeginCommit, TypeOK, Directory, Names
<1>7. CASE CreateTemp
    BY <1>7 DEF CreateTemp, TypeOK, Content
<1>8. CASE WriteTemp
    BY <1>8 DEF WriteTemp, TypeOK, Content
<1>9. CASE SyncTemp
    BY <1>9 DEF SyncTemp, TypeOK, Content
<1>10. CASE RenameTempToRedo
  <2>1. /\ [disk EXCEPT !["redo"] = bytes] \in Directory
        /\ \A kept \in temp : [disk EXCEPT !["redo"] = kept] \in Directory
      BY <1>10 DEF RenameTempToRedo, TypeOK, Directory, Content
  <2> QED BY <1>10, <2>1 DEF RenameTempToRedo, Mutate, TypeOK
<1>11. CASE SyncRedoName
    BY <1>11, SyncTyped DEF SyncRedoName, TypeOK
<1>12. CASE PromoteStaged
    BY <1>12, RenameTyped DEF PromoteStaged, TypeOK, Names
<1>13. CASE SyncCanonicalName
    BY <1>13, SyncTyped DEF SyncCanonicalName, TypeOK
<1>14. CASE Finish
    BY <1>14 DEF Finish, TypeOK
<1>15. CASE Exit
    BY <1>15 DEF Exit, Gone, TypeOK, Content
<1>16. CASE Fail
  <2>1. dirty' \in BOOLEAN
      BY <1>16 DEF Fail, TypeOK
  <2>a. faults' \in 0..MaxFaults
      BY <1>16, FaultTyped DEF Fail, TypeOK
  <2>2. CASE task = "commit"
      BY <1>16, <2>1, <2>a, <2>2 DEF Fail, PoisonLedger, TypeOK
  <2>3. CASE task # "commit"
      BY <1>16, <2>1, <2>a, <2>3 DEF Fail, Gone, TypeOK, Content
  <2> QED BY <2>2, <2>3
<1>17. CASE Crash
    BY <1>17, FaultTyped DEF Crash, Gone, TypeOK, Content
<1>18. CASE PowerLoss
    BY <1>18, FaultTyped DEF PowerLoss, Gone, TypeOK, Content
<1> QED BY <1>1, <1>2, <1>3, <1>4, <1>5, <1>6, <1>7, <1>8, <1>9, <1>10, <1>11,
           <1>12, <1>13, <1>14, <1>15, <1>16, <1>17, <1>18
        DEF Next, Proceed, Recover, Commit

(***************************************************************************)
(* The invariant is inductive.                                             *)
(***************************************************************************)
LEMMA InvariantInit == Init => IInv
<1> SUFFICES ASSUME Init PROVE IInv
    OBVIOUS
<1>1. disk = Only("canonical", Absent)
    BY DEF Init, Only
<1>2. OneInFlight
    BY <1>1 DEF Init, OneInFlight, Shape
<1> QED BY <1>2, TypedInit
        DEF Init, IInv, Committing, Stabilizing, Promoting, Usable, Busy,
            CommitSteps, StabilizeSteps, PromoteSteps

(* A step of the protocol moves to the record in flight or stays with the  *)
(* record it was at.                                                       *)
LEMMA InFlightStep ==
    ASSUME OneInFlight, acknowledged' = acknowledged,
           images' \subseteq images \cup {disk, disk'}, Shape(disk'),
           Planned(disk') = Planned(disk) \/ Planned(disk) = acknowledged
    PROVE  OneInFlight'
<1>1. \A d : Shape(d)' <=> Shape(d)
    BY DEF Shape
<1> QED BY <1>1 DEF OneInFlight

(* Nothing is said of a process that is down, or of a poisoned ledger.     *)
LEMMA Unconstrained ==
    ASSUME pc' = "down" \/ (pc' = "idle" /\ poisoned')
    PROVE  Committing' /\ Stabilizing' /\ Promoting' /\ Usable'
BY DEF Committing, Stabilizing, Promoting, Usable, Busy, CommitSteps,
       StabilizeSteps, PromoteSteps

(* The shapes and what recovery makes of them.                             *)
LEMMA InFlightRecords ==
    ASSUME IInv, NEW d \in images \cup {disk}
    PROVE  /\ Planned(d) \in Record \cup {Absent}
           /\ Planned(d) = acknowledged \/ Successor(acknowledged, Planned(d))
<1>1. acknowledged \in Record \cup {Absent}
    BY DEF IInv, TypeOK
<1>2. CASE d \in {Only("canonical", acknowledged),
                  Only("recovery", acknowledged)}
    BY <1>1, <1>2, OnlyPlanned
<1>3. ASSUME NEW v \in Values,
             d \in {Staged(acknowledged, Append(History(acknowledged), v)),
                    Only("canonical", Append(History(acknowledged), v)),
                    Only("recovery", Append(History(acknowledged), v))}
      PROVE  Planned(d) = Append(History(acknowledged), v)
  <2>1. Append(History(acknowledged), v) # Absent
      BY <1>1, SuccessorIsRecord
  <2>2. CASE d = Staged(acknowledged, Append(History(acknowledged), v))
      BY <2>1, <2>2, StagedPlanned
  <2>3. CASE d \in {Only("canonical", Append(History(acknowledged), v)),
                    Only("recovery", Append(History(acknowledged), v))}
      BY <2>3, OnlyPlanned
  <2> QED BY <1>3, <2>2, <2>3
<1>4. Shape(d)
    BY DEF IInv, OneInFlight
<1> QED BY <1>1, <1>2, <1>3, <1>4, SuccessorIsRecord DEF Shape, Successor

LEMMA RedoIsStaged ==
    ASSUME IInv, disk["redo"] # Absent
    PROVE  disk = Staged(acknowledged, disk["redo"])
<1>1. PICK v \in Values :
        disk = Staged(acknowledged, Append(History(acknowledged), v))
    BY DEF IInv, OneInFlight, Shape, Only, Names
<1> QED BY <1>1 DEF Staged, Names

LEMMA PlanStep == IInv /\ TypeOK' /\ PlanRecovery => IInv'
<1> SUFFICES ASSUME IInv, TypeOK', PlanRecovery PROVE IInv'
    OBVIOUS
<1>1. OneInFlight'
    BY DEF PlanRecovery, FreshLedger, files, IInv, OneInFlight, Shape
<1>a. disk \in Directory /\ disk' = disk /\ acknowledged' = acknowledged
      /\ bytes' = Planned(disk) /\ Admissible(disk)
      /\ expected' = ExpectedCanonical(disk)
    BY DEF PlanRecovery, FreshLedger, files, IInv, TypeOK
<1>2. CASE pc' = "idle"
  <2>1. Planned(disk) = Absent /\ record' = Absent
      BY <1>2 DEF PlanRecovery, FreshLedger, GoTo, StabilizeStart
  <2>2. \A n \in Names : disk[n] = Absent
      BY <2>1 DEF Planned, Names
  <2>3. disk = Only("canonical", Absent)
      BY <1>a, <2>2, NothingThere
  <2>4. acknowledged = Absent
      BY <2>1, InFlightRecords, SuccessorIsRecord DEF Successor, IInv, TypeOK
  <2> QED BY <1>1, <1>2, <1>a, <2>1, <2>3, <2>4
          DEF IInv, Committing, Stabilizing, Promoting, Usable, Busy,
              CommitSteps, StabilizeSteps, PromoteSteps
<1>3. CASE pc' = "promote" /\ staged' = "recovery"
  <2>1. disk["recovery"] # Absent
      BY <1>3 DEF PlanRecovery, FreshLedger, GoTo, StabilizeStart
  <2>2. /\ disk = Only("recovery", disk["recovery"])
        /\ Planned(disk) = disk["recovery"]
        /\ ExpectedCanonical(disk) = Absent
      BY <1>a, <2>1, OneName DEF Admissible, Planned, ExpectedCanonical
  <2> QED BY <1>1, <1>3, <1>a, <2>2
          DEF IInv, Committing, Stabilizing, Promoting, Usable, Busy,
              CommitSteps, StabilizeSteps, PromoteSteps
<1>4. CASE pc' = "promote" /\ staged' = "redo"
  <2>1. /\ disk["recovery"] = Absent /\ disk["redo"] # Absent
        /\ task' = "promote"
      BY <1>4 DEF PlanRecovery, FreshLedger, GoTo, StabilizeStart, RecoveryName
  <2>2. /\ disk = Staged(acknowledged, disk["redo"])
        /\ Planned(disk) = disk["redo"]
      BY <2>1, RedoIsStaged DEF Planned
  <2>3. ExpectedCanonical(disk) = acknowledged
      BY <2>1, <2>2 DEF ExpectedCanonical, Staged, Names
  <2> QED BY <1>1, <1>4, <1>a, <2>1, <2>2, <2>3
          DEF IInv, Committing, Stabilizing, Promoting, Usable, Busy,
              CommitSteps, StabilizeSteps, PromoteSteps
<1>5. CASE pc' = "rename_recovery"
  <2>1. /\ disk["recovery"] = Absent /\ disk["redo"] = Absent
        /\ task' = "stabilize" /\ staged' = "recovery"
      BY <1>5 DEF PlanRecovery, FreshLedger, GoTo, RecoveryName
  <2>2. /\ disk = Only("canonical", disk["canonical"])
        /\ Planned(disk) = disk["canonical"]
        /\ ExpectedCanonical(disk) = Absent
      BY <1>a, <2>1, OneName DEF Planned, ExpectedCanonical
  <2> QED BY <1>1, <1>5, <1>a, <2>1, <2>2
          DEF IInv, Committing, Stabilizing, Promoting, Usable, Busy,
              CommitSteps, StabilizeSteps, PromoteSteps
<1> QED BY <1>2, <1>3, <1>4, <1>5
        DEF PlanRecovery, FreshLedger, GoTo, StabilizeStart, RecoveryName

(* A sync leaves the visible directory alone and at most forgets images.   *)
LEMMA SyncStep ==
    ASSUME IInv, Sync, acknowledged' = acknowledged
    PROVE  /\ OneInFlight' /\ disk' = disk
           /\ (dirty \/ images = {disk}) => images' = {disk}
<1>1. disk' = disk /\ images' \subseteq images \cup {disk}
    BY DEF Sync
<1>2. Shape(disk)
    BY DEF IInv, OneInFlight
<1> QED BY <1>1, <1>2, InFlightStep DEF IInv, Sync

LEMMA InvariantStep == IInv /\ [Next]_vars => IInv'
<1> SUFFICES ASSUME IInv, [Next]_vars PROVE IInv'
    OBVIOUS
<1>a. TypeOK'
    BY TypedStep DEF IInv
<1>b. Shape(disk)
    BY DEF IInv, OneInFlight
<1> USE DEF GoTo, files, plan, ledger
<1>0. ASSUME UNCHANGED <<disk, images, acknowledged>>
      PROVE  OneInFlight'
    BY <1>0, <1>b, InFlightStep DEF IInv
<1>1. CASE UNCHANGED vars
    BY <1>1, <1>0, <1>a
       DEF vars, IInv, Committing, Stabilizing, Promoting, Usable
<1>2. CASE PlanRecovery
    BY <1>2, <1>a, PlanStep
<1>3. CASE RenameCanonicalToRecovery
  <2>1. disk = Only("canonical", bytes) /\ Planned(disk) = bytes
        /\ task = "stabilize" /\ staged = "recovery" /\ expected = Absent
      BY <1>3, OnlyPlanned DEF RenameCanonicalToRecovery, IInv, Stabilizing,
                               StabilizeSteps, Busy
  <2>2. disk' = Only("recovery", bytes) /\ images' = images \cup {disk'}
      BY <1>3, <2>1, MoveToRecovery
         DEF RenameCanonicalToRecovery, RecoveryName, Rename, Mutate
  <2>3. Planned(disk') = bytes
      BY <2>2, OnlyPlanned
  <2>4. Shape(disk')
    <3>1. bytes = acknowledged \/ Successor(acknowledged, bytes)
        BY <2>1, InFlightRecords
    <3> QED BY <2>2, <3>1 DEF Shape, Successor
  <2>5. OneInFlight'
      BY <1>3, <2>1, <2>2, <2>3, <2>4, InFlightStep
         DEF RenameCanonicalToRecovery, IInv
  <2> QED BY <1>3, <1>a, <2>1, <2>2, <2>3, <2>5
          DEF RenameCanonicalToRecovery, IInv, Committing, Stabilizing,
              Promoting, Usable, Busy, CommitSteps, StabilizeSteps, PromoteSteps
<1>4. CASE SyncRecoveryName
  <2>1. disk = Only("recovery", bytes) /\ expected = Absent
        /\ staged = "recovery" /\ Planned(disk) = bytes
      BY <1>4, OnlyPlanned DEF SyncRecoveryName, IInv, Stabilizing,
                               StabilizeSteps, Busy
  <2>2. OneInFlight' /\ disk' = disk
      BY <1>4, SyncStep DEF SyncRecoveryName
  <2> QED BY <1>4, <1>a, <2>1, <2>2
          DEF SyncRecoveryName, IInv, Committing, Stabilizing, Promoting,
              Usable, Busy, CommitSteps, StabilizeSteps, PromoteSteps
<1>5. CASE SyncRecovered
  <2>1. disk = Only("canonical", bytes) /\ images = {disk}
        /\ Planned(disk) = bytes
      BY <1>5, OnlyPlanned DEF SyncRecovered, IInv, Stabilizing
  <2>2. OneInFlight' /\ disk' = disk /\ images' = {disk}
      BY <1>5, <2>1, SyncStep DEF SyncRecovered
  <2> QED BY <1>5, <1>a, <2>1, <2>2
          DEF SyncRecovered, IInv, Committing, Stabilizing, Promoting, Usable,
              Busy, CommitSteps, StabilizeSteps, PromoteSteps
<1>6. ASSUME NEW v \in Values, BeginCommit(v)
      PROVE  IInv'
  <2>1. record = acknowledged /\ disk = Only("canonical", acknowledged)
      BY <1>6 DEF BeginCommit, IInv, Usable
  <2>2. Successor(acknowledged, bytes') /\ disk["canonical"] = acknowledged
      BY <1>6, <2>1 DEF BeginCommit, Successor, Only, Names
  <2>3. Planned(disk) = acknowledged
      BY <2>1, OnlyPlanned
  <2>4. OneInFlight'
      BY <1>6, <1>0 DEF BeginCommit
  <2>5. Successor(acknowledged', bytes')
        /\ Len(History(acknowledged')) < MaxVersion
      BY <1>6, <2>1, <2>2 DEF BeginCommit
  <2> QED BY <1>6, <1>a, <2>1, <2>2, <2>3, <2>4, <2>5
          DEF BeginCommit, IInv, Committing, Stabilizing, Promoting, Usable,
              Busy, CommitSteps, StabilizeSteps, PromoteSteps
<1>7. CASE CreateTemp \/ WriteTemp \/ SyncTemp
  <2>1. /\ UNCHANGED <<disk, images, plan, ledger, acknowledged>>
        /\ pc \in {"create_temp", "write_temp", "sync_temp"}
        /\ pc' \in {"write_temp", "sync_temp", "rename_redo"}
        /\ pc' = "rename_redo" => temp' = {bytes}
      BY <1>7 DEF CreateTemp, WriteTemp, SyncTemp
  <2>2. OneInFlight'
      BY <2>1, <1>0
  <2>3. Successor(acknowledged, bytes)' <=> Successor(acknowledged, bytes)
      BY <2>1 DEF Successor
  <2> QED BY <1>a, <2>1, <2>2, <2>3
          DEF IInv, Committing, Stabilizing, Promoting, Usable, Busy,
              CommitSteps, StabilizeSteps, PromoteSteps
<1>10. CASE RenameTempToRedo
  <2>1. /\ disk = Only("canonical", acknowledged) /\ temp = {bytes}
        /\ Successor(acknowledged, bytes) /\ task = "commit"
        /\ staged = "redo" /\ expected = acknowledged
      BY <1>10 DEF RenameTempToRedo, IInv, Committing, CommitSteps
  <2>2. disk' = Staged(acknowledged, bytes) /\ images' = images \cup {disk'}
      BY <1>10, <2>1, AddRedo DEF RenameTempToRedo, Mutate
  <2>3. bytes \in Record /\ bytes # Absent
      BY <1>10, JournalAssumption
         DEF RenameTempToRedo, IInv, TypeOK, Busy, CommitSteps
  <2>4. Planned(disk') = bytes /\ Planned(disk) = acknowledged
      BY <2>1, <2>2, <2>3, OnlyPlanned, StagedPlanned
  <2>5. Shape(disk')
      BY <2>1, <2>2 DEF Shape, Successor
  <2>6. OneInFlight'
      BY <1>10, <2>2, <2>4, <2>5, InFlightStep DEF RenameTempToRedo, IInv
  <2>7. Successor(acknowledged, bytes)'
      BY <1>10, <2>1 DEF RenameTempToRedo, Successor
  <2> QED BY <1>10, <1>a, <2>1, <2>2, <2>4, <2>6, <2>7
          DEF RenameTempToRedo, IInv, Committing, Stabilizing, Promoting,
              Usable, Busy, CommitSteps, StabilizeSteps, PromoteSteps
<1>11. CASE SyncRedoName
  <2>1. /\ disk = Staged(acknowledged, bytes) /\ task = "commit"
        /\ staged = "redo" /\ expected = acknowledged
        /\ Planned(disk) = bytes
      BY <1>11 DEF SyncRedoName, IInv, Committing, Promoting, CommitSteps, Busy
  <2>2. OneInFlight' /\ disk' = disk
      BY <1>11, SyncStep DEF SyncRedoName
  <2> QED BY <1>11, <1>a, <2>1, <2>2
          DEF SyncRedoName, IInv, Committing, Stabilizing, Promoting, Usable,
              Busy, CommitSteps, StabilizeSteps, PromoteSteps
<1>12. CASE PromoteStaged
  <2>1. Planned(disk) = bytes
      BY <1>12 DEF PromoteStaged, IInv, Promoting, Busy, PromoteSteps,
                   CommitSteps
  <2>2. disk' = Only("canonical", bytes) /\ images' = images \cup {disk'}
        /\ dirty'
    <3>1. CASE staged = "redo" /\ disk = Staged(acknowledged, bytes)
        BY <1>12, <3>1, MoveRedo DEF PromoteStaged, Rename, Mutate
    <3>2. CASE staged = "recovery" /\ disk = Only("recovery", bytes)
        BY <1>12, <3>2, MoveBack DEF PromoteStaged, Rename, Mutate
    <3> QED BY <1>12, <3>1, <3>2 DEF PromoteStaged, IInv, Promoting
  <2>3. Planned(disk') = bytes
      BY <2>2, OnlyPlanned
  <2>4. Shape(disk')
    <3>1. bytes = acknowledged \/ Successor(acknowledged, bytes)
        BY <2>1, InFlightRecords
    <3> QED BY <2>2, <3>1 DEF Shape, Successor
  <2>5. OneInFlight'
      BY <1>12, <2>1, <2>2, <2>3, <2>4, InFlightStep DEF PromoteStaged, IInv
  <2> QED BY <1>12, <1>a, <2>2, <2>3, <2>5
          DEF PromoteStaged, IInv, Committing, Stabilizing, Promoting, Usable,
              Busy, CommitSteps, StabilizeSteps, PromoteSteps
<1>13. CASE SyncCanonicalName
  <2>1. disk = Only("canonical", bytes) /\ dirty /\ Planned(disk) = bytes
      BY <1>13, OnlyPlanned DEF SyncCanonicalName, IInv, Promoting
  <2>2. OneInFlight' /\ disk' = disk /\ images' = {disk}
      BY <1>13, <2>1, SyncStep DEF SyncCanonicalName
  <2> QED BY <1>13, <1>a, <2>1, <2>2
          DEF SyncCanonicalName, IInv, Committing, Stabilizing, Promoting,
              Usable, Busy, CommitSteps, StabilizeSteps, PromoteSteps
<1>14. CASE Finish
  <2>1. disk = Only("canonical", bytes) /\ images = {disk}
      BY <1>14 DEF Finish, IInv, Promoting
  <2>2. /\ disk' = disk /\ images' = images /\ acknowledged' = bytes
        /\ record' = bytes /\ pc' = "idle"
      BY <1>14 DEF Finish
  <2>3. OneInFlight'
      BY <2>1, <2>2 DEF OneInFlight, Shape
  <2> QED BY <1>a, <2>1, <2>2, <2>3
          DEF IInv, Committing, Stabilizing, Promoting, Usable, Busy,
              CommitSteps, StabilizeSteps, PromoteSteps
<1>15. CASE Exit
    BY <1>15, <1>0, <1>a, Unconstrained DEF Exit, Gone, IInv
<1>16. CASE Fail
  <2>1. UNCHANGED <<disk, images, acknowledged>>
      BY <1>16 DEF Fail
  <2>2. pc' = "down" \/ (pc' = "idle" /\ poisoned')
      BY <1>16 DEF Fail, Gone, PoisonLedger
  <2> QED BY <1>a, <1>0, <2>1, <2>2, Unconstrained DEF IInv
<1>17. CASE Crash
    BY <1>17, <1>0, <1>a, Unconstrained DEF Crash, Gone, IInv
<1>18. CASE PowerLoss
  <2>1. PICK d \in images : disk' = d /\ images' = {d}
      BY <1>18 DEF PowerLoss
  <2>2. acknowledged' = acknowledged /\ pc' = "down"
      BY <1>18 DEF PowerLoss, Gone
  <2>3. OneInFlight'
      BY <2>1, <2>2 DEF IInv, OneInFlight, Shape
  <2> QED BY <1>a, <2>2, <2>3, Unconstrained DEF IInv
<1> QED BY <1>1, <1>2, <1>3, <1>4, <1>5, <1>6, <1>7, <1>10, <1>11, <1>12,
           <1>13, <1>14, <1>15, <1>16, <1>17, <1>18
        DEF Next, Proceed, Recover, Commit

(* The inductive invariant: the directory and its images always have one   *)
(* of the shapes of commit_record and of recovery, tied to the step that   *)
(* comes next.                                                             *)
THEOREM Invariant == Spec => []IInv
BY InvariantInit, InvariantStep, PTL DEF Spec

(* Every variable of the journal has its type.                             *)
THEOREM TypeCorrect == Spec => []TypeOK
<1>1. IInv => TypeOK
    BY DEF IInv
<1> QED BY <1>1, Invariant, PTL

(* plan_using: no crash, failed call or loss of power leaves a directory   *)
(* that recovery refuses.                                                  *)
THEOREM EveryCrashIsAdmissibleHolds == Spec => []EveryCrashIsAdmissible
<1>1. IInv => EveryCrashIsAdmissible
  <2> SUFFICES ASSUME IInv, NEW d \in images \cup {disk}
               PROVE  Admissible(d)
      BY DEF EveryCrashIsAdmissible
  <2>1. /\ acknowledged \in Record \cup {Absent} /\ acknowledged # Torn
        /\ Absent # Torn
      BY JournalAssumption DEF IInv, TypeOK
  <2>2. CASE d \in {Only("canonical", acknowledged),
                    Only("recovery", acknowledged)}
      BY <2>1, <2>2 DEF Admissible, Only, Names
  <2>3. ASSUME NEW v \in Values,
               d \in {Staged(acknowledged, Append(History(acknowledged), v)),
                      Only("canonical", Append(History(acknowledged), v)),
                      Only("recovery", Append(History(acknowledged), v))}
        PROVE  Admissible(d)
    <3> DEFINE next == Append(History(acknowledged), v)
    <3>1. next # Torn /\ next # Absent
        BY <2>1, SuccessorIsRecord
    <3>2. Successor(acknowledged, next)
        BY DEF Successor
    <3> HIDE DEF next
    <3>3. CASE d = Staged(acknowledged, next)
        BY <2>1, <3>1, <3>2, <3>3 DEF Admissible, Staged, Names
    <3>4. CASE d \in {Only("canonical", next), Only("recovery", next)}
        BY <2>1, <3>1, <3>4 DEF Admissible, Only, Names
    <3> QED BY <2>3, <3>3, <3>4 DEF next
  <2>4. Shape(d)
      BY DEF IInv, OneInFlight
  <2> QED BY <2>2, <2>3, <2>4 DEF Shape
<1> QED BY <1>1, Invariant, PTL

(* A record that a commit or a recovery returned survives every loss of    *)
(* power, itself or through its successor.                                 *)
THEOREM AcknowledgedIsDurableHolds == Spec => []AcknowledgedIsDurable
<1>1. IInv => AcknowledgedIsDurable
    BY InFlightRecords DEF AcknowledgedIsDurable
<1> QED BY <1>1, Invariant, PTL

(* A usable ledger holds what recovery would find.                         *)
THEOREM LedgerIsCurrentHolds == Spec => []LedgerIsCurrent
<1>1. IInv => LedgerIsCurrent
    BY OnlyPlanned DEF IInv, Usable, LedgerIsCurrent
<1> QED BY <1>1, Invariant, PTL

(***************************************************************************)
(* The journal is a durable record.                                        *)
(***************************************************************************)
InPlace == Planned(disk') = Planned(disk) /\ acknowledged' = acknowledged
Proposes ==
    \E v \in Values :
        /\ Planned(disk) = acknowledged /\ acknowledged' = acknowledged
        /\ Len(History(acknowledged)) < MaxVersion
        /\ Planned(disk') = Append(History(acknowledged), v)
Acknowledges == disk' = disk /\ acknowledged' = Planned(disk)
Loses == Planned(disk') = acknowledged /\ acknowledged' = acknowledged

LEMMA FourKindsOfStep ==
    ASSUME IInv, [Next]_vars
    PROVE  InPlace \/ Proposes \/ Acknowledges \/ Loses
<1> USE DEF files, plan, ledger, InPlace
<1>1. CASE UNCHANGED vars
    BY <1>1 DEF vars
<1>2. CASE \/ PlanRecovery \/ \E v \in Values : BeginCommit(v)
           \/ CreateTemp \/ WriteTemp \/ SyncTemp \/ Exit \/ Fail \/ Crash
    BY <1>2 DEF PlanRecovery, FreshLedger, BeginCommit, CreateTemp, WriteTemp, SyncTemp,
                Exit, Fail, Crash
<1>3. CASE SyncRecoveryName \/ SyncRecovered \/ SyncRedoName \/ SyncCanonicalName
    BY <1>3 DEF SyncRecoveryName, SyncRecovered, SyncRedoName,
                SyncCanonicalName, Sync
<1>4. CASE RenameCanonicalToRecovery
  <2>1. disk = Only("canonical", bytes)
      BY <1>4 DEF RenameCanonicalToRecovery, IInv, Stabilizing
  <2>2. disk' = Only("recovery", bytes) /\ acknowledged' = acknowledged
      BY <1>4, <2>1, MoveToRecovery
         DEF RenameCanonicalToRecovery, RecoveryName, Rename, Mutate
  <2> QED BY <2>1, <2>2, OnlyPlanned
<1>5. CASE PromoteStaged
  <2>1. Planned(disk) = bytes
      BY <1>5 DEF PromoteStaged, IInv, Promoting, Busy, PromoteSteps,
                  CommitSteps
  <2>2. disk' = Only("canonical", bytes) /\ acknowledged' = acknowledged
    <3>1. CASE staged = "redo" /\ disk = Staged(acknowledged, bytes)
        BY <1>5, <3>1, MoveRedo DEF PromoteStaged, Rename, Mutate
    <3>2. CASE staged = "recovery" /\ disk = Only("recovery", bytes)
        BY <1>5, <3>2, MoveBack DEF PromoteStaged, Rename, Mutate
    <3> QED BY <1>5, <3>1, <3>2 DEF PromoteStaged, IInv, Promoting
  <2> QED BY <2>1, <2>2, OnlyPlanned
<1>6. CASE RenameTempToRedo
  <2>1. /\ disk = Only("canonical", acknowledged)
        /\ Successor(acknowledged, bytes)
        /\ Len(History(acknowledged)) < MaxVersion
      BY <1>6 DEF RenameTempToRedo, IInv, Committing, CommitSteps
  <2>2. disk' = Staged(acknowledged, bytes) /\ acknowledged' = acknowledged
      BY <1>6, <2>1, AddRedo DEF RenameTempToRedo, Mutate
  <2>3. bytes # Absent
      BY <1>6, JournalAssumption
         DEF RenameTempToRedo, IInv, TypeOK, Busy, CommitSteps
  <2>4. Planned(disk) = acknowledged /\ Planned(disk') = bytes
      BY <2>1, <2>2, <2>3, OnlyPlanned, StagedPlanned
  <2> QED BY <2>1, <2>2, <2>4 DEF Proposes, Successor
<1>7. CASE Finish
  <2>1. disk = Only("canonical", bytes)
      BY <1>7 DEF Finish, IInv, Promoting
  <2> QED BY <1>7, <2>1, OnlyPlanned DEF Finish, Acknowledges
<1>8. CASE PowerLoss
  <2>1. PICK d \in images : disk' = d
      BY <1>8 DEF PowerLoss
  <2>2. Planned(d) \in {acknowledged, Planned(disk)}
      BY DEF IInv, OneInFlight
  <2>3. acknowledged' = acknowledged
      BY <1>8 DEF PowerLoss
  <2> QED BY <2>1, <2>2, <2>3 DEF Loses
<1> QED BY <1>1, <1>2, <1>3, <1>4, <1>5, <1>6, <1>7, <1>8
        DEF Next, Proceed, Recover, Commit

(* Every behaviour of the journal is one of DurableRecord, with the record *)
(* that recovery would find in the visible directory as its record.        *)
THEOREM Refinement == Spec => ImplementsDurableRecord
<1>1. Init => Durable!Init
  <2>1. Init => Planned(disk) = Absent
      BY DEF Init, Planned, Names
  <2> QED BY <2>1 DEF Init, Durable!Init, History
<1>2. IInv /\ [Next]_vars => [Durable!Next]_Durable!vars
  <2> SUFFICES ASSUME IInv, [Next]_vars
               PROVE  [Durable!Next]_Durable!vars
      OBVIOUS
  <2>1. CASE InPlace
      BY <2>1 DEF InPlace, Durable!vars
  <2>2. CASE Proposes
    <3>1. PICK v \in Values :
            /\ Planned(disk) = acknowledged /\ acknowledged' = acknowledged
            /\ Len(History(acknowledged)) < MaxVersion
            /\ Planned(disk') = Append(History(acknowledged), v)
        BY <2>2 DEF Proposes
    <3>2. History(Planned(disk')) = Append(History(acknowledged), v)
        BY <3>1, SuccessorIsRecord DEF History, IInv, TypeOK
    <3> QED BY <3>1, <3>2 DEF Durable!Next, Durable!Propose
  <2>3. CASE Acknowledges
      BY <2>3 DEF Acknowledges, Durable!Next, Durable!Acknowledge
  <2>4. CASE Loses
      BY <2>4 DEF Loses, Durable!Next, Durable!Lose
  <2> QED BY <2>1, <2>2, <2>3, <2>4, FourKindsOfStep
<1> QED BY <1>1, <1>2, Invariant, PTL
        DEF Spec, Durable!Spec, ImplementsDurableRecord

=============================================================================

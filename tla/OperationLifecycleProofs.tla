----------------------- MODULE OperationLifecycleProofs -----------------------
(***************************************************************************)
(* Proofs about OperationLifecycle, for any operations, threads, capacity  *)
(* and ticket bound: its types, its two invariants, and that it implements *)
(* QuiescentRetention.                                                     *)
(***************************************************************************)
EXTENDS OperationLifecycle, TLAPS

(* A thread inside a callback: request_cancel holds the mutex and a clone,  *)
(* a notification runs without the mutex on a state that is final.          *)
CallsAgree ==
    \A t \in Thread :
        /\ call[t].at = "cancel" =>
              /\ call[t].operation \in Operation
              /\ lock[call[t].operation] = t
              /\ t \in holders[call[t].operation]
              /\ state[call[t].operation] = "Submitted"
        /\ call[t].at = "notify" =>
              /\ call[t].operation \in Operation
              /\ call[t].given = state[call[t].operation]
              /\ call[t].given \in Quiescent

(* Where the resources may be, given the recorded state. *)
PlacesAgree ==
    \A o \in Operation :
        /\ state[o] \in Quiescent => o \notin busy
        /\ o \in entries <=> place[o] = "quarantine"
        /\ place[o] = "quarantine" => state[o] = "Quarantined"
        /\ place[o] \in {"caller", "freed"} => o \notin busy /\ state[o] \in Terminal
        /\ place[o] = "leaked" =>
              \/ state[o] = "Quarantined"
              \/ state[o] \notin Quiescent /\ holders[o] = {}

(* What was counted once cannot be counted again. *)
CountsAgree ==
    \A o \in Operation :
        /\ notices[o] \in {0, 1}
        /\ notices[o] = 1 => state[o] \in Terminal
        /\ accepted[o] \in {0, 1}
        /\ accepted[o] = 1 => state[o] # "Submitted"

IInv == TypeOK /\ CallsAgree /\ PlacesAgree /\ CountsAgree

(***************************************************************************)
(* Every step keeps the four conjuncts.                                    *)
(***************************************************************************)
LEMMA TypeStep == IInv /\ [Next]_vars => TypeOK'
<1> SUFFICES ASSUME IInv, [Next]_vars PROVE TypeOK'
    OBVIOUS
<1> USE LifecycleAssumption DEF IInv, CallsAgree, TypeOK, lifecycle, guards, quarantine, observed,
        Terminal, Quiescent, State, Place, NoCall
<1>1. ASSUME NEW o \in Operation, BackendFinishes(o)
     PROVE  TypeOK'
    BY <1>1 DEF BackendFinishes
<1>2. ASSUME NEW t \in Thread, CancelAccepted(t)
     PROVE  TypeOK'
    BY <1>2 DEF CancelAccepted, LeavesCancel
<1>3. ASSUME NEW t \in Thread, CancelRejected(t)
     PROVE  TypeOK'
    BY <1>3 DEF CancelRejected, LeavesCancel
<1>4. ASSUME NEW t \in Thread, CancelPanics(t)
     PROVE  TypeOK'
    BY <1>4 DEF CancelPanics, LeavesCancel
<1>5. ASSUME NEW t \in Thread, Notified(t)
     PROVE  TypeOK'
    BY <1>5 DEF Notified
<1>6. ASSUME NEW t \in Thread, NEW o \in Operation, RequestCancel(t, o)
     PROVE  TypeOK'
    BY <1>6 DEF RequestCancel, Enters
<1>7. ASSUME NEW t \in Thread, NEW o \in Operation, InspectPanics(t, o)
     PROVE  TypeOK'
    BY <1>7 DEF InspectPanics, Enters
<1>8. ASSUME NEW t \in Thread, NEW o \in Operation, NEW next \in Quiescent,
             Record(t, o, next)
     PROVE  TypeOK'
    BY <1>8 DEF Record, Enters, Contract, transition_to
<1>9. ASSUME NEW t \in Thread, NEW o \in Operation, NEW next \in Quiescent,
             RecordAndNotify(t, o, next)
     PROVE  TypeOK'
    BY <1>9 DEF RecordAndNotify, Enters, Contract, transition_to
<1>10. ASSUME NEW t \in Thread, NEW o \in Operation, AbandonToQuarantine(t, o)
     PROVE  TypeOK'
  <2>1. \/ /\ nextTicket + 1 <= MaxTicket
           /\ state' = [state EXCEPT ![o] = "Quarantined"]
           /\ ticket' = [ticket EXCEPT ![o] = nextTicket]
           /\ place' = [place EXCEPT ![o] = "quarantine"]
           /\ entries' = entries \cup {o}
           /\ nextTicket' = nextTicket + 1
        \/ /\ state' = [state EXCEPT ![o] = "Leaked"]
           /\ UNCHANGED <<ticket, place, entries, nextTicket>>
      BY <1>10 DEF AbandonToQuarantine, reserve_ticket
  <2>2. /\ state' \in [Operation -> State] /\ ticket' \in [Operation -> Nat]
        /\ place' \in [Operation -> Place] /\ entries' \subseteq Operation
        /\ nextTicket' \in 0..MaxTicket
      BY <2>1
  <2> QED BY <1>10, <2>2 DEF AbandonToQuarantine
<1>11. ASSUME ReleaseAfterStreamQuiescence
     PROVE  TypeOK'
    BY <1>11 DEF ReleaseAfterStreamQuiescence
<1>12. ASSUME DropQuarantine
     PROVE  TypeOK'
    BY <1>12 DEF DropQuarantine
<1>13. ASSUME NEW t \in Thread, NEW o \in Operation, Reclaim(t, o)
     PROVE  TypeOK'
    BY <1>13 DEF Reclaim, Enters, Reclaimable
<1>14. ASSUME NEW t \in Thread, NEW o \in Operation, DropClone(t, o)
     PROVE  TypeOK'
    BY <1>14 DEF DropClone, AfterDrop
<1>15. ASSUME UNCHANGED vars
     PROVE  TypeOK'
    BY <1>15 DEF vars
<1> QED BY <1>1, <1>2, <1>3, <1>4, <1>5, <1>6, <1>7, <1>8,
           <1>9, <1>10, <1>11, <1>12, <1>13, <1>14, <1>15 DEF Next, Answers, Finished

LEMMA CallsStep == IInv /\ [Next]_vars => CallsAgree'
<1> SUFFICES ASSUME IInv, [Next]_vars PROVE CallsAgree'
    OBVIOUS
<1> USE LifecycleAssumption DEF IInv, CallsAgree, TypeOK, lifecycle, guards, quarantine, observed,
        Terminal, Quiescent, State, Place, NoCall
<1>1. ASSUME NEW o \in Operation, BackendFinishes(o)
     PROVE  CallsAgree'
    BY <1>1 DEF BackendFinishes
<1>2. ASSUME NEW t \in Thread, CancelAccepted(t)
     PROVE  CallsAgree'
    BY <1>2 DEF CancelAccepted, LeavesCancel
<1>3. ASSUME NEW t \in Thread, CancelRejected(t)
     PROVE  CallsAgree'
    BY <1>3 DEF CancelRejected, LeavesCancel
<1>4. ASSUME NEW t \in Thread, CancelPanics(t)
     PROVE  CallsAgree'
    BY <1>4 DEF CancelPanics, LeavesCancel
<1>5. ASSUME NEW t \in Thread, Notified(t)
     PROVE  CallsAgree'
    BY <1>5 DEF Notified
<1>6. ASSUME NEW t \in Thread, NEW o \in Operation, RequestCancel(t, o)
     PROVE  CallsAgree'
    BY <1>6 DEF RequestCancel, Enters
<1>7. ASSUME NEW t \in Thread, NEW o \in Operation, InspectPanics(t, o)
     PROVE  CallsAgree'
    BY <1>7 DEF InspectPanics, Enters
<1>8. ASSUME NEW t \in Thread, NEW o \in Operation, NEW next \in Quiescent,
             Record(t, o, next)
     PROVE  CallsAgree'
    BY <1>8 DEF Record, Enters, Contract, transition_to
<1>9. ASSUME NEW t \in Thread, NEW o \in Operation, NEW next \in Quiescent,
             RecordAndNotify(t, o, next)
     PROVE  CallsAgree'
    BY <1>9 DEF RecordAndNotify, Enters, Contract, transition_to
<1>10. ASSUME NEW t \in Thread, NEW o \in Operation, AbandonToQuarantine(t, o)
     PROVE  CallsAgree'
    BY <1>10 DEF AbandonToQuarantine, Enters, reserve_ticket
<1>11. ASSUME ReleaseAfterStreamQuiescence
     PROVE  CallsAgree'
    BY <1>11 DEF ReleaseAfterStreamQuiescence
<1>12. ASSUME DropQuarantine
     PROVE  CallsAgree'
    BY <1>12 DEF DropQuarantine
<1>13. ASSUME NEW t \in Thread, NEW o \in Operation, Reclaim(t, o)
     PROVE  CallsAgree'
    BY <1>13 DEF Reclaim, Enters, Reclaimable
<1>14. ASSUME NEW t \in Thread, NEW o \in Operation, DropClone(t, o)
     PROVE  CallsAgree'
    BY <1>14 DEF DropClone, AfterDrop
<1>15. ASSUME UNCHANGED vars
     PROVE  CallsAgree'
    BY <1>15 DEF vars
<1> QED BY <1>1, <1>2, <1>3, <1>4, <1>5, <1>6, <1>7, <1>8,
           <1>9, <1>10, <1>11, <1>12, <1>13, <1>14, <1>15 DEF Next, Answers, Finished

LEMMA PlacesStep == IInv /\ [Next]_vars => PlacesAgree'
<1> SUFFICES ASSUME IInv, [Next]_vars PROVE PlacesAgree'
    OBVIOUS
<1> USE DEF IInv, PlacesAgree, CallsAgree, TypeOK, lifecycle, guards, quarantine, observed,
        Terminal, Quiescent, State, Place
<1>1. ASSUME NEW o \in Operation, BackendFinishes(o)
     PROVE  PlacesAgree'
    BY <1>1 DEF BackendFinishes
<1>2. ASSUME NEW t \in Thread, CancelAccepted(t)
     PROVE  PlacesAgree'
    BY <1>2 DEF CancelAccepted, LeavesCancel
<1>3. ASSUME NEW t \in Thread, CancelRejected(t)
     PROVE  PlacesAgree'
    BY <1>3 DEF CancelRejected, LeavesCancel
<1>4. ASSUME NEW t \in Thread, CancelPanics(t)
     PROVE  PlacesAgree'
    BY <1>4 DEF CancelPanics, LeavesCancel
<1>5. ASSUME NEW t \in Thread, Notified(t)
     PROVE  PlacesAgree'
    BY <1>5 DEF Notified
<1>6. ASSUME NEW t \in Thread, NEW o \in Operation, RequestCancel(t, o)
     PROVE  PlacesAgree'
    BY <1>6 DEF RequestCancel, Enters
<1>7. ASSUME NEW t \in Thread, NEW o \in Operation, InspectPanics(t, o)
     PROVE  PlacesAgree'
    BY <1>7 DEF InspectPanics, Enters
<1>8. ASSUME NEW t \in Thread, NEW o \in Operation, NEW next \in Quiescent,
             Record(t, o, next)
     PROVE  PlacesAgree'
    BY <1>8 DEF Record, Enters, Contract, transition_to
<1>9. ASSUME NEW t \in Thread, NEW o \in Operation, NEW next \in Quiescent,
             RecordAndNotify(t, o, next)
     PROVE  PlacesAgree'
    BY <1>9 DEF RecordAndNotify, Enters, Contract, transition_to
<1>10. ASSUME NEW t \in Thread, NEW o \in Operation, AbandonToQuarantine(t, o)
     PROVE  PlacesAgree'
    BY <1>10 DEF AbandonToQuarantine, Enters, reserve_ticket
<1>11. ASSUME ReleaseAfterStreamQuiescence
     PROVE  PlacesAgree'
    BY <1>11 DEF ReleaseAfterStreamQuiescence
<1>12. ASSUME DropQuarantine
     PROVE  PlacesAgree'
    BY <1>12 DEF DropQuarantine
<1>13. ASSUME NEW t \in Thread, NEW o \in Operation, Reclaim(t, o)
     PROVE  PlacesAgree'
    BY <1>13 DEF Reclaim, Enters, Reclaimable
<1>14. ASSUME NEW t \in Thread, NEW o \in Operation, DropClone(t, o)
     PROVE  PlacesAgree'
    BY <1>14 DEF DropClone, AfterDrop
<1>15. ASSUME UNCHANGED vars
     PROVE  PlacesAgree'
    BY <1>15 DEF vars
<1> QED BY <1>1, <1>2, <1>3, <1>4, <1>5, <1>6, <1>7, <1>8,
           <1>9, <1>10, <1>11, <1>12, <1>13, <1>14, <1>15 DEF Next, Answers, Finished

LEMMA CountsStep == IInv /\ [Next]_vars => CountsAgree'
<1> SUFFICES ASSUME IInv, [Next]_vars PROVE CountsAgree'
    OBVIOUS
<1> USE DEF IInv, CountsAgree, CallsAgree, TypeOK, lifecycle, guards, quarantine, observed,
        Terminal, Quiescent, State, Place
<1>1. ASSUME NEW o \in Operation, BackendFinishes(o)
     PROVE  CountsAgree'
    BY <1>1 DEF BackendFinishes
<1>2. ASSUME NEW t \in Thread, CancelAccepted(t)
     PROVE  CountsAgree'
    BY <1>2 DEF CancelAccepted, LeavesCancel
<1>3. ASSUME NEW t \in Thread, CancelRejected(t)
     PROVE  CountsAgree'
    BY <1>3 DEF CancelRejected, LeavesCancel
<1>4. ASSUME NEW t \in Thread, CancelPanics(t)
     PROVE  CountsAgree'
    BY <1>4 DEF CancelPanics, LeavesCancel
<1>5. ASSUME NEW t \in Thread, Notified(t)
     PROVE  CountsAgree'
    BY <1>5 DEF Notified
<1>6. ASSUME NEW t \in Thread, NEW o \in Operation, RequestCancel(t, o)
     PROVE  CountsAgree'
    BY <1>6 DEF RequestCancel, Enters
<1>7. ASSUME NEW t \in Thread, NEW o \in Operation, InspectPanics(t, o)
     PROVE  CountsAgree'
    BY <1>7 DEF InspectPanics, Enters
<1>8. ASSUME NEW t \in Thread, NEW o \in Operation, NEW next \in Quiescent,
             Record(t, o, next)
     PROVE  CountsAgree'
    BY <1>8 DEF Record, Enters, Contract, transition_to
<1>9. ASSUME NEW t \in Thread, NEW o \in Operation, NEW next \in Quiescent,
             RecordAndNotify(t, o, next)
     PROVE  CountsAgree'
    BY <1>9 DEF RecordAndNotify, Enters, Contract, transition_to
<1>10. ASSUME NEW t \in Thread, NEW o \in Operation, AbandonToQuarantine(t, o)
     PROVE  CountsAgree'
    BY <1>10 DEF AbandonToQuarantine, Enters, reserve_ticket
<1>11. ASSUME ReleaseAfterStreamQuiescence
     PROVE  CountsAgree'
    BY <1>11 DEF ReleaseAfterStreamQuiescence
<1>12. ASSUME DropQuarantine
     PROVE  CountsAgree'
    BY <1>12 DEF DropQuarantine
<1>13. ASSUME NEW t \in Thread, NEW o \in Operation, Reclaim(t, o)
     PROVE  CountsAgree'
    BY <1>13 DEF Reclaim, Enters, Reclaimable
<1>14. ASSUME NEW t \in Thread, NEW o \in Operation, DropClone(t, o)
     PROVE  CountsAgree'
    BY <1>14 DEF DropClone, AfterDrop
<1>15. ASSUME UNCHANGED vars
     PROVE  CountsAgree'
    BY <1>15 DEF vars
<1> QED BY <1>1, <1>2, <1>3, <1>4, <1>5, <1>6, <1>7, <1>8,
           <1>9, <1>10, <1>11, <1>12, <1>13, <1>14, <1>15 DEF Next, Answers, Finished

LEMMA Invariant == Spec => []IInv
<1>1. Init => IInv
    BY LifecycleAssumption
       DEF Init, IInv, TypeOK, CallsAgree, PlacesAgree, CountsAgree, NoCall,
           Terminal, Quiescent, State, Place
<1>2. IInv /\ [Next]_vars => IInv'
    BY TypeStep, CallsStep, PlacesStep, CountsStep DEF IInv
<1> QED BY <1>1, <1>2, PTL DEF Spec

(* Every field of the lifecycles, their mutexes and the quarantine keeps its *)
(* type, and the ticket counter stays within u64.                            *)
THEOREM TypeCorrect == Spec => []TypeOK
<1>1. IInv => TypeOK
    BY DEF IInv
<1> QED BY <1>1, Invariant, PTL

(* Whatever the threads observe, cancel, abandon and drop, the resources of  *)
(* an operation whose quiescence was recorded (complete, fail,               *)
(* mark_stream_quiesced) are never leaked by a Drop implementation.          *)
THEOREM NeverLeaked == Spec => []QuiescentIsNeverLeaked
<1>1. IInv => QuiescentIsNeverLeaked
    BY DEF IInv, PlacesAgree, QuiescentIsNeverLeaked, Quiescent
<1> QED BY <1>1, Invariant, PTL

(* An operation is notified of one terminal state, which stays its state     *)
(* while the callback runs outside the mutex, and the backend is asked to    *)
(* cancel only what is still submitted and accepts that once.                *)
THEOREM OneOfEach == Spec => []CallbacksRunOnce
<1>1. IInv => CallbacksRunOnce
    BY DEF IInv, CallsAgree, CountsAgree, CallbacksRunOnce, OneTrueNotification,
           OneCancellation
<1> QED BY <1>1, Invariant, PTL

(***************************************************************************)
(* The refinement.  Resources are held until one of three steps returns    *)
(* them (reclaim, release_after_stream_quiescence, the drop of a quiescent *)
(* lifecycle) or one of two loses them (the drop of an unobserved one, the *)
(* drop of the quarantine); every other step leaves the places alone.      *)
(***************************************************************************)
(* A step that touches neither the backend nor any place is no step of it. *)
LEMMA SamePlaces ==
    busy' = busy /\ place' = place => UNCHANGED Retention!vars
BY DEF Retention!vars, Fate

(* Resources of os, held and no longer accessed, leave in one call. *)
LEMMA Returned ==
    ASSUME TypeOK, TypeOK', busy' = busy, NEW os \in SUBSET Operation,
           \A o \in os :
              /\ o \notin busy
              /\ place[o] \in {"lifecycle", "quarantine"}
              /\ place'[o] \in {"caller", "freed"},
           \A o \in Operation \ os : place'[o] = place[o]
    PROVE  Retention!Next
<1>1. \A o \in Operation : Fate(o)' = IF o \in os THEN "returned" ELSE Fate(o)
    BY DEF Fate
<1>2. \A o \in os : Fate(o) = "held"
    BY DEF Fate
<1>3. Retention!Return(os)
    BY <1>1, <1>2 DEF Retention!Return
<1> QED BY <1>3 DEF Retention!Next

(* Resources of os, held, are forgotten in one call. *)
LEMMA Lost ==
    ASSUME TypeOK, TypeOK', busy' = busy, NEW os \in SUBSET Operation,
           \A o \in os :
              place[o] \in {"lifecycle", "quarantine"} /\ place'[o] = "leaked",
           \A o \in Operation \ os : place'[o] = place[o]
    PROVE  Retention!Next
<1>1. \A o \in Operation : Fate(o)' = IF o \in os THEN "lost" ELSE Fate(o)
    BY DEF Fate
<1>2. \A o \in os : Fate(o) = "held"
    BY DEF Fate
<1>3. Retention!Lose(os)
    BY <1>1, <1>2 DEF Retention!Lose
<1> QED BY <1>3 DEF Retention!Next

(* Only an operation still in its lifecycle can be abandoned. *)
LEMMA AbandonedStaysHeld ==
    ASSUME IInv, NEW t \in Thread, NEW o \in Operation, AbandonToQuarantine(t, o)
    PROVE  UNCHANGED Retention!vars
<1>1. state[o] \notin Terminal /\ holders[o] # {} /\ busy' = busy
    BY DEF AbandonToQuarantine, Enters
<1>2. place[o] = "lifecycle"
    BY <1>1 DEF IInv, TypeOK, PlacesAgree, Terminal, Place
<1>3. place' = place \/ place' = [place EXCEPT ![o] = "quarantine"]
    BY DEF AbandonToQuarantine
<1>4. \A x \in Operation : Fate(x)' = Fate(x)
    BY <1>2, <1>3 DEF Fate, IInv, TypeOK
<1> QED BY <1>1, <1>4 DEF Retention!vars

LEMMA RefinementStep ==
    IInv /\ [Next]_vars => [Retention!Next]_Retention!vars
<1> SUFFICES ASSUME IInv, [Next]_vars PROVE [Retention!Next]_Retention!vars
    OBVIOUS
<1>0. TypeOK /\ TypeOK'
    BY TypeStep DEF IInv
<1> USE DEF lifecycle, guards, quarantine, observed
<1>1. ASSUME NEW o \in Operation, BackendFinishes(o) PROVE Retention!Next
    BY <1>1 DEF BackendFinishes, Retention!Next, Retention!BackendFinishes, Fate
<1>2. ASSUME NEW t \in Thread, Answers(t) PROVE busy' = busy /\ place' = place
    BY <1>2 DEF Answers, CancelAccepted, CancelRejected, CancelPanics, Notified,
                LeavesCancel
<1>3. ASSUME NEW t \in Thread, NEW o \in Operation,
             RequestCancel(t, o) \/ InspectPanics(t, o)
      PROVE  busy' = busy /\ place' = place
    BY <1>3 DEF RequestCancel, InspectPanics
<1>4. ASSUME NEW t \in Thread, NEW o \in Operation, NEW next \in Quiescent,
             Record(t, o, next) \/ RecordAndNotify(t, o, next)
      PROVE  busy' = busy /\ place' = place
    BY <1>4 DEF Record, RecordAndNotify, transition_to
<1>5. ASSUME NEW t \in Thread, NEW o \in Operation, Reclaim(t, o) PROVE Retention!Next
  <2>1. /\ busy' = busy /\ o \notin busy
        /\ place[o] = "lifecycle" /\ place' = [place EXCEPT ![o] = "caller"]
      BY <1>5 DEF Reclaim, Reclaimable, IInv, PlacesAgree
  <2>2. /\ \A x \in {o} : /\ x \notin busy
                          /\ place[x] \in {"lifecycle", "quarantine"}
                          /\ place'[x] \in {"caller", "freed"}
        /\ \A x \in Operation \ {o} : place'[x] = place[x]
      BY <2>1, <1>0 DEF TypeOK
  <2>3. {o} \in SUBSET Operation
      OBVIOUS
  <2> QED BY <1>0, <2>1, <2>2, <2>3, Returned
<1>6. CASE ReleaseAfterStreamQuiescence
  <2>1. /\ busy' = busy /\ entries \cap busy = {}
        /\ place' = [o \in Operation |->
                       IF o \in entries THEN "caller" ELSE place[o]]
      BY <1>6 DEF ReleaseAfterStreamQuiescence
  <2>2. \A x \in entries : x \in Operation /\ place[x] = "quarantine"
      BY DEF IInv, PlacesAgree, TypeOK
  <2>3. /\ \A x \in entries : /\ x \notin busy
                              /\ place[x] \in {"lifecycle", "quarantine"}
                              /\ place'[x] \in {"caller", "freed"}
        /\ \A x \in Operation \ entries : place'[x] = place[x]
      BY <2>1, <2>2
  <2> QED BY <1>0, <2>1, <2>3, Returned DEF TypeOK
<1>7. CASE DropQuarantine
  <2>1. /\ busy' = busy
        /\ place' = [o \in Operation |->
                       IF o \in entries THEN "leaked" ELSE place[o]]
      BY <1>7 DEF DropQuarantine
  <2>2. \A x \in entries : x \in Operation /\ place[x] = "quarantine"
      BY DEF IInv, PlacesAgree, TypeOK
  <2>3. /\ \A x \in entries :
              place[x] \in {"lifecycle", "quarantine"} /\ place'[x] = "leaked"
        /\ \A x \in Operation \ entries : place'[x] = place[x]
      BY <2>1, <2>2
  <2> QED BY <1>0, <2>1, <2>3, Lost DEF TypeOK
<1>8. ASSUME NEW t \in Thread, NEW o \in Operation, DropClone(t, o)
      PROVE  (busy' = busy /\ place' = place) \/ Retention!Next
  <2>1. busy' = busy
      BY <1>8 DEF DropClone
  <2>2. CASE place' = place
      BY <2>1, <2>2
  <2>3. CASE place' # place
    <3>1. place[o] = "lifecycle" /\ place' = [place EXCEPT ![o] = AfterDrop(o)]
        BY <1>8, <2>3, <1>0 DEF DropClone, AfterDrop, TypeOK
    <3>2. \A x \in Operation \ {o} : place'[x] = place[x]
        BY <3>1, <1>0 DEF TypeOK
    <3>3. CASE state[o] \in Quiescent
      <4>1. /\ o \notin busy /\ place'[o] = "freed"
          BY <3>1, <3>3, <1>0 DEF AfterDrop, TypeOK, IInv, PlacesAgree
      <4>2. \A x \in {o} : /\ x \notin busy
                           /\ place[x] \in {"lifecycle", "quarantine"}
                           /\ place'[x] \in {"caller", "freed"}
          BY <3>1, <4>1
      <4> QED BY <1>0, <2>1, <3>2, <4>2, Returned, ZenonT(40)
    <3>4. CASE state[o] \notin Quiescent
      <4>1. \A x \in {o} :
              place[x] \in {"lifecycle", "quarantine"} /\ place'[x] = "leaked"
          BY <3>1, <3>4, <1>0 DEF AfterDrop, TypeOK
      <4> QED BY <1>0, <2>1, <3>2, <4>1, Lost
    <3> QED BY <3>3, <3>4
  <2> QED BY <2>2, <2>3
<1>9. ASSUME Finished \/ UNCHANGED vars PROVE busy' = busy /\ place' = place
    BY <1>9 DEF Finished, vars
<1> QED BY <1>1, <1>2, <1>3, <1>4, <1>5, <1>6, <1>7, <1>8, <1>9,
           SamePlaces, AbandonedStaysHeld DEF Next

(* Every behaviour of the lifecycles and the quarantine is one of            *)
(* QuiescentRetention: resources the backend may still access are never      *)
(* returned to a caller and never freed, and what is returned or lost is so  *)
(* once.                                                                     *)
THEOREM Refinement == Spec => ImplementsRetention
<1>1. Init => Retention!Init
    BY DEF Init, Retention!Init, Fate
<1> QED BY <1>1, RefinementStep, Invariant, PTL
        DEF Spec, Retention!Spec, ImplementsRetention

=============================================================================

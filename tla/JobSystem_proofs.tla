--------------------------- MODULE JobSystem_proofs ---------------------------
(***************************************************************************)
(* Theorems about JobSystem, for every value of its constants: types and   *)
(* the accounts of attempts and stalls; who has a job; nothing is mislaid; *)
(* budgets, outcomes and the refinement of JobLifecycle.                   *)
(***************************************************************************)
EXTENDS JobSystem, FiniteSetTheorems, TLAPS

(* The bounds of the two saturated counters are naturals.                   *)
LEMMA CapsAreNat == AttemptCap \in Nat /\ StallCap \in Nat
BY StoreAssumption, SMT DEF StoreAssumption, AttemptCap, StallCap

(* A saturated counter never leaves its range.                              *)
LEMMA BumpInRange ==
  ASSUME NEW cap \in Nat, NEW n \in 0 .. cap
  PROVE  Bump(n, cap) \in 0 .. cap
BY SMT DEF Bump

(* The records queue.add writes, and the empty one, are job records.        *)
LEMMA NewRecords == 
  ASSUME NEW st \in Statuses
  PROVE  NoRecord \in JobRecord /\ NewRecord(st) \in JobRecord
BY CapsAreNat DEF NewRecord, NoRecord, JobRecord, Statuses

(* Whatever executor, recovery actors and cancelJob make of a record is     *)
(* again a job record.                                                      *)
LEMMA RecordUpdates ==
  ASSUME NEW rec \in JobRecord, NEW st \in Statuses, NEW w \in Nodes \cup {NoNode}
  PROVE  /\ [rec EXCEPT !.status = st] \in JobRecord
         /\ [rec EXCEPT !.status = st, !.worker = w] \in JobRecord
         /\ [rec EXCEPT !.status = st, !.worker = w, !.attempt = Bump(@, AttemptCap)] \in JobRecord
         /\ [rec EXCEPT !.stalled = Bump(@, StallCap), !.attempt = Bump(@, AttemptCap)] \in JobRecord
         /\ [rec EXCEPT !.stalled = Bump(@, StallCap), !.status = st] \in JobRecord
  <1>1. Bump(rec.attempt, AttemptCap) \in 0 .. AttemptCap
    BY BumpInRange, CapsAreNat DEF JobRecord
  <1>2. Bump(rec.stalled, StallCap) \in 0 .. StallCap
    BY BumpInRange, CapsAreNat DEF JobRecord
  <1> QED BY <1>1, <1>2 DEF JobRecord

(* The empty record, the idle actor and the free activation are well        *)
(* typed.                                                                   *)
LEMMA FreshState ==
  /\ NoRecord \in JobRecord
  /\ \A pcs : IdleActor \in Actor(pcs)
  /\ FreeRun \in BusyRun \cup {FreeRun}
BY NewRecords DEF Statuses, Actor

(* The initial state is well typed.                                         *)
LEMMA InitTypeOK == Init => TypeOK
  <1> SUFFICES ASSUME Init PROVE TypeOK OBVIOUS
  <1>1. StoreTypeOK BY FreshState DEF Init, StoreInit, StoreTypeOK
  <1>2. ExecTypeOK BY FreshState, ExecutorAssumption DEF Init, ExecInit, ExecTypeOK, ExecutorAssumption
  <1>3. RecoveryTypeOK BY FreshState, RecoveryAssumption DEF Init, RecoveryInit, RecoveryTypeOK, RecoveryAssumption
  <1> QED BY <1>1, <1>2, <1>3, SystemAssumption DEF Init, TypeOK, SystemAssumption

(* Saving a record keeps the three stores well typed.                       *)
LEMMA SaveType ==
  ASSUME StoreTypeOK, NEW j \in Jobs, NEW rec \in JobRecord, Save(j, rec), UNCHANGED <<place, lock>>
  PROVE  StoreTypeOK'
BY DEF StoreTypeOK, Save

(* publish, nack and ack keep the three stores well typed.                  *)
LEMMA PlaceType ==
  ASSUME StoreTypeOK, NEW j \in Jobs, NEW where \in {"out", "ready", "delayed"},
         place' = [place EXCEPT ![j] = where], UNCHANGED <<store, lock>>
  PROVE  StoreTypeOK'
BY DEF StoreTypeOK

(* Every step of queue.add, its crash included, keeps the types.            *)
LEMMA ClientType == TypeOK /\ ClientNext => TypeOK'
  <1> SUFFICES ASSUME TypeOK, NEW j \in Jobs, AddSave(j) \/ AddPublish(j) \/ ClientCrash(j)
               PROVE  TypeOK'
    BY DEF ClientNext
  <1>1. CASE AddSave(j)
    <2>1. NewRecord(AddStatus(j)) \in JobRecord BY NewRecords DEF AddStatus, Statuses
    <2>2. StoreTypeOK' BY <1>1, <2>1, SaveType DEF AddSave, TypeOK
    <2> QED BY <1>1, <2>2 DEF AddSave, TypeOK, ExecTypeOK, RecoveryTypeOK, execVars, recoveryVars
  <1>2. CASE AddPublish(j)
    <2>2. StoreTypeOK' BY <1>2, PlaceType DEF AddPublish, Publish, TypeOK
    <2> QED BY <1>2, <2>2 DEF AddPublish, TypeOK, ExecTypeOK, RecoveryTypeOK, execVars, recoveryVars
  <1>3. CASE ClientCrash(j)
    BY <1>3, SystemAssumption DEF ClientCrash, TypeOK, ExecTypeOK, RecoveryTypeOK, StoreTypeOK, storeVars, execVars, recoveryVars, SystemAssumption
  <1> QED BY <1>1, <1>2, <1>3

-----------------------------------------------------------------------------
(* The executor.  Every lemma concludes the types of the adapters and of the *)
(* executor, and that registrations stay live.                              *)
ExecInv == StoreTypeOK /\ ExecTypeOK /\ RegistrationsLive

(* An activation that is not free has an instance, a job and two records.   *)
LEMMA BusyRuns ==
  ASSUME ExecTypeOK, NEW r \in Runs, run[r].pc # "free"
  PROVE  /\ run[r] \in BusyRun
         /\ run[r].node \in Nodes /\ run[r].job \in Jobs
         /\ run[r].rec \in JobRecord /\ run[r].prev \in JobRecord
BY DEF ExecTypeOK, FreeRun, BusyRun

(* An activation stays one when its record gets a status.                   *)
LEMMA RunWithStatus ==
  ASSUME NEW x \in BusyRun, NEW pc \in Pcs, NEW st \in Statuses
  PROVE  [x EXCEPT !.pc = pc, !.rec.status = st] \in BusyRun
BY DEF BusyRun, JobRecord

(* A refused gate leaves a well-typed record behind.                        *)
LEMMA RunRestored ==
  ASSUME NEW x \in BusyRun, NEW pc \in Pcs, NEW rec \in JobRecord
  PROVE  [x EXCEPT !.pc = pc, !.rec = rec, !.prev = NoRecord] \in BusyRun
BY FreshState DEF BusyRun

(* An activation whose flag changes stays that activation.                  *)
LEMMA RunFlags ==
  ASSUME NEW x \in BusyRun
  PROVE  /\ [x EXCEPT !.hb = FALSE] \in BusyRun
         /\ [x EXCEPT !.aborted = TRUE] \in BusyRun
         /\ [x EXCEPT !.hb = FALSE].pc = x.pc
         /\ [x EXCEPT !.hb = FALSE].node = x.node
         /\ [x EXCEPT !.hb = FALSE].job = x.job
         /\ [x EXCEPT !.aborted = TRUE].pc = x.pc
         /\ [x EXCEPT !.aborted = TRUE].node = x.node
         /\ [x EXCEPT !.aborted = TRUE].job = x.job
BY DEF BusyRun

(* The types survive the settling of a promise.                             *)
LEMMA Settling ==
  ASSUME ExecTypeOK, NEW r \in Runs, run[r].pc # "free", Settle(r)
  PROVE  /\ run' \in [Runs -> BusyRun \cup {FreeRun}]
         /\ slots' \in [Nodes -> SUBSET Jobs]
BY BusyRuns DEF Settle, ExecTypeOK

(* An activation that has given up its registrations can settle.            *)
LEMMA SettlingKeepsRegistrations ==
  ASSUME ExecInv, NEW r \in Runs, run[r].pc \notin Beating, Settle(r), UNCHANGED <<hbOf, acOf>>
  PROVE  RegistrationsLive'
BY DEF ExecInv, ExecTypeOK, RegistrationsLive, Settle, Abortable, Beating

(* The two registration maps stay well typed.                               *)
LEMMA Registering ==
  ASSUME NEW map \in [Nodes -> [Jobs -> Runs \cup {NoRun}]], NEW n \in Nodes, NEW j \in Jobs,
         NEW r \in Runs \cup {NoRun}, NEW after, after = Register(map, n, j, r)
  PROVE  /\ after \in [Nodes -> [Jobs -> Runs \cup {NoRun}]]
         /\ \A m \in Nodes, k \in Jobs :
              after[m][k] = IF m = n /\ k = j THEN r ELSE map[m][k]
BY DEF Register

(* poll finds no record behind the id: nothing the invariant is about       *)
(* changes.                                                                 *)
LEMMA FetchOrphanStep == ASSUME ExecInv, NEW r \in Runs, FetchOrphan(r) PROVE ExecInv'
  <1> USE DEF ExecInv
  <1>1. run[r] \in BusyRun BY BusyRuns DEF FetchOrphan, At
  <1>2. StoreTypeOK' BY <1>1, PlaceType, SaveType, FreshState DEF FetchOrphan, StoreTypeOK, storeVars, BusyRun
  <1>3. ExecTypeOK' BY <1>1, FreshState DEF FetchOrphan, ExecTypeOK, execVars, Goto, BusyRun, Pcs
  <1>4. RegistrationsLive'
    BY <1>1 DEF FetchOrphan, ExecTypeOK, RegistrationsLive, Abortable, Beating, execVars, At,
                Goto, BusyRun, FreeRun
  <1> QED BY <1>2, <1>3, <1>4

(* poll acks an id without a record, which has registered nothing yet.      *)
LEMMA AckOrphanStep == ASSUME ExecInv, NEW r \in Runs, AckOrphan(r) PROVE ExecInv'
  <1> USE DEF ExecInv
  <1>1. run[r] \in BusyRun BY BusyRuns DEF AckOrphan, At
  <1>2. StoreTypeOK' BY <1>1, PlaceType, SaveType, FreshState DEF AckOrphan, Ack, StoreTypeOK, storeVars, BusyRun
  <1>3. ExecTypeOK' BY <1>1, FreshState DEF AckOrphan, Ack, ExecTypeOK, execVars, Goto, BusyRun, Pcs
  <1>4. RegistrationsLive'
    BY <1>1 DEF AckOrphan, Ack, ExecTypeOK, RegistrationsLive, Abortable, Beating, execVars, At,
                Goto, BusyRun, FreeRun
  <1> QED BY <1>2, <1>3, <1>4

(* poll meets the id of another environment.                                *)
LEMMA FetchForeignStep == ASSUME ExecInv, NEW r \in Runs, FetchForeign(r) PROVE ExecInv'
  <1> USE DEF ExecInv
  <1>1. run[r] \in BusyRun BY BusyRuns DEF FetchForeign, At
  <1>2. StoreTypeOK' BY <1>1, PlaceType, SaveType, FreshState DEF FetchForeign, StoreTypeOK, storeVars, BusyRun
  <1>3. ExecTypeOK' BY <1>1, FreshState DEF FetchForeign, ExecTypeOK, execVars, Goto, BusyRun, Pcs
  <1>4. RegistrationsLive'
    BY <1>1 DEF FetchForeign, ExecTypeOK, RegistrationsLive, Abortable, Beating, execVars, At,
                Goto, BusyRun, FreeRun
  <1> QED BY <1>2, <1>3, <1>4

(* poll gives back the id of another environment.                           *)
LEMMA NackForeignStep == ASSUME ExecInv, NEW r \in Runs, NackForeign(r) PROVE ExecInv'
  <1> USE DEF ExecInv
  <1>1. run[r] \in BusyRun BY BusyRuns DEF NackForeign, At
  <1>2. StoreTypeOK' BY <1>1, PlaceType, SaveType, FreshState DEF NackForeign, Nack, StoreTypeOK, storeVars, BusyRun
  <1>3. ExecTypeOK' BY <1>1, FreshState DEF NackForeign, Nack, ExecTypeOK, execVars, Goto, BusyRun, Pcs
  <1>4. RegistrationsLive'
    BY <1>1 DEF NackForeign, Nack, ExecTypeOK, RegistrationsLive, Abortable, Beating, execVars, At,
                Goto, BusyRun, FreeRun
  <1> QED BY <1>2, <1>3, <1>4

(* The lease is somebody else's: executeJob turns back.                     *)
LEMMA AcquireRefusedStep == ASSUME ExecInv, NEW r \in Runs, AcquireRefused(r) PROVE ExecInv'
  <1> USE DEF ExecInv
  <1>1. run[r] \in BusyRun BY BusyRuns DEF AcquireRefused, At
  <1>2. StoreTypeOK' BY <1>1, PlaceType, SaveType, FreshState DEF AcquireRefused, StoreTypeOK, storeVars, BusyRun
  <1>3. ExecTypeOK' BY <1>1, FreshState DEF AcquireRefused, ExecTypeOK, execVars, Goto, BusyRun, Pcs
  <1>4. RegistrationsLive'
    BY <1>1 DEF AcquireRefused, ExecTypeOK, RegistrationsLive, Abortable, Beating, execVars, At,
                Goto, BusyRun, FreeRun
  <1> QED BY <1>2, <1>3, <1>4

(* executeJob gives back an id whose lease it did not get.                  *)
LEMMA NackRefusedStep == ASSUME ExecInv, NEW r \in Runs, NackRefused(r) PROVE ExecInv'
  <1> USE DEF ExecInv
  <1>1. run[r] \in BusyRun BY BusyRuns DEF NackRefused, At
  <1>2. StoreTypeOK' BY <1>1, PlaceType, SaveType, FreshState DEF NackRefused, Nack, Settle, StoreTypeOK, storeVars, BusyRun
  <1>3. ExecTypeOK' BY <1>1, FreshState DEF NackRefused, Nack, Settle, ExecTypeOK, execVars, Goto, BusyRun, Pcs
  <1>4. RegistrationsLive'
    BY <1>1 DEF NackRefused, Nack, Settle, ExecTypeOK, RegistrationsLive, Abortable, Beating, execVars, At,
                Goto, BusyRun, FreeRun
  <1> QED BY <1>2, <1>3, <1>4

(* The gates let the job through: it is still registered as before.         *)
LEMMA GatePassStep == ASSUME ExecInv, NEW r \in Runs, GatePass(r) PROVE ExecInv'
  <1> USE DEF ExecInv
  <1>1. run[r] \in BusyRun BY BusyRuns DEF GatePass, At
  <1>2. StoreTypeOK' BY <1>1, PlaceType, SaveType, FreshState DEF GatePass, StoreTypeOK, storeVars, BusyRun
  <1>3. ExecTypeOK' BY <1>1, FreshState DEF GatePass, ExecTypeOK, execVars, Goto, BusyRun, Pcs
  <1>4. RegistrationsLive'
    BY <1>1 DEF GatePass, ExecTypeOK, RegistrationsLive, Abortable, Beating, execVars, At,
                Goto, BusyRun, FreeRun
  <1> QED BY <1>2, <1>3, <1>4

(* Progress saves change the record only.                                   *)
LEMMA ProgressStep == ASSUME ExecInv, NEW r \in Runs, Progress(r) PROVE ExecInv'
  <1> USE DEF ExecInv
  <1>1. run[r] \in BusyRun BY BusyRuns DEF Progress, At
  <1>2. StoreTypeOK' BY <1>1, PlaceType, SaveType, FreshState DEF Progress, StoreTypeOK, storeVars, BusyRun
  <1>3. ExecTypeOK' BY <1>1, FreshState DEF Progress, ExecTypeOK, execVars, Goto, BusyRun, Pcs
  <1>4. RegistrationsLive'
    BY <1>1 DEF Progress, ExecTypeOK, RegistrationsLive, Abortable, Beating, execVars, At,
                Goto, BusyRun, FreeRun
  <1> QED BY <1>2, <1>3, <1>4

(* The save on the way back to the broker comes after the registrations     *)
(* are gone.                                                                *)
LEMMA NackSaveStep == ASSUME ExecInv, NEW r \in Runs, NackSave(r) PROVE ExecInv'
  <1> USE DEF ExecInv
  <1>1. run[r] \in BusyRun BY BusyRuns DEF NackSave, At
  <1>2. StoreTypeOK' BY <1>1, PlaceType, SaveType, FreshState DEF NackSave, StoreTypeOK, storeVars, BusyRun
  <1>3. ExecTypeOK' BY <1>1, FreshState DEF NackSave, ExecTypeOK, execVars, Goto, BusyRun, Pcs
  <1>4. RegistrationsLive'
    BY <1>1 DEF NackSave, ExecTypeOK, RegistrationsLive, Abortable, Beating, execVars, At,
                Goto, BusyRun, FreeRun
  <1> QED BY <1>2, <1>3, <1>4

(* The nack settles an activation that has no registration left.            *)
LEMMA NackSendStep == ASSUME ExecInv, NEW r \in Runs, NackSend(r) PROVE ExecInv'
  <1> USE DEF ExecInv
  <1>1. run[r] \in BusyRun BY BusyRuns DEF NackSend, At
  <1>2. StoreTypeOK' BY <1>1, PlaceType, SaveType, FreshState DEF NackSend, Nack, Settle, StoreTypeOK, storeVars, BusyRun
  <1>3. ExecTypeOK' BY <1>1, FreshState DEF NackSend, Nack, Settle, ExecTypeOK, execVars, Goto, BusyRun, Pcs
  <1>4. RegistrationsLive'
    BY <1>1 DEF NackSend, Nack, Settle, ExecTypeOK, RegistrationsLive, Abortable, Beating, execVars, At,
                Goto, BusyRun, FreeRun
  <1> QED BY <1>2, <1>3, <1>4

(* The final save comes after the registrations are gone.                   *)
LEMMA FinSaveStep == ASSUME ExecInv, NEW r \in Runs, FinSave(r) PROVE ExecInv'
  <1> USE DEF ExecInv
  <1>1. run[r] \in BusyRun BY BusyRuns DEF FinSave, At
  <1>2. StoreTypeOK' BY <1>1, PlaceType, SaveType, FreshState DEF FinSave, StoreTypeOK, storeVars, BusyRun
  <1>3. ExecTypeOK' BY <1>1, FreshState DEF FinSave, ExecTypeOK, execVars, Goto, BusyRun, Pcs
  <1>4. RegistrationsLive'
    BY <1>1 DEF FinSave, ExecTypeOK, RegistrationsLive, Abortable, Beating, execVars, At,
                Goto, BusyRun, FreeRun
  <1> QED BY <1>2, <1>3, <1>4

(* Deleting the record settles an activation without registrations.         *)
LEMMA PruneStep == ASSUME ExecInv, NEW r \in Runs, Prune(r) PROVE ExecInv'
  <1> USE DEF ExecInv
  <1>1. run[r] \in BusyRun BY BusyRuns DEF Prune, At
  <1>2. StoreTypeOK' BY <1>1, PlaceType, SaveType, FreshState DEF Prune, Settle, StoreTypeOK, storeVars, BusyRun
  <1>3. ExecTypeOK' BY <1>1, FreshState DEF Prune, Settle, ExecTypeOK, execVars, Goto, BusyRun, Pcs
  <1>4. RegistrationsLive'
    BY <1>1 DEF Prune, Settle, ExecTypeOK, RegistrationsLive, Abortable, Beating, execVars, At,
                Goto, BusyRun, FreeRun
  <1> QED BY <1>2, <1>3, <1>4

(* A cancelled job found after an abort settles the activation without a    *)
(* save.                                                                    *)
LEMMA FinReadStep == ASSUME ExecInv, NEW r \in Runs, FinRead(r) PROVE ExecInv'
  <1> USE DEF ExecInv
  <1>1. run[r] \in BusyRun /\ run[r].pc # "free" /\ run[r].pc \notin Beating
    BY BusyRuns DEF FinRead, At, Beating, Abortable
  <1>2. StoreTypeOK' BY <1>1, PlaceType DEF FinRead, Ack, StoreTypeOK, storeVars, BusyRun
  <1>3. CASE Settle(r)
    <2>1. ExecTypeOK' BY <1>1, <1>3, Settling, ExecutorAssumption DEF FinRead, ExecTypeOK, ExecutorAssumption
    <2>2. RegistrationsLive' BY <1>1, <1>3, SettlingKeepsRegistrations DEF FinRead
    <2> QED BY <1>2, <2>1, <2>2
  <1>4. CASE ~Settle(r)
    <2>0. \E pc \in Pcs : Goto(r, pc) /\ UNCHANGED <<node, hbOf, acOf, slots, faults>>
      BY <1>4 DEF FinRead, Pcs
    <2>1. ExecTypeOK' BY <1>1, <2>0 DEF Goto, ExecTypeOK, BusyRun
    <2>2. RegistrationsLive' BY <1>1, <2>0 DEF Goto, ExecTypeOK, RegistrationsLive, BusyRun, Beating
    <2> QED BY <1>2, <2>1, <2>2
  <1> QED BY <1>3, <1>4

(* The final ack settles the activation, or leaves the pruning to do.       *)
LEMMA FinAckStep == ASSUME ExecInv, NEW r \in Runs, FinAck(r) PROVE ExecInv'
  <1> USE DEF ExecInv
  <1>1. run[r] \in BusyRun /\ run[r].pc # "free" /\ run[r].pc \notin Beating
    BY BusyRuns DEF FinAck, At, Beating, Abortable
  <1>2. StoreTypeOK' BY <1>1, PlaceType DEF FinAck, Ack, StoreTypeOK, storeVars, BusyRun
  <1>3. CASE Settle(r)
    <2>1. ExecTypeOK' BY <1>1, <1>3, Settling, ExecutorAssumption DEF FinAck, ExecTypeOK, ExecutorAssumption
    <2>2. RegistrationsLive' BY <1>1, <1>3, SettlingKeepsRegistrations DEF FinAck
    <2> QED BY <1>2, <2>1, <2>2
  <1>4. CASE ~Settle(r)
    <2>0. \E pc \in Pcs : Goto(r, pc) /\ UNCHANGED <<node, hbOf, acOf, slots, faults>>
      BY <1>4 DEF FinAck, Pcs
    <2>1. ExecTypeOK' BY <1>1, <2>0 DEF Goto, ExecTypeOK, BusyRun
    <2>2. RegistrationsLive' BY <1>1, <2>0 DEF Goto, ExecTypeOK, RegistrationsLive, BusyRun, Beating
    <2> QED BY <1>2, <2>1, <2>2
  <1> QED BY <1>3, <1>4

(* A storage call that throws on the way out settles the activation.        *)
LEMMA SettleFailsStep == ASSUME ExecInv, NEW r \in Runs, SettleFails(r) PROVE ExecInv'
  <1> USE DEF ExecInv
  <1>1. run[r].pc # "free" /\ run[r].pc \notin Beating BY DEF SettleFails, Beating, Abortable
  <1>2. StoreTypeOK' BY DEF SettleFails, StoreTypeOK, storeVars
  <1>3. ExecTypeOK'
    BY <1>1, Settling, ExecutorAssumption DEF SettleFails, ExecTypeOK, ExecutorAssumption
  <1>4. RegistrationsLive' BY <1>1, SettlingKeepsRegistrations DEF SettleFails
  <1> QED BY <1>2, <1>3, <1>4

(* An activation whose first save throws keeps its registrations: that is   *)
(* the leak.                                                                *)
LEMMA ActivateFailsStep == ASSUME ExecInv, NEW r \in Runs, ActivateFails(r) PROVE ExecInv'
  <1> USE DEF ExecInv
  <1>1. run[r] \in BusyRun BY BusyRuns DEF ActivateFails, At
  <1>2. StoreTypeOK' BY DEF ActivateFails, StoreTypeOK, storeVars
  <1>3. run' \in [Runs -> BusyRun \cup {FreeRun}]
    BY <1>1, FreshState DEF ActivateFails, ExecTypeOK, BusyRun, Pcs
  <1>4. slots' \in [Nodes -> SUBSET Jobs] /\ faults' \in 0 .. MaxFaults
    BY <1>1, ExecutorAssumption DEF ActivateFails, ExecTypeOK, BusyRun, ExecutorAssumption
  <1>5. RegistrationsLive'
    BY <1>1 DEF ActivateFails, ExecTypeOK, RegistrationsLive, Abortable, Beating, At, BusyRun
  <1> QED BY <1>2, <1>3, <1>4, <1>5 DEF ActivateFails, ExecTypeOK

(* A refused gate keeps the registrations until the heartbeat is stopped.   *)
LEMMA GateRefuseStep == ASSUME ExecInv, NEW r \in Runs, GateRefuse(r) PROVE ExecInv'
  <1> USE DEF ExecInv
  <1>1. run[r] \in BusyRun BY BusyRuns DEF GateRefuse, At
  <1>2. StoreTypeOK' BY DEF GateRefuse, StoreTypeOK, storeVars
  <1>3. Restored(r) \in JobRecord BY <1>1 DEF Restored, BusyRun, JobRecord
  <1>4. run' = [run EXCEPT ![r] = [run[r] EXCEPT !.pc = "nackStop", !.rec = Restored(r), !.prev = NoRecord]]
    BY DEF GateRefuse
  <1>5. run'[r] \in BusyRun BY <1>1, <1>3, <1>4, RunRestored DEF ExecTypeOK, Pcs
  <1>6. ExecTypeOK' BY <1>4, <1>5 DEF GateRefuse, ExecTypeOK
  <1>7. RegistrationsLive'
    BY <1>1 DEF GateRefuse, ExecTypeOK, RegistrationsLive, Abortable, Beating, At, BusyRun
  <1> QED BY <1>2, <1>6, <1>7

(* The save that marks the job active keeps the registrations.              *)
LEMMA ActivateStep == ASSUME ExecInv, NEW r \in Runs, Activate(r) PROVE ExecInv'
  <1> USE DEF ExecInv
  <1>1. run[r] \in BusyRun BY BusyRuns DEF Activate, At
  <1>2. Activated(r) \in JobRecord BY <1>1, RecordUpdates DEF Activated, BusyRun, Statuses
  <1>3. StoreTypeOK' BY <1>1, <1>2, SaveType DEF Activate, BusyRun
  <1>4. run' \in [Runs -> BusyRun \cup {FreeRun}]
    BY <1>1, <1>2, FreshState DEF Activate, ExecTypeOK, BusyRun, Pcs
  <1>5. RegistrationsLive'
    BY <1>1 DEF Activate, ExecTypeOK, RegistrationsLive, Abortable, Beating, At, BusyRun
  <1> QED BY <1>3, <1>4, <1>5 DEF Activate, ExecTypeOK

(* A retry keeps the registrations until the heartbeat is stopped.          *)
LEMMA HandlerRetriesStep == ASSUME ExecInv, NEW r \in Runs, HandlerRetries(r) PROVE ExecInv'
  <1> USE DEF ExecInv
  <1>1. run[r] \in BusyRun BY BusyRuns DEF HandlerRetries, At
  <1>2. StoreTypeOK' BY DEF HandlerRetries, StoreTypeOK, storeVars
  <1>3. run' = [run EXCEPT ![r] = [run[r] EXCEPT !.pc = "nackStop", !.rec.status = "delayed"]]
    BY DEF HandlerRetries
  <1>4. run'[r] \in BusyRun BY <1>1, <1>3, RunWithStatus DEF ExecTypeOK, Pcs, Statuses
  <1>5. ExecTypeOK' BY <1>3, <1>4 DEF HandlerRetries, ExecTypeOK
  <1>6. RegistrationsLive'
    BY <1>1 DEF HandlerRetries, ExecTypeOK, RegistrationsLive, Abortable, Beating, At, BusyRun
  <1> QED BY <1>2, <1>5, <1>6

(* A handler that ends, one way or another, leaves the controllers.         *)
LEMMA HandlerEndsStep ==
  ASSUME ExecInv, NEW r \in Runs, run[r].pc = "running", NEW x \in BusyRun,
         x.pc = "finStop", x.node = run[r].node, x.job = run[r].job,
         run' = [run EXCEPT ![r] = x],
         acOf' = Unregister(acOf, run[r].node, run[r].job),
         UNCHANGED <<storeVars, node, hbOf, slots, faults>>
  PROVE  ExecInv'
  <1> USE DEF ExecInv
  <1>1. run[r].node \in Nodes /\ run[r].job \in Jobs BY BusyRuns
  <1>2. StoreTypeOK' BY DEF StoreTypeOK, storeVars
  <1>3. /\ acOf' \in [Nodes -> [Jobs -> Runs \cup {NoRun}]]
        /\ \A m \in Nodes, k \in Jobs :
             acOf'[m][k] = IF m = run[r].node /\ k = run[r].job THEN NoRun ELSE acOf[m][k]
    BY <1>1, Registering DEF Unregister, ExecTypeOK
  <1>4. ExecTypeOK' BY <1>3 DEF ExecTypeOK
  <1>5. RegistrationsLive'
    BY <1>3, ExecutorAssumption
    DEF RegistrationsLive, ExecTypeOK, Abortable, Beating, ExecutorAssumption
  <1> QED BY <1>2, <1>4, <1>5

(* Finish drops the controller of the job before it moves on.               *)
LEMMA FinishStep ==
  ASSUME ExecInv, NEW r \in Runs, At(r, "running"), NEW st \in Statuses, Finish(r, st)
  PROVE  ExecInv'
  <1> DEFINE x == [run[r] EXCEPT !.pc = "finStop", !.rec.status = st]
  <1>1. run[r] \in BusyRun BY BusyRuns DEF ExecInv, At
  <1>2. x \in BusyRun BY <1>1, RunWithStatus DEF Pcs
  <1>3. x.pc = "finStop" /\ x.node = run[r].node /\ x.job = run[r].job BY <1>1 DEF BusyRun
  <1>4. /\ run' = [run EXCEPT ![r] = x]
        /\ acOf' = Unregister(acOf, run[r].node, run[r].job)
        /\ UNCHANGED <<storeVars, node, hbOf, slots, faults>>
    BY DEF Finish
  <1> HIDE DEF x
  <1> QED BY <1>2, <1>3, <1>4, HandlerEndsStep DEF At

(* A handler that returns, fails or discards ends through Finish.           *)
LEMMA HandlerStep ==
  ASSUME ExecInv, NEW r \in Runs,
         HandlerSucceeds(r) \/ HandlerDiscards(r) \/ HandlerFails(r)
  PROVE  ExecInv'
  <1>1. /\ At(r, "running")
        /\ Finish(r, "failed") \/ Finish(r, "completed")
    BY DEF HandlerSucceeds, HandlerDiscards, HandlerFails
  <1> QED BY <1>1, FinishStep DEF Statuses

(* A timeout aborts and drops the controller in one step.                   *)
LEMMA HandlerTimesOutStep == ASSUME ExecInv, NEW r \in Runs, HandlerTimesOut(r) PROVE ExecInv'
  <1> DEFINE x == [run[r] EXCEPT !.pc = "finStop", !.rec.status = "failed", !.aborted = TRUE]
  <1>1. run[r] \in BusyRun BY BusyRuns DEF ExecInv, At, HandlerTimesOut
  <1>2. x \in BusyRun
    <2>1. [run[r] EXCEPT !.pc = "finStop", !.rec.status = "failed"] \in BusyRun
      BY <1>1, RunWithStatus DEF Pcs, Statuses
    <2> QED BY <2>1, RunFlags
  <1>3. x.pc = "finStop" /\ x.node = run[r].node /\ x.job = run[r].job BY <1>1 DEF BusyRun
  <1>4. /\ run' = [run EXCEPT ![r] = x]
        /\ acOf' = Unregister(acOf, run[r].node, run[r].job)
        /\ UNCHANGED <<storeVars, node, hbOf, slots, faults>>
    BY DEF HandlerTimesOut
  <1> HIDE DEF x
  <1> QED BY <1>2, <1>3, <1>4, HandlerEndsStep DEF At, HandlerTimesOut

(* Releasing a lease keeps the locks well typed.                            *)
LEMMA ReleaseType ==
  ASSUME StoreTypeOK, NEW k \in Kinds \X Jobs, NEW n, Release(k, n), UNCHANGED <<store, place>>
  PROVE  StoreTypeOK'
BY DEF StoreTypeOK, Release

(* Lease keys are in the domain of the locks.                               *)
LEMMA KeyType == ASSUME NEW n \in Nodes, NEW j \in Jobs PROVE Key(n, j) \in Kinds \X Jobs
BY StoreAssumption DEF StoreAssumption, Key, Kinds

(* heartbeat.stop() keeps the locks and the registrations well typed.       *)
LEMMA StopHeartbeatType ==
  ASSUME ExecInv, NEW r \in Runs, run[r].pc # "free", StopHeartbeat(r), UNCHANGED <<store, place>>
  PROVE  /\ StoreTypeOK'
         /\ hbOf' \in [Nodes -> [Jobs -> Runs \cup {NoRun}]]
         /\ \A m \in Nodes, k \in Jobs :
              \/ hbOf'[m][k] = hbOf[m][k]
              \/ hbOf'[m][k] = NoRun
         /\ run[r].job \in Guaranteed => hbOf'[run[r].node][run[r].job] = NoRun
  <1> USE DEF ExecInv
  <1>1. run[r].node \in Nodes /\ run[r].job \in Jobs BY BusyRuns
  <1>2. CASE run[r].job \notin Guaranteed
    BY <1>1, <1>2 DEF StopHeartbeat, StoreTypeOK, ExecTypeOK
  <1>3. CASE run[r].job \in Guaranteed
    <2>1. StoreTypeOK' BY <1>1, <1>3, KeyType, ReleaseType DEF StopHeartbeat
    <2>2. hbOf' = Register(hbOf, run[r].node, run[r].job, NoRun)
      BY <1>3 DEF StopHeartbeat, Unregister
    <2> QED BY <1>1, <2>1, <2>2, Registering DEF ExecTypeOK
  <1> QED BY <1>2, <1>3

(* On the way back both registrations go before the activation leaves the   *)
(* abortable states.                                                        *)
LEMMA NackStopStep == ASSUME ExecInv, NEW r \in Runs, NackStop(r) PROVE ExecInv'
  <1> USE DEF ExecInv
  <1>1. run[r] \in BusyRun /\ run[r].node \in Nodes /\ run[r].job \in Jobs /\ run[r].pc # "free"
    BY BusyRuns DEF NackStop, At
  <1>2. /\ StoreTypeOK'
        /\ hbOf' \in [Nodes -> [Jobs -> Runs \cup {NoRun}]]
        /\ \A m \in Nodes, k \in Jobs : hbOf'[m][k] = hbOf[m][k] \/ hbOf'[m][k] = NoRun
        /\ run[r].job \in Guaranteed => hbOf'[run[r].node][run[r].job] = NoRun
    BY <1>1, StopHeartbeatType DEF NackStop
  <1>a. acOf' = Register(acOf, run[r].node, run[r].job, NoRun) BY DEF NackStop, Unregister
  <1>3. /\ acOf' \in [Nodes -> [Jobs -> Runs \cup {NoRun}]]
        /\ \A m \in Nodes, k \in Jobs :
             acOf'[m][k] = IF m = run[r].node /\ k = run[r].job THEN NoRun ELSE acOf[m][k]
    BY <1>1, <1>a, Registering DEF ExecTypeOK
  <1>4. ExecTypeOK' BY <1>1, <1>2, <1>3 DEF NackStop, ExecTypeOK, BusyRun, Pcs
  <1>5. RegistrationsLive'
    BY <1>1, <1>2, <1>3, ExecutorAssumption
    DEF NackStop, RegistrationsLive, ExecTypeOK, BusyRun, ExecutorAssumption
  <1> QED BY <1>2, <1>4, <1>5

(* On the way out the heartbeat registration goes with the timer.           *)
LEMMA FinStopStep == ASSUME ExecInv, NEW r \in Runs, FinStop(r) PROVE ExecInv'
  <1> USE DEF ExecInv
  <1>1. run[r] \in BusyRun /\ run[r].node \in Nodes /\ run[r].job \in Jobs /\ run[r].pc = "finStop"
    BY BusyRuns DEF FinStop, At
  <1>2. /\ StoreTypeOK'
        /\ hbOf' \in [Nodes -> [Jobs -> Runs \cup {NoRun}]]
        /\ \A m \in Nodes, k \in Jobs : hbOf'[m][k] = hbOf[m][k] \/ hbOf'[m][k] = NoRun
        /\ run[r].job \in Guaranteed => hbOf'[run[r].node][run[r].job] = NoRun
    BY <1>1, StopHeartbeatType DEF FinStop
  <1>3. ExecTypeOK' BY <1>1, <1>2 DEF FinStop, ExecTypeOK, BusyRun, Pcs
  <1>4. RegistrationsLive'
    BY <1>1, <1>2, ExecutorAssumption
    DEF FinStop, RegistrationsLive, ExecTypeOK, BusyRun, ExecutorAssumption, Abortable, Beating
  <1> QED BY <1>2, <1>3, <1>4

(* poll starts the activation; without a lease its controller is            *)
(* registered at once.                                                      *)
LEMMA FetchStep == ASSUME ExecInv, NEW r \in Runs, Fetch(r) PROVE ExecInv'
  <1> USE DEF ExecInv
  <1>1. /\ run[r] \in BusyRun /\ run[r].pc = "fetch"
        /\ run[r].node \in Nodes /\ run[r].job \in Jobs
    BY BusyRuns DEF Fetch, At
  <1>2. StoreTypeOK' BY DEF Fetch, StoreTypeOK, storeVars
  <1>3. store[run[r].job] \in JobRecord BY <1>1 DEF StoreTypeOK
  <1>4. CASE run[r].job \in Guaranteed
    <2>1. ExecTypeOK' BY <1>1, <1>3, <1>4 DEF Fetch, ExecTypeOK, BusyRun, Pcs
    <2>2. RegistrationsLive'
      BY <1>1, <1>4 DEF Fetch, RegistrationsLive, ExecTypeOK, BusyRun, Abortable, Beating
    <2> QED BY <1>2, <2>1, <2>2
  <1>5. CASE run[r].job \notin Guaranteed
    <2>1. /\ acOf' \in [Nodes -> [Jobs -> Runs \cup {NoRun}]]
          /\ \A m \in Nodes, k \in Jobs :
               acOf'[m][k] = IF m = run[r].node /\ k = run[r].job THEN r ELSE acOf[m][k]
      BY <1>1, <1>5, Registering DEF Fetch, ExecTypeOK
    <2>2. ExecTypeOK' BY <1>1, <1>3, <1>5, <2>1 DEF Fetch, ExecTypeOK, BusyRun, Pcs
    <2>3. RegistrationsLive'
      BY <1>1, <1>5, <2>1 DEF Fetch, RegistrationsLive, ExecTypeOK, BusyRun, Abortable, Beating
    <2> QED BY <1>2, <2>2, <2>3
  <1> QED BY <1>4, <1>5

(* heartbeat and controller of the activation are registered together.      *)
LEMMA AcquireLockStep ==
  ASSUME ExecInv, NEW r \in Runs, AcquireLock(r)
  PROVE  ExecInv'
  <1> USE DEF ExecInv
  <1>1. /\ run[r] \in BusyRun /\ run[r].pc = "acquire"
        /\ run[r].node \in Nodes /\ run[r].job \in Jobs
    BY BusyRuns DEF AcquireLock, At
  <1>2. StoreTypeOK' BY <1>1, KeyType DEF AcquireLock, Acquire, StoreTypeOK
  <1>a. /\ acOf' = Register(acOf, run[r].node, run[r].job, r)
        /\ hbOf' = Register(hbOf, run[r].node, run[r].job, r)
    BY DEF AcquireLock
  <1>3. /\ acOf' \in [Nodes -> [Jobs -> Runs \cup {NoRun}]]
        /\ \A m \in Nodes, k \in Jobs :
             acOf'[m][k] = IF m = run[r].node /\ k = run[r].job THEN r ELSE acOf[m][k]
    BY <1>1, <1>a, Registering DEF ExecTypeOK
  <1>4. /\ hbOf' \in [Nodes -> [Jobs -> Runs \cup {NoRun}]]
        /\ \A m \in Nodes, k \in Jobs :
             hbOf'[m][k] = IF m = run[r].node /\ k = run[r].job THEN r ELSE hbOf[m][k]
    BY <1>1, <1>a, Registering DEF ExecTypeOK
  <1>5. ExecTypeOK' BY <1>1, <1>3, <1>4 DEF AcquireLock, ExecTypeOK, BusyRun, Pcs
  <1>6. RegistrationsLive'
    BY <1>1, <1>3, <1>4 DEF AcquireLock, RegistrationsLive, ExecTypeOK, BusyRun, Abortable, Beating
  <1> QED BY <1>2, <1>5, <1>6

(* Aborting and silencing touch two flags of busy activations.              *)
SameButFlags(f, g) ==
  /\ g \in [Runs -> BusyRun \cup {FreeRun}]
  /\ \A r \in Runs : /\ g[r].pc = f[r].pc /\ g[r].node = f[r].node /\ g[r].job = f[r].job
                     /\ g[r].rec = f[r].rec

(* Aborting changes the flags of activations and nothing else.              *)
LEMMA Aborting ==
  ASSUME ExecInv, NEW f, SameButFlags(run, f), NEW n \in Nodes, NEW j \in Jobs
  PROVE  SameButFlags(run, AbortIn(f, n, j))
  <1>1. ASSUME NEW r \in Runs, acOf[n][j] = r PROVE f[r] \in BusyRun
    <2>1. run[r].pc # "free" BY <1>1 DEF ExecInv, RegistrationsLive, Beating, Abortable
    <2>2. f[r].pc # "free" /\ f[r] \in BusyRun \cup {FreeRun} BY <2>1 DEF SameButFlags
    <2> QED BY <2>2 DEF FreeRun
  <1> QED BY <1>1 DEF SameButFlags, AbortIn, BusyRun

(* Stopping a heartbeat changes the flags of activations and nothing        *)
(* else.                                                                    *)
LEMMA Silencing ==
  ASSUME ExecInv, NEW f, SameButFlags(run, f), NEW n \in Nodes, NEW j \in Jobs
  PROVE  SameButFlags(run, SilenceIn(f, n, j))
  <1>1. ASSUME NEW r \in Runs, hbOf[n][j] = r PROVE f[r] \in BusyRun
    <2>1. run[r].pc # "free" BY <1>1 DEF ExecInv, RegistrationsLive, Beating, Abortable
    <2>2. f[r].pc # "free" /\ f[r] \in BusyRun \cup {FreeRun} BY <2>1 DEF SameButFlags
    <2> QED BY <2>2 DEF FreeRun
  <1> QED BY <1>1 DEF SameButFlags, SilenceIn, BusyRun

(* The timer that finds its lease gone flags activations only.              *)
LEMMA HeartbeatLostStep ==
  ASSUME ExecInv, NEW r \in Runs, HeartbeatLost(r)
  PROVE  ExecInv'
  <1> USE DEF ExecInv
  <1>1. /\ run[r] \in BusyRun /\ run[r].pc # "free"
        /\ run[r].node \in Nodes /\ run[r].job \in Jobs
    BY BusyRuns DEF HeartbeatLost, ExecTypeOK, FreeRun, BusyRun, Pcs
  <1>2. SameButFlags(run, [run EXCEPT ![r].hb = FALSE])
    <2>1. [run[r] EXCEPT !.hb = FALSE].rec = run[r].rec BY <1>1 DEF BusyRun
    <2>2. [run[r] EXCEPT !.hb = FALSE] \in BusyRun BY <1>1, RunFlags
    <2>3. [run EXCEPT ![r].hb = FALSE] \in [Runs -> BusyRun \cup {FreeRun}]
      BY <2>2 DEF ExecTypeOK
    <2> QED BY <1>1, <2>1, <2>3, RunFlags DEF SameButFlags, ExecTypeOK
  <1>3. SameButFlags(run, run') BY <1>1, <1>2, Aborting DEF HeartbeatLost
  <1>4. UNCHANGED <<storeVars, node, hbOf, acOf, slots, faults>> BY DEF HeartbeatLost
  <1>5. StoreTypeOK' BY <1>4 DEF StoreTypeOK, storeVars
  <1>6. ExecTypeOK' BY <1>3, <1>4 DEF SameButFlags, ExecTypeOK
  <1>7. RegistrationsLive' BY <1>3, <1>4 DEF SameButFlags, RegistrationsLive
  <1> QED BY <1>5, <1>6, <1>7

(* A claim takes a free activation, to which no registration points.        *)
LEMMA ClaimStep ==
  ASSUME ExecInv, NEW n \in Nodes, NEW j \in Jobs, NEW r \in Runs, Claim(n, j, r)
  PROVE  ExecInv'
  <1> USE DEF ExecInv
  <1>1. StoreTypeOK' BY PlaceType DEF Claim, TakeClaim
  <1>2. [FreeRun EXCEPT !.pc = "fetch", !.node = n, !.job = j] \in BusyRun
    BY FreshState DEF FreeRun, BusyRun, Pcs
  <1>3. ExecTypeOK' BY <1>2 DEF Claim, ExecTypeOK
  <1>4. RegistrationsLive' BY DEF Claim, At, RegistrationsLive, ExecTypeOK, Abortable, Beating
  <1> QED BY <1>1, <1>3, <1>4

(* Every step of the executor keeps the executor part of the invariant.     *)
LEMMA ExecutorSteps ==
  ASSUME ExecInv, ExecutorNext
  PROVE  ExecInv'
BY ClaimStep, FetchOrphanStep, AckOrphanStep, FetchForeignStep, NackForeignStep, FetchStep,
   AcquireLockStep, AcquireRefusedStep, NackRefusedStep, ActivateStep, ActivateFailsStep,
   GatePassStep, GateRefuseStep, ProgressStep, HandlerStep, HandlerRetriesStep,
   HandlerTimesOutStep, NackStopStep, NackSaveStep, NackSendStep, FinStopStep, FinReadStep,
   FinSaveStep, SettleFailsStep, FinAckStep, PruneStep, HeartbeatLostStep
   DEF ExecutorNext, ExecutorStep

-----------------------------------------------------------------------------
(* Clients, recovery actors and processes.  The inductive invariant: types   *)
(* alone are not enough, since stop(), the stall handler and a cancellation *)
(* follow the registration maps to the activations they flag.               *)
IInv == TypeOK /\ RegistrationsLive

(* A step that leaves adapters and executor alone keeps their invariant.    *)
LEMMA Untouched ==
  ASSUME ExecInv, UNCHANGED <<store, place, lock, node, run, hbOf, acOf, slots, faults>>
  PROVE  ExecInv'
BY DEF ExecInv, StoreTypeOK, ExecTypeOK, RegistrationsLive

(* So does a step that only touches the adapters and keeps their types.     *)
LEMMA StoreOnly ==
  ASSUME ExecInv, StoreTypeOK', UNCHANGED <<node, run, hbOf, acOf, slots, faults>>
  PROVE  ExecInv'
BY DEF ExecInv, ExecTypeOK, RegistrationsLive

(* A recovery actor at work on a job is well typed.                         *)
LEMMA Actors ==
  ASSUME NEW pcs, NEW pc \in pcs, NEW j \in Jobs, NEW rec \in JobRecord
  PROVE  Doing(pc, j, rec) \in Actor(pcs)
BY DEF Doing, Actor

(* A recovery actor that starts, moves on or ends stays well typed.         *)
LEMMA ActorMoves ==
  ASSUME NEW pcs, NEW a \in Actor(pcs), a.pc # "idle", NEW pc \in pcs
  PROVE  /\ a.job \in Jobs /\ a.snap \in JobRecord
         /\ [a EXCEPT !.pc = pc] \in Actor(pcs)
BY DEF Actor, IdleActor

(* Giving a job up drops its registrations and flags its activations.       *)
LEMMA AbandonSteps ==
  ASSUME ExecInv, StoreTypeOK', NEW n \in Nodes, NEW j \in Jobs, Abandon(n, j),
         UNCHANGED <<node, faults>>
  PROVE  ExecInv'
  <1> USE DEF ExecInv
  <1>1. SameButFlags(run, run) BY DEF SameButFlags, ExecTypeOK
  <1>2. SameButFlags(run, AbortIn(run, n, j)) BY <1>1, Aborting
  <1>3. SameButFlags(run, run') BY <1>2, Silencing DEF Abandon
  <1>a. acOf' = Register(acOf, n, j, NoRun) BY DEF Abandon, Unregister
  <1>h. hbOf' = Register(hbOf, n, j, NoRun) BY DEF Abandon, Unregister
  <1>5. /\ acOf' \in [Nodes -> [Jobs -> Runs \cup {NoRun}]]
        /\ \A m \in Nodes, k \in Jobs :
             acOf'[m][k] = IF m = n /\ k = j THEN NoRun ELSE acOf[m][k]
    BY <1>a, Registering DEF ExecTypeOK
  <1>6. /\ hbOf' \in [Nodes -> [Jobs -> Runs \cup {NoRun}]]
        /\ \A m \in Nodes, k \in Jobs :
             hbOf'[m][k] = IF m = n /\ k = j THEN NoRun ELSE hbOf[m][k]
    <2>1. hbOf \in [Nodes -> [Jobs -> Runs \cup {NoRun}]] BY DEF ExecTypeOK
    <2> HIDE DEF ExecInv
    <2> QED BY <1>h, <2>1 DEF Register
  <1>7. slots' \in [Nodes -> SUBSET Jobs] BY DEF Abandon, ExecTypeOK
  <1>8. ExecTypeOK' BY <1>3, <1>5, <1>6, <1>7 DEF ExecTypeOK, SameButFlags
  <1>9. RegistrationsLive'
    BY <1>3, <1>5, <1>6, ExecutorAssumption
    DEF RegistrationsLive, SameButFlags, ExecutorAssumption
  <1> QED BY <1>8, <1>9

(* Stopping a registered heartbeat keeps the locks well typed.              *)
LEMMA ReleaseRegisteredType ==
  ASSUME StoreTypeOK, NEW n \in Nodes, NEW j \in Jobs, ReleaseRegistered(n, j),
         UNCHANGED <<store, place>>
  PROVE  StoreTypeOK'
BY KeyType, ReleaseType DEF ReleaseRegistered, StoreTypeOK

(* Every step of the stall detector keeps the invariant.                    *)
LEMMA DetectorSteps ==
  ASSUME ExecInv, RecoveryTypeOK, NEW n \in Nodes,
         DetectorStep(n) \/ \E j \in Jobs : StallList(n, j)
  PROVE  ExecInv' /\ RecoveryTypeOK'
  <1> USE DEF ExecInv
  <1>1. ASSUME NEW j \in Jobs, StallList(n, j) PROVE ExecInv' /\ RecoveryTypeOK'
    <2>1. ExecInv' BY <1>1, Untouched DEF StallList, storeVars, adapterless
    <2>2. RecoveryTypeOK'
      BY <1>1, FreshState, Actors DEF StallList, adapterless, RecoveryTypeOK, StallPcs
    <2> QED BY <2>1, <2>2
  <1>2. CASE StallOwned(n)
    <2>1. ExecInv' BY <1>2, Untouched DEF StallOwned, storeVars, adapterless
    <2>2. RecoveryTypeOK' BY <1>2, FreshState DEF StallOwned, adapterless, RecoveryTypeOK
    <2> QED BY <2>1, <2>2
  <1>j. stall[n].pc # "idle" => stall[n].job \in Jobs /\ stall[n].snap \in JobRecord
    BY ActorMoves DEF RecoveryTypeOK, Actor, IdleActor
  <1>3. CASE StallQueue(n)
    <2>1. stall[n].job \in Jobs BY <1>3, <1>j DEF StallQueue
    <2>2. StoreTypeOK' BY <1>3, <2>1, ReleaseRegisteredType DEF StallQueue
    <2>3. ExecInv' BY <1>3, <2>1, <2>2, AbandonSteps DEF StallQueue
    <2>4. RecoveryTypeOK' BY <1>3, FreshState DEF StallQueue, RecoveryTypeOK
    <2> QED BY <2>3, <2>4
  <1>4. CASE StallWorker(n)
    <2>1. ExecInv' BY <1>4, Untouched DEF StallWorker, storeVars, adapterless
    <2>2. [stall[n] EXCEPT !.pc = "get"] \in Actor(StallPcs)
      BY <1>4, ActorMoves DEF StallWorker, RecoveryTypeOK, StallPcs
    <2>3. RecoveryTypeOK' BY <1>4, <2>2 DEF StallWorker, adapterless, RecoveryTypeOK
    <2> QED BY <2>1, <2>3
  <1>5. CASE StallGet(n)
    <2>1. ExecInv' BY <1>5, Untouched DEF StallGet, storeVars, adapterless
    <2>2. stall[n].job \in Jobs /\ store[stall[n].job] \in JobRecord
      BY <1>5, <1>j DEF StallGet, StoreTypeOK
    <2>3. stall'[n] \in Actor(StallPcs)
      BY <1>5, <2>2, RecordUpdates, Actors, FreshState
      DEF StallGet, RecoveryTypeOK, Statuses, StallPcs
    <2>4. RecoveryTypeOK' BY <1>5, <2>3 DEF StallGet, adapterless, RecoveryTypeOK
    <2> QED BY <2>1, <2>4
  <1>6. CASE StallFail(n)
    <2>1. StoreTypeOK' BY <1>6, <1>j, SaveType DEF StallFail
    <2>2. ExecInv' BY <1>6, <2>1, StoreOnly DEF StallFail, adapterless
    <2>3. RecoveryTypeOK' BY <1>6, FreshState DEF StallFail, adapterless, RecoveryTypeOK
    <2> QED BY <2>2, <2>3
  <1>7. CASE StallSave(n)
    <2>1. stall[n].job \in Jobs /\ stall[n].snap \in JobRecord BY <1>7, <1>j DEF StallSave
    <2>2. store' \in [Jobs -> JobRecord] BY <1>7, <2>1 DEF StallSave, Save, StoreTypeOK
    <2>3. lock' \in [Kinds \X Jobs -> Nodes \cup {NoNode}]
      BY <1>7, <2>1, KeyType DEF StallSave, ReleaseRegistered, Release, StoreTypeOK
    <2>4. StoreTypeOK' BY <1>7, <2>2, <2>3 DEF StallSave, StoreTypeOK
    <2>5. ExecInv' BY <1>7, <2>1, <2>4, AbandonSteps DEF StallSave
    <2>6. RecoveryTypeOK'
      BY <1>7, <2>1, FreshState, Actors DEF StallSave, RecoveryTypeOK, StallPcs
    <2> QED BY <2>5, <2>6
  <1>8. CASE StallNack(n)
    <2>1. StoreTypeOK' BY <1>8, <1>j, PlaceType DEF StallNack, Nack
    <2>2. ExecInv' BY <1>8, <2>1, StoreOnly DEF StallNack, adapterless
    <2>3. RecoveryTypeOK' BY <1>8, FreshState DEF StallNack, adapterless, RecoveryTypeOK
    <2> QED BY <2>2, <2>3
  <1> QED BY <1>1, <1>2, <1>3, <1>4, <1>5, <1>6, <1>7, <1>8 DEF DetectorStep

(* Every step of the cross-node scanner keeps the invariant.                *)
LEMMA ScannerSteps ==
  ASSUME ExecInv, RecoveryTypeOK, NEW n \in Nodes,
         ScannerStep(n) \/ \E j \in Jobs : ScanList(n, j)
  PROVE  ExecInv' /\ RecoveryTypeOK'
  <1> USE DEF ExecInv
  <1>1. ASSUME NEW j \in Jobs, ScanList(n, j) PROVE ExecInv' /\ RecoveryTypeOK'
    <2>1. ExecInv' BY <1>1, Untouched DEF ScanList, storeVars, adapterless
    <2>2. store[j] \in JobRecord BY DEF StoreTypeOK
    <2>3. RecoveryTypeOK'
      BY <1>1, <2>2, Actors DEF ScanList, adapterless, RecoveryTypeOK, ScanPcs
    <2> QED BY <2>1, <2>3
  <1>j. scan[n].pc # "idle" => scan[n].job \in Jobs /\ scan[n].snap \in JobRecord
    BY ActorMoves DEF RecoveryTypeOK, Actor, IdleActor
  <1>2. CASE ScanCheck(n)
    <2>1. ExecInv' BY <1>2, Untouched DEF ScanCheck, storeVars, adapterless
    <2>2. ScanMark(scan[n].snap) \in JobRecord
      BY <1>2, <1>j, RecordUpdates DEF ScanCheck, ScanMark, Statuses
    <2>3. scan'[n] \in Actor(ScanPcs)
      BY <1>2, <1>j, <2>2, Actors, FreshState DEF ScanCheck, RecoveryTypeOK, ScanPcs
    <2>4. RecoveryTypeOK' BY <1>2, <2>3 DEF ScanCheck, adapterless, RecoveryTypeOK
    <2> QED BY <2>1, <2>4
  <1>3. CASE ScanSave(n)
    <2>1. StoreTypeOK' BY <1>3, <1>j, SaveType DEF ScanSave
    <2>2. ExecInv' BY <1>3, <2>1, StoreOnly DEF ScanSave, adapterless
    <2>3. RecoveryTypeOK'
      BY <1>3, <1>j, FreshState, Actors DEF ScanSave, adapterless, RecoveryTypeOK, ScanPcs
    <2> QED BY <2>2, <2>3
  <1>4. CASE ScanNack(n)
    <2>1. StoreTypeOK' BY <1>4, <1>j, PlaceType DEF ScanNack, Nack
    <2>2. ExecInv' BY <1>4, <2>1, StoreOnly DEF ScanNack, adapterless
    <2>3. RecoveryTypeOK' BY <1>4, FreshState DEF ScanNack, adapterless, RecoveryTypeOK
    <2> QED BY <2>2, <2>3
  <1> QED BY <1>1, <1>2, <1>3, <1>4 DEF ScannerStep

(* Every step of the reconciler keeps the invariant.                        *)
LEMMA ReconcilerSteps ==
  ASSUME ExecInv, RecoveryTypeOK, NEW n \in Nodes,
         \/ ReconcilerStep(n)
         \/ \E j \in Jobs : ReconWaiting(n, j) \/ ReconDelayed(n, j) \/ ReconStalled(n, j)
  PROVE  ExecInv' /\ RecoveryTypeOK'
  <1> USE DEF ExecInv
  <1>1. ASSUME NEW j \in Jobs, ReconWaiting(n, j) \/ ReconDelayed(n, j) \/ ReconStalled(n, j)
        PROVE  ExecInv' /\ RecoveryTypeOK'
    <2>1. ExecInv'
      BY <1>1, Untouched DEF ReconWaiting, ReconDelayed, ReconStalled, storeVars, adapterless
    <2>2. /\ store[j] \in JobRecord
          /\ [store[j] EXCEPT !.status = "waiting"] \in JobRecord
          /\ [store[j] EXCEPT !.status = "waiting", !.worker = NoNode] \in JobRecord
      BY RecordUpdates DEF StoreTypeOK, Statuses
    <2>3. \E pc \in ReconPcs, rec \in JobRecord : recon' = [recon EXCEPT ![n] = Doing(pc, j, rec)]
      BY <1>1, <2>2 DEF ReconWaiting, ReconDelayed, ReconStalled, ReconPcs
    <2>4. UNCHANGED <<client, stall, scan, canc, cancels>>
      BY <1>1 DEF ReconWaiting, ReconDelayed, ReconStalled, adapterless
    <2>5. RecoveryTypeOK' BY <2>3, <2>4, Actors DEF RecoveryTypeOK
    <2> QED BY <2>1, <2>5
  <1>j. recon[n].pc # "idle" => recon[n].job \in Jobs /\ recon[n].snap \in JobRecord
    BY ActorMoves DEF RecoveryTypeOK, Actor, IdleActor
  <1>2. CASE ReconPublish(n)
    <2>1. StoreTypeOK' BY <1>2, <1>j, PlaceType DEF ReconPublish, Publish
    <2>2. ExecInv' BY <1>2, <2>1, StoreOnly DEF ReconPublish, adapterless
    <2>3. recon[n].pc # "idle" BY <1>2 DEF ReconPublish
    <2>4. recon'[n] \in Actor(ReconPcs)
      BY <1>2, <2>3, ActorMoves, FreshState DEF ReconPublish, RecoveryTypeOK, ReconPcs
    <2>5. RecoveryTypeOK' BY <1>2, <2>4 DEF ReconPublish, adapterless, RecoveryTypeOK
    <2> QED BY <2>2, <2>5
  <1>3. CASE ReconSave(n)
    <2>1. StoreTypeOK' BY <1>3, <1>j, SaveType DEF ReconSave
    <2>2. ExecInv' BY <1>3, <2>1, StoreOnly DEF ReconSave, adapterless
    <2>3. recon'[n] \in Actor(ReconPcs)
      BY <1>3, <1>j, Actors, FreshState DEF ReconSave, RecoveryTypeOK, ReconPcs
    <2>4. RecoveryTypeOK' BY <1>3, <2>3 DEF ReconSave, adapterless, RecoveryTypeOK
    <2> QED BY <2>2, <2>4
  <1> QED BY <1>1, <1>2, <1>3 DEF ReconcilerStep

(* Every step of cancelJob keeps the invariant.                             *)
LEMMA CancelSteps ==
  ASSUME ExecInv, RecoveryTypeOK, NEW n \in Nodes,
         CancelStep(n) \/ \E j \in Jobs : CancelRead(n, j)
  PROVE  ExecInv' /\ RecoveryTypeOK'
  <1> USE DEF ExecInv
  <1>1. ASSUME NEW j \in Jobs, CancelRead(n, j) PROVE ExecInv' /\ RecoveryTypeOK'
    <2>1. StoreTypeOK' BY <1>1 DEF CancelRead, StoreTypeOK, storeVars
    <2>2. store[j] \in JobRecord BY DEF StoreTypeOK
    <2>3. \E pc \in CancelPcs, rec \in JobRecord : canc' = [canc EXCEPT ![n] = Doing(pc, j, rec)]
      BY <1>1, <2>2, FreshState DEF CancelRead, CancelPcs
    <2>4. cancels' \in 0 .. MaxCancels
      BY <1>1, RecoveryAssumption DEF CancelRead, RecoveryTypeOK, RecoveryAssumption
    <2>5. UNCHANGED <<client, stall, scan, recon>> BY <1>1 DEF CancelRead
    <2>6. RecoveryTypeOK' BY <2>3, <2>4, <2>5, Actors DEF RecoveryTypeOK
    <2>7. CASE UNCHANGED <<run, acOf, slots>>
      BY <1>1, <2>1, <2>6, <2>7, StoreOnly DEF CancelRead
    <2>8. CASE /\ run' = SilenceIn(AbortIn(run, n, j), n, j)
               /\ acOf' = Unregister(acOf, n, j)
               /\ slots' \in {slots, [slots EXCEPT ![n] = @ \ {j}]}
      <3>1. SameButFlags(run, run) BY DEF SameButFlags, ExecTypeOK
      <3>2. SameButFlags(run, AbortIn(run, n, j)) BY <3>1, Aborting
      <3>3. SameButFlags(run, run') BY <2>8, <3>2, Silencing
      <3>4. acOf' = Register(acOf, n, j, NoRun) BY <2>8 DEF Unregister
      <3>5. /\ acOf' \in [Nodes -> [Jobs -> Runs \cup {NoRun}]]
            /\ \A m \in Nodes, k \in Jobs :
                 acOf'[m][k] = IF m = n /\ k = j THEN NoRun ELSE acOf[m][k]
        <4>1. acOf \in [Nodes -> [Jobs -> Runs \cup {NoRun}]] BY DEF ExecTypeOK
        <4> HIDE DEF ExecInv
        <4> QED BY <3>4, <4>1 DEF Register
      <3>6. UNCHANGED <<node, hbOf, faults>> BY <1>1 DEF CancelRead
      <3>7. ExecTypeOK' BY <2>8, <3>3, <3>5, <3>6 DEF ExecTypeOK, SameButFlags
      <3>8. RegistrationsLive'
        BY <3>3, <3>5, <3>6, ExecutorAssumption
        DEF RegistrationsLive, SameButFlags, ExecutorAssumption
      <3> QED BY <2>1, <2>6, <3>7, <3>8
    <2> QED BY <1>1, <2>7, <2>8 DEF CancelRead
  <1>j. canc[n].pc # "idle" => canc[n].job \in Jobs /\ canc[n].snap \in JobRecord
    BY ActorMoves DEF RecoveryTypeOK, Actor, IdleActor
  <1>2. CASE CancelStop(n)
    <2>1. canc[n].job \in Jobs BY <1>2, <1>j DEF CancelStop
    <2>2. StoreTypeOK' BY <1>2, <2>1, KeyType, ReleaseType DEF CancelStop
    <2>3. hbOf' = Register(hbOf, n, canc[n].job, NoRun) BY <1>2 DEF CancelStop, Unregister
    <2>4. /\ hbOf' \in [Nodes -> [Jobs -> Runs \cup {NoRun}]]
          /\ \A m \in Nodes, k \in Jobs :
               hbOf'[m][k] = IF m = n /\ k = canc[n].job THEN NoRun ELSE hbOf[m][k]
      <3>1. hbOf \in [Nodes -> [Jobs -> Runs \cup {NoRun}]] BY DEF ExecTypeOK
      <3> HIDE DEF ExecInv
      <3> QED BY <2>1, <2>3, <3>1 DEF Register
    <2>5. ExecTypeOK' BY <1>2, <2>4 DEF CancelStop, ExecTypeOK
    <2>6. RegistrationsLive'
      BY <1>2, <2>4, ExecutorAssumption DEF CancelStop, RegistrationsLive, ExecutorAssumption
    <2>7. [canc[n] EXCEPT !.pc = "get"] \in Actor(CancelPcs)
      BY <1>2, ActorMoves DEF CancelStop, RecoveryTypeOK, CancelPcs
    <2>8. RecoveryTypeOK' BY <1>2, <2>7 DEF CancelStop, RecoveryTypeOK
    <2> QED BY <2>2, <2>5, <2>6, <2>8
  <1>3. CASE CancelGet(n)
    <2>1. ExecInv' BY <1>3, Untouched DEF CancelGet, storeVars, adapterless
    <2>2. canc'[n] \in Actor(CancelPcs)
      BY <1>3, <1>j, Actors, FreshState DEF CancelGet, RecoveryTypeOK, CancelPcs, StoreTypeOK
    <2>3. RecoveryTypeOK' BY <1>3, <2>2 DEF CancelGet, adapterless, RecoveryTypeOK
    <2> QED BY <2>1, <2>3
  <1>4. CASE CancelAck(n)
    <2>1. StoreTypeOK' BY <1>4, <1>j, PlaceType DEF CancelAck, Ack
    <2>2. ExecInv' BY <1>4, <2>1, StoreOnly DEF CancelAck, adapterless
    <2>3. canc[n].pc # "idle" BY <1>4 DEF CancelAck
    <2>4. canc'[n] \in Actor(CancelPcs)
      BY <1>4, <2>3, ActorMoves, FreshState DEF CancelAck, RecoveryTypeOK, CancelPcs
    <2>5. RecoveryTypeOK' BY <1>4, <2>4 DEF CancelAck, adapterless, RecoveryTypeOK
    <2> QED BY <2>2, <2>5
  <1>5. CASE CancelSave(n)
    <2>1. [canc[n].snap EXCEPT !.status = "cancelled"] \in JobRecord
      BY <1>5, <1>j, RecordUpdates DEF CancelSave, Statuses
    <2>2. StoreTypeOK' BY <1>5, <1>j, <2>1, SaveType DEF CancelSave
    <2>3. ExecInv' BY <1>5, <2>2, StoreOnly DEF CancelSave, adapterless
    <2>4. canc'[n] \in Actor(CancelPcs)
      BY <1>5, <1>j, Actors, FreshState DEF CancelSave, RecoveryTypeOK, CancelPcs
    <2>5. RecoveryTypeOK' BY <1>5, <2>4 DEF CancelSave, adapterless, RecoveryTypeOK
    <2> QED BY <2>3, <2>5
  <1> QED BY <1>1, <1>2, <1>3, <1>4, <1>5 DEF CancelStep

(* A process that goes leaves no activation and no registration of its      *)
(* own behind.                                                              *)
LEMMA VanishSteps ==
  ASSUME ExecInv, RecoveryTypeOK, NEW n \in Nodes, Vanish(n), StoreTypeOK',
         node' \in [Nodes -> {"off", "up", "stopping", "down"}],
         UNCHANGED <<faults, cancels, client>>
  PROVE  ExecInv' /\ RecoveryTypeOK'
  <1> USE DEF ExecInv
  <1>1. ExecTypeOK' BY DEF Vanish, ExecTypeOK
  <1>2. RegistrationsLive'
    <2> SUFFICES ASSUME NEW m \in Nodes, NEW j \in Jobs, NEW r \in Runs
                 PROVE  /\ acOf'[m][j] = r => /\ run'[r].node = m /\ run'[r].job = j
                                              /\ run'[r].pc \in Abortable
                        /\ hbOf'[m][j] = r => /\ run'[r].node = m /\ run'[r].job = j
                                              /\ run'[r].pc \in Beating /\ j \in Guaranteed
      BY DEF RegistrationsLive
    <2>1. CASE m = n
      BY <2>1, ExecutorAssumption DEF Vanish, ExecTypeOK, ExecutorAssumption
    <2>2. CASE m # n
      <3>1. acOf'[m][j] = acOf[m][j] /\ hbOf'[m][j] = hbOf[m][j]
        BY <2>2 DEF Vanish, ExecTypeOK
      <3>2. run[r].node = m => run'[r] = run[r] BY <2>2 DEF Vanish
      <3> QED BY <3>1, <3>2 DEF RegistrationsLive
    <2> QED BY <2>1, <2>2
  <1>3. RecoveryTypeOK' BY FreshState DEF Vanish, RecoveryTypeOK
  <1> QED BY <1>1, <1>2, <1>3

(* Starts, stops, crashes and the end of leases keep the invariant.         *)
LEMMA ProcessSteps ==
  ASSUME IInv, ProcessNext
  PROVE  IInv'
  <1> USE DEF IInv, TypeOK, ExecInv
  <1>1. ASSUME NEW n \in Nodes, Start(n) PROVE IInv'
    <2>1. UNCHANGED storeVars /\ UNCHANGED execVars /\ UNCHANGED recoveryVars BY <1>1 DEF Start
    <2>2. StoreTypeOK' BY <2>1 DEF StoreTypeOK, storeVars
    <2>3. ExecTypeOK' BY <1>1, <2>1 DEF Start, ExecTypeOK, execVars
    <2>4. RegistrationsLive' BY <2>1 DEF RegistrationsLive, execVars
    <2>5. RecoveryTypeOK' BY <1>1, <2>1 DEF Start, RecoveryTypeOK, recoveryVars
    <2> QED BY <1>1, <2>2, <2>3, <2>4, <2>5 DEF Start
  <1>2. ASSUME NEW n \in Nodes, Crash(n) PROVE IInv'
    <2>1. StoreTypeOK' BY <1>2 DEF Crash, StoreTypeOK, storeVars
    <2>2. node' \in [Nodes -> {"off", "up", "stopping", "down"}]
      BY <1>2 DEF Crash, ExecTypeOK
    <2>3. crashes' \in 0 .. MaxCrashes /\ lapses' \in 0 .. MaxLapses
      BY <1>2, SystemAssumption DEF Crash, SystemAssumption
    <2>4. Vanish(n) /\ UNCHANGED <<faults, cancels, client>> BY <1>2 DEF Crash
    <2> QED BY <2>1, <2>2, <2>3, <2>4, VanishSteps
  <1>3. ASSUME NEW n \in Nodes, StopDrained(n) \/ StopTimedOut(n) PROVE IInv'
    <2>1. StoreTypeOK' BY <1>3 DEF StopDrained, StopTimedOut, Exit, StoreTypeOK
    <2>2. node' \in [Nodes -> {"off", "up", "stopping", "down"}]
      BY <1>3 DEF StopDrained, StopTimedOut, Exit, ExecTypeOK
    <2>3. crashes' \in 0 .. MaxCrashes /\ lapses' \in 0 .. MaxLapses
      BY <1>3, SystemAssumption DEF StopDrained, StopTimedOut, Exit, SystemAssumption
    <2>4. Vanish(n) /\ UNCHANGED <<faults, cancels, client>> BY <1>3 DEF StopDrained, StopTimedOut, Exit
    <2> QED BY <2>1, <2>2, <2>3, <2>4, VanishSteps
  <1>4. ASSUME NEW n \in Nodes, StopBegin(n) PROVE IInv'
    <2>1. StoreTypeOK' BY <1>4 DEF StopBegin, StoreTypeOK, storeVars
    <2>2. SameButFlags(run, run')
      <3>1. ASSUME NEW r \in Runs, NEW j \in Jobs, acOf[n][j] = r PROVE run[r] \in BusyRun
        <4>1. run[r].pc # "free" BY <3>1 DEF RegistrationsLive, Abortable
        <4> QED BY <4>1, BusyRuns
      <3>2. ASSUME NEW r \in Runs
            PROVE  \/ run'[r] = run[r]
                   \/ /\ run[r] \in BusyRun
                      /\ run'[r] = [run[r] EXCEPT !.aborted = TRUE]
        <4> DEFINE Named(s) == \E j \in Jobs : acOf[n][j] = s
        <4>1. run' = [s \in Runs |-> IF Named(s) THEN [run[s] EXCEPT !.aborted = TRUE]
                                     ELSE run[s]]
          BY <1>4 DEF StopBegin
        <4>2. Named(r) => run[r] \in BusyRun BY <3>1
        <4> HIDE DEF Named, IInv, ExecInv, TypeOK
        <4> QED BY <4>1, <4>2
      <3>3. run \in [Runs -> BusyRun \cup {FreeRun}] BY DEF ExecTypeOK
      <3>4. DOMAIN run' = Runs /\ run' = [r \in Runs |-> run'[r]] BY <1>4 DEF StopBegin
      <3> HIDE DEF IInv, ExecInv, TypeOK
      <3>5. ASSUME NEW r \in Runs
            PROVE  /\ run'[r] \in BusyRun \cup {FreeRun}
                   /\ run'[r].pc = run[r].pc /\ run'[r].node = run[r].node
                   /\ run'[r].job = run[r].job /\ run'[r].rec = run[r].rec
        <4>1. CASE run'[r] = run[r] BY <3>3, <4>1
        <4>2. CASE run[r] \in BusyRun /\ run'[r] = [run[r] EXCEPT !.aborted = TRUE]
          <5>1. run'[r].rec = run[r].rec BY <4>2 DEF BusyRun
          <5> QED BY <4>2, <5>1, RunFlags
        <4> QED BY <3>2, <4>1, <4>2
      <3>6. run' \in [Runs -> BusyRun \cup {FreeRun}] BY <3>4, <3>5
      <3> QED BY <3>3, <3>5, <3>6 DEF SameButFlags
    <2>3. ExecTypeOK' BY <1>4, <2>2 DEF StopBegin, ExecTypeOK, SameButFlags
    <2>4. RegistrationsLive'
      BY <1>4, <2>2, ExecutorAssumption
      DEF StopBegin, RegistrationsLive, SameButFlags, ExecTypeOK, ExecutorAssumption
    <2>5. RecoveryTypeOK' BY <1>4 DEF StopBegin, RecoveryTypeOK, recoveryVars
    <2> QED BY <1>4, <2>1, <2>3, <2>4, <2>5 DEF StopBegin
  <1>5. ASSUME NEW k \in Kinds \X Jobs, LeaseExpires(k) \/ LeaseLapses(k) PROVE IInv'
    <2>1. StoreTypeOK' BY <1>5 DEF LeaseExpires, LeaseLapses, StoreTypeOK
    <2>2. UNCHANGED <<node, run, hbOf, acOf, slots, faults>>
      BY <1>5 DEF LeaseExpires, LeaseLapses, execVars
    <2>3. ExecInv' BY <2>1, <2>2, StoreOnly
    <2>4. RecoveryTypeOK' BY <1>5 DEF LeaseExpires, LeaseLapses, RecoveryTypeOK, recoveryVars
    <2>5. crashes' \in 0 .. MaxCrashes /\ lapses' \in 0 .. MaxLapses
      BY <1>5, SystemAssumption DEF LeaseExpires, LeaseLapses, SystemAssumption
    <2> QED BY <2>3, <2>4, <2>5
  <1> QED BY <1>1, <1>2, <1>3, <1>4, <1>5 DEF ProcessNext

(* Every step of the engine keeps the invariant.  The registrations are     *)
(* what makes the types inductive: StopBegin, Abandon, HeartbeatLost and    *)
(* CancelRead write the activation a registration names, which therefore    *)
(* must be one that is under way.                                           *)
LEMMA Inductive == IInv /\ [Next]_vars => IInv'
  <1> SUFFICES ASSUME IInv, [Next]_vars PROVE IInv' OBVIOUS
  <1> USE DEF IInv, TypeOK, ExecInv
  <1>1. CASE ClientNext
    <2>1. TypeOK' BY <1>1, ClientType
    <2>2. UNCHANGED execVars
      BY <1>1 DEF ClientNext, AddSave, AddPublish, ClientCrash
    <2> QED BY <2>1, <2>2 DEF RegistrationsLive, execVars
  <1>2. CASE ExecutorNext
    <2>1. ExecInv' BY <1>2, ExecutorSteps
    <2>2. UNCHANGED <<client, recoveryVars, crashes, lapses>> BY <1>2 DEF ExecutorNext, Idle, Calm
    <2> QED BY <2>1, <2>2 DEF RecoveryTypeOK, recoveryVars
  <1>3. CASE DetectorNext
    <2> QED BY <1>3, DetectorSteps DEF DetectorNext, Calm
  <1>4. CASE ScannerNext
    <2> QED BY <1>4, ScannerSteps DEF ScannerNext, Calm
  <1>5. CASE ReconcilerNext
    <2> QED BY <1>5, ReconcilerSteps DEF ReconcilerNext, Calm
  <1>6. CASE CancelNext
    <2> QED BY <1>6, CancelSteps DEF CancelNext, Calm
  <1>7. CASE ProcessNext BY <1>7, ProcessSteps
  <1>8. CASE UNCHANGED vars
    <2>1. UNCHANGED <<store, place, lock, node, run, hbOf, acOf, slots, faults>>
      BY <1>8 DEF vars, storeVars, execVars
    <2>2. UNCHANGED <<client, recoveryVars, crashes, lapses>> BY <1>8 DEF vars
    <2>3. ExecInv' BY <2>1, Untouched
    <2> QED BY <2>2, <2>3 DEF RecoveryTypeOK, recoveryVars
  <1> QED BY <1>1, <1>2, <1>3, <1>4, <1>5, <1>6, <1>7, <1>8 DEF Next

(* The invariant holds initially.                                           *)
LEMMA InitInv == Init => IInv
  <1> SUFFICES ASSUME Init PROVE IInv OBVIOUS
  <1>1. TypeOK BY InitTypeOK
  <1>2. RegistrationsLive
    BY ExecutorAssumption DEF Init, ExecInit, RegistrationsLive, ExecutorAssumption
  <1> QED BY <1>1, <1>2 DEF IInv

(* The invariant holds in every reachable state.                            *)
LEMMA Invariant == Spec => []IInv
BY InitInv, Inductive, PTL DEF Spec

-----------------------------------------------------------------------------
(* Type correctness: whatever leases lapse, processes die, calls throw and  *)
(* jobs are cancelled, the adapters hold whole records and known places,    *)
(* and no recovery actor ever works for a job it does not have.             *)
THEOREM TypeCorrect == Spec => []TypeOK
  <1>1. IInv => TypeOK BY DEF IInv
  <1> QED BY <1>1, Invariant, PTL

(* Every registration of an instance names a live activation of its own:    *)
(* engine.stop(), the stall handler, a lost lease and a cancellation abort  *)
(* the handler they mean, never a slot that has gone to another job.        *)
THEOREM RegistrationsAreLive == Spec => []RegistrationsLive
  <1>1. IInv => RegistrationsLive BY DEF IInv
  <1> QED BY <1>1, Invariant, PTL

-----------------------------------------------------------------------------
(***************************************************************************)
(* Who has a job.  Among QueueEngine instances whose optional recovery is  *)
(* off, no interleaving of leases, crashes, shutdowns, failed calls and    *)
(* cancellations lets two activations, or an activation and the broker,    *)
(* hold the same id; from that it follows that handlers keep their         *)
(* heartbeats and instances their slots.                                   *)
(***************************************************************************)
(* TaskQueue instances without reconciliation and crossNodeStallScanner.    *)
ExecutorOnly ==
  Scanners = {} /\ Reconcilers = {} /\ \A n \in Nodes : Kind[n] = "queue"

(* Nothing but the executor, a client and a cancellation moves an id: the   *)
(* recovery actors stay where they cannot publish or nack.                  *)
RecoveryQuiet ==
  \A n \in Nodes : /\ stall[n].pc \in {"idle", "check"}
                   /\ scan[n].pc = "idle" /\ recon[n].pc = "idle"

(* Stronger than SingleCustody: an activation whose save threw, and which    *)
(* left its heartbeat behind, still is the only one of its job.             *)
Busy(x) == x.pc # "free"
BusyOn(j) == {r \in Runs : run[r].job = j /\ Busy(run[r])}

SoleActivation ==
  \A j \in Jobs :
    /\ \A r, s \in BusyOn(j) : r = s
    /\ BusyOn(j) # {} => place[j] = "out"
    /\ client[j] # "added" => BusyOn(j) = {} /\ place[j] = "out"

CInv == IInv /\ RecoveryQuiet /\ SoleActivation /\ SingleCustody

(* The stronger promise implies the one the runs check.                     *)
LEMMA SoleIsSingle == SoleActivation => SingleCustody
BY DEF SoleActivation, SingleCustody, BusyOn, Busy, InHand

(* Whoever holds an id after the step held the same id before it.           *)
Kept ==
  \A r \in Runs : Busy(run'[r]) => Busy(run[r]) /\ run'[r].job = run[r].job

(* Taking an id out of the broker harms nobody.                             *)
LEMMA NobodyTakes ==
  ASSUME SoleActivation, place \in [Jobs -> {"out", "ready", "delayed"}], Kept, UNCHANGED client, NEW j,
         place' \in {place, [place EXCEPT ![j] = "out"]}
  PROVE  SoleActivation'
  <1> SUFFICES ASSUME NEW k \in Jobs
               PROVE  /\ \A r, s \in BusyOn(k)' : r = s
                      /\ BusyOn(k)' # {} => place'[k] = "out"
                      /\ client'[k] # "added" => BusyOn(k)' = {} /\ place'[k] = "out"
    BY DEF SoleActivation
  <1>1. BusyOn(k)' \subseteq BusyOn(k) BY DEF BusyOn, Kept, Busy
  <1>2. place[k] = "out" => place'[k] = "out" OBVIOUS
  <1> QED BY <1>1, <1>2 DEF SoleActivation

(* An id that is given back had one holder, which lets go in the same step. *)
LEMMA HolderGivesBack ==
  ASSUME SoleActivation, place \in [Jobs -> {"out", "ready", "delayed"}], Kept,
         UNCHANGED client, NEW r \in Runs, Busy(run[r]), ~Busy(run'[r]),
         run[r].job \in Jobs, NEW where,
         place' = [place EXCEPT ![run[r].job] = where]
  PROVE  SoleActivation'
  <1> SUFFICES ASSUME NEW k \in Jobs
               PROVE  /\ \A s, t \in BusyOn(k)' : s = t
                      /\ BusyOn(k)' # {} => place'[k] = "out"
                      /\ client'[k] # "added" => BusyOn(k)' = {} /\ place'[k] = "out"
    BY DEF SoleActivation
  <1>1. BusyOn(k)' \subseteq BusyOn(k) BY DEF BusyOn, Kept, Busy
  <1>2. CASE k # run[r].job
    <2>1. place'[k] = place[k] BY <1>2
    <2> QED BY <1>1, <2>1 DEF SoleActivation
  <1>3. CASE k = run[r].job
    <2>1. r \in BusyOn(k) BY <1>3 DEF BusyOn, Busy
    <2>2. r \notin BusyOn(k)' BY DEF BusyOn, Busy
    <2>3. BusyOn(k)' = {} BY <1>1, <2>1, <2>2 DEF SoleActivation
    <2>4. client[k] = "added" BY <2>1 DEF SoleActivation
    <2> QED BY <2>3, <2>4
  <1> QED BY <1>2, <1>3

(* Activations are well typed in every state of the invariant.              *)
LEMMA RunTyping ==
  ASSUME IInv, NEW r \in Runs, run[r].pc # "free"
  PROVE  /\ run[r] \in BusyRun /\ run[r].job \in Jobs
         /\ run \in [Runs -> BusyRun \cup {FreeRun}]
BY BusyRuns DEF IInv, TypeOK, ExecTypeOK

(* A free activation holds no id.                                           *)
LEMMA FreeHolds == ~Busy(FreeRun)
BY DEF Busy, FreeRun

(* Steps of the executor that move no id.                                   *)
LEMMA KeepingSteps ==
  ASSUME IInv, NEW r \in Runs,
         FetchOrphan(r) \/ FetchForeign(r) \/ Fetch(r) \/ AcquireLock(r) \/
         AcquireRefused(r) \/ Activate(r) \/ ActivateFails(r) \/ GatePass(r) \/
         GateRefuse(r) \/ Progress(r) \/ HandlerSucceeds(r) \/ HandlerDiscards(r) \/
         HandlerFails(r) \/ HandlerRetries(r) \/ HandlerTimesOut(r) \/ NackStop(r) \/
         NackSave(r) \/ FinStop(r) \/ FinRead(r) \/ FinSave(r) \/ SettleFails(r) \/
         Prune(r) \/ HeartbeatLost(r)
  PROVE  Kept /\ UNCHANGED place
  <1>1. CASE FetchOrphan(r)
    <2>1. run[r] \in BusyRun /\ run \in [Runs -> BusyRun \cup {FreeRun}]
      BY <1>1, RunTyping DEF FetchOrphan, At
    <2> QED BY <1>1, <2>1 DEF FetchOrphan, At, Kept, Busy, FreeRun, BusyRun, storeVars, Goto
  <1>2. CASE FetchForeign(r)
    <2>1. run[r] \in BusyRun /\ run \in [Runs -> BusyRun \cup {FreeRun}]
      BY <1>2, RunTyping DEF FetchForeign, At
    <2> QED BY <1>2, <2>1 DEF FetchForeign, At, Kept, Busy, FreeRun, BusyRun, storeVars, Goto
  <1>3. CASE Fetch(r)
    <2>1. run[r] \in BusyRun /\ run \in [Runs -> BusyRun \cup {FreeRun}]
      BY <1>3, RunTyping DEF Fetch, At
    <2> QED BY <1>3, <2>1 DEF Fetch, At, Kept, Busy, FreeRun, BusyRun, storeVars
  <1>4. CASE AcquireLock(r)
    <2>1. run[r] \in BusyRun /\ run \in [Runs -> BusyRun \cup {FreeRun}]
      BY <1>4, RunTyping DEF AcquireLock, At
    <2> QED BY <1>4, <2>1 DEF AcquireLock, At, Kept, Busy, FreeRun, BusyRun, storeVars
  <1>5. CASE AcquireRefused(r)
    <2>1. run[r] \in BusyRun /\ run \in [Runs -> BusyRun \cup {FreeRun}]
      BY <1>5, RunTyping DEF AcquireRefused, At
    <2> QED BY <1>5, <2>1 DEF AcquireRefused, At, Kept, Busy, FreeRun, BusyRun, storeVars, Goto
  <1>6. CASE Activate(r)
    <2>1. run[r] \in BusyRun /\ run \in [Runs -> BusyRun \cup {FreeRun}]
      BY <1>6, RunTyping DEF Activate, At
    <2> QED BY <1>6, <2>1 DEF Activate, At, Kept, Busy, FreeRun, BusyRun, storeVars
  <1>7. CASE ActivateFails(r)
    <2>1. run[r] \in BusyRun /\ run \in [Runs -> BusyRun \cup {FreeRun}]
      BY <1>7, RunTyping DEF ActivateFails, At
    <2> QED BY <1>7, <2>1 DEF ActivateFails, At, Kept, Busy, FreeRun, BusyRun, storeVars
  <1>8. CASE GatePass(r)
    <2>1. run[r] \in BusyRun /\ run \in [Runs -> BusyRun \cup {FreeRun}]
      BY <1>8, RunTyping DEF GatePass, At
    <2> QED BY <1>8, <2>1 DEF GatePass, At, Kept, Busy, FreeRun, BusyRun, storeVars
  <1>9. CASE GateRefuse(r)
    <2>1. run[r] \in BusyRun /\ run \in [Runs -> BusyRun \cup {FreeRun}]
      BY <1>9, RunTyping DEF GateRefuse, At
    <2> QED BY <1>9, <2>1 DEF GateRefuse, At, Kept, Busy, FreeRun, BusyRun, storeVars
  <1>10. CASE Progress(r)
    <2>1. run[r] \in BusyRun /\ run \in [Runs -> BusyRun \cup {FreeRun}]
      BY <1>10, RunTyping DEF Progress, At
    <2> QED BY <1>10, <2>1 DEF Progress, At, Kept, Busy, FreeRun, BusyRun, storeVars, execVars
  <1>11. CASE HandlerSucceeds(r)
    <2>1. run[r] \in BusyRun /\ run \in [Runs -> BusyRun \cup {FreeRun}]
      BY <1>11, RunTyping DEF HandlerSucceeds, At
    <2> QED BY <1>11, <2>1 DEF HandlerSucceeds, At, Kept, Busy, FreeRun, BusyRun, storeVars, Finish
  <1>12. CASE HandlerDiscards(r)
    <2>1. run[r] \in BusyRun /\ run \in [Runs -> BusyRun \cup {FreeRun}]
      BY <1>12, RunTyping DEF HandlerDiscards, At
    <2> QED BY <1>12, <2>1 DEF HandlerDiscards, At, Kept, Busy, FreeRun, BusyRun, storeVars, Finish
  <1>13. CASE HandlerFails(r)
    <2>1. run[r] \in BusyRun /\ run \in [Runs -> BusyRun \cup {FreeRun}]
      BY <1>13, RunTyping DEF HandlerFails, At
    <2> QED BY <1>13, <2>1 DEF HandlerFails, At, Kept, Busy, FreeRun, BusyRun, storeVars, Finish
  <1>14. CASE HandlerRetries(r)
    <2>1. run[r] \in BusyRun /\ run \in [Runs -> BusyRun \cup {FreeRun}]
      BY <1>14, RunTyping DEF HandlerRetries, At
    <2> QED BY <1>14, <2>1 DEF HandlerRetries, At, Kept, Busy, FreeRun, BusyRun, storeVars
  <1>15. CASE HandlerTimesOut(r)
    <2>1. run[r] \in BusyRun /\ run \in [Runs -> BusyRun \cup {FreeRun}]
      BY <1>15, RunTyping DEF HandlerTimesOut, At
    <2> QED BY <1>15, <2>1 DEF HandlerTimesOut, At, Kept, Busy, FreeRun, BusyRun, storeVars
  <1>16. CASE NackStop(r)
    <2>1. run[r] \in BusyRun /\ run \in [Runs -> BusyRun \cup {FreeRun}]
      BY <1>16, RunTyping DEF NackStop, At
    <2> QED BY <1>16, <2>1 DEF NackStop, At, Kept, Busy, FreeRun, BusyRun, storeVars
  <1>17. CASE NackSave(r)
    <2>1. run[r] \in BusyRun /\ run \in [Runs -> BusyRun \cup {FreeRun}]
      BY <1>17, RunTyping DEF NackSave, At
    <2> QED BY <1>17, <2>1 DEF NackSave, At, Kept, Busy, FreeRun, BusyRun, storeVars, Goto
  <1>18. CASE FinStop(r)
    <2>1. run[r] \in BusyRun /\ run \in [Runs -> BusyRun \cup {FreeRun}]
      BY <1>18, RunTyping DEF FinStop, At
    <2> QED BY <1>18, <2>1 DEF FinStop, At, Kept, Busy, FreeRun, BusyRun, storeVars
  <1>19. CASE FinRead(r)
    <2>1. run[r] \in BusyRun /\ run \in [Runs -> BusyRun \cup {FreeRun}]
      BY <1>19, RunTyping DEF FinRead, At
    <2> QED BY <1>19, <2>1 DEF FinRead, At, Kept, Busy, FreeRun, BusyRun, storeVars, Settle, Goto
  <1>20. CASE FinSave(r)
    <2>1. run[r] \in BusyRun /\ run \in [Runs -> BusyRun \cup {FreeRun}]
      BY <1>20, RunTyping DEF FinSave, At
    <2> QED BY <1>20, <2>1 DEF FinSave, At, Kept, Busy, FreeRun, BusyRun, storeVars, Goto
  <1>21. CASE SettleFails(r)
    <2>1. run[r] \in BusyRun /\ run \in [Runs -> BusyRun \cup {FreeRun}]
      BY <1>21, RunTyping DEF SettleFails, At
    <2> QED BY <1>21, <2>1 DEF SettleFails, At, Kept, Busy, FreeRun, BusyRun, storeVars, Settle
  <1>22. CASE Prune(r)
    <2>1. run[r] \in BusyRun /\ run \in [Runs -> BusyRun \cup {FreeRun}]
      BY <1>22, RunTyping DEF Prune, At
    <2> QED BY <1>22, <2>1 DEF Prune, At, Kept, Busy, FreeRun, BusyRun, storeVars, Settle
  <1>23. CASE HeartbeatLost(r)
    <2>1. run \in [Runs -> BusyRun \cup {FreeRun}] BY DEF IInv, TypeOK, ExecTypeOK
    <2>2. \A s \in Runs : run'[s].pc = run[s].pc /\ run'[s].job = run[s].job
      BY <1>23, <2>1 DEF HeartbeatLost, AbortIn, BusyRun, FreeRun
    <2> QED BY <1>23, <2>2 DEF HeartbeatLost, Kept, Busy, storeVars
  <1> QED
    BY <1>1, <1>2, <1>3, <1>4, <1>5, <1>6, <1>7, <1>8, <1>9, <1>10, <1>11, <1>12, <1>13, <1>14, <1>15, <1>16, <1>17, <1>18, <1>19, <1>20, <1>21, <1>22, <1>23

(* Steps of the executor that give an id back or ack it, the claim aside.   *)
LEMMA ReturningSteps ==
  ASSUME IInv, SoleActivation, UNCHANGED client, NEW r \in Runs,
         AckOrphan(r) \/ NackForeign(r) \/ NackRefused(r) \/ NackSend(r) \/ FinAck(r)
  PROVE  SoleActivation'
  <1>1. run[r].pc # "free"
    BY DEF AckOrphan, NackForeign, NackRefused, NackSend, FinAck, At
  <1>2. run[r] \in BusyRun /\ run[r].job \in Jobs /\ run \in [Runs -> BusyRun \cup {FreeRun}]
    BY <1>1, RunTyping
  <1>3. place \in [Jobs -> {"out", "ready", "delayed"}] BY DEF IInv, TypeOK, StoreTypeOK
  <1>4. CASE AckOrphan(r) \/ NackForeign(r) \/ NackRefused(r) \/ NackSend(r)
    <2>1. run' = [run EXCEPT ![r] = FreeRun]
      BY <1>4 DEF AckOrphan, NackForeign, NackRefused, NackSend, Settle
    <2>2. Kept BY <1>2, <2>1, FreeHolds DEF Kept
    <2>3. Busy(run[r])
      BY <1>4 DEF AckOrphan, NackForeign, NackRefused, NackSend, At, Busy
    <2>4. ~Busy(run'[r]) BY <1>2, <2>1, FreeHolds
    <2>5. \E where : place' = [place EXCEPT ![run[r].job] = where]
      BY <1>4 DEF AckOrphan, NackForeign, NackRefused, NackSend, Ack, Nack
    <2> QED BY <1>2, <1>3, <2>2, <2>3, <2>4, <2>5, HolderGivesBack
  <1>5. CASE FinAck(r)
    <2>1. place' = [place EXCEPT ![run[r].job] = "out"] BY <1>5 DEF FinAck, Ack
    <2>2. Kept
      BY <1>2, <1>5 DEF FinAck, At, Settle, Goto, Kept, Busy, FreeRun, BusyRun
    <2>3. place' \in {place, [place EXCEPT ![run[r].job] = "out"]} BY <2>1
    <2> HIDE DEF SoleActivation, Kept
    <2> QED BY <1>3, <2>2, <2>3, NobodyTakes
  <1> QED BY <1>4, <1>5

(* The claim: the id leaves the broker, so nobody had it in hand.           *)
LEMMA ClaimingStep ==
  ASSUME IInv, SoleActivation, UNCHANGED client, NEW n \in Nodes, NEW j \in Jobs, NEW r \in Runs,
         Claim(n, j, r)
  PROVE  SoleActivation'
  <1> SUFFICES ASSUME NEW k \in Jobs
               PROVE  /\ \A s, t \in BusyOn(k)' : s = t
                      /\ BusyOn(k)' # {} => place'[k] = "out"
                      /\ client'[k] # "added" => BusyOn(k)' = {} /\ place'[k] = "out"
    BY DEF SoleActivation
  <1>1. run \in [Runs -> BusyRun \cup {FreeRun}] /\ place \in [Jobs -> {"out", "ready", "delayed"}]
    BY DEF IInv, TypeOK, ExecTypeOK, StoreTypeOK
  <1>2. /\ run' = [run EXCEPT ![r] = [FreeRun EXCEPT !.pc = "fetch", !.node = n, !.job = j]]
        /\ place' = [place EXCEPT ![j] = "out"] /\ place[j] # "out"
    BY DEF Claim, TakeClaim
  <1>3. run'[r].pc = "fetch" /\ run'[r].job = j /\ \A s \in Runs \ {r} : run'[s] = run[s]
    BY <1>1, <1>2 DEF FreeRun
  <1>4. CASE k = j
    <2>1. BusyOn(j) = {} /\ client[j] = "added" BY <1>2 DEF SoleActivation
    <2>2. BusyOn(j)' \subseteq {r} BY <1>3, <2>1 DEF BusyOn
    <2> QED BY <1>1, <1>2, <1>4, <2>1, <2>2
  <1>5. CASE k # j
    <2>1. BusyOn(k)' \subseteq BusyOn(k) BY <1>3, <1>5 DEF BusyOn
    <2>2. place'[k] = place[k] BY <1>2, <1>5
    <2> QED BY <2>1, <2>2 DEF SoleActivation
  <1> QED BY <1>4, <1>5

(* Every step of the executor keeps custody single.                         *)
LEMMA ExecutorCustody ==
  ASSUME CInv, ExecutorNext
  PROVE  RecoveryQuiet' /\ SoleActivation'
  <1>1. UNCHANGED <<client, recoveryVars>> BY DEF ExecutorNext, Idle
  <1>2. RecoveryQuiet' BY <1>1 DEF CInv, RecoveryQuiet, recoveryVars
  <1>3. place \in [Jobs -> {"out", "ready", "delayed"}] BY DEF CInv, IInv, TypeOK, StoreTypeOK
  <1>4. ASSUME NEW n \in Nodes, NEW j \in Jobs, NEW r \in Runs, Claim(n, j, r)
        PROVE  SoleActivation'
    BY <1>1, <1>4, ClaimingStep DEF CInv
  <1>5. ASSUME NEW r \in Runs,
               ExecutorStep(r) \/ HandlerTimesOut(r) \/ Progress(r) \/ ActivateFails(r)
                 \/ SettleFails(r)
        PROVE  SoleActivation'
    <2>1. CASE AckOrphan(r) \/ NackForeign(r) \/ NackRefused(r) \/ NackSend(r) \/ FinAck(r)
      BY <1>1, <2>1, ReturningSteps DEF CInv
    <2>2. CASE Kept /\ UNCHANGED place
      BY <1>1, <1>3, <2>2, NobodyTakes DEF CInv
    <2>3. \/ AckOrphan(r) \/ NackForeign(r) \/ NackRefused(r) \/ NackSend(r) \/ FinAck(r)
          \/ Kept /\ UNCHANGED place
      BY <1>5, KeepingSteps DEF CInv, ExecutorStep
    <2> QED BY <2>1, <2>2, <2>3
  <1> QED BY <1>2, <1>4, <1>5 DEF ExecutorNext

(* queue.add publishes an id nobody can have seen.                          *)
LEMMA ClientCustody ==
  ASSUME CInv, ClientNext
  PROVE  RecoveryQuiet' /\ SoleActivation'
  <1> USE DEF CInv
  <1>1. PICK j \in Jobs : AddSave(j) \/ AddPublish(j) \/ ClientCrash(j) BY DEF ClientNext
  <1>2. UNCHANGED <<run, stall, scan, recon>>
    BY <1>1 DEF AddSave, AddPublish, ClientCrash, execVars, recoveryVars
  <1>3. RecoveryQuiet' BY <1>2 DEF RecoveryQuiet
  <1>4. \A k \in Jobs : BusyOn(k)' = BusyOn(k) BY <1>2 DEF BusyOn
  <1>5. BusyOn(j) = {} /\ place[j] = "out" /\ client[j] # "added"
    BY <1>1 DEF AddSave, AddPublish, ClientCrash, SoleActivation
  <1>6. \A k \in Jobs \ {j} : client'[k] = client[k] /\ place'[k] = place[k]
    <2>1. \/ place' = place
          \/ \E where : place' = [place EXCEPT ![j] = where]
      BY <1>1 DEF AddSave, AddPublish, ClientCrash, Publish, storeVars
    <2>2. \E c : client' = [client EXCEPT ![j] = c]
      BY <1>1 DEF AddSave, AddPublish, ClientCrash
    <2>3. DOMAIN client = Jobs /\ DOMAIN place = Jobs
      BY DEF IInv, TypeOK, StoreTypeOK, RecoveryTypeOK
    <2> QED BY <2>1, <2>2, <2>3
  <1>7. place'[j] = "out" \/ client'[j] = "added"
    BY <1>1, <1>5 DEF AddSave, AddPublish, ClientCrash, storeVars, IInv, TypeOK, RecoveryTypeOK
  <1>8. SoleActivation' BY <1>4, <1>5, <1>6, <1>7 DEF SoleActivation
  <1> QED BY <1>3, <1>8

(* QueueEngine's stall handler only tidies its own process.                 *)
LEMMA AbandonKeeps ==
  ASSUME IInv, NEW n \in Nodes, NEW j \in Jobs, run' = SilenceIn(AbortIn(run, n, j), n, j)
  PROVE  Kept
  <1>1. run \in [Runs -> BusyRun \cup {FreeRun}] BY DEF IInv, TypeOK, ExecTypeOK
  <1>2. \A r \in Runs : run'[r].pc = run[r].pc /\ run'[r].job = run[r].job
    BY <1>1 DEF SilenceIn, AbortIn, BusyRun, FreeRun
  <1> QED BY <1>2 DEF Kept, Busy

(* A step that leaves the activations alone keeps every id in the same      *)
(* hands.                                                                   *)
LEMMA SameHands == UNCHANGED run => Kept
BY DEF Kept

(* The stall detector of a QueueEngine moves no id.                         *)
LEMMA DetectorCustody ==
  ASSUME CInv, ExecutorOnly, DetectorNext
  PROVE  RecoveryQuiet' /\ SoleActivation'
  <1>0. place \in [Jobs -> {"out", "ready", "delayed"}] /\ stall \in [Nodes -> Actor(StallPcs)]
    BY DEF CInv, IInv, TypeOK, StoreTypeOK, RecoveryTypeOK
  <1>1. PICK n \in Nodes : DetectorStep(n) \/ \E j \in Jobs : StallList(n, j)
    BY DEF DetectorNext
  <1>2. stall[n].pc \in {"idle", "check"} /\ Kind[n] = "queue"
    BY DEF CInv, RecoveryQuiet, ExecutorOnly
  <1>3. StallOwned(n) \/ StallQueue(n) \/ \E j \in Jobs : StallList(n, j)
    BY <1>1, <1>2
    DEF DetectorStep, StallWorker, StallGet, StallFail, StallSave, StallNack
  <1>4. UNCHANGED <<place, client, scan, recon>>
    BY <1>3 DEF StallOwned, StallQueue, StallList, storeVars, adapterless
  <1>5. \E pc \in {"idle", "check"} : \E j, rec : stall' = [stall EXCEPT ![n] = Doing(pc, j, rec)]
    BY <1>3 DEF StallOwned, StallQueue, StallList, Doing, IdleActor
  <1>6. RecoveryQuiet' BY <1>0, <1>4, <1>5 DEF CInv, RecoveryQuiet, Doing
  <1>7. Kept
    <2>1. CASE UNCHANGED run BY <2>1, SameHands
    <2>2. CASE StallQueue(n)
      <3>1. stall[n].job \in Jobs BY <1>0, <2>2, ActorMoves DEF StallQueue, Actor, IdleActor
      <3> QED BY <2>2, <3>1, AbandonKeeps DEF StallQueue, Abandon, CInv
    <2> QED BY <1>3, <2>1, <2>2 DEF StallOwned, StallList, adapterless
  <1>8. SoleActivation' BY <1>0, <1>4, <1>7, NobodyTakes DEF CInv
  <1> QED BY <1>6, <1>8

(* Without crossNodeStallScanner and reconciliation neither takes a step.   *)
LEMMA OptionalRecoveryOff ==
  ASSUME CInv, ExecutorOnly
  PROVE  ~ScannerNext /\ ~ReconcilerNext
BY DEF CInv, ExecutorOnly, RecoveryQuiet, ScannerNext, ScannerStep, ScanList, ScanCheck, ScanSave,
       ScanNack, ReconcilerNext, ReconcilerStep, ReconWaiting, ReconDelayed, ReconStalled,
       ReconPublish, ReconSave

(* A cancellation acks, and acks only.                                      *)
LEMMA CancelCustody ==
  ASSUME CInv, CancelNext
  PROVE  RecoveryQuiet' /\ SoleActivation'
  <1>0. place \in [Jobs -> {"out", "ready", "delayed"}] BY DEF CInv, IInv, TypeOK, StoreTypeOK
  <1>1. PICK n \in Nodes : CancelStep(n) \/ \E j \in Jobs : CancelRead(n, j)
    BY DEF CancelNext
  <1>2. UNCHANGED <<client, stall, scan, recon>>
    BY <1>1 DEF CancelStep, CancelRead, CancelStop, CancelGet, CancelAck, CancelSave, adapterless
  <1>3. RecoveryQuiet' BY <1>2 DEF CInv, RecoveryQuiet
  <1>4. Kept
    <2>1. CASE UNCHANGED run BY <2>1, SameHands
    <2>2. ASSUME NEW j \in Jobs, CancelRead(n, j), run' = SilenceIn(AbortIn(run, n, j), n, j)
          PROVE  Kept
      BY <2>2, AbandonKeeps DEF CInv
    <2> QED
      BY <1>1, <2>1, <2>2
      DEF CancelStep, CancelRead, CancelStop, CancelGet, CancelAck, CancelSave, adapterless
  <1>5. place' \in {place, [place EXCEPT ![canc[n].job] = "out"]}
    BY <1>1 DEF CancelStep, CancelRead, CancelStop, CancelGet, CancelAck, CancelSave, Ack,
                storeVars
  <1>6. SoleActivation' BY <1>0, <1>2, <1>4, <1>5, NobodyTakes DEF CInv
  <1> QED BY <1>3, <1>6

(* A process that dies holds nothing any more; leases hold nothing at all.  *)
LEMMA ProcessCustody ==
  ASSUME CInv, ProcessNext
  PROVE  RecoveryQuiet' /\ SoleActivation'
  <1>0. /\ place \in [Jobs -> {"out", "ready", "delayed"}]
        /\ run \in [Runs -> BusyRun \cup {FreeRun}]
    BY DEF CInv, IInv, TypeOK, StoreTypeOK, ExecTypeOK
  <1>1. UNCHANGED <<place, client>>
    BY DEF ProcessNext, Start, Crash, StopBegin, StopDrained, StopTimedOut, Exit, LeaseExpires,
           LeaseLapses, storeVars
  <1>2. ASSUME NEW n \in Nodes, Vanish(n) PROVE Kept /\ RecoveryQuiet'
    <2>1. Kept BY <1>2, FreeHolds DEF Vanish, Kept
    <2>2. RecoveryQuiet'
      BY <1>2 DEF Vanish, CInv, RecoveryQuiet, IdleActor, IInv, TypeOK, RecoveryTypeOK
    <2> QED BY <2>1, <2>2
  <1>3. ASSUME NEW n \in Nodes, StopBegin(n) PROVE Kept /\ RecoveryQuiet'
    <2>1. \A r \in Runs : run'[r].pc = run[r].pc /\ run'[r].job = run[r].job
      <3>1. ASSUME NEW r \in Runs PROVE run'[r] \in {run[r], [run[r] EXCEPT !.aborted = TRUE]}
        BY <1>3 DEF StopBegin
      <3>2. ASSUME NEW r \in Runs
            PROVE  LET x == [run[r] EXCEPT !.aborted = TRUE]
                   IN  x.pc = run[r].pc /\ x.job = run[r].job
        BY <1>0 DEF BusyRun, FreeRun
      <3> QED BY <3>1, <3>2
    <2> QED BY <1>3, <2>1 DEF StopBegin, Kept, Busy, CInv, RecoveryQuiet, recoveryVars
  <1>4. ASSUME UNCHANGED <<run, recoveryVars>> PROVE Kept /\ RecoveryQuiet'
    BY <1>4, SameHands DEF CInv, RecoveryQuiet, recoveryVars
  <1>5. Kept /\ RecoveryQuiet'
    BY <1>2, <1>3, <1>4
    DEF ProcessNext, Start, Crash, StopDrained, StopTimedOut, Exit, LeaseExpires, LeaseLapses, execVars
  <1>6. SoleActivation' BY <1>0, <1>1, <1>5, NobodyTakes DEF CInv
  <1> QED BY <1>5, <1>6

-----------------------------------------------------------------------------
(* The invariant of this module is inductive.                               *)
LEMMA CustodyInductive ==
  ASSUME ExecutorOnly
  PROVE  /\ Init => CInv
         /\ CInv /\ [Next]_vars => CInv'
  <1>1. Init => CInv
    <2> SUFFICES ASSUME Init PROVE CInv OBVIOUS
    <2>1. IInv BY InitInv
    <2>2. RecoveryQuiet BY DEF Init, RecoveryInit, RecoveryQuiet, IdleActor
    <2>3. SoleActivation
      BY DEF Init, ExecInit, StoreInit, RecoveryInit, SoleActivation, BusyOn, Busy, FreeRun
    <2> QED BY <2>1, <2>2, <2>3, SoleIsSingle DEF CInv
  <1>2. CInv /\ [Next]_vars => CInv'
    <2> SUFFICES ASSUME CInv, [Next]_vars PROVE CInv' OBVIOUS
    <2>1. IInv' BY Inductive DEF CInv
    <2>2. CASE UNCHANGED vars
      <3>1. UNCHANGED <<run, client, place, stall, scan, recon>>
        BY <2>2 DEF vars, storeVars, execVars, recoveryVars
      <3>2. RecoveryQuiet' BY <3>1 DEF CInv, RecoveryQuiet
      <3>3. SoleActivation' /\ SingleCustody'
        BY <3>1 DEF CInv, SoleActivation, BusyOn, SingleCustody, InHand
      <3> QED BY <2>1, <3>2, <3>3 DEF CInv
    <2>3. CASE Next
      <3>1. RecoveryQuiet' /\ SoleActivation'
        BY <2>3, ClientCustody, ExecutorCustody, DetectorCustody, OptionalRecoveryOff,
           CancelCustody, ProcessCustody DEF Next
      <3>2. SingleCustody'
        BY <3>1 DEF SoleActivation, SingleCustody, BusyOn, Busy, InHand
      <3> QED BY <2>1, <3>1, <3>2 DEF CInv
    <2> QED BY <2>2, <2>3
  <1> QED BY <1>1, <1>2

(* TaskQueue's core promise, for every number of instances and jobs: an id  *)
(* is with the broker or with one activation, never with two.               *)
THEOREM CustodyIsSingle ==
  ASSUME ExecutorOnly
  PROVE  Spec => []SingleCustody
  <1>1. CInv => SingleCustody BY DEF CInv
  <1> QED BY <1>1, CustodyInductive, PTL DEF Spec

-----------------------------------------------------------------------------
(* Heartbeats.  A handler that may still run has its controller registered, *)
(* and its heartbeat beats; a heartbeat that beats is the one registered.   *)
Handled(r) ==
  run[r].pc \in {"activate", "gate", "running"} /\ ~run[r].aborted
    => /\ acOf[run[r].node][run[r].job] = r
       /\ run[r].job \in Guaranteed => run[r].hb
Renewing(r) == run[r].hb => hbOf[run[r].node][run[r].job] = r

BeatInv == (\A r \in Runs : Handled(r)) /\ HeartbeatsRegistered
CancelsCounted == cancels = 0 => \A n \in Nodes : canc[n].pc = "idle"

BInv == CInv /\ CancelsCounted /\ BeatInv

(* A step of one activation changes what is registered for its own job.     *)
OwnStep(r) ==
  LET n == run[r].node
      j == run[r].job
  IN  /\ n \in Nodes /\ j \in Jobs /\ Busy(run[r])
      /\ \A s \in Runs \ {r} : run'[s] = run[s]
      /\ \A m \in Nodes, k \in Jobs :
           k # j => hbOf'[m][k] = hbOf[m][k] /\ acOf'[m][k] = acOf[m][k]

(* No other activation depends on what is registered for that job.          *)
LEMMA OwnStepKeeps ==
  ASSUME BInv, NEW r \in Runs, OwnStep(r), Handled(r)', cancels' = 0 => cancels = 0 /\ Renewing(r)'
  PROVE  BeatInv'
  <1>1. ASSUME NEW s \in Runs, s # r
        PROVE  Handled(s)' /\ (cancels' = 0 => Renewing(s)')
    <2>1. run'[s] = run[s] BY <1>1 DEF OwnStep
    <2>2. CASE run[s].pc = "free"
      <3>1. run[s] = FreeRun
        BY <2>2 DEF BInv, CInv, IInv, TypeOK, ExecTypeOK, BusyRun, Pcs
      <3> QED BY <2>1, <3>1 DEF Handled, Renewing, FreeRun
    <2>3. CASE run[s].pc # "free"
      <3>1. run[s].node \in Nodes /\ run[s].job \in Jobs
        BY <2>3, RunTyping DEF BInv, CInv, BusyRun
      <3>2. run[s].job # run[r].job
        <4>1. r \in BusyOn(run[r].job) BY DEF BusyOn, OwnStep
        <4>2. run[s].job = run[r].job => s \in BusyOn(run[r].job) BY <2>3 DEF BusyOn, Busy
        <4> QED BY <1>1, <4>1, <4>2 DEF OwnStep, BInv, CInv, SoleActivation
      <3>3. /\ hbOf'[run[s].node][run[s].job] = hbOf[run[s].node][run[s].job]
            /\ acOf'[run[s].node][run[s].job] = acOf[run[s].node][run[s].job]
        BY <3>1, <3>2 DEF OwnStep
      <3>4. Handled(s) /\ (cancels = 0 => Renewing(s))
        BY DEF BInv, BeatInv, HeartbeatsRegistered, Renewing
      <3> QED BY <2>1, <3>3, <3>4 DEF Handled, Renewing
    <2> QED BY <2>2, <2>3
  <1>2. \A s \in Runs : Handled(s)' /\ (cancels' = 0 => Renewing(s)') BY <1>1
  <1>3. \A s \in Runs : Handled(s)' BY <1>2
  <1>4. HeartbeatsRegistered' BY <1>2 DEF HeartbeatsRegistered, Renewing
  <1> QED BY <1>3, <1>4 DEF BeatInv

(* A step of one activation, by whether it goes on, ends its work or leaves *)
(* the registrations as they are.                                           *)
LEMMA StepsBeat ==
  ASSUME BInv, NEW r \in Runs, UNCHANGED cancels,
         ExecutorStep(r) \/ HandlerTimesOut(r) \/ Progress(r) \/ ActivateFails(r) \/ SettleFails(r),
         ~HeartbeatLost(r)
  PROVE  BeatInv'
  <1>0. Busy(run[r])
    BY DEF ExecutorStep, FetchOrphan, AckOrphan, FetchForeign, NackForeign, Fetch, AcquireLock,
           AcquireRefused, NackRefused, Activate, GatePass, GateRefuse, HandlerSucceeds,
           HandlerDiscards, HandlerFails, HandlerRetries, HandlerTimesOut, Progress,
           ActivateFails, SettleFails, NackStop, NackSave, NackSend, FinStop, FinRead, FinSave,
           FinAck, Prune, At, Busy
  <1>1. /\ run[r] \in BusyRun /\ run \in [Runs -> BusyRun \cup {FreeRun}]
        /\ hbOf \in [Nodes -> [Jobs -> Runs \cup {NoRun}]]
        /\ acOf \in [Nodes -> [Jobs -> Runs \cup {NoRun}]]
        /\ Handled(r) /\ (cancels = 0 => Renewing(r))
    BY <1>0, RunTyping
    DEF Busy, BInv, CInv, BeatInv, HeartbeatsRegistered, Renewing, IInv, TypeOK, ExecTypeOK
  <1> USE <1>1 DEF At, BusyRun
  <1>2. ASSUME OwnStep(r), Handled(r)', cancels = 0 => Renewing(r)' PROVE BeatInv'
    BY <1>2, OwnStepKeeps
  <1>3. CASE FetchOrphan(r) \/ FetchForeign(r) \/ AcquireRefused(r) \/ GatePass(r) \/ GateRefuse(r)
             \/ Activate(r) \/ HandlerRetries(r) \/ ActivateFails(r) \/ NackSave(r) \/ FinSave(r)
    <2>1. /\ UNCHANGED <<hbOf, acOf>> /\ \A s \in Runs \ {r} : run'[s] = run[s]
          /\ run'[r].node = run[r].node /\ run'[r].job = run[r].job
          /\ run'[r].hb = run[r].hb /\ run'[r].aborted = run[r].aborted
          /\ run'[r].pc \in {"activate", "gate", "running"} => run[r].pc \in {"activate", "gate", "running"}
      BY <1>3
      DEF FetchOrphan, FetchForeign, AcquireRefused, GatePass, GateRefuse, Activate,
          HandlerRetries, ActivateFails, NackSave, FinSave, Goto
    <2> QED BY <1>0, <1>2, <2>1 DEF OwnStep, Handled, Renewing
  <1>4. CASE AckOrphan(r) \/ NackForeign(r) \/ NackRefused(r) \/ NackSend(r) \/ Prune(r) \/ SettleFails(r)
    <2>1. UNCHANGED <<hbOf, acOf>> /\ \A s \in Runs \ {r} : run'[s] = run[s]
      BY <1>4 DEF AckOrphan, NackForeign, NackRefused, NackSend, Prune, SettleFails, Settle
    <2>2. run'[r] = FreeRun
      BY <1>4 DEF AckOrphan, NackForeign, NackRefused, NackSend, Prune, SettleFails, Settle
    <2>3. OwnStep(r) BY <1>0, <2>1 DEF OwnStep
    <2>4. Handled(r)' /\ Renewing(r)' BY <2>2 DEF Handled, Renewing, FreeRun
    <2> QED BY <1>2, <2>3, <2>4
  <1>5. CASE Progress(r)
    <2>1. UNCHANGED <<run, hbOf, acOf>> BY <1>5 DEF Progress, execVars
    <2> QED BY <1>0, <1>2, <2>1 DEF OwnStep, Handled, Renewing
  <1>6. CASE FinRead(r) \/ FinAck(r)
    <2>1. /\ UNCHANGED <<hbOf, acOf>> /\ \A s \in Runs \ {r} : run'[s] = run[s]
          /\ run'[r] \in {FreeRun, [run[r] EXCEPT !.pc = "finSave"], [run[r] EXCEPT !.pc = "prune"]}
      BY <1>6 DEF FinRead, FinAck, Settle, Goto
    <2>2. OwnStep(r) BY <1>0, <2>1 DEF OwnStep
    <2>3. \/ run'[r] = FreeRun
          \/ /\ run'[r].pc \in {"finSave", "prune"} /\ run'[r].hb = run[r].hb
             /\ run'[r].node = run[r].node /\ run'[r].job = run[r].job
      BY <2>1
    <2>4. Handled(r)' BY <2>3 DEF Handled, FreeRun
    <2>5. cancels = 0 => Renewing(r)'
      <3>1. CASE run'[r] = FreeRun BY <3>1 DEF Renewing, FreeRun
      <3>2. CASE run'[r] # FreeRun BY <2>1, <2>3, <3>2 DEF Renewing
      <3> QED BY <3>1, <3>2
    <2> QED BY <1>2, <2>2, <2>4, <2>5
  <1>7. CASE Fetch(r)
    <2>1. /\ UNCHANGED hbOf /\ \A s \in Runs \ {r} : run'[s] = run[s]
          /\ run'[r].node = run[r].node /\ run'[r].job = run[r].job /\ run'[r].hb = run[r].hb
          /\ run'[r].pc = IF run[r].job \in Guaranteed THEN "acquire" ELSE "activate"
          /\ acOf' = IF run[r].job \in Guaranteed THEN acOf
                     ELSE [acOf EXCEPT ![run[r].node][run[r].job] = r]
      BY <1>7 DEF Fetch, Register
    <2>2. OwnStep(r) BY <1>0, <2>1 DEF OwnStep
    <2>3. Handled(r)' BY <2>1 DEF Handled
    <2>4. cancels = 0 => Renewing(r)' BY <2>1 DEF Renewing
    <2> QED BY <1>2, <2>2, <2>3, <2>4
  <1>8. CASE AcquireLock(r)
    <2>1. /\ \A s \in Runs \ {r} : run'[s] = run[s]
          /\ run'[r].node = run[r].node /\ run'[r].job = run[r].job /\ run'[r].hb
          /\ acOf' = [acOf EXCEPT ![run[r].node][run[r].job] = r]
          /\ hbOf' = [hbOf EXCEPT ![run[r].node][run[r].job] = r]
      BY <1>8 DEF AcquireLock, Register
    <2> QED BY <1>0, <1>2, <2>1 DEF OwnStep, Handled, Renewing
  <1>9. CASE HandlerSucceeds(r) \/ HandlerDiscards(r) \/ HandlerFails(r) \/ HandlerTimesOut(r)
    <2>1. /\ UNCHANGED hbOf /\ \A s \in Runs \ {r} : run'[s] = run[s]
          /\ run'[r].node = run[r].node /\ run'[r].job = run[r].job /\ run'[r].hb = run[r].hb
          /\ run'[r].pc = "finStop"
          /\ acOf' = [acOf EXCEPT ![run[r].node][run[r].job] = NoRun]
      BY <1>9 DEF HandlerSucceeds, HandlerDiscards, HandlerFails, HandlerTimesOut, Finish,
                  Unregister, Register
    <2> QED BY <1>0, <1>2, <2>1 DEF OwnStep, Handled, Renewing
  <1>10. CASE NackStop(r) \/ FinStop(r)
    <2>1. /\ \A s \in Runs \ {r} : run'[s] = run[s]
          /\ run'[r].node = run[r].node /\ run'[r].job = run[r].job /\ ~run'[r].hb
          /\ run'[r].pc \in {"nackSave", "finRead", "finSave"}
          /\ acOf' \in {acOf, [acOf EXCEPT ![run[r].node][run[r].job] = NoRun]}
          /\ hbOf' \in {hbOf, [hbOf EXCEPT ![run[r].node][run[r].job] = NoRun]}
      BY <1>10 DEF NackStop, FinStop, StopHeartbeat, Unregister, Register
    <2>2. OwnStep(r) BY <1>0, <2>1 DEF OwnStep
    <2>3. Handled(r)' /\ Renewing(r)' BY <2>1 DEF Handled, Renewing
    <2> QED BY <1>2, <2>2, <2>3
  <1> QED BY <1>3, <1>4, <1>5, <1>6, <1>7, <1>8, <1>9, <1>10 DEF ExecutorStep

(* A lost lease aborts the handler whose heartbeat ends.                    *)
LEMMA LosingBeats ==
  ASSUME BInv, NEW r \in Runs, HeartbeatLost(r), UNCHANGED cancels
  PROVE  BeatInv'
  <1> DEFINE n == run[r].node
             j == run[r].job
  <1>1. run \in [Runs -> BusyRun \cup {FreeRun}] BY DEF BInv, CInv, IInv, TypeOK, ExecTypeOK
  <1>2. run[r] \in BusyRun BY <1>1 DEF HeartbeatLost, FreeRun
  <1>3. OwnStep(r)
    <2>1. ASSUME NEW s \in Runs \ {r} PROVE run'[s] = run[s]
      <3>1. acOf[n][j] # s
        <4>1. acOf[n][j] = s => s \in BusyOn(j)
          BY <1>2 DEF BInv, CInv, IInv, RegistrationsLive, BusyRun, BusyOn, Busy, Abortable
        <4>2. r \in BusyOn(j) BY <1>2 DEF BusyOn, Busy, BusyRun, Pcs
        <4> QED BY <1>2, <4>1, <4>2 DEF BInv, CInv, SoleActivation, BusyRun
      <3> QED BY <3>1 DEF HeartbeatLost, AbortIn
    <2> QED BY <1>2, <2>1 DEF OwnStep, HeartbeatLost, BusyRun, Busy, Pcs
  <1>4. /\ run'[r].pc = run[r].pc /\ ~run'[r].hb
        /\ run'[r].node = n /\ run'[r].job = j
        /\ run'[r].aborted = IF acOf[n][j] = r THEN TRUE ELSE run[r].aborted
    BY <1>1, <1>2 DEF HeartbeatLost, AbortIn, BusyRun
  <1>5. Handled(r)' /\ Renewing(r)'
    BY <1>4 DEF BInv, BeatInv, Handled, Renewing, HeartbeatLost
  <1> QED BY <1>3, <1>5, OwnStepKeeps

(* A claim starts with nothing registered.                                  *)
LEMMA ClaimBeats ==
  ASSUME BInv, NEW n \in Nodes, NEW j \in Jobs, NEW r \in Runs, Claim(n, j, r), UNCHANGED cancels
  PROVE  BeatInv'
  <1>1. /\ run' = [run EXCEPT ![r] = [FreeRun EXCEPT !.pc = "fetch", !.node = n, !.job = j]]
        /\ UNCHANGED <<hbOf, acOf>>
    BY DEF Claim
  <1>2. run'[r].pc = "fetch" /\ ~run'[r].hb /\ \A s \in Runs \ {r} : run'[s] = run[s]
    BY <1>1 DEF FreeRun, BInv, CInv, IInv, TypeOK, ExecTypeOK
  <1>3. \A s \in Runs : Handled(s)' BY <1>1, <1>2 DEF BInv, BeatInv, Handled
  <1>4. HeartbeatsRegistered' BY <1>1, <1>2 DEF BInv, BeatInv, HeartbeatsRegistered
  <1> QED BY <1>3, <1>4 DEF BeatInv

(* Giving a job up aborts and silences the one activation it may concern.   *)
LEMMA GivingUpBeats ==
  ASSUME BInv, NEW n \in Nodes, NEW j \in Jobs, run' = SilenceIn(AbortIn(run, n, j), n, j),
         acOf' = Unregister(acOf, n, j),
         cancels' = 0 => cancels = 0 /\ hbOf' = Unregister(hbOf, n, j)
  PROVE  BeatInv'
  <1>1. /\ run \in [Runs -> BusyRun \cup {FreeRun}]
        /\ acOf \in [Nodes -> [Jobs -> Runs \cup {NoRun}]]
        /\ hbOf \in [Nodes -> [Jobs -> Runs \cup {NoRun}]]
    BY DEF BInv, CInv, IInv, TypeOK, ExecTypeOK
  <1>2. ASSUME NEW s \in Runs
        PROVE  /\ run'[s].pc = run[s].pc /\ run'[s].node = run[s].node /\ run'[s].job = run[s].job
               /\ run'[s].hb <=> run[s].hb /\ hbOf[n][j] # s
               /\ run'[s].aborted <=> run[s].aborted \/ acOf[n][j] = s
    BY <1>1 DEF SilenceIn, AbortIn, BusyRun, FreeRun
  <1>3. ASSUME NEW s \in Runs, run[s].pc # "free" PROVE run[s].node \in Nodes /\ run[s].job \in Jobs
    BY <1>1, <1>3 DEF BusyRun, FreeRun
  <1>4. ASSUME NEW s \in Runs PROVE Handled(s)'
    <2> SUFFICES ASSUME run[s].pc \in {"activate", "gate", "running"}, ~run'[s].aborted
                 PROVE  /\ acOf'[run[s].node][run[s].job] = s
                        /\ run[s].job \in Guaranteed => run'[s].hb
      BY <1>2 DEF Handled
    <2>1. /\ run[s].node \in Nodes /\ run[s].job \in Jobs /\ acOf[n][j] # s
          /\ acOf[run[s].node][run[s].job] = s /\ (run[s].job \in Guaranteed => run[s].hb)
      BY <1>2, <1>3 DEF BInv, BeatInv, Handled
    <2>2. <<run[s].node, run[s].job>> # <<n, j>> BY <2>1
    <2>3. acOf'[run[s].node][run[s].job] = s
      BY <1>1, <2>1, <2>2 DEF Unregister, Register
    <2>4. hbOf[n][j] # s
      BY <2>1, <2>2 DEF BInv, CInv, IInv, RegistrationsLive
    <2> QED BY <1>2, <2>1, <2>3, <2>4
  <1>5. HeartbeatsRegistered'
    <2> SUFFICES ASSUME cancels' = 0, NEW s \in Runs, run'[s].hb
                 PROVE  hbOf'[run'[s].node][run'[s].job] = s
      BY DEF HeartbeatsRegistered
    <2>1. run[s].hb /\ hbOf[n][j] # s /\ hbOf[run[s].node][run[s].job] = s
      BY <1>2 DEF BInv, BeatInv, HeartbeatsRegistered
    <2>2. run[s].node \in Nodes /\ run[s].job \in Jobs
      BY <1>1, <2>1 DEF BusyRun, FreeRun
    <2>3. hbOf' = [hbOf EXCEPT ![n][j] = NoRun] BY DEF Unregister, Register
    <2>4. <<run[s].node, run[s].job>> # <<n, j>> BY <2>1
    <2>5. hbOf'[run[s].node][run[s].job] = hbOf[run[s].node][run[s].job]
      BY <1>1, <2>2, <2>3, <2>4
    <2> QED BY <1>2, <2>1, <2>5
  <1> QED BY <1>4, <1>5 DEF BeatInv

(* The detector gives jobs up; the rest of it looks on.                     *)
LEMMA DetectorBeats ==
  ASSUME BInv, ExecutorOnly, DetectorNext
  PROVE  BeatInv'
  <1>1. PICK n \in Nodes : DetectorStep(n) \/ \E j \in Jobs : StallList(n, j)
    BY DEF DetectorNext
  <1>2. /\ stall[n].pc \in {"idle", "check"} /\ Kind[n] = "queue"
        /\ stall \in [Nodes -> Actor(StallPcs)]
    BY DEF BInv, CInv, RecoveryQuiet, ExecutorOnly, IInv, TypeOK, RecoveryTypeOK
  <1>3. StallOwned(n) \/ StallQueue(n) \/ \E j \in Jobs : StallList(n, j)
    BY <1>1, <1>2 DEF DetectorStep, StallWorker, StallGet, StallFail, StallSave, StallNack
  <1>4. CASE StallQueue(n)
    <2>1. stall[n].job \in Jobs BY <1>2, <1>4, ActorMoves DEF StallQueue, Actor, IdleActor
    <2> QED BY <1>4, <2>1, GivingUpBeats DEF StallQueue, Abandon
  <1>5. CASE UNCHANGED <<run, hbOf, acOf, cancels>>
    BY <1>5 DEF BInv, BeatInv, Handled, HeartbeatsRegistered
  <1> QED BY <1>3, <1>4, <1>5 DEF StallOwned, StallList, adapterless

(* A cancellation aborts before it silences, too.                           *)
LEMMA CancelBeats ==
  ASSUME BInv, CancelNext
  PROVE  BeatInv'
  <1>0. cancels \in Nat
    BY RecoveryAssumption DEF BInv, CInv, IInv, TypeOK, RecoveryTypeOK, RecoveryAssumption
  <1>1. PICK n \in Nodes : CancelStep(n) \/ \E j \in Jobs : CancelRead(n, j)
    BY DEF CancelNext
  <1>2. CASE UNCHANGED <<run, acOf>> /\ cancels' # 0
    BY <1>2 DEF BInv, BeatInv, Handled, HeartbeatsRegistered
  <1>3. CASE UNCHANGED <<run, hbOf, acOf, cancels>>
    BY <1>3 DEF BInv, BeatInv, Handled, HeartbeatsRegistered
  <1>4. ASSUME NEW j \in Jobs, CancelRead(n, j) PROVE BeatInv'
    <2>1. cancels' # 0 BY <1>0, <1>4 DEF CancelRead
    <2>2. CASE run' = SilenceIn(AbortIn(run, n, j), n, j) /\ acOf' = Unregister(acOf, n, j)
      BY <2>1, <2>2, GivingUpBeats
    <2> QED BY <1>2, <1>4, <2>1, <2>2 DEF CancelRead
  <1>5. CASE CancelStep(n)
    <2>1. CASE CancelStop(n)
      <3>1. UNCHANGED <<run, acOf, cancels>> /\ hbOf' = Unregister(hbOf, n, canc[n].job)
        BY <2>1 DEF CancelStop
      <3>2. cancels # 0 BY <2>1 DEF BInv, CancelsCounted, CancelStop
      <3> QED BY <1>2, <3>1, <3>2
    <2> QED BY <1>3, <1>5, <2>1 DEF CancelStep, CancelGet, CancelAck, CancelSave, adapterless
  <1> QED BY <1>1, <1>4, <1>5

(* A process that ends silences all it runs; one that is told to stop       *)
(* aborts what is registered.                                               *)
LEMMA ProcessBeats ==
  ASSUME BInv, ProcessNext
  PROVE  BeatInv'
  <1>0. /\ run \in [Runs -> BusyRun \cup {FreeRun}] /\ UNCHANGED cancels
        /\ hbOf \in [Nodes -> [Jobs -> Runs \cup {NoRun}]]
        /\ acOf \in [Nodes -> [Jobs -> Runs \cup {NoRun}]]
    BY DEF BInv, CInv, IInv, TypeOK, ExecTypeOK, ProcessNext, Start, Crash, StopBegin,
           StopDrained, StopTimedOut, Exit, LeaseExpires, LeaseLapses, recoveryVars
  <1>1. ASSUME UNCHANGED <<run, hbOf, acOf>> PROVE BeatInv'
    BY <1>0, <1>1 DEF BInv, BeatInv, Handled, HeartbeatsRegistered
  <1>2. ASSUME NEW n \in Nodes, Vanish(n) PROVE BeatInv'
    <2>1. ASSUME NEW s \in Runs PROVE Handled(s)' /\ (cancels' = 0 => Renewing(s)')
      <3>1. CASE run'[s] = FreeRun BY <3>1 DEF Handled, Renewing, FreeRun
      <3>2. CASE run'[s] # FreeRun
        <4>1. run'[s] = run[s] /\ run[s].node # n BY <1>2, <3>2 DEF Vanish
        <4>2. run[s].node \in Nodes BY <1>0, <3>2, <4>1 DEF BusyRun
        <4>3. /\ hbOf'[run[s].node] = hbOf[run[s].node] /\ acOf'[run[s].node] = acOf[run[s].node]
          BY <1>0, <1>2, <4>1, <4>2 DEF Vanish
        <4> QED BY <1>0, <4>1, <4>3 DEF BInv, BeatInv, Handled, Renewing, HeartbeatsRegistered
      <3> QED BY <3>1, <3>2
    <2>2. (\A s \in Runs : Handled(s)') /\ HeartbeatsRegistered'
      BY <2>1 DEF HeartbeatsRegistered, Renewing
    <2> QED BY <2>2 DEF BeatInv
  <1>3. ASSUME NEW n \in Nodes, StopBegin(n) PROVE BeatInv'
    <2>1. ASSUME NEW s \in Runs
          PROVE  /\ run'[s].pc = run[s].pc /\ run'[s].node = run[s].node
                 /\ run'[s].job = run[s].job /\ run'[s].hb = run[s].hb
                 /\ run'[s].aborted <=> run[s].aborted \/ \E j \in Jobs : acOf[n][j] = s
      BY <1>0, <1>3 DEF StopBegin, BusyRun, FreeRun
    <2>2. UNCHANGED hbOf /\ acOf' = [acOf EXCEPT ![n] = [j \in Jobs |-> NoRun]]
      BY <1>3 DEF StopBegin
    <2>3. ASSUME NEW s \in Runs PROVE Handled(s)'
      <3> SUFFICES ASSUME run[s].pc \in {"activate", "gate", "running"}, ~run'[s].aborted
                   PROVE  /\ acOf'[run[s].node][run[s].job] = s
                          /\ run[s].job \in Guaranteed => run'[s].hb
        BY <2>1 DEF Handled
      <3>1. run[s].node \in Nodes /\ run[s].job \in Jobs BY <1>0 DEF BusyRun, FreeRun
      <3>2. /\ acOf[run[s].node][run[s].job] = s /\ (run[s].job \in Guaranteed => run[s].hb)
            /\ \A j \in Jobs : acOf[n][j] # s
        BY <2>1 DEF BInv, BeatInv, Handled
      <3>3. run[s].node # n BY <3>1, <3>2
      <3>4. acOf'[run[s].node] = acOf[run[s].node] BY <1>0, <2>2, <3>1, <3>3
      <3> QED BY <2>1, <3>2, <3>4
    <2>4. HeartbeatsRegistered'
      BY <1>0, <2>1, <2>2 DEF BInv, BeatInv, HeartbeatsRegistered
    <2> QED BY <2>3, <2>4 DEF BeatInv
  <1> QED
    BY <1>1, <1>2, <1>3
    DEF ProcessNext, Start, Crash, StopDrained, StopTimedOut, Exit, LeaseExpires, LeaseLapses,
        execVars

(* Cancellations are under way only after one was counted.                  *)
LEMMA CountingCancels ==
  ASSUME BInv, ExecutorOnly, [Next]_vars
  PROVE  CancelsCounted'
  <1>1. cancels \in Nat /\ canc \in [Nodes -> Actor(CancelPcs)]
    BY RecoveryAssumption DEF BInv, CInv, IInv, TypeOK, RecoveryTypeOK, RecoveryAssumption
  <1>2. CASE UNCHANGED <<canc, cancels>> BY <1>2 DEF BInv, CancelsCounted
  <1>3. CASE CancelNext
    <2>1. PICK n \in Nodes : CancelStep(n) \/ \E j \in Jobs : CancelRead(n, j)
      BY <1>3 DEF CancelNext
    <2>2. CASE CancelStep(n)
      <3>1. cancels' # 0
        BY <2>2 DEF BInv, CancelsCounted, CancelStep, CancelStop, CancelGet, CancelAck, CancelSave
      <3> QED BY <3>1 DEF CancelsCounted
    <2>3. ASSUME NEW j \in Jobs, CancelRead(n, j) PROVE CancelsCounted'
      BY <1>1, <2>3 DEF CancelRead, CancelsCounted
    <2> QED BY <2>1, <2>2, <2>3
  <1>4. CASE ProcessNext
    <2>1. UNCHANGED cancels /\ \A n \in Nodes : canc'[n] \in {canc[n], IdleActor}
      BY <1>1, <1>4
      DEF ProcessNext, Start, Crash, StopBegin, StopDrained, StopTimedOut, Exit, Vanish,
          LeaseExpires, LeaseLapses, recoveryVars
    <2> QED BY <2>1 DEF BInv, CancelsCounted, IdleActor
  <1>5. CASE DetectorNext
    BY <1>2, <1>5
    DEF DetectorNext, DetectorStep, StallList, StallOwned, StallQueue, StallWorker, StallGet,
        StallFail, StallSave, StallNack
  <1>6. CASE ClientNext
    BY <1>2, <1>6 DEF ClientNext, AddSave, AddPublish, ClientCrash, recoveryVars
  <1>7. CASE ExecutorNext BY <1>2, <1>7 DEF ExecutorNext, Idle, recoveryVars
  <1>8. CASE UNCHANGED vars BY <1>2, <1>8 DEF vars, recoveryVars
  <1> QED BY <1>3, <1>4, <1>5, <1>6, <1>7, <1>8, OptionalRecoveryOff DEF Next, BInv

(* The invariant of the heartbeats is inductive.                            *)
LEMMA BeatsInductive ==
  ASSUME ExecutorOnly
  PROVE  /\ Init => BInv
         /\ BInv /\ [Next]_vars => BInv'
  <1>1. Init => BInv
    <2> SUFFICES ASSUME Init PROVE CancelsCounted /\ BeatInv BY CustodyInductive DEF BInv
    <2> QED BY DEF Init, ExecInit, RecoveryInit, CancelsCounted, BeatInv, Handled,
                   HeartbeatsRegistered, FreeRun, IdleActor
  <1>2. BInv /\ [Next]_vars => BInv'
    <2> SUFFICES ASSUME BInv, [Next]_vars PROVE BeatInv'
      BY CustodyInductive, CountingCancels DEF BInv
    <2>1. CASE ExecutorNext
      <3>1. UNCHANGED cancels BY <2>1 DEF ExecutorNext, Idle, recoveryVars
      <3>2. ASSUME NEW r \in Runs,
                   ExecutorStep(r) \/ HandlerTimesOut(r) \/ Progress(r) \/ ActivateFails(r)
                   \/ SettleFails(r)
            PROVE  BeatInv'
        BY <3>1, <3>2, StepsBeat, LosingBeats
      <3> QED BY <2>1, <3>1, <3>2, ClaimBeats DEF ExecutorNext
    <2>2. CASE ClientNext
      <3>1. UNCHANGED <<run, hbOf, acOf, cancels>>
        BY <2>2 DEF ClientNext, AddSave, AddPublish, ClientCrash, execVars, recoveryVars
      <3> QED BY <3>1 DEF BInv, BeatInv, Handled, HeartbeatsRegistered
    <2>3. CASE UNCHANGED vars
      <3>1. UNCHANGED <<run, hbOf, acOf, cancels>> BY <2>3 DEF vars, execVars, recoveryVars
      <3> QED BY <3>1 DEF BInv, BeatInv, Handled, HeartbeatsRegistered
    <2> QED
      BY <2>1, <2>2, <2>3, DetectorBeats, CancelBeats, ProcessBeats, OptionalRecoveryOff
      DEF Next, BInv
  <1> QED BY <1>1, <1>2

(* A handler that was not told to abort renews its lease, and unless        *)
(* something was cancelled the detector and stop() know its heartbeat.      *)
THEOREM HeartbeatsKeepTheirSide ==
  ASSUME ExecutorOnly
  PROVE  Spec => []HandlersBeat
  <1>1. BInv => HandlersBeat
    BY DEF BInv, BeatInv, Handled, HandlersBeat, UnawareHandlersBeat, HeartbeatsRegistered
  <1> QED BY <1>1, BeatsInductive, PTL DEF Spec
-----------------------------------------------------------------------------
(* Slots.  What has started is in the slots of its instance, and the slots  *)
(* with the ids being fetched stay within the limit.  Without heartbeats    *)
(* and cancellations nobody else frees a slot.                              *)
Taking == {"fetch", "orphan", "foreign"}
Started(r) == run[r].pc \notin Taking \cup {"free", "leaked"}
SlotsHeld == \A r \in Runs : Started(r) => run[r].job \in slots[run[r].node]
Full(n) == Cardinality(slots[n]) + Cardinality(Fetching(n)) <= Concurrency
SlotsFinite == \A n \in Nodes : IsFiniteSet(slots[n]) /\ Full(n)

NobodyGivesUp == ExecutorOnly /\ MaxCancels = 0 /\ Guaranteed = {}
SlotInv == SlotsHeld /\ SlotsFinite /\ \A n \in Nodes : stall[n].pc = "idle"
SInv == BInv /\ SlotInv

(* The ids being fetched are finitely many.                                 *)
LEMMA FetchingFinite ==
  ASSUME NEW n
  PROVE  IsFiniteSet(Fetching(n)) /\ Cardinality(Fetching(n)) \in Nat
  <1>1. IsFiniteSet(Runs) BY ExecutorAssumption DEF ExecutorAssumption
  <1>2. Fetching(n) \in SUBSET Runs BY DEF Fetching
  <1>3. IsFiniteSet(Fetching(n)) BY <1>1, <1>2, FS_Subset
  <1> QED BY <1>3, FS_CardinalityType

(* Slots that are freed and fetches that end keep an instance in its limit. *)
LEMMA FreeingFits ==
  ASSUME NEW n, IsFiniteSet(slots[n]), Full(n),
         slots'[n] \subseteq slots[n], Fetching(n)' \subseteq Fetching(n)
  PROVE  IsFiniteSet(slots'[n]) /\ Full(n)'
  <1>1. /\ IsFiniteSet(slots'[n]) /\ Cardinality(slots'[n]) <= Cardinality(slots[n])
        /\ Cardinality(slots[n]) \in Nat /\ Cardinality(slots'[n]) \in Nat
    <2>1. IsFiniteSet(slots'[n]) /\ Cardinality(slots'[n]) <= Cardinality(slots[n]) BY FS_Subset
    <2> QED BY <2>1, FS_CardinalityType
  <1>2. /\ Cardinality(Fetching(n)') <= Cardinality(Fetching(n))
        /\ Cardinality(Fetching(n)) \in Nat /\ Cardinality(Fetching(n)') \in Nat
    <2>1. IsFiniteSet(Fetching(n)) /\ Cardinality(Fetching(n)) \in Nat BY FetchingFinite
    <2>2. IsFiniteSet(Fetching(n)') /\ Cardinality(Fetching(n)') <= Cardinality(Fetching(n))
      BY <2>1, FS_Subset
    <2> QED BY <2>1, <2>2, FS_CardinalityType
  <1>3. Concurrency \in Nat BY ExecutorAssumption DEF ExecutorAssumption
  <1> QED BY <1>1, <1>2, <1>3 DEF Full

(* A step of an activation that takes no slot; if it frees one, that of its *)
(* own job, which no other activation runs.                                 *)
LEMMA NoSlotTaken ==
  ASSUME SInv, NEW r \in Runs, Busy(run[r]), UNCHANGED stall,
         \A s \in Runs \ {r} : run'[s] = run[s],
         \/ run'[r] = FreeRun
         \/ run'[r].node = run[r].node /\ run'[r].job = run[r].job,
         Started(r)' => Started(r),
         run'[r].pc \in Taking => run[r].pc \in Taking,
         \/ slots' = slots
         \/ slots' = [slots EXCEPT ![run[r].node] = @ \ {run[r].job}] /\ ~Started(r)'
  PROVE  SlotInv'
  <1>1. /\ run \in [Runs -> BusyRun \cup {FreeRun}] /\ slots \in [Nodes -> SUBSET Jobs]
        /\ run[r].job \in Jobs /\ run[r].node \in Nodes
    BY RunTyping DEF SInv, BInv, CInv, IInv, TypeOK, ExecTypeOK, Busy, BusyRun
  <1>2. ASSUME NEW n \in Nodes
        PROVE  IsFiniteSet(slots'[n]) /\ Full(n)'
    <2>1. slots'[n] \subseteq slots[n] BY <1>1
    <2>2. Fetching(n)' \subseteq Fetching(n)
      <3> SUFFICES ASSUME NEW s \in Runs, run'[s].node = n, run'[s].pc \in Taking
                   PROVE  run[s].node = n /\ run[s].pc \in Taking
        BY DEF Fetching, Taking
      <3>1. CASE s # r BY <3>1
      <3>2. CASE s = r BY <3>2 DEF FreeRun, Taking
      <3> QED BY <3>1, <3>2
    <2> QED BY <2>1, <2>2, FreeingFits DEF SInv, SlotInv, SlotsFinite
  <1>3. ASSUME NEW s \in Runs, Started(s)'
        PROVE  run'[s].job \in slots'[run'[s].node]
    <2>1. CASE s = r
      <3>1. run'[r].node = run[r].node /\ run'[r].job = run[r].job /\ slots' = slots /\ Started(r)
        BY <1>3, <2>1 DEF Started, FreeRun
      <3> QED BY <2>1, <3>1 DEF SInv, SlotInv, SlotsHeld
    <2>2. CASE s # r
      <3>1. run'[s] = run[s] /\ Started(s) BY <1>3, <2>2 DEF Started
      <3>2. run[s].node \in Nodes /\ Busy(run[s])
        BY <1>1, <3>1 DEF Started, FreeRun, BusyRun, Busy
      <3>3. run[s].job # run[r].job
        <4>1. run[s].job = run[r].job => s \in BusyOn(run[r].job) BY <3>2 DEF BusyOn
        <4>2. r \in BusyOn(run[r].job) BY DEF BusyOn
        <4> QED BY <1>1, <2>2, <4>1, <4>2 DEF SInv, BInv, CInv, SoleActivation
      <3>4. run[s].job \in slots[run[s].node] BY <3>1 DEF SInv, SlotInv, SlotsHeld
      <3> QED BY <1>1, <3>1, <3>2, <3>3, <3>4
    <2> QED BY <2>1, <2>2
  <1> QED BY <1>2, <1>3 DEF SInv, SlotInv, SlotsHeld, SlotsFinite

(* Without guaranteedWorker no heartbeat beats.                             *)
LEMMA NobodyBeats ==
  ASSUME SInv, NobodyGivesUp
  PROVE  /\ cancels = 0
         /\ \A r \in Runs : ~run[r].hb
         /\ \A n \in Nodes, j \in Jobs : hbOf[n][j] = NoRun
  <1>1. /\ cancels \in 0 .. MaxCancels /\ run \in [Runs -> BusyRun \cup {FreeRun}]
        /\ hbOf \in [Nodes -> [Jobs -> Runs \cup {NoRun}]]
    BY DEF SInv, BInv, CInv, IInv, TypeOK, RecoveryTypeOK, ExecTypeOK
  <1>2. cancels = 0 BY <1>1 DEF NobodyGivesUp
  <1>3. \A n \in Nodes, j \in Jobs : hbOf[n][j] = NoRun
    BY <1>1 DEF SInv, BInv, CInv, IInv, RegistrationsLive, NobodyGivesUp
  <1>4. ASSUME NEW r \in Runs, run[r].hb PROVE FALSE
    <2>1. run[r].node \in Nodes /\ run[r].job \in Jobs
      BY <1>1, <1>4 DEF FreeRun, BusyRun
    <2>2. hbOf[run[r].node][run[r].job] = r
      BY <1>2, <1>4 DEF SInv, BInv, BeatInv, HeartbeatsRegistered
    <2> QED BY <1>3, <2>1, <2>2, ExecutorAssumption DEF ExecutorAssumption
  <1> QED BY <1>2, <1>3, <1>4

(* The claim counts what is being fetched, or two polls would share a slot. *)
LEMMA ClaimFits ==
  ASSUME SInv, NEW n \in Nodes, NEW j \in Jobs, NEW r \in Runs, Claim(n, j, r), UNCHANGED stall
  PROVE  SlotInv'
  <1>1. run \in [Runs -> BusyRun \cup {FreeRun}] /\ slots \in [Nodes -> SUBSET Jobs]
    BY DEF SInv, BInv, CInv, IInv, TypeOK, ExecTypeOK
  <1>2. /\ UNCHANGED slots /\ \A s \in Runs \ {r} : run'[s] = run[s]
        /\ run'[r].pc = "fetch" /\ run'[r].node = n /\ run[r].pc = "free"
        /\ Cardinality(slots[n]) + Cardinality(Fetching(n)) < Concurrency
    BY <1>1 DEF Claim, FreeRun, At
  <1>3. \A s \in Runs : Started(s)' => s # r BY <1>2 DEF Started, Taking
  <1>4. SlotsHeld' BY <1>2, <1>3 DEF SInv, SlotInv, SlotsHeld, Started
  <1>5. ASSUME NEW m \in Nodes PROVE IsFiniteSet(slots'[m]) /\ Full(m)'
    <2>1. CASE m # n
      <3>1. Fetching(m)' \subseteq Fetching(m)
        BY <1>2, <2>1 DEF Fetching
      <3> QED BY <1>2, <3>1, FreeingFits DEF SInv, SlotInv, SlotsFinite
    <2>2. CASE m = n
      <3>1. Fetching(n)' = Fetching(n) \cup {r} BY <1>2 DEF Fetching
      <3>2. r \notin Fetching(n) BY <1>2 DEF Fetching
      <3>3. Cardinality(Fetching(n)') = Cardinality(Fetching(n)) + 1
        BY <3>1, <3>2, FetchingFinite, FS_AddElement
      <3>4. Cardinality(slots[n]) \in Nat /\ Cardinality(Fetching(n)) \in Nat /\ Concurrency \in Nat
        BY FetchingFinite, FS_CardinalityType, ExecutorAssumption
        DEF SInv, SlotInv, SlotsFinite, ExecutorAssumption
      <3> QED BY <1>2, <2>2, <3>3, <3>4 DEF Full, SInv, SlotInv, SlotsFinite
    <2> QED BY <2>1, <2>2
  <1> QED BY <1>4, <1>5 DEF SInv, SlotInv, SlotsFinite

(* What was being fetched enters the slots in the step that ends the fetch. *)
LEMMA FetchFits ==
  ASSUME SInv, NEW r \in Runs, Fetch(r), UNCHANGED stall
  PROVE  SlotInv'
  <1> DEFINE n == run[r].node
             j == run[r].job
  <1>0. run[r].pc = "fetch" BY DEF Fetch, At
  <1>1. /\ run \in [Runs -> BusyRun \cup {FreeRun}] /\ slots \in [Nodes -> SUBSET Jobs]
        /\ n \in Nodes /\ j \in Jobs
    BY <1>0, RunTyping DEF SInv, BInv, CInv, IInv, TypeOK, ExecTypeOK, BusyRun
  <1>2. /\ slots' = [slots EXCEPT ![n] = @ \cup {j}] /\ \A s \in Runs \ {r} : run'[s] = run[s]
        /\ run'[r].pc \in {"acquire", "activate"} /\ run'[r].node = n /\ run'[r].job = j
    BY <1>0, <1>1, RunTyping DEF Fetch, SInv, BInv, CInv, BusyRun
  <1>3. SlotsHeld'
    <2> SUFFICES ASSUME NEW s \in Runs, Started(s)'
                 PROVE  run'[s].job \in slots'[run'[s].node]
      BY DEF SlotsHeld
    <2>1. CASE s = r BY <1>1, <1>2, <2>1
    <2>2. CASE s # r
      <3>1. run'[s] = run[s] /\ Started(s) BY <1>2, <2>2 DEF Started
      <3>2. run[s].node \in Nodes BY <1>1, <3>1 DEF Started, FreeRun, BusyRun
      <3>3. run[s].job \in slots[run[s].node] BY <3>1 DEF SInv, SlotInv, SlotsHeld
      <3> QED BY <1>1, <1>2, <3>1, <3>2, <3>3
    <2> QED BY <2>1, <2>2
  <1>4. ASSUME NEW m \in Nodes PROVE IsFiniteSet(slots'[m]) /\ Full(m)'
    <2>1. CASE m # n
      <3>1. Fetching(m)' \subseteq Fetching(m) BY <1>2, <2>1 DEF Fetching
      <3> QED BY <1>1, <1>2, <2>1, <3>1, FreeingFits DEF SInv, SlotInv, SlotsFinite
    <2>2. CASE m = n
      <3>1. Fetching(m)' = Fetching(m) \ {r} /\ r \in Fetching(m)
        BY <1>0, <1>2, <2>2 DEF Fetching
      <3>2. Cardinality(Fetching(m)') = Cardinality(Fetching(m)) - 1
        BY <3>1, FetchingFinite, FS_RemoveElement
      <3>3. slots'[m] = slots[m] \cup {j} BY <1>1, <1>2, <2>2
      <3>4. IsFiniteSet(slots[m]) /\ Full(m) BY DEF SInv, SlotInv, SlotsFinite
      <3>5. IsFiniteSet(slots'[m]) /\ Cardinality(slots'[m]) \in {Cardinality(slots[m]), Cardinality(slots[m]) + 1}
        BY <3>3, <3>4, FS_AddElement
      <3>6. Cardinality(slots[m]) \in Nat /\ Cardinality(Fetching(m)) \in Nat /\ Concurrency \in Nat
        BY <3>4, FetchingFinite, FS_CardinalityType, ExecutorAssumption DEF ExecutorAssumption
      <3> QED BY <3>2, <3>4, <3>5, <3>6 DEF Full
    <2> QED BY <2>1, <2>2
  <1> QED BY <1>3, <1>4 DEF SInv, SlotInv, SlotsFinite

(* Every other step of the executor takes no slot.                          *)
LEMMA StepsFit ==
  ASSUME SInv, NobodyGivesUp, NEW r \in Runs, UNCHANGED stall,
         ExecutorStep(r) \/ HandlerTimesOut(r) \/ Progress(r) \/ ActivateFails(r) \/ SettleFails(r)
  PROVE  SlotInv'
  <1>0. ~HeartbeatLost(r) BY NobodyBeats DEF HeartbeatLost
  <1>1. Busy(run[r])
    BY <1>0
    DEF ExecutorStep, FetchOrphan, AckOrphan, FetchForeign, NackForeign, Fetch, AcquireLock,
        AcquireRefused, NackRefused, Activate, GatePass, GateRefuse, HandlerSucceeds,
        HandlerDiscards, HandlerFails, HandlerRetries, HandlerTimesOut, Progress,
        ActivateFails, SettleFails, NackStop, NackSave, NackSend, FinStop, FinRead, FinSave,
        FinAck, Prune, At, Busy
  <1>2. run[r] \in BusyRun /\ run \in [Runs -> BusyRun \cup {FreeRun}]
    BY <1>1, RunTyping DEF Busy, SInv, BInv, CInv
  <1> USE <1>2 DEF At, BusyRun
  <1>3. CASE FetchOrphan(r) \/ FetchForeign(r)
    <2>1. /\ UNCHANGED slots /\ \A s \in Runs \ {r} : run'[s] = run[s]
          /\ run'[r].node = run[r].node /\ run'[r].job = run[r].job
          /\ run[r].pc \in Taking /\ run'[r].pc \in Taking
      BY <1>3 DEF FetchOrphan, FetchForeign, Goto, Taking
    <2> QED BY <1>1, <2>1, NoSlotTaken DEF Started
  <1>4. CASE AckOrphan(r) \/ NackForeign(r) \/ NackRefused(r) \/ NackSend(r) \/ Prune(r)
             \/ SettleFails(r)
    <2>1. /\ \A s \in Runs \ {r} : run'[s] = run[s] /\ run'[r] = FreeRun
          /\ slots' \in {slots, [slots EXCEPT ![run[r].node] = @ \ {run[r].job}]}
      BY <1>4 DEF AckOrphan, NackForeign, NackRefused, NackSend, Prune, SettleFails, Settle
    <2>2. run'[r] = FreeRun
      BY <1>4 DEF AckOrphan, NackForeign, NackRefused, NackSend, Prune, SettleFails, Settle
    <2>3. ~Started(r)' /\ run'[r].pc \notin Taking BY <2>2 DEF FreeRun, Started, Taking
    <2> QED BY <1>1, <2>1, <2>2, <2>3, NoSlotTaken
  <1>5. CASE AcquireLock(r) \/ AcquireRefused(r) \/ Activate(r) \/ GatePass(r) \/ GateRefuse(r)
             \/ HandlerSucceeds(r) \/ HandlerDiscards(r) \/ HandlerFails(r) \/ HandlerRetries(r)
             \/ HandlerTimesOut(r) \/ NackStop(r) \/ NackSave(r) \/ FinStop(r) \/ FinSave(r)
    <2>1. /\ UNCHANGED slots /\ \A s \in Runs \ {r} : run'[s] = run[s]
          /\ run'[r].node = run[r].node /\ run'[r].job = run[r].job
      BY <1>5
      DEF AcquireLock, AcquireRefused, Activate, GatePass, GateRefuse, HandlerSucceeds,
          HandlerDiscards, HandlerFails, HandlerRetries, HandlerTimesOut, NackStop, NackSave,
          FinStop, FinSave, Goto, Finish
    <2>2. run'[r].pc \notin Taking /\ run[r].pc \notin Taking \cup {"free", "leaked"}
      BY <1>5
      DEF AcquireLock, AcquireRefused, Activate, GatePass, GateRefuse, HandlerSucceeds,
          HandlerDiscards, HandlerFails, HandlerRetries, HandlerTimesOut, NackStop, NackSave,
          FinStop, FinSave, Goto, Finish, Taking
    <2>3. Started(r) BY <2>2 DEF Started
    <2> QED BY <1>1, <2>1, <2>2, <2>3, NoSlotTaken
  <1>6. CASE Progress(r)
    <2>1. UNCHANGED <<run, slots>> BY <1>6 DEF Progress, execVars
    <2> QED BY <1>1, <2>1, NoSlotTaken DEF Started
  <1>7. CASE ActivateFails(r)
    <2>1. /\ \A s \in Runs \ {r} : run'[s] = run[s]
          /\ run'[r].node = run[r].node /\ run'[r].job = run[r].job /\ run'[r].pc = "leaked"
          /\ slots' = [slots EXCEPT ![run[r].node] = @ \ {run[r].job}]
      BY <1>7 DEF ActivateFails
    <2>2. ~Started(r)' /\ run'[r].pc \notin Taking BY <2>1 DEF Started, Taking
    <2> QED BY <1>1, <2>1, <2>2, NoSlotTaken
  <1>8. CASE FinRead(r) \/ FinAck(r)
    <2>1. /\ \A s \in Runs \ {r} : run'[s] = run[s]
          /\ \/ /\ run'[r] \in {[run[r] EXCEPT !.pc = "finSave"], [run[r] EXCEPT !.pc = "prune"]}
                /\ UNCHANGED slots
             \/ /\ run'[r] = FreeRun
                /\ slots' = [slots EXCEPT ![run[r].node] = @ \ {run[r].job}]
      BY <1>8 DEF FinRead, FinAck, Settle, Goto
    <2>2. CASE run'[r] = FreeRun
      <3>1. ~Started(r)' /\ run'[r].pc \notin Taking BY <2>2 DEF FreeRun, Started, Taking
      <3> QED BY <1>1, <2>1, <2>2, <3>1, NoSlotTaken
    <2>3. CASE run'[r] # FreeRun
      <3>1. /\ UNCHANGED slots /\ run'[r].node = run[r].node /\ run'[r].job = run[r].job
            /\ run'[r].pc \in {"finSave", "prune"}
        BY <2>1, <2>3
      <3>2. Started(r) BY <1>8 DEF FinRead, FinAck, Started, Taking
      <3>3. run'[r].pc \notin Taking BY <3>1 DEF Taking
      <3> QED BY <1>1, <2>1, <3>1, <3>2, <3>3, NoSlotTaken
    <2> QED BY <2>2, <2>3
  <1>9. CASE Fetch(r) BY <1>9, FetchFits
  <1> QED BY <1>0, <1>3, <1>4, <1>5, <1>6, <1>7, <1>8, <1>9 DEF ExecutorStep

(* A process that ends frees all its slots; one told to stop keeps them.    *)
LEMMA ProcessFits ==
  ASSUME SInv, ProcessNext
  PROVE  SlotInv'
  <1>0. /\ run \in [Runs -> BusyRun \cup {FreeRun}] /\ slots \in [Nodes -> SUBSET Jobs]
        /\ stall \in [Nodes -> Actor(StallPcs)]
    BY DEF SInv, BInv, CInv, IInv, TypeOK, ExecTypeOK, RecoveryTypeOK
  <1>1. ASSUME UNCHANGED <<run, slots, stall>> PROVE SlotInv'
    BY <1>1 DEF SInv, SlotInv, SlotsHeld, SlotsFinite, Started, Full, Fetching
  <1>2. ASSUME NEW n \in Nodes, Vanish(n) PROVE SlotInv'
    <2>1. /\ \A s \in Runs : run'[s] = IF run[s].node = n THEN FreeRun ELSE run[s]
          /\ slots' = [slots EXCEPT ![n] = {}] /\ stall' = [stall EXCEPT ![n] = IdleActor]
      BY <1>2 DEF Vanish
    <2>2. \A m \in Nodes : stall'[m].pc = "idle" BY <1>0, <2>1 DEF IdleActor, SInv, SlotInv
    <2>3. ASSUME NEW s \in Runs, Started(s)' PROVE run'[s].job \in slots'[run'[s].node]
      <3>1. run'[s] = run[s] /\ run[s].node # n BY <2>1, <2>3 DEF Started, FreeRun
      <3>2. run[s].node \in Nodes BY <1>0, <2>3, <3>1 DEF Started, FreeRun, BusyRun
      <3>3. slots'[run[s].node] = slots[run[s].node] BY <1>0, <2>1, <3>1, <3>2
      <3> QED BY <2>3, <3>1, <3>3 DEF SInv, SlotInv, SlotsHeld, Started
    <2>4. ASSUME NEW m \in Nodes PROVE IsFiniteSet(slots'[m]) /\ Full(m)'
      <3>1. slots'[m] \subseteq slots[m] BY <1>0, <2>1
      <3>2. Fetching(m)' \subseteq Fetching(m) BY <2>1 DEF Fetching, FreeRun
      <3> QED BY <3>1, <3>2, FreeingFits DEF SInv, SlotInv, SlotsFinite
    <2> QED BY <2>2, <2>3, <2>4 DEF SlotInv, SlotsHeld, SlotsFinite
  <1>3. ASSUME NEW n \in Nodes, StopBegin(n) PROVE SlotInv'
    <2>1. UNCHANGED <<slots, stall>> BY <1>3 DEF StopBegin, recoveryVars
    <2>2. ASSUME NEW s \in Runs
          PROVE  run'[s].pc = run[s].pc /\ run'[s].node = run[s].node /\ run'[s].job = run[s].job
      BY <1>0, <1>3 DEF StopBegin, BusyRun, FreeRun
    <2>3. \A m \in Nodes : Fetching(m)' \subseteq Fetching(m) BY <2>2 DEF Fetching
    <2>4. SlotsHeld' BY <2>1, <2>2 DEF SInv, SlotInv, SlotsHeld, Started
    <2>5. SlotsFinite' BY <2>1, <2>3, FreeingFits DEF SInv, SlotInv, SlotsFinite
    <2> QED BY <2>1, <2>4, <2>5 DEF SInv, SlotInv
  <1> QED
    BY <1>1, <1>2, <1>3
    DEF ProcessNext, Start, Crash, StopDrained, StopTimedOut, Exit, LeaseExpires, LeaseLapses,
        execVars, recoveryVars

(* The invariant of the slots is inductive.                                 *)
LEMMA SlotsInductive ==
  ASSUME NobodyGivesUp
  PROVE  /\ Init => SInv
         /\ SInv /\ [Next]_vars => SInv'
  <1>0. ExecutorOnly BY DEF NobodyGivesUp
  <1>1. Init => SInv
    <2> SUFFICES ASSUME Init PROVE SlotInv BY <1>0, BeatsInductive DEF SInv
    <2>1. SlotsHeld /\ \A n \in Nodes : stall[n].pc = "idle"
      BY DEF Init, ExecInit, RecoveryInit, SlotsHeld, Started, FreeRun, IdleActor
    <2>2. ASSUME NEW n \in Nodes PROVE IsFiniteSet(slots[n]) /\ Full(n)
      <3>1. slots[n] = {} BY DEF Init, ExecInit
      <3>2. Fetching(n) = {} BY DEF Init, ExecInit, Fetching, FreeRun
      <3>3. Concurrency \in Nat BY ExecutorAssumption DEF ExecutorAssumption
      <3> QED BY <3>1, <3>2, <3>3, FS_EmptySet DEF Full
    <2> QED BY <2>1, <2>2 DEF SlotInv, SlotsFinite
  <1>2. SInv /\ [Next]_vars => SInv'
    <2> SUFFICES ASSUME SInv, [Next]_vars PROVE SlotInv'
      BY <1>0, BeatsInductive DEF SInv
    <2>1. ASSUME UNCHANGED <<run, slots, stall>> PROVE SlotInv'
      BY <2>1 DEF SInv, SlotInv, SlotsHeld, SlotsFinite, Started, Full, Fetching
    <2>2. CASE ExecutorNext
      <3>1. UNCHANGED stall BY <2>2 DEF ExecutorNext, Idle, recoveryVars
      <3> QED BY <2>2, <3>1, ClaimFits, StepsFit DEF ExecutorNext
    <2>3. CASE ClientNext
      BY <2>1, <2>3 DEF ClientNext, AddSave, AddPublish, ClientCrash, execVars, recoveryVars
    <2>4. CASE UNCHANGED vars BY <2>1, <2>4 DEF vars, execVars, recoveryVars
    <2>5. ~DetectorNext
      BY NobodyBeats
      DEF SInv, SlotInv, DetectorNext, DetectorStep, StallOwned, StallQueue, StallWorker,
          StallGet, StallFail, StallSave, StallNack, StallList
    <2>6. ~CancelNext
      <3>1. \A n \in Nodes : canc[n].pc = "idle" BY NobodyBeats DEF SInv, BInv, CancelsCounted
      <3>2. ~(cancels < MaxCancels) BY NobodyBeats DEF NobodyGivesUp
      <3> QED BY <3>1, <3>2
          DEF CancelNext, CancelStep, CancelStop, CancelGet, CancelAck, CancelSave, CancelRead
    <2> QED
      BY <1>0, <2>2, <2>3, <2>4, <2>5, <2>6, ProcessFits, OptionalRecoveryOff
      DEF Next, SInv, BInv
  <1> QED BY <1>1, <1>2

(* No more handlers run than there are slots: each has its own job, and its *)
(* job is in the slots of the instance.                                     *)
LEMMA HandlersHaveSlots ==
  ASSUME SInv, NEW n \in Nodes
  PROVE  Cardinality(Handlers(n)) <= Concurrency
  <1>1. /\ run \in [Runs -> BusyRun \cup {FreeRun}] /\ IsFiniteSet(Runs)
        /\ Concurrency \in Nat
    BY ExecutorAssumption DEF SInv, BInv, CInv, IInv, TypeOK, ExecTypeOK, ExecutorAssumption
  <1>2. IsFiniteSet(Handlers(n))
    <2>1. Handlers(n) \in SUBSET Runs BY DEF Handlers
    <2> QED BY <1>1, <2>1, FS_Subset
  <1>3. ASSUME NEW r \in Handlers(n)
        PROVE  run[r].job \in slots[n] /\ r \in BusyOn(run[r].job) /\ run[r].job \in Jobs
    <2>1. r \in Runs /\ run[r].node = n /\ Started(r) /\ Busy(run[r])
      BY DEF Handlers, Started, Taking, Busy
    <2>2. run[r].job \in Jobs BY <1>1, <2>1 DEF Busy, FreeRun, BusyRun
    <2> QED BY <2>1, <2>2 DEF SInv, SlotInv, SlotsHeld, BusyOn
  <1> DEFINE jobOf == [r \in Handlers(n) |-> run[r].job]
  <1>4. jobOf \in [Handlers(n) -> slots[n]] BY <1>3
  <1>5. \A r, s \in Handlers(n) : r # s => jobOf[r] # jobOf[s]
    BY <1>3 DEF SInv, BInv, CInv, SoleActivation
  <1>6. IsFiniteSet(slots[n]) /\ Full(n) BY DEF SInv, SlotInv, SlotsFinite
  <1>7. Cardinality(Handlers(n)) <= Cardinality(slots[n])
    <2> HIDE DEF jobOf
    <2>1. Cardinality(Handlers(n)) \in Nat /\ Cardinality(slots[n]) \in Nat
      BY <1>2, <1>6, FS_CardinalityType
    <2>2. CASE Cardinality(Handlers(n)) > Cardinality(slots[n])
      BY <1>2, <1>4, <1>5, <1>6, <2>2, FS_PigeonHole
    <2> QED BY <2>1, <2>2
  <1>8. /\ Cardinality(slots[n]) \in Nat /\ Cardinality(Fetching(n)) \in Nat
        /\ Cardinality(Handlers(n)) \in Nat
    BY <1>2, <1>6, FetchingFinite, FS_CardinalityType
  <1> QED BY <1>1, <1>6, <1>7, <1>8 DEF Full

(* Concurrency is kept, for any number of instances and jobs, as long as no *)
(* heartbeat and no cancellation makes an instance give a running job up.   *)
THEOREM SlotsAreKept ==
  ASSUME NobodyGivesUp
  PROVE  Spec => []WithinConcurrency
  <1>1. SInv => WithinConcurrency BY HandlersHaveSlots DEF WithinConcurrency
  <1> QED BY <1>1, SlotsInductive, PTL DEF Spec

-----------------------------------------------------------------------------
(***************************************************************************)
(* What becomes of a job among QueueEngine instances whose optional        *)
(* recovery is off: its outcome is decided once, its attempts stay within  *)
(* the budget, it is not mislaid, and the engine implements the abstract   *)
(* life of a job.  All of it rests on one invariant, which says what the   *)
(* record of a job looks like given who has its id.                        *)
(***************************************************************************)

Holding(x) == x.pc \notin {"free", "leaked"}
Claimable(rec) == rec.status \in {"waiting", "delayed"} /\ rec.attempt <= MaxRetries

(* What an activation carries, given the record that is stored for its job. *)
Fits(x, rec) ==
  /\ x.pc \in {"fetch", "foreign"} => Claimable(rec)
  /\ x.pc \in {"acquire", "refused", "activate"} => Claimable(rec) /\ x.rec = rec
  /\ x.pc \in {"gate", "running", "nackStop", "nackSave", "finStop", "finRead", "finSave"}
       => rec.status = "active"
  /\ x.pc \in {"gate", "running"} => x.rec.status = "active"
  /\ x.pc \in {"gate", "running", "finStop", "finRead", "finSave"}
       => x.rec.attempt <= MaxRetries + 1
  /\ x.pc = "gate" => Claimable(x.prev)
  /\ x.pc \in {"nackStop", "nackSave", "nackSend"} => Claimable(x.rec)
  /\ x.pc \in {"finStop", "finRead", "finSave"} => x.rec.status \in {"completed", "failed"}
  /\ x.pc = "nackSend" => x.rec = rec
  /\ x.pc \in {"finAck", "prune"} => rec.status \in Terminal
  /\ x.pc # "orphan"

(* Unless something was cancelled, every record is what its holder left.    *)
Kempt ==
  /\ \A n \in Nodes : canc[n].pc = "idle"
  /\ \A r \in Runs : run[r].pc # "free" => Fits(run[r], store[run[r].job])
  /\ \A j \in Jobs : /\ store[j].attempt <= MaxRetries + 1
                     /\ place[j] # "out" => Claimable(store[j])
                     /\ client[j] = "new" => store[j] = NoRecord
                     /\ client[j] = "saved" => Claimable(store[j])

OInv == CInv /\ (cancels = 0 => Kempt /\ NoJobMislaid)

-----------------------------------------------------------------------------
(* A step of one activation touches its own job only.                       *)
OneMoves(r) ==
  LET j == run[r].job
  IN  /\ Holding(run[r]) /\ j \in Jobs
      /\ \A s \in Runs \ {r} : run'[s] = run[s]
      /\ \A k \in Jobs \ {j} : store'[k] = store[k] /\ place'[k] = place[k]
      /\ run'[r].pc # "free" => run'[r].job = j

(* ... and leaves the record as it should be.                               *)
LeavesKempt(r) ==
  LET j == run[r].job
  IN  /\ run'[r].pc # "free" => Fits(run'[r], store'[j])
      /\ store'[j].attempt <= MaxRetries + 1
      /\ place'[j] # "out" => Claimable(store'[j])

Ended(rec) == rec.status \in Terminal

(* The five things it can mean for the life of the job.                     *)
Works(r, j) ==
  /\ Holding(run'[r]) /\ place'[j] = "out"
  /\ store'[j] = store[j] \/ (~Ended(store[j]) /\ ~Ended(store'[j]))
Decides(r, j) ==
  /\ Holding(run'[r]) /\ place'[j] = "out" /\ ~Ended(store[j]) /\ Ended(store'[j])
Returns(r, j) ==
  ~Holding(run'[r]) /\ place'[j] # "out" /\ ~Ended(store[j]) /\ store'[j] = store[j]
Drops(r, j) ==
  /\ ~Holding(run'[r]) /\ place'[j] = "out" /\ store'[j] = store[j]
  /\ Ended(store[j]) \/ faults' # 0
Forgets(r, j) ==
  ~Holding(run'[r]) /\ place'[j] = "out" /\ Ended(store[j]) /\ store'[j] = NoRecord

LifeStep(r, j) ==
  Works(r, j) \/ Decides(r, j) \/ Returns(r, j) \/ Drops(r, j) \/ Forgets(r, j)
Moves(r) == OneMoves(r) /\ LeavesKempt(r) /\ LifeStep(r, run[r].job)

(* A record that may be claimed has not ended.                              *)
LEMMA ClaimableIsOpen ==
  /\ \A rec : Claimable(rec) => ~Ended(rec) /\ rec.status # "absent"
  /\ \A rec : rec.status = "active" => ~Ended(rec) /\ rec.status # "absent"
  /\ ~Ended(NoRecord) /\ NoRecord.attempt = 0
BY DEF Claimable, Ended, Terminal, NoRecord

(* The facts every step of an activation starts from.                       *)
Before(r) ==
  LET j == run[r].job
  IN  /\ run \in [Runs -> BusyRun \cup {FreeRun}] /\ run[r] \in BusyRun /\ j \in Jobs
      /\ store \in [Jobs -> JobRecord] /\ place \in [Jobs -> {"out", "ready", "delayed"}]
      /\ store[j] \in JobRecord /\ store[j].attempt <= MaxRetries + 1
      /\ Fits(run[r], store[j])
      /\ Holding(run[r]) => place[j] = "out"

(* The facts of Before hold of every run under way, by the invariants of the*)
(* custody proofs.                                                          *)
LEMMA BeforeHolds ==
  ASSUME CInv, Kempt, NEW r \in Runs, run[r].pc # "free"
  PROVE  Before(r)
  <1>1. /\ run \in [Runs -> BusyRun \cup {FreeRun}] /\ run[r] \in BusyRun
        /\ run[r].job \in Jobs
    BY RunTyping DEF CInv
  <1>2. store \in [Jobs -> JobRecord] /\ place \in [Jobs -> {"out", "ready", "delayed"}]
    BY DEF CInv, IInv, TypeOK, StoreTypeOK
  <1>3. Holding(run[r]) => place[run[r].job] = "out"
    <2>1. Holding(run[r]) => r \in InHand(run[r].job) BY DEF Holding, InHand
    <2> QED BY <1>1, <2>1 DEF CInv, SingleCustody
  <1> QED BY <1>1, <1>2, <1>3 DEF Before, Kempt

(* Steps that change the activation and neither record nor broker.          *)
LEMMA QuietMoves ==
  ASSUME CInv, Kempt, NEW r \in Runs,
         FetchForeign(r) \/ Fetch(r) \/ AcquireLock(r) \/ AcquireRefused(r) \/ GatePass(r)
           \/ GateRefuse(r) \/ HandlerSucceeds(r) \/ HandlerDiscards(r) \/ HandlerFails(r)
           \/ HandlerRetries(r) \/ HandlerTimesOut(r) \/ NackStop(r) \/ FinStop(r)
  PROVE  Moves(r)
  <1> DEFINE j == run[r].job
  <1>0. Before(r)
    BY BeforeHolds
    DEF FetchForeign, Fetch, AcquireLock, AcquireRefused, GatePass, GateRefuse, HandlerSucceeds,
        HandlerDiscards, HandlerFails, HandlerRetries, HandlerTimesOut, NackStop, FinStop, At
  <1>1. UNCHANGED <<store, place>>
    BY DEF FetchForeign, Fetch, AcquireLock, AcquireRefused, GatePass, GateRefuse,
           HandlerSucceeds, HandlerDiscards, HandlerFails, HandlerRetries, HandlerTimesOut,
           NackStop, FinStop, Finish, storeVars
  <1> USE <1>0 DEF Before, At
  <1>2. \A s \in Runs \ {r} : run'[s] = run[s]
    BY DEF FetchForeign, Fetch, AcquireLock, AcquireRefused, GatePass, GateRefuse,
           HandlerSucceeds, HandlerDiscards, HandlerFails, HandlerRetries, HandlerTimesOut,
           NackStop, FinStop, Finish, Goto
  <1>3. Holding(run[r]) /\ Holding(run'[r]) /\ run'[r].job = j /\ Fits(run'[r], store[j])
    <2>1. CASE FetchForeign(r)
      BY <2>1 DEF FetchForeign, Goto, Fits, Holding, BusyRun
    <2>2. CASE Fetch(r)
      BY <2>2 DEF Fetch, Fits, Holding, BusyRun
    <2>3. CASE AcquireLock(r)
      BY <2>3 DEF AcquireLock, Fits, Holding, BusyRun
    <2>4. CASE AcquireRefused(r)
      BY <2>4 DEF AcquireRefused, Goto, Fits, Holding, BusyRun
    <2>5. CASE GatePass(r)
      BY <2>5 DEF GatePass, Fits, Holding, BusyRun
    <2>6. CASE GateRefuse(r)
      BY <2>6 DEF GateRefuse, Restored, Claimable, Fits, Holding, BusyRun, JobRecord
    <2>7. CASE HandlerSucceeds(r)
      BY <2>7 DEF HandlerSucceeds, Finish, Fits, Holding, BusyRun, JobRecord
    <2>8. CASE HandlerDiscards(r)
      BY <2>8 DEF HandlerDiscards, Finish, Fits, Holding, BusyRun, JobRecord
    <2>9. CASE HandlerFails(r)
      BY <2>9 DEF HandlerFails, Finish, Fits, Holding, BusyRun, JobRecord
    <2>10. CASE HandlerRetries(r)
      BY <2>10 DEF HandlerRetries, CanRetry, Claimable, Fits, Holding, BusyRun, JobRecord
    <2>11. CASE HandlerTimesOut(r)
      BY <2>11 DEF HandlerTimesOut, Fits, Holding, BusyRun, JobRecord
    <2>12. CASE NackStop(r)
      BY <2>12 DEF NackStop, Fits, Holding, BusyRun
    <2>13. CASE FinStop(r)
      BY <2>13 DEF FinStop, Fits, Holding, BusyRun
    <2> QED BY <2>1, <2>2, <2>3, <2>4, <2>5, <2>6, <2>7, <2>8, <2>9, <2>10, <2>11, <2>12, <2>13
  <1>4. OneMoves(r) BY <1>1, <1>2, <1>3 DEF OneMoves
  <1>5. LeavesKempt(r) BY <1>1, <1>3 DEF LeavesKempt
  <1>6. Works(r, j) BY <1>1, <1>3 DEF Works
  <1> QED BY <1>4, <1>5, <1>6 DEF Moves, LifeStep

(* Steps that save the record: the activation, progress, and the two saves  *)
(* on the way back and on the way out.                                      *)
LEMMA SavingMoves ==
  ASSUME CInv, Kempt, NEW r \in Runs,
         Activate(r) \/ Progress(r) \/ NackSave(r) \/ FinSave(r)
  PROVE  Moves(r)
  <1> DEFINE j == run[r].job
  <1>0. Before(r) BY BeforeHolds DEF Activate, Progress, NackSave, FinSave, At
  <1> USE <1>0, StoreAssumption DEF Before, At, StoreAssumption
  <1>1. UNCHANGED place BY DEF Activate, Progress, NackSave, FinSave
  <1>2. /\ \A s \in Runs \ {r} : run'[s] = run[s]
        /\ \A k \in Jobs \ {j} : store'[k] = store[k]
    BY DEF Activate, Progress, NackSave, FinSave, Goto, Save, execVars
  <1>3. /\ Holding(run[r]) /\ Holding(run'[r]) /\ run'[r].job = j
        /\ Fits(run'[r], store'[j]) /\ store'[j].attempt <= MaxRetries + 1
        /\ ~Ended(store[j])
    <2>1. CASE Activate(r)
      <3>1. run[r].rec = store[j] /\ Claimable(store[j]) BY <2>1 DEF Activate, Fits
      <3>2. store'[j] = Activated(r) BY <2>1 DEF Activate, Save
      <3>3. Activated(r).status = "active" /\ Activated(r).attempt <= MaxRetries + 1
        BY <3>1 DEF Activated, Bump, Claimable, JobRecord, AttemptCap
      <3>4. /\ run'[r].rec = Activated(r) /\ run'[r].job = j
            /\ \/ run'[r].pc = "gate" /\ run'[r].prev = run[r].rec
               \/ run'[r].pc = "running"
        BY <2>1 DEF Activate, BusyRun
      <3> QED
        BY <2>1, <3>1, <3>2, <3>3, <3>4, ClaimableIsOpen DEF Activate, Fits, Holding, Claimable
    <2>2. CASE Progress(r)
      BY <2>2, ClaimableIsOpen DEF Progress, Save, Fits, Holding, execVars
    <2>3. CASE NackSave(r)
      BY <2>3, ClaimableIsOpen DEF NackSave, Save, Goto, Fits, Holding, Claimable, BusyRun, JobRecord
    <2>4. CASE FinSave(r)
      BY <2>4, ClaimableIsOpen
      DEF FinSave, Save, Goto, Fits, Holding, Terminal, BusyRun, JobRecord
    <2> QED BY <2>1, <2>2, <2>3, <2>4
  <1>4. OneMoves(r) BY <1>1, <1>2, <1>3 DEF OneMoves
  <1>5. LeavesKempt(r) BY <1>1, <1>3 DEF LeavesKempt
  <1>6. Works(r, j) \/ Decides(r, j) BY <1>1, <1>3 DEF Works, Decides
  <1> QED BY <1>4, <1>5, <1>6 DEF Moves, LifeStep

(* Steps that end in the broker, or settle without it.                      *)
LEMMA LeavingMoves ==
  ASSUME CInv, Kempt, NEW r \in Runs,
         NackForeign(r) \/ NackRefused(r) \/ NackSend(r) \/ FinRead(r) \/ FinAck(r) \/ Prune(r)
           \/ ActivateFails(r) \/ SettleFails(r)
  PROVE  Moves(r)
  <1> DEFINE j == run[r].job
  <1>0. Before(r)
    BY BeforeHolds
    DEF NackForeign, NackRefused, NackSend, FinRead, FinAck, Prune, ActivateFails, SettleFails, At
  <1> USE <1>0, StoreAssumption DEF Before, At, StoreAssumption
  <1>2. /\ \A s \in Runs \ {r} : run'[s] = run[s]
        /\ \A k \in Jobs \ {j} : store'[k] = store[k] /\ place'[k] = place[k]
    BY DEF NackForeign, NackRefused, NackSend, FinRead, FinAck, Prune, ActivateFails,
           SettleFails, Goto, Settle, Save, Nack, Ack, storeVars
  <1>3. /\ Holding(run[r]) /\ (run'[r].pc # "free" => run'[r].job = j)
        /\ run'[r].pc # "free" => Fits(run'[r], store'[j])
        /\ place'[j] # "out" => Claimable(store'[j])
        /\ store'[j].attempt <= MaxRetries + 1
        /\ LifeStep(r, j)
    <2> USE DEF LifeStep, Works, Returns, Drops, Forgets
    <2>1. CASE NackForeign(r)
      BY <2>1, ClaimableIsOpen DEF NackForeign, Nack, Fits, Holding, FreeRun
    <2>2. CASE NackRefused(r)
      BY <2>2, ClaimableIsOpen DEF NackRefused, Nack, Settle, Fits, Holding, FreeRun
    <2>3. CASE NackSend(r)
      BY <2>3, ClaimableIsOpen DEF NackSend, Nack, Settle, Fits, Holding, FreeRun
    <2>4. CASE FinRead(r)
      BY <2>4, ClaimableIsOpen DEF FinRead, Goto, Settle, Fits, Holding, FreeRun, BusyRun, storeVars
    <2>5. CASE FinAck(r)
      BY <2>5, ClaimableIsOpen DEF FinAck, Ack, Goto, Settle, Fits, Holding, FreeRun, BusyRun, Ended
    <2>6. CASE Prune(r)
      BY <2>6, ClaimableIsOpen DEF Prune, Save, Settle, Fits, Holding, FreeRun, Ended
    <2>7. CASE ActivateFails(r)
      <3>1. faults' # 0
        BY <2>7 DEF ActivateFails, CInv, IInv, TypeOK, ExecTypeOK
      <3> QED
        BY <2>7, <3>1, ClaimableIsOpen DEF ActivateFails, Fits, Holding, FreeRun, BusyRun, storeVars
    <2>8. CASE SettleFails(r)
      <3>1. faults' # 0
        BY <2>8 DEF SettleFails, CInv, IInv, TypeOK, ExecTypeOK
      <3> QED
        BY <2>8, <3>1, ClaimableIsOpen DEF SettleFails, Settle, Fits, Holding, FreeRun, storeVars
    <2> QED BY <2>1, <2>2, <2>3, <2>4, <2>5, <2>6, <2>7, <2>8
  <1>4. OneMoves(r) BY <1>2, <1>3 DEF OneMoves
  <1>5. LeavesKempt(r) BY <1>3 DEF LeavesKempt
  <1> QED BY <1>3, <1>4, <1>5 DEF Moves

(* No record is missing behind an id that was claimed.                      *)
LEMMA NoOrphans ==
  ASSUME CInv, Kempt, NEW r \in Runs
  PROVE  ~FetchOrphan(r) /\ ~AckOrphan(r)
  <1>1. ASSUME FetchOrphan(r) PROVE FALSE
    <2>1. Before(r) BY <1>1, BeforeHolds DEF FetchOrphan, At
    <2> QED BY <1>1, <2>1, ClaimableIsOpen DEF Before, Fits, FetchOrphan, At
  <1>2. ASSUME AckOrphan(r) PROVE FALSE
    <2>1. Before(r) BY <1>2, BeforeHolds DEF AckOrphan, At
    <2> QED BY <1>2, <2>1 DEF Before, Fits, AckOrphan, At
  <1> QED BY <1>1, <1>2

(* What one activation does leaves every record as its holder should.       *)
LEMMA MovingKeeps ==
  ASSUME CInv, Kempt, NEW r \in Runs, Moves(r), UNCHANGED <<canc, client>>
  PROVE  Kempt'
  <1> DEFINE j == run[r].job
  <1>1. /\ Holding(run[r]) /\ j \in Jobs /\ \A s \in Runs \ {r} : run'[s] = run[s]
        /\ \A k \in Jobs \ {j} : store'[k] = store[k] /\ place'[k] = place[k]
        /\ run'[r].pc # "free" => run'[r].job = j
    BY DEF Moves, OneMoves
  <1>2. /\ run'[r].pc # "free" => Fits(run'[r], store'[j])
        /\ store'[j].attempt <= MaxRetries + 1
        /\ place'[j] # "out" => Claimable(store'[j])
    BY DEF Moves, LeavesKempt
  <1>3. r \in InHand(j) /\ client[j] = "added"
    <2>1. r \in InHand(j) BY <1>1 DEF InHand, Holding
    <2> QED BY <1>1, <2>1 DEF CInv, SingleCustody
  <1>4. ASSUME NEW s \in Runs, run'[s].pc # "free"
        PROVE  Fits(run'[s], store'[run'[s].job])
    <2>1. CASE s = r BY <1>1, <1>2, <1>4, <2>1
    <2>2. CASE s # r /\ run[s].pc = "leaked" BY <1>1, <2>2 DEF Fits
    <2>3. CASE s # r /\ run[s].pc # "leaked"
      <3>1. run'[s] = run[s] /\ run[s].pc # "free" BY <1>1, <1>4, <2>3
      <3>2. run[s].job \in Jobs BY <3>1, RunTyping DEF CInv
      <3>3. run[s].job # j
        <4>1. run[s].job = j => s \in InHand(j) BY <2>3, <3>1 DEF InHand
        <4> QED BY <1>1, <1>3, <2>3, <4>1 DEF CInv, SingleCustody
      <3> QED BY <1>1, <3>1, <3>2, <3>3 DEF Kempt
    <2> QED BY <2>1, <2>2, <2>3
  <1>5. ASSUME NEW k \in Jobs
        PROVE  /\ store'[k].attempt <= MaxRetries + 1
               /\ place'[k] # "out" => Claimable(store'[k])
               /\ client'[k] = "new" => store'[k] = NoRecord
               /\ client'[k] = "saved" => Claimable(store'[k])
    BY <1>1, <1>2, <1>3 DEF Kempt
  <1>6. \A n \in Nodes : canc'[n].pc = "idle" BY DEF Kempt
  <1> QED BY <1>4, <1>5, <1>6 DEF Kempt

-----------------------------------------------------------------------------
(* Steps that leave the records alone: flags change, or activations vanish. *)
SameWork(s) ==
  /\ run'[s].pc = run[s].pc /\ run'[s].job = run[s].job
  /\ run'[s].rec = run[s].rec /\ run'[s].prev = run[s].prev
NoNewWork == \A s \in Runs : run'[s].pc = "free" \/ SameWork(s)
SameHolders == \A s \in Runs : SameWork(s) \/ (~Holding(run[s]) /\ ~Holding(run'[s]))

(* An activation that goes on as it was still fits, and so does none.       *)
LEMMA VanishingKeeps ==
  ASSUME Kempt, NoNewWork, UNCHANGED <<store, place, client>>, \A n \in Nodes : canc'[n].pc = "idle"
  PROVE  Kempt'
  <1>1. ASSUME NEW s \in Runs, run'[s].pc # "free"
        PROVE  Fits(run'[s], store'[run'[s].job])
    <2>1. SameWork(s) BY <1>1 DEF NoNewWork
    <2>2. Fits(run[s], store[run[s].job]) BY <1>1, <2>1 DEF Kempt, SameWork
    <2> QED BY <2>1, <2>2 DEF Fits, SameWork
  <1> QED BY <1>1 DEF Kempt

(* Nothing is mislaid as long as the same activations hold the same ids.    *)
LEMMA HoldingKeeps ==
  ASSUME NoJobMislaid, SameHolders, UNCHANGED <<store, place, client>>,
         crashes' = 0 /\ faults' = 0 /\ cancels' = 0 => crashes = 0 /\ faults = 0 /\ cancels = 0
  PROVE  NoJobMislaid'
  <1>1. \A j \in Jobs : InHand(j)' = InHand(j)
    BY DEF InHand, SameHolders, SameWork, Holding
  <1> QED BY <1>1 DEF NoJobMislaid

(* What one activation does mislays no job, its failures aside.             *)
LEMMA MovingMislaysNone ==
  ASSUME CInv, NoJobMislaid, NEW r \in Runs, Moves(r), UNCHANGED <<client, crashes, cancels>>,
         faults' = 0 => faults = 0
  PROVE  NoJobMislaid'
  <1> DEFINE j == run[r].job
  <1>1. /\ Holding(run[r]) /\ j \in Jobs /\ \A s \in Runs \ {r} : run'[s] = run[s]
        /\ \A k \in Jobs \ {j} : store'[k] = store[k] /\ place'[k] = place[k]
        /\ run'[r].pc # "free" => run'[r].job = j
    BY DEF Moves, OneMoves
  <1>2. SUFFICES ASSUME crashes' = 0, faults' = 0, cancels' = 0, NEW k \in Jobs,
                        client'[k] = "added", store'[k].status \notin Terminal \cup {"absent"}
                 PROVE  place'[k] # "out" \/ InHand(k)' # {}
    BY DEF NoJobMislaid
  <1>3. CASE k # j
    <2>1. InHand(k)' = InHand(k) BY <1>1, <1>3 DEF InHand
    <2> QED BY <1>1, <1>2, <1>3, <2>1 DEF NoJobMislaid
  <1>4. CASE k = j
    <2>1. Holding(run'[r]) => r \in InHand(k)' BY <1>1, <1>4 DEF Holding, InHand
    <2>2. LifeStep(r, k) BY <1>4 DEF Moves
    <2> QED
      BY <1>2, <2>1, <2>2
      DEF LifeStep, Works, Decides, Returns, Drops, Forgets, Ended, NoRecord
  <1> QED BY <1>3, <1>4

(* The claim: the record fits as it did while the broker had the id.        *)
LEMMA ClaimKeeps ==
  ASSUME CInv, Kempt, NoJobMislaid, NEW n \in Nodes, NEW j \in Jobs, NEW r \in Runs, Claim(n, j, r),
         UNCHANGED <<canc, client, crashes, cancels>>
  PROVE  Kempt' /\ NoJobMislaid'
  <1>1. /\ run \in [Runs -> BusyRun \cup {FreeRun}] /\ place \in [Jobs -> {"out", "ready", "delayed"}]
    BY DEF CInv, IInv, TypeOK, ExecTypeOK, StoreTypeOK
  <1>2. /\ run' = [run EXCEPT ![r] = [FreeRun EXCEPT !.pc = "fetch", !.node = n, !.job = j]]
        /\ place' = [place EXCEPT ![j] = "out"] /\ place[j] # "out" /\ UNCHANGED <<store, faults>>
        /\ run[r].pc = "free"
    BY DEF Claim, TakeClaim, At
  <1>3. run'[r].pc = "fetch" /\ run'[r].job = j /\ \A s \in Runs \ {r} : run'[s] = run[s]
    BY <1>1, <1>2 DEF FreeRun
  <1>4. Claimable(store[j]) /\ client[j] = "added"
    BY <1>2 DEF Kempt, CInv, SingleCustody
  <1>5. Kempt'
    <2>1. ASSUME NEW s \in Runs, run'[s].pc # "free" PROVE Fits(run'[s], store'[run'[s].job])
      BY <1>2, <1>3, <1>4, <2>1 DEF Kempt, Fits
    <2>2. \A k \in Jobs : place'[k] # "out" => place[k] # "out" BY <1>1, <1>2
    <2> QED BY <1>2, <2>1, <2>2 DEF Kempt
  <1>6. NoJobMislaid'
    <2>1. r \in InHand(j)' BY <1>3 DEF InHand
    <2>2. \A k \in Jobs \ {j} : place'[k] = place[k] BY <1>1, <1>2
    <2>3. \A k \in Jobs \ {j} : InHand(k)' = InHand(k) BY <1>2, <1>3 DEF InHand
    <2> QED BY <1>2, <2>1, <2>2, <2>3 DEF NoJobMislaid
  <1> QED BY <1>5, <1>6

(* A lease that is lost raises flags.                                       *)
LEMMA HeartbeatLostKeeps ==
  ASSUME CInv, NEW r \in Runs, HeartbeatLost(r)
  PROVE  NoNewWork /\ SameHolders /\ UNCHANGED <<store, place>>
  <1>1. run \in [Runs -> BusyRun \cup {FreeRun}] BY DEF CInv, IInv, TypeOK, ExecTypeOK
  <1>2. \A s \in Runs : SameWork(s)
    BY <1>1 DEF HeartbeatLost, AbortIn, BusyRun, FreeRun, SameWork
  <1> QED BY <1>2 DEF NoNewWork, SameHolders, HeartbeatLost, storeVars

(* Every step of the executor, the claim and the lost lease aside, is a     *)
(* move.                                                                    *)
LEMMA ExecutorMoves ==
  ASSUME CInv, Kempt, NEW r \in Runs,
         ExecutorStep(r) \/ HandlerTimesOut(r) \/ Progress(r) \/ ActivateFails(r) \/ SettleFails(r)
  PROVE  Moves(r) \/ HeartbeatLost(r)
BY QuietMoves, SavingMoves, LeavingMoves, NoOrphans DEF ExecutorStep

(* Calls that threw are only ever counted up.                               *)
LEMMA FaultsGrow ==
  ASSUME CInv, NEW r \in Runs,
         ExecutorStep(r) \/ HandlerTimesOut(r) \/ Progress(r) \/ ActivateFails(r) \/ SettleFails(r)
  PROVE  faults' = 0 => faults = 0
  <1>1. faults \in Nat BY DEF CInv, IInv, TypeOK, ExecTypeOK
  <1> QED
    BY <1>1
    DEF ExecutorStep, HandlerTimesOut, Progress, ActivateFails, SettleFails, FetchOrphan,
        AckOrphan, FetchForeign, NackForeign, Fetch, AcquireLock, AcquireRefused, NackRefused,
        Activate, GatePass, GateRefuse, HandlerSucceeds, HandlerDiscards, HandlerFails, HandlerRetries,
        NackStop, NackSave, NackSend, FinStop, FinRead, FinSave, FinAck, Prune, HeartbeatLost, Finish

(* The executor keeps the records and mislays nothing.                      *)
LEMMA ExecutorKeeps ==
  ASSUME CInv, Kempt, NoJobMislaid, ExecutorNext
  PROVE  Kempt' /\ NoJobMislaid'
  <1>1. UNCHANGED <<client, canc, cancels, crashes>>
    BY DEF ExecutorNext, Idle, Calm, recoveryVars
  <1>2. ASSUME NEW n \in Nodes, NEW j \in Jobs, NEW r \in Runs, Claim(n, j, r)
        PROVE  Kempt' /\ NoJobMislaid'
    BY <1>1, <1>2, ClaimKeeps
  <1>3. ASSUME NEW r \in Runs,
               ExecutorStep(r) \/ HandlerTimesOut(r) \/ Progress(r) \/ ActivateFails(r)
                 \/ SettleFails(r)
        PROVE  Kempt' /\ NoJobMislaid'
    <2>1. faults' = 0 => faults = 0 BY <1>3, FaultsGrow
    <2>2. CASE Moves(r) BY <1>1, <2>1, <2>2, MovingKeeps, MovingMislaysNone
    <2>3. CASE HeartbeatLost(r)
      <3>1. NoNewWork /\ SameHolders /\ UNCHANGED <<store, place>> BY <2>3, HeartbeatLostKeeps
      <3>2. \A n \in Nodes : canc'[n].pc = "idle" BY <1>1 DEF Kempt
      <3>3. Kempt' BY <1>1, <3>1, <3>2, VanishingKeeps
      <3>4. NoJobMislaid' BY <1>1, <2>1, <3>1, HoldingKeeps
      <3> QED BY <3>3, <3>4
    <2> QED BY <1>3, <2>2, <2>3, ExecutorMoves
  <1> QED BY <1>2, <1>3 DEF ExecutorNext

(* queue.add writes a record nobody has seen and publishes it once.         *)
LEMMA ClientKeeps ==
  ASSUME CInv, Kempt, NoJobMislaid, ClientNext
  PROVE  Kempt' /\ NoJobMislaid'
  <1>1. PICK j \in Jobs : AddSave(j) \/ AddPublish(j) \/ ClientCrash(j) BY DEF ClientNext
  <1>2. UNCHANGED <<run, canc, cancels, faults>>
    BY <1>1 DEF AddSave, AddPublish, ClientCrash, execVars, recoveryVars
  <1>3. InHand(j) = {} /\ place[j] = "out" /\ client[j] # "added"
    BY <1>1 DEF AddSave, AddPublish, ClientCrash, CInv, SingleCustody
  <1>4. /\ store \in [Jobs -> JobRecord] /\ place \in [Jobs -> {"out", "ready", "delayed"}]
        /\ client \in [Jobs -> {"new", "saved", "added", "crashed"}] /\ crashes \in Nat
        /\ MaxRetries \in Nat
    BY StoreAssumption, SystemAssumption
    DEF CInv, IInv, TypeOK, StoreTypeOK, RecoveryTypeOK, StoreAssumption, SystemAssumption
  <1>5. \A k \in Jobs \ {j} :
          client'[k] = client[k] /\ place'[k] = place[k] /\ store'[k] = store[k]
    BY <1>1, <1>4 DEF AddSave, AddPublish, ClientCrash, Save, Publish, storeVars
  <1>6. /\ store'[j].attempt <= MaxRetries + 1
        /\ place'[j] # "out" => Claimable(store'[j])
        /\ client'[j] # "new" /\ (client'[j] = "saved" => Claimable(store'[j]))
        /\ client'[j] = "added" => place'[j] # "out"
    <2>1. CASE AddSave(j)
      BY <1>3, <1>4, <2>1 DEF AddSave, Save, NewRecord, NoRecord, AddStatus, Claimable
    <2>2. CASE AddPublish(j) BY <1>3, <1>4, <2>2 DEF AddPublish, Publish, Kempt
    <2>3. CASE ClientCrash(j) BY <1>3, <1>4, <2>3 DEF ClientCrash, Kempt, storeVars
    <2> QED BY <1>1, <2>1, <2>2, <2>3
  <1>7. ASSUME NEW s \in Runs, run[s].pc # "free" PROVE Fits(run[s], store'[run[s].job])
    <2>1. CASE run[s].pc = "leaked" BY <2>1 DEF Fits
    <2>2. CASE run[s].pc # "leaked"
      <3>1. run[s].job \in Jobs BY <1>7, RunTyping DEF CInv
      <3>2. run[s].job # j
        <4>1. run[s].job = j => s \in InHand(j) BY <1>7, <2>2 DEF InHand
        <4> QED BY <1>3, <4>1
      <3> QED BY <1>5, <1>7, <3>1, <3>2 DEF Kempt
    <2> QED BY <2>1, <2>2
  <1>8. Kempt' BY <1>2, <1>5, <1>6, <1>7 DEF Kempt
  <1>9. crashes' = 0 => crashes = 0
    BY <1>1, <1>4 DEF AddSave, AddPublish, ClientCrash
  <1>10. \A k \in Jobs : InHand(k)' = InHand(k) BY <1>2 DEF InHand
  <1>11. NoJobMislaid' BY <1>2, <1>5, <1>6, <1>9, <1>10 DEF NoJobMislaid
  <1> QED BY <1>8, <1>11

(* The bookkeeping of a job that is given up raises flags.                  *)
LEMMA AbandonSameWork ==
  ASSUME CInv, NEW n \in Nodes, NEW j \in Jobs, run' = SilenceIn(AbortIn(run, n, j), n, j)
  PROVE  \A s \in Runs : SameWork(s) /\ run'[s].node = run[s].node
  <1>1. run \in [Runs -> BusyRun \cup {FreeRun}] BY DEF CInv, IInv, TypeOK, ExecTypeOK
  <1> QED BY <1>1 DEF SilenceIn, AbortIn, BusyRun, FreeRun, SameWork

(* The stall detector of a QueueEngine touches no record.                   *)
LEMMA DetectorQuiet ==
  ASSUME CInv, ExecutorOnly, DetectorNext
  PROVE  /\ UNCHANGED <<store, place, client, canc, cancels, crashes, faults>>
         /\ \A s \in Runs : SameWork(s)
  <1>1. PICK n \in Nodes : DetectorStep(n) \/ \E j \in Jobs : StallList(n, j)
    BY DEF DetectorNext
  <1>2. stall[n].pc \in {"idle", "check"} /\ Kind[n] = "queue" /\ stall \in [Nodes -> Actor(StallPcs)]
    BY DEF CInv, RecoveryQuiet, ExecutorOnly, IInv, TypeOK, RecoveryTypeOK
  <1>3. StallOwned(n) \/ StallQueue(n) \/ \E j \in Jobs : StallList(n, j)
    BY <1>1, <1>2
    DEF DetectorStep, StallWorker, StallGet, StallFail, StallSave, StallNack
  <1>4. UNCHANGED <<store, place, client, canc, cancels, crashes, faults>>
    BY <1>3 DEF StallOwned, StallQueue, StallList, storeVars, adapterless, DetectorNext, Calm
  <1>5. \A s \in Runs : SameWork(s)
    <2>1. CASE UNCHANGED run BY <2>1 DEF SameWork
    <2>2. CASE StallQueue(n)
      <3>1. stall[n].job \in Jobs BY <1>2, <2>2, ActorMoves DEF StallQueue, Actor, IdleActor
      <3> QED BY <2>2, <3>1, AbandonSameWork DEF StallQueue, Abandon
    <2> QED BY <1>3, <2>1, <2>2 DEF StallOwned, StallList, adapterless
  <1> QED BY <1>4, <1>5

(* The first cancellation ends what is said of the others.                  *)
LEMMA CancelCounts ==
  ASSUME CInv, Kempt, CancelNext
  PROVE  cancels' # 0
  <1>1. PICK n \in Nodes : CancelStep(n) \/ \E j \in Jobs : CancelRead(n, j)
    BY DEF CancelNext
  <1>2. ~CancelStep(n)
    BY DEF Kempt, CancelStep, CancelStop, CancelGet, CancelAck, CancelSave
  <1>3. cancels \in Nat BY RecoveryAssumption DEF CInv, IInv, TypeOK, RecoveryTypeOK, RecoveryAssumption
  <1> QED BY <1>1, <1>2, <1>3 DEF CancelRead

(* A process that ends takes its activations along; a drained one has none  *)
(* that holds an id.                                                        *)
LEMMA ProcessQuiet ==
  ASSUME CInv, ProcessNext
  PROVE  /\ UNCHANGED <<store, place, client, cancels, faults>>
         /\ NoNewWork /\ \A n \in Nodes : canc'[n] \in {canc[n], IdleActor}
         /\ crashes' = 0 => crashes = 0 /\ SameHolders
  <1>0. /\ run \in [Runs -> BusyRun \cup {FreeRun}] /\ crashes \in Nat
        /\ canc \in [Nodes -> Actor(CancelPcs)]
    BY SystemAssumption DEF CInv, IInv, TypeOK, ExecTypeOK, RecoveryTypeOK, SystemAssumption
  <1>1. UNCHANGED <<store, place, client, cancels, faults>>
    BY DEF ProcessNext, Start, Crash, StopBegin, StopDrained, StopTimedOut, Exit, LeaseExpires,
           LeaseLapses, storeVars, recoveryVars
  <1>2. ASSUME NEW n \in Nodes, Vanish(n)
        PROVE  NoNewWork /\ \A m \in Nodes : canc'[m] \in {canc[m], IdleActor}
    BY <1>0, <1>2 DEF Vanish, NoNewWork, SameWork, FreeRun
  <1>3. ASSUME NEW n \in Nodes, Vanish(n), Drained(n) PROVE SameHolders
    <2>1. ASSUME NEW s \in Runs PROVE SameWork(s) \/ (~Holding(run[s]) /\ ~Holding(run'[s]))
      <3>1. CASE run[s].node = n
        <4>1. run[s].pc = "leaked" BY <1>3, <3>1 DEF Drained, RunsOf, At
        <4>2. run'[s] = FreeRun BY <1>3, <3>1 DEF Vanish
        <4> QED BY <4>1, <4>2 DEF Holding, FreeRun
      <3>2. CASE run[s].node # n BY <1>3, <3>2 DEF Vanish, SameWork
      <3> QED BY <3>1, <3>2
    <2> QED BY <2>1 DEF SameHolders
  <1>4. ASSUME NEW n \in Nodes, StopBegin(n) PROVE \A s \in Runs : SameWork(s)
    <2>1. ASSUME NEW s \in Runs PROVE SameWork(s)
      <3>1. run'[s] \in {run[s], [run[s] EXCEPT !.aborted = TRUE]} BY <1>4 DEF StopBegin
      <3> QED BY <1>0, <3>1 DEF SameWork, BusyRun, FreeRun
    <2> QED BY <2>1
  <1>5. ASSUME \A s \in Runs : SameWork(s) PROVE NoNewWork /\ SameHolders
    BY <1>5 DEF NoNewWork, SameHolders
  <1>6. ASSUME UNCHANGED run PROVE \A s \in Runs : SameWork(s) BY <1>6 DEF SameWork
  <1>7. ASSUME NEW n \in Nodes, Start(n)
        PROVE  UNCHANGED <<run, canc, crashes>>
    BY <1>7 DEF Start, execVars, recoveryVars
  <1>8. ASSUME NEW k \in Kinds \X Jobs, LeaseExpires(k) \/ LeaseLapses(k)
        PROVE  UNCHANGED <<run, canc, crashes>>
    BY <1>8 DEF LeaseExpires, LeaseLapses, execVars, recoveryVars
  <1>9. ASSUME NEW n \in Nodes, Crash(n) PROVE Vanish(n) /\ crashes' # 0
    BY <1>0, <1>9 DEF Crash
  <1>10. ASSUME NEW n \in Nodes, StopTimedOut(n) PROVE Vanish(n) /\ crashes' # 0
    BY <1>0, <1>10 DEF StopTimedOut, Exit
  <1>11. ASSUME NEW n \in Nodes, StopDrained(n) PROVE Vanish(n) /\ Drained(n) /\ UNCHANGED crashes
    BY <1>11 DEF StopDrained, Exit
  <1>12. ASSUME NEW n \in Nodes, StopBegin(n) PROVE UNCHANGED <<canc, crashes>>
    BY <1>12 DEF StopBegin, recoveryVars
  <1>13. /\ NoNewWork /\ \A n \in Nodes : canc'[n] \in {canc[n], IdleActor}
         /\ crashes' = 0 => crashes = 0 /\ SameHolders
    BY <1>2, <1>3, <1>4, <1>5, <1>6, <1>7, <1>8, <1>9, <1>10, <1>11, <1>12 DEF ProcessNext
  <1> QED BY <1>1, <1>13

(* cancelJob calls are only ever counted up.                                *)
LEMMA CancelsGrow ==
  ASSUME ExecutorOnly, CInv, [Next]_vars
  PROVE  cancels' = 0 => cancels = 0
  <1>1. cancels \in Nat
    BY RecoveryAssumption DEF CInv, IInv, TypeOK, RecoveryTypeOK, RecoveryAssumption
  <1>2. CASE CancelNext
    BY <1>1, <1>2 DEF CancelNext, CancelStep, CancelRead, CancelStop, CancelGet, CancelAck, CancelSave
  <1>3. CASE ClientNext
    BY <1>3 DEF ClientNext, AddSave, AddPublish, ClientCrash, recoveryVars
  <1>4. CASE ExecutorNext BY <1>4 DEF ExecutorNext, Idle, recoveryVars
  <1>5. CASE UNCHANGED vars BY <1>5 DEF vars, recoveryVars
  <1> QED
    BY <1>2, <1>3, <1>4, <1>5, OptionalRecoveryOff, DetectorQuiet, ProcessQuiet DEF Next

(* The invariant of this module is inductive.                               *)
LEMMA RecordsInductive ==
  ASSUME ExecutorOnly
  PROVE  /\ Init => OInv
         /\ OInv /\ [Next]_vars => OInv'
  <1>1. Init => OInv
    <2> SUFFICES ASSUME Init PROVE OInv OBVIOUS
    <2>1. CInv BY CustodyInductive
    <2>2. Kempt
      <3>1. MaxRetries \in Nat BY StoreAssumption DEF StoreAssumption
      <3> QED
        BY <3>1
        DEF Init, StoreInit, ExecInit, RecoveryInit, Kempt, FreeRun, IdleActor, NoRecord
    <2>3. NoJobMislaid BY DEF Init, RecoveryInit, NoJobMislaid
    <2> QED BY <2>1, <2>2, <2>3 DEF OInv
  <1>2. OInv /\ [Next]_vars => OInv'
    <2> SUFFICES ASSUME OInv, [Next]_vars, cancels' = 0 PROVE Kempt' /\ NoJobMislaid'
      BY CustodyInductive DEF OInv
    <2>0. CInv BY DEF OInv
    <2>1. cancels = 0 => Kempt /\ NoJobMislaid BY DEF OInv
    <2>2. cancels = 0 BY <2>0, CancelsGrow
    <2>3. Kempt /\ NoJobMislaid BY <2>1, <2>2
    <2>4. CASE ClientNext BY <2>0, <2>3, <2>4, ClientKeeps
    <2>5. CASE ExecutorNext BY <2>0, <2>3, <2>5, ExecutorKeeps
    <2>6. CASE DetectorNext
      <3>1. /\ UNCHANGED <<store, place, client, canc, cancels, crashes, faults>>
            /\ \A s \in Runs : SameWork(s)
        BY <2>0, <2>6, DetectorQuiet
      <3>2. NoNewWork /\ SameHolders BY <3>1 DEF NoNewWork, SameHolders
      <3>3. \A n \in Nodes : canc'[n].pc = "idle" BY <2>3, <3>1 DEF Kempt
      <3> QED BY <2>3, <3>1, <3>2, <3>3, VanishingKeeps, HoldingKeeps
    <2>7. CASE CancelNext BY <2>0, <2>3, <2>7, CancelCounts
    <2>8. CASE ProcessNext
      <3>1. /\ UNCHANGED <<store, place, client, cancels, faults>> /\ NoNewWork
            /\ \A n \in Nodes : canc'[n] \in {canc[n], IdleActor}
            /\ crashes' = 0 => crashes = 0 /\ SameHolders
        BY <2>0, <2>8, ProcessQuiet
      <3>2. \A n \in Nodes : canc'[n].pc = "idle" BY <2>3, <3>1 DEF Kempt, IdleActor
      <3>3. Kempt' BY <2>3, <3>1, <3>2, VanishingKeeps
      <3>4. CASE crashes' # 0 BY <3>3, <3>4 DEF NoJobMislaid
      <3>5. CASE crashes' = 0 BY <2>3, <3>1, <3>3, <3>5, HoldingKeeps
      <3> QED BY <3>4, <3>5
    <2>9. CASE UNCHANGED vars
      BY <2>3, <2>9
      DEF vars, storeVars, execVars, recoveryVars, Kempt, NoJobMislaid, InHand
    <2> QED BY <2>0, <2>4, <2>5, <2>6, <2>7, <2>8, <2>9, OptionalRecoveryOff DEF Next
  <1> QED BY <1>1, <1>2

-----------------------------------------------------------------------------
(* "no job is ever lost", for every number of queues, jobs and workers:     *)
(* shutdowns, lapsed leases, retries and refused gates mislay no job.       *)
THEOREM NoJobIsMislaid ==
  ASSUME ExecutorOnly
  PROVE  Spec => []NoJobMislaid
  <1>1. OInv => NoJobMislaid BY DEF OInv, NoJobMislaid
  <1> QED BY <1>1, RecordsInductive, PTL DEF Spec

(* retries.max holds for every budget and every interleaving of retries,    *)
(* refused gates, shutdowns, crashes, lost leases and failed calls.         *)
THEOREM RetriesWithinBudget ==
  ASSUME ExecutorOnly
  PROVE  Spec => []RetryBudget
  <1>1. OInv => RetryBudget BY DEF OInv, Kempt, RetryBudget
  <1> QED BY <1>1, RecordsInductive, PTL DEF Spec

(* A step of the executor ends no job twice and reopens none.               *)
LEMMA MovesAreFinal ==
  ASSUME NEW r \in Runs, Moves(r), NEW k \in Jobs, Ended(store[k])
  PROVE  store'[k] \in {store[k], NoRecord}
BY DEF Moves, OneMoves, LifeStep, Works, Decides, Returns, Drops, Forgets

(* Nobody but the activation that has the id, and queue.add for a new one,  *)
(* writes a record.                                                         *)
LEMMA FinalStep ==
  ASSUME ExecutorOnly, OInv, Next, cancels = 0, cancels' = 0, NEW k \in Jobs, Ended(store[k])
  PROVE  store'[k] \in {store[k], NoRecord}
  <1>0. CInv /\ Kempt BY DEF OInv
  <1>1. CASE ClientNext
    <2>1. PICK j \in Jobs : AddSave(j) \/ AddPublish(j) \/ ClientCrash(j) BY <1>1 DEF ClientNext
    <2>2. CASE UNCHANGED store BY <2>2
    <2>3. CASE AddSave(j)
      <3>1. ~Ended(store[j]) BY <1>0, <2>3, ClaimableIsOpen DEF AddSave, Kempt
      <3> QED BY <2>3, <3>1 DEF AddSave, Save
    <2> QED BY <2>1, <2>2, <2>3 DEF AddPublish, ClientCrash, storeVars
  <1>2. CASE ExecutorNext
    <2>1. ASSUME NEW n \in Nodes, NEW j \in Jobs, NEW r \in Runs, Claim(n, j, r)
          PROVE  UNCHANGED store
      BY <2>1 DEF Claim
    <2>2. ASSUME NEW r \in Runs, HeartbeatLost(r) PROVE UNCHANGED store
      BY <2>2 DEF HeartbeatLost, storeVars
    <2> QED BY <1>0, <1>2, <2>1, <2>2, ExecutorMoves, MovesAreFinal DEF ExecutorNext
  <1>3. CASE DetectorNext BY <1>0, <1>3, DetectorQuiet
  <1>4. ~CancelNext BY <1>0, CancelCounts
  <1>5. CASE ProcessNext BY <1>0, <1>5, ProcessQuiet
  <1> QED BY <1>0, <1>1, <1>2, <1>3, <1>4, <1>5, OptionalRecoveryOff DEF Next

(* Unless something is cancelled a job ends once: no stale copy, retry or   *)
(* late save of another instance ever replaces a final record.              *)
THEOREM OutcomesAreFinal ==
  ASSUME ExecutorOnly
  PROVE  Spec => OutcomeIsFinal
  <1> DEFINE Final == cancels' = 0 => \A j \in Jobs :
                        store[j].status \in Terminal => store'[j] \in {store[j], NoRecord}
  <1>1. OInv /\ [Next]_vars => [Final]_vars
    <2> SUFFICES ASSUME OInv, Next, cancels' = 0 PROVE Final BY DEF vars
    <2>1. CASE cancels = 0 BY <2>1, FinalStep DEF Ended
    <2>2. cancels = 0 BY CancelsGrow DEF OInv
    <2> QED BY <2>1, <2>2
  <1> QED BY <1>1, RecordsInductive, PTL DEF Spec, OutcomeIsFinal

-----------------------------------------------------------------------------
(* The refinement of JobLifecycle.  What the abstract job sees of one id,    *)
(* from its client, who has it in hand, its place and its status.           *)
PhaseIn(c, hands, p, status) ==
  CASE c # "added" -> "new"
    [] c = "added" /\ hands # {} -> "held"
    [] c = "added" /\ hands = {} /\ p # "out" -> "queued"
    [] OTHER -> IF status \in Terminal \cup {"absent"} THEN "settled" ELSE "lost"
HandsOf(runs, j) == {r \in Runs : runs[r].job = j /\ runs[r].pc \notin {"free", "leaked"}}
OutcomeIn(status) == IF status \in Terminal THEN status ELSE "none"

Outcome == [j \in Jobs |-> OutcomeIn(store[j].status)]

(* The abstract phase, case by case.                                        *)
LEMMA Phases ==
  ASSUME NEW c, NEW hands, NEW p, NEW status
  PROVE  /\ c # "added" => PhaseIn(c, hands, p, status) = "new"
         /\ c = "added" /\ hands # {} => PhaseIn(c, hands, p, status) = "held"
         /\ c = "added" /\ hands = {} /\ p # "out" => PhaseIn(c, hands, p, status) = "queued"
         /\ c = "added" /\ hands = {} /\ p = "out"
              => PhaseIn(c, hands, p, status)
                   = IF status \in Terminal \cup {"absent"} THEN "settled" ELSE "lost"
         /\ status \in Terminal => OutcomeIn(status) = status /\ OutcomeIn(status) # "none"
         /\ status \notin Terminal => OutcomeIn(status) = "none"
BY DEF PhaseIn, OutcomeIn, Terminal

(* What the abstract job sees before and after a step.                      *)
LEMMA SeenNowAndNext ==
  ASSUME NEW j \in Jobs
  PROVE  /\ Phase[j] = PhaseIn(client[j], HandsOf(run, j), place[j], store[j].status)
         /\ Phase'[j] = PhaseIn(client'[j], HandsOf(run', j), place'[j], store'[j].status)
         /\ Outcome[j] = OutcomeIn(store[j].status)
         /\ Outcome'[j] = OutcomeIn(store'[j].status)
  <1> DEFINE Cases(hands, c, p, status) ==
               CASE c # "added" -> "new"
                 [] hands # {} -> "held"
                 [] hands = {} /\ p # "out" -> "queued"
                 [] OTHER -> IF status \in Terminal \cup {"absent"} THEN "settled" ELSE "lost"
  <1>1. ASSUME NEW hands, NEW c, NEW p, NEW status
        PROVE  Cases(hands, c, p, status) = PhaseIn(c, hands, p, status)
    BY DEF PhaseIn
  <1>2. Phase[j] = Cases(HandsOf(run, j), client[j], place[j], store[j].status)
    BY DEF Phase, HandsOf, InHand
  <1>3. Phase'[j] = Cases(HandsOf(run', j), client'[j], place'[j], store'[j].status)
    BY DEF Phase, HandsOf, InHand
  <1> HIDE DEF Cases
  <1>4. Phase[j] = PhaseIn(client[j], HandsOf(run, j), place[j], store[j].status) BY <1>1, <1>2
  <1>5. Phase'[j] = PhaseIn(client'[j], HandsOf(run', j), place'[j], store'[j].status)
    BY <1>1, <1>3
  <1>6. Outcome[j] = OutcomeIn(store[j].status) /\ Outcome'[j] = OutcomeIn(store'[j].status)
    BY DEF Outcome
  <1> QED BY <1>4, <1>5, <1>6

(* A job nothing happens to looks the same.                                 *)
LEMMA LooksTheSame ==
  ASSUME NEW j \in Jobs, client'[j] = client[j], place'[j] = place[j], store'[j] = store[j],
         HandsOf(run', j) = HandsOf(run, j)
  PROVE  Phase'[j] = Phase[j] /\ Outcome'[j] = Outcome[j]
BY SeenNowAndNext

(* Each of the two maps is given by its values ...                          *)
LEMMA MapsOf ==
  /\ Phase = [j \in Jobs |-> Phase[j]] /\ Outcome = [j \in Jobs |-> Outcome[j]]
  /\ Phase' = [j \in Jobs |-> Phase'[j]] /\ Outcome' = [j \in Jobs |-> Outcome'[j]]
BY DEF Phase, Outcome

(* ... so when only one job looks different, that job's values are updated. *)
LEMMA OneChanges ==
  ASSUME NEW j \in Jobs, \A k \in Jobs \ {j} : Phase'[k] = Phase[k] /\ Outcome'[k] = Outcome[k]
  PROVE  /\ Phase' = [Phase EXCEPT ![j] = Phase'[j]]
         /\ Outcome' = [Outcome EXCEPT ![j] = Outcome'[j]]
         /\ Phase'[j] = Phase[j] => Phase' = Phase
         /\ Outcome'[j] = Outcome[j] => Outcome' = Outcome
  <1>1. /\ DOMAIN Phase = Jobs /\ DOMAIN Outcome = Jobs
        /\ DOMAIN Phase' = Jobs /\ DOMAIN Outcome' = Jobs
    BY DEF Phase, Outcome
  <1> QED BY <1>1, MapsOf

(* Whoever has an id in hand has a record of it.                            *)
LEMMA HeldIsPresent ==
  ASSUME NEW r, Before(r), Holding(run[r])
  PROVE  store[run[r].job].status # "absent"
  <1>1. run[r].pc \in Pcs /\ Fits(run[r], store[run[r].job]) BY DEF Before, BusyRun
  <1> QED BY <1>1 DEF Fits, Holding, Pcs, Claimable, Terminal

LifecycleStep == Lifecycle!LifecycleNext \/ UNCHANGED <<Phase, Outcome>>

(* What one activation does is one step in the abstract life of its job.    *)
LEMMA MovingImplements ==
  ASSUME CInv, Kempt, NEW r \in Runs, Moves(r), UNCHANGED client
  PROVE  LifecycleStep
  <1> SUFFICES ASSUME NEW j, j = run[r].job PROVE LifecycleStep OBVIOUS
  <1>1. /\ Holding(run[r]) /\ j \in Jobs /\ \A s \in Runs \ {r} : run'[s] = run[s]
        /\ \A k \in Jobs \ {j} : store'[k] = store[k] /\ place'[k] = place[k]
        /\ run'[r].pc # "free" => run'[r].job = j
    BY DEF Moves, OneMoves
  <1>2. r \in HandsOf(run, j) /\ HandsOf(run, j) = {r} /\ client[j] = "added" /\ place[j] = "out"
    <2>1. r \in HandsOf(run, j) BY <1>1 DEF HandsOf, Holding
    <2> QED BY <1>1, <2>1 DEF CInv, SingleCustody, InHand, HandsOf
  <1>3. store[j].status # "absent"
    <2>1. Before(r) BY <1>1, BeforeHolds DEF Holding
    <2> QED BY <1>1, <2>1, HeldIsPresent
  <1>4. \A k \in Jobs \ {j} : HandsOf(run', k) = HandsOf(run, k)
    <2> SUFFICES ASSUME NEW k \in Jobs \ {j} PROVE HandsOf(run', k) = HandsOf(run, k) OBVIOUS
    <2>1. \A s \in Runs : s \in HandsOf(run', k) <=> s \in HandsOf(run, k) BY <1>1 DEF HandsOf
    <2> QED BY <2>1 DEF HandsOf
  <1>5. \A k \in Jobs \ {j} : Phase'[k] = Phase[k] /\ Outcome'[k] = Outcome[k]
    <2> SUFFICES ASSUME NEW k \in Jobs \ {j}
                 PROVE  Phase'[k] = Phase[k] /\ Outcome'[k] = Outcome[k]
      OBVIOUS
    <2>1. k \in Jobs /\ client'[k] = client[k] /\ place'[k] = place[k] /\ store'[k] = store[k]
      BY <1>1
    <2>2. HandsOf(run', k) = HandsOf(run, k) BY <1>4
    <2> QED BY <2>1, <2>2, LooksTheSame
  <1>6. Holding(run'[r]) => HandsOf(run', j) # {}
    <2>1. Holding(run'[r]) => r \in HandsOf(run', j) BY <1>1 DEF HandsOf, Holding
    <2> QED BY <2>1
  <1>7. ~Holding(run'[r]) => HandsOf(run', j) = {}
    <2>1. ASSUME NEW s \in Runs, s # r, s \in HandsOf(run', j) PROVE FALSE
      <3>1. run'[s] = run[s] BY <1>1, <2>1
      <3>2. s \in HandsOf(run, j) BY <2>1, <3>1 DEF HandsOf
      <3> QED BY <1>2, <2>1, <3>2
    <2>2. ~Holding(run'[r]) => r \notin HandsOf(run', j) BY DEF HandsOf, Holding
    <2>3. \A s \in HandsOf(run', j) : s \in Runs BY DEF HandsOf
    <2> QED BY <2>1, <2>2, <2>3
  <1>8. /\ Phase' = [Phase EXCEPT ![j] = Phase'[j]] /\ Outcome' = [Outcome EXCEPT ![j] = Outcome'[j]]
        /\ Phase'[j] = Phase[j] => Phase' = Phase
        /\ Outcome'[j] = Outcome[j] => Outcome' = Outcome
    BY <1>1, <1>5, OneChanges
  <1>9. /\ Phase'[j] = PhaseIn("added", HandsOf(run', j), place'[j], store'[j].status)
        /\ Outcome[j] = OutcomeIn(store[j].status) /\ Outcome'[j] = OutcomeIn(store'[j].status)
    BY <1>1, <1>2, SeenNowAndNext
  <1>10. /\ Phase[j] = "held" /\ (Outcome[j] = "none" <=> ~Ended(store[j]))
         /\ Holding(run'[r]) => Phase'[j] = "held"
         /\ ~Holding(run'[r]) /\ place'[j] # "out" => Phase'[j] = "queued"
         /\ Outcome'[j] = "none" <=> ~Ended(store'[j])
    <2>1. Phase[j] = PhaseIn("added", HandsOf(run, j), place[j], store[j].status)
      BY <1>1, <1>2, SeenNowAndNext
    <2>2. Phase[j] = "held" BY <1>2, <2>1, Phases
    <2>3. Holding(run'[r]) => Phase'[j] = "held" BY <1>6, <1>9, Phases
    <2>4. ~Holding(run'[r]) /\ place'[j] # "out" => Phase'[j] = "queued" BY <1>7, <1>9, Phases
    <2>5. Outcome[j] = "none" <=> ~Ended(store[j]) BY <1>9 DEF OutcomeIn, Ended, Terminal
    <2>6. Outcome'[j] = "none" <=> ~Ended(store'[j]) BY <1>9 DEF OutcomeIn, Ended, Terminal
    <2> QED BY <2>2, <2>3, <2>4, <2>5, <2>6
  <1>11. CASE Works(r, j)
    <2>1. Phase'[j] = "held" BY <1>10, <1>11 DEF Works
    <2>2. Outcome'[j] = Outcome[j]
      <3>1. CASE store'[j] = store[j] BY <1>9, <3>1
      <3>2. CASE ~Ended(store[j]) /\ ~Ended(store'[j]) BY <1>10, <3>2
      <3> QED BY <1>11, <3>1, <3>2 DEF Works
    <2> QED BY <1>8, <1>10, <2>1, <2>2 DEF LifecycleStep
  <1>12. CASE Decides(r, j)
    <2>1. Phase'[j] = "held" BY <1>10, <1>12 DEF Decides
    <2>2. Outcome'[j] \in Terminal BY <1>9, <1>12, Phases DEF Decides, Ended
    <2>3. Outcome[j] = "none" BY <1>10, <1>12 DEF Decides
    <2>4. Phase' = Phase BY <1>8, <1>10, <2>1
    <2>5. Lifecycle!Decide(j)
      BY <1>8, <1>10, <2>2, <2>3, <2>4 DEF Lifecycle!Decide, Outcome, OutcomeIn
    <2> QED BY <1>1, <2>5 DEF LifecycleStep, Lifecycle!LifecycleNext
  <1>13. CASE Returns(r, j)
    <2>1. Phase'[j] = "queued" BY <1>10, <1>13 DEF Returns
    <2>2. Outcome[j] = "none" /\ Outcome'[j] = "none" BY <1>10, <1>13 DEF Returns
    <2>3. Outcome' = Outcome BY <1>8, <2>2
    <2>4. Phase[j] = "held" /\ Phase' = [Phase EXCEPT ![j] = "queued"] BY <1>8, <1>10, <2>1
    <2>5. Lifecycle!GiveBack(j)
      BY <2>2, <2>3, <2>4 DEF Lifecycle!GiveBack, Lifecycle!Move, Outcome, OutcomeIn
    <2> QED BY <1>1, <2>5 DEF LifecycleStep, Lifecycle!LifecycleNext
  <1>14. CASE Drops(r, j)
    <2>1. Phase'[j] = IF Ended(store[j]) THEN "settled" ELSE "lost"
      <3>1. HandsOf(run', j) = {} /\ place'[j] = "out" /\ store'[j] = store[j]
        BY <1>1, <1>2, <1>7, <1>14 DEF Drops
      <3> QED BY <1>3, <1>9, <3>1, Phases DEF Ended
    <2>2. Outcome' = Outcome
      <3>1. Outcome'[j] = Outcome[j] BY <1>9, <1>14 DEF Drops
      <3> QED BY <1>8, <3>1
    <2>3. Phase' = [k \in Jobs |-> IF k \notin {j} THEN Phase[k]
                                   ELSE IF Outcome[k] = "none" THEN "lost" ELSE "settled"]
      <3>1. Phase'[j] = IF Outcome[j] = "none" THEN "lost" ELSE "settled" BY <1>10, <2>1
      <3>2. \A k \in Jobs \ {j} : Phase'[k] = Phase[k] BY <1>5
      <3> QED BY <3>1, <3>2, MapsOf
    <2>4. Lifecycle!LetGo({j})
      BY <1>10, <2>2, <2>3 DEF Lifecycle!LetGo, Outcome, OutcomeIn
    <2>5. {j} \in SUBSET Jobs BY <1>1
    <2> QED BY <2>4, <2>5 DEF LifecycleStep, Lifecycle!LifecycleNext
  <1>15. CASE Forgets(r, j)
    <2>1. Phase'[j] = "settled"
      <3>1. HandsOf(run', j) = {} /\ place'[j] = "out" /\ store'[j].status = "absent"
        BY <1>1, <1>2, <1>7, <1>15 DEF Forgets, NoRecord
      <3> QED BY <1>9, <3>1, Phases
    <2>2. Outcome[j] # "none" /\ Outcome'[j] = "none"
      BY <1>10, <1>15 DEF Forgets, Ended, NoRecord, Terminal
    <2>3. /\ Phase[j] = "held" /\ Phase' = [Phase EXCEPT ![j] = "settled"]
          /\ Outcome' = [Outcome EXCEPT ![j] = "none"]
      BY <1>8, <1>10, <2>1, <2>2
    <2>4. Lifecycle!Forget(j)
      BY <2>2, <2>3 DEF Lifecycle!Forget, Lifecycle!Move, Outcome, OutcomeIn
    <2> QED BY <1>1, <2>4 DEF LifecycleStep, Lifecycle!LifecycleNext
  <1> QED BY <1>11, <1>12, <1>13, <1>14, <1>15 DEF Moves, LifeStep

(* Activations that end, of one process or none, let go of what they had.   *)
LEMMA EndingImplements ==
  ASSUME CInv, Kempt, NoNewWork, UNCHANGED <<store, place, client>>
  PROVE  LifecycleStep
  <1> DEFINE gone == {j \in Jobs : HandsOf(run, j) # {} /\ HandsOf(run', j) = {}}
  <1>1. \A j \in Jobs : /\ client'[j] = client[j] /\ place'[j] = place[j] /\ store'[j] = store[j]
                        /\ HandsOf(run', j) \subseteq HandsOf(run, j)
    BY DEF HandsOf, NoNewWork, SameWork
  <1>2. ASSUME NEW j \in Jobs, HandsOf(run, j) # {}
        PROVE  /\ client[j] = "added" /\ place[j] = "out" /\ store[j].status # "absent"
    <2>1. PICK s \in Runs : run[s].job = j /\ run[s].pc \notin {"free", "leaked"}
      BY <1>2 DEF HandsOf
    <2>2. s \in InHand(j) BY <2>1 DEF InHand
    <2>3. client[j] = "added" /\ place[j] = "out" BY <2>2 DEF CInv, SingleCustody
    <2>4. Before(s) /\ Holding(run[s]) BY <2>1, BeforeHolds DEF Holding
    <2> QED BY <2>1, <2>3, <2>4, HeldIsPresent
  <1>3. ASSUME NEW j \in Jobs
        PROVE  /\ Phase[j] = PhaseIn(client[j], HandsOf(run, j), place[j], store[j].status)
               /\ Phase'[j] = PhaseIn(client[j], HandsOf(run', j), place[j], store[j].status)
               /\ Outcome[j] = OutcomeIn(store[j].status) /\ Outcome'[j] = Outcome[j]
    BY <1>1, SeenNowAndNext
  <1>4. Outcome' = Outcome BY <1>3, MapsOf
  <1>5. ASSUME NEW j \in Jobs \ gone PROVE Phase'[j] = Phase[j]
    <2>1. CASE HandsOf(run, j) = {}
      <3>1. HandsOf(run', j) = HandsOf(run, j) BY <1>1, <2>1
      <3> QED BY <1>3, <3>1
    <2>2. CASE HandsOf(run, j) # {}
      <3>1. HandsOf(run', j) # {} BY <1>5, <2>2
      <3> QED BY <1>2, <1>3, <2>2, <3>1, Phases
    <2> QED BY <2>1, <2>2
  <1>6. ASSUME NEW j \in gone
        PROVE  /\ Phase[j] = "held"
               /\ Phase'[j] = IF Outcome[j] = "none" THEN "lost" ELSE "settled"
    <2>1. client[j] = "added" /\ place[j] = "out" /\ store[j].status # "absent" BY <1>2, <1>6
    <2>2. Phase[j] = "held" BY <1>3, <1>6, <2>1, Phases
    <2>3. Phase'[j] = IF store[j].status \in Terminal \cup {"absent"} THEN "settled" ELSE "lost"
      BY <1>3, <1>6, <2>1, Phases
    <2>4. Outcome[j] = "none" <=> store[j].status \notin Terminal BY <1>3, <1>6, Phases
    <2> QED BY <2>1, <2>2, <2>3, <2>4
  <1> HIDE DEF gone
  <1>7. CASE gone = {}
    <2>1. Phase' = Phase BY <1>5, <1>7, MapsOf
    <2> QED BY <1>4, <2>1 DEF LifecycleStep
  <1>8. CASE gone # {}
    <2>1. Phase' = [j \in Jobs |-> IF j \notin gone THEN Phase[j]
                                   ELSE IF Outcome[j] = "none" THEN "lost" ELSE "settled"]
      <3>1. \A j \in Jobs : Phase'[j] = IF j \notin gone THEN Phase[j]
                                        ELSE IF Outcome[j] = "none" THEN "lost" ELSE "settled"
        BY <1>5, <1>6
      <3> QED BY <3>1, MapsOf
    <2>2. Lifecycle!LetGo(gone)
      BY <1>4, <1>6, <1>8, <2>1 DEF Lifecycle!LetGo, Outcome, OutcomeIn
    <2>3. gone \in SUBSET Jobs BY DEF gone
    <2> QED BY <2>2, <2>3 DEF LifecycleStep, Lifecycle!LifecycleNext
  <1> QED BY <1>7, <1>8

(* A claim takes an id that was queued.                                     *)
LEMMA ClaimImplements ==
  ASSUME CInv, Kempt, NEW n \in Nodes, NEW j \in Jobs, NEW r \in Runs, Claim(n, j, r),
         UNCHANGED client
  PROVE  LifecycleStep
  <1>1. /\ place[j] # "out" /\ run[r].pc = "free" /\ UNCHANGED store
        /\ place' = [place EXCEPT ![j] = "out"]
        /\ run' = [run EXCEPT ![r] = [FreeRun EXCEPT !.pc = "fetch", !.node = n, !.job = j]]
    BY DEF Claim, At, TakeClaim
  <1>2. run \in [Runs -> BusyRun \cup {FreeRun}] /\ place \in [Jobs -> {"out", "ready", "delayed"}]
    BY DEF CInv, IInv, TypeOK, ExecTypeOK, StoreTypeOK
  <1>3. /\ run'[r].pc = "fetch" /\ run'[r].job = j /\ place'[j] = "out"
        /\ \A s \in Runs \ {r} : run'[s] = run[s]
        /\ \A k \in Jobs \ {j} : place'[k] = place[k]
    BY <1>1, <1>2 DEF FreeRun
  <1>4. client[j] = "added" /\ HandsOf(run, j) = {}
    BY <1>1 DEF CInv, SingleCustody, InHand, HandsOf
  <1>5. r \in HandsOf(run', j) BY <1>3 DEF HandsOf
  <1>6. \A k \in Jobs \ {j} : Phase'[k] = Phase[k] /\ Outcome'[k] = Outcome[k]
    <2> SUFFICES ASSUME NEW k \in Jobs \ {j}
                 PROVE  Phase'[k] = Phase[k] /\ Outcome'[k] = Outcome[k]
      OBVIOUS
    <2>1. \A s \in Runs : s \in HandsOf(run', k) <=> s \in HandsOf(run, k)
      BY <1>1, <1>3 DEF HandsOf
    <2>2. HandsOf(run', k) = HandsOf(run, k) BY <2>1 DEF HandsOf
    <2>3. client'[k] = client[k] /\ place'[k] = place[k] /\ store'[k] = store[k] BY <1>1, <1>3
    <2> QED BY <2>2, <2>3, LooksTheSame
  <1>7. Outcome'[j] = Outcome[j] BY <1>1, SeenNowAndNext
  <1>8. Phase[j] = "queued"
    <2>1. Phase[j] = PhaseIn(client[j], HandsOf(run, j), place[j], store[j].status)
      BY SeenNowAndNext
    <2> QED BY <1>1, <1>4, <2>1, Phases
  <1>9. Phase'[j] = "held"
    <2>1. Phase'[j] = PhaseIn(client[j], HandsOf(run', j), place'[j], store'[j].status)
      BY SeenNowAndNext
    <2> QED BY <1>4, <1>5, <2>1, Phases
  <1>10. Phase' = [Phase EXCEPT ![j] = "held"] /\ Outcome' = Outcome
    BY <1>6, <1>7, <1>9, OneChanges
  <1>11. Lifecycle!Take(j)
    BY <1>8, <1>10 DEF Lifecycle!Take, Lifecycle!Move, Outcome, OutcomeIn
  <1> QED BY <1>11 DEF LifecycleStep, Lifecycle!LifecycleNext

(* A job is new until its id is published.                                  *)
LEMMA ClientImplements ==
  ASSUME CInv, Kempt, ClientNext
  PROVE  LifecycleStep
  <1>1. PICK j \in Jobs : AddSave(j) \/ AddPublish(j) \/ ClientCrash(j) BY DEF ClientNext
  <1>2. /\ UNCHANGED run /\ client[j] # "added"
        /\ \A k \in Jobs \ {j} : client'[k] = client[k] /\ place'[k] = place[k] /\ store'[k] = store[k]
    <2>1. /\ client \in [Jobs -> {"new", "saved", "added", "crashed"}]
          /\ place \in [Jobs -> {"out", "ready", "delayed"}] /\ store \in [Jobs -> JobRecord]
      BY DEF CInv, IInv, TypeOK, RecoveryTypeOK, StoreTypeOK
    <2>2. CASE AddSave(j) BY <2>1, <2>2 DEF AddSave, Save, execVars
    <2>3. CASE AddPublish(j) BY <2>1, <2>3 DEF AddPublish, Publish, execVars
    <2>4. CASE ClientCrash(j) BY <2>1, <2>4 DEF ClientCrash, storeVars, execVars
    <2> QED BY <1>1, <2>2, <2>3, <2>4
  <1>3. \A k \in Jobs : HandsOf(run', k) = HandsOf(run, k) BY <1>2
  <1>4. \A k \in Jobs \ {j} : Phase'[k] = Phase[k] /\ Outcome'[k] = Outcome[k]
    BY <1>2, <1>3, LooksTheSame
  <1>5. client[j] # "added" /\ HandsOf(run, j) = {}
    BY <1>2 DEF CInv, SingleCustody, InHand, HandsOf
  <1>6. Phase[j] = "new"
    <2>1. Phase[j] = PhaseIn(client[j], HandsOf(run, j), place[j], store[j].status)
      BY SeenNowAndNext
    <2> QED BY <1>5, <2>1, Phases
  <1>7. Phase'[j] = PhaseIn(client'[j], {}, place'[j], store'[j].status)
    BY <1>3, <1>5, SeenNowAndNext
  <1>8. Outcome[j] = OutcomeIn(store[j].status) /\ Outcome'[j] = OutcomeIn(store'[j].status)
    BY SeenNowAndNext
  <1>9. client \in [Jobs -> {"new", "saved", "added", "crashed"}]
        /\ place \in [Jobs -> {"out", "ready", "delayed"}] /\ store \in [Jobs -> JobRecord]
    BY DEF CInv, IInv, TypeOK, RecoveryTypeOK, StoreTypeOK
  <1>10. CASE AddSave(j)
    <2>1. client'[j] # "added" BY <1>9, <1>10 DEF AddSave
    <2>2. store[j] = NoRecord /\ store'[j] = NewRecord(AddStatus(j))
      BY <1>9, <1>10 DEF AddSave, Save, Kempt
    <2>3. store[j].status \notin Terminal /\ store'[j].status \notin Terminal
      BY <2>2 DEF NoRecord, NewRecord, AddStatus, Terminal
    <2>4. Phase'[j] = Phase[j] BY <1>6, <1>7, <2>1, Phases
    <2>5. Outcome'[j] = Outcome[j] BY <1>8, <2>3, Phases
    <2> QED BY <1>4, <2>4, <2>5, OneChanges DEF LifecycleStep
  <1>11. CASE AddPublish(j)
    <2>1. client'[j] = "added" /\ place'[j] # "out" /\ UNCHANGED store
      BY <1>9, <1>11 DEF AddPublish, Publish
    <2>2. Phase'[j] = "queued" BY <1>7, <2>1, Phases
    <2>3. Outcome'[j] = Outcome[j] BY <1>8, <2>1
    <2>4. Phase' = [Phase EXCEPT ![j] = "queued"] /\ Outcome' = Outcome
      BY <1>4, <2>2, <2>3, OneChanges
    <2>5. Lifecycle!Submit(j)
      BY <1>6, <2>4 DEF Lifecycle!Submit, Lifecycle!Move, Outcome, OutcomeIn
    <2> QED BY <2>5 DEF LifecycleStep, Lifecycle!LifecycleNext
  <1>12. CASE ClientCrash(j)
    <2>1. client'[j] # "added" /\ UNCHANGED store BY <1>9, <1>12 DEF ClientCrash, storeVars
    <2>2. Phase'[j] = Phase[j] BY <1>6, <1>7, <2>1, Phases
    <2>3. Outcome'[j] = Outcome[j] BY <1>8, <2>1
    <2> QED BY <1>4, <2>2, <2>3, OneChanges DEF LifecycleStep
  <1> QED BY <1>1, <1>10, <1>11, <1>12

(* Every step of the engine is a step of the abstract life, or none.        *)
LEMMA StepsImplement ==
  ASSUME ExecutorOnly, MaxCancels = 0, OInv, Next
  PROVE  LifecycleStep
  <1>1. CInv /\ Kempt /\ cancels = 0
    <2>1. CInv /\ (cancels = 0 => Kempt) BY DEF OInv
    <2>2. cancels = 0 BY <2>1 DEF CInv, IInv, TypeOK, RecoveryTypeOK
    <2> QED BY <2>1, <2>2
  <1>2. CASE ClientNext BY <1>1, <1>2, ClientImplements
  <1>3. CASE ExecutorNext
    <2>1. UNCHANGED client BY <1>3 DEF ExecutorNext, Idle
    <2>2. ASSUME NEW n \in Nodes, NEW j \in Jobs, NEW r \in Runs, Claim(n, j, r)
          PROVE  LifecycleStep
      BY <1>1, <2>1, <2>2, ClaimImplements
    <2>3. ASSUME NEW r \in Runs,
                 ExecutorStep(r) \/ HandlerTimesOut(r) \/ Progress(r) \/ ActivateFails(r)
                 \/ SettleFails(r)
          PROVE  LifecycleStep
      <3>1. CASE Moves(r) BY <1>1, <2>1, <3>1, MovingImplements
      <3>2. CASE HeartbeatLost(r)
        <4>1. NoNewWork /\ UNCHANGED <<store, place>> BY <1>1, <3>2, HeartbeatLostKeeps
        <4> QED BY <1>1, <2>1, <4>1, EndingImplements
      <3> QED BY <1>1, <2>3, <3>1, <3>2, ExecutorMoves
    <2> QED BY <1>3, <2>2, <2>3 DEF ExecutorNext
  <1>4. CASE DetectorNext
    <2>1. NoNewWork /\ UNCHANGED <<store, place, client>>
      BY <1>1, <1>4, DetectorQuiet DEF NoNewWork
    <2> QED BY <1>1, <2>1, EndingImplements
  <1>5. ~CancelNext
    <2>1. ASSUME CancelNext PROVE FALSE
      <3>1. cancels' # 0 BY <1>1, <2>1, CancelCounts
      <3>2. OInv' BY <2>1, RecordsInductive DEF Next
      <3>3. cancels' = 0 BY <3>2 DEF OInv, CInv, IInv, TypeOK, RecoveryTypeOK
      <3> QED BY <3>1, <3>3
    <2> QED BY <2>1
  <1>6. CASE ProcessNext
    <2>1. NoNewWork /\ UNCHANGED <<store, place, client>> BY <1>1, <1>6, ProcessQuiet
    <2> QED BY <1>1, <2>1, EndingImplements
  <1> QED BY <1>1, <1>2, <1>3, <1>4, <1>5, <1>6, OptionalRecoveryOff DEF Next

(* The executor, its stall detector, clients and dying processes implement  *)
(* the abstract life of a job when nothing is cancelled: an id is submitted *)
(* once, one party at a time has it in hand and decides its outcome, and    *)
(* only a party that dies or fails with it in hand loses it.                *)
THEOREM LifecycleIsImplemented ==
  ASSUME ExecutorOnly, MaxCancels = 0
  PROVE  Spec => ImplementsLifecycle
  <1>1. Outcome = [j \in Jobs |-> IF store[j].status \in Terminal THEN store[j].status ELSE "none"]
    BY DEF Outcome, OutcomeIn
  <1>2. Init => Lifecycle!LifecycleInit
    <2> SUFFICES ASSUME Init PROVE Lifecycle!LifecycleInit OBVIOUS
    <2>1. \A j \in Jobs : client[j] # "added" /\ store[j].status \notin Terminal
      BY DEF Init, StoreInit, RecoveryInit, NoRecord, Terminal
    <2>2. \A j \in Jobs : Phase[j] = "new" /\ Outcome[j] = "none"
      BY <2>1, SeenNowAndNext, Phases
    <2>3. Phase = [j \in Jobs |-> "new"] /\ Outcome = [j \in Jobs |-> "none"]
      BY <2>2, MapsOf
    <2> QED BY <1>1, <2>3 DEF Lifecycle!LifecycleInit
  <1>3. OInv /\ [Next]_vars => [Lifecycle!LifecycleNext]_(Lifecycle!lifecycleVars)
    <2> SUFFICES ASSUME OInv, [Next]_vars
                 PROVE  Lifecycle!LifecycleNext \/ UNCHANGED Lifecycle!lifecycleVars
      OBVIOUS
    <2>1. CASE Next
      BY <2>1, StepsImplement DEF LifecycleStep, Lifecycle!lifecycleVars, Outcome, OutcomeIn
    <2>2. CASE UNCHANGED vars
      BY <2>2 DEF vars, storeVars, execVars, recoveryVars, Lifecycle!lifecycleVars, Phase, InHand
    <2> QED BY <2>1, <2>2
  <1> QED
    BY <1>2, <1>3, RecordsInductive, PTL DEF Spec, ImplementsLifecycle, Lifecycle!LifecycleSpec
=============================================================================

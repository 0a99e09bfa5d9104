-------------------------- MODULE Deliveries_proofs --------------------------
(***************************************************************************)
(* Two more parts of the services and what is proved of each: the webhook  *)
(* engine and the jobs that wait for other jobs. As in Parts_proofs, each  *)
(* is instantiated under the names it has in Services, which extends this  *)
(* module, and each theorem holds for every value of the constants of its  *)
(* part.                                                                   *)
(***************************************************************************)
EXTENDS Naturals, Sequences, TLAPS, SequenceTheorems, FiniteSetTheorems

CONSTANTS
  HookNodes, HookJobs, HookRuns, HookMaxRetries, HookThreshold,
  HookHalfOpenMax, HookSettings,
  FlowJobs, FlowClients, FlowEngines, FlowSettings

-----------------------------------------------------------------------------
(* Webhook deliveries. A delivery is sent no more often than its retries    *)
(* allow, plus once per process that died with it. It rests on there being  *)
(* one of it: while no stall handler and no cancellation took it from a     *)
(* run, a delivery is in one place, with its caller, held, with a resume,   *)
(* in the broker's list or in one run, and the record tells the attempts    *)
(* that were made.                                                          *)
VARIABLES hookSetting, hookJob, hookReady, hookClaim, hookLease, hookEngine,
  hookRun, hookStall, hookResumer, hookCanceller, hookClient, hookEnabled,
  hookOpen, hookCircuit, hookSent, hookFailedInRow, hookProbing,
  hookRecoveries, hookTaken
hookVars == <<hookSetting, hookJob, hookReady, hookClaim, hookLease, hookEngine,
  hookRun, hookStall, hookResumer, hookCanceller, hookClient, hookEnabled,
  hookOpen, hookCircuit, hookSent, hookFailedInRow, hookProbing,
  hookRecoveries, hookTaken>>
W == INSTANCE Webhook WITH
  Nodes <- HookNodes, Jobs <- HookJobs, Runs <- HookRuns,
  MaxRetries <- HookMaxRetries, FailureThreshold <- HookThreshold,
  HalfOpenMax <- HookHalfOpenMax, Settings <- HookSettings,
  setting <- hookSetting, job <- hookJob, ready <- hookReady,
  claim <- hookClaim, lease <- hookLease, engine <- hookEngine,
  run <- hookRun, stall <- hookStall, resumer <- hookResumer,
  canceller <- hookCanceller, client <- hookClient,
  enabled <- hookEnabled, open <- hookOpen, circuit <- hookCircuit,
  sent <- hookSent, failedInRow <- hookFailedInRow,
  probing <- hookProbing, recoveries <- hookRecoveries, taken <- hookTaken

-----------------------------------------------------------------------------
(* Types.                                                                   *)
HookSettingType ==
  [fleet : SUBSET HookNodes, concurrency : Nat \ {0}, shared : BOOLEAN, reclaims : BOOLEAN,
   offers : [W!Offers -> Nat], budget : [W!Faults -> Nat]]
RunType ==
  [pc : W!Stages, node : HookNodes \cup {W!NoNode}, job : HookJobs \cup {W!NoJob}, copy : W!Record, aborted : BOOLEAN,
   beating : BOOLEAN, answer : {"none", "ok", "retry", "reject", "error"}, settle : {"none", "ack", "nack"}]
HookEngineType ==
  [state : {"up", "stopping", "down"}, paused : BOOLEAN, hb : [HookJobs -> HookRuns \cup {W!NoRun}],
   ac : [HookJobs -> HookRuns \cup {W!NoRun}], active : SUBSET HookJobs]
ActorType ==
  [pc : {"idle", "list", "get", "save", "nack", "publish", "finish"}, node : HookNodes \cup {W!NoNode},
   job : HookJobs \cup {W!NoJob}, copy : W!Record]

StoresTyped ==
  /\ hookSetting \in HookSettingType /\ hookJob \in [HookJobs -> W!Record] /\ hookReady \subseteq HookJobs
  /\ hookClaim \in [HookJobs -> HookNodes \cup {W!NoNode}]
  /\ hookClient \in [HookJobs -> {"idle", "save", "hold", "publish", "done"}]
  /\ hookSent \in [HookJobs -> Nat] /\ hookRecoveries \in [HookJobs -> Nat] /\ hookTaken \subseteq HookJobs
ProcessesTyped ==
  /\ hookEngine \in [HookNodes -> HookEngineType] /\ hookRun \in [HookRuns -> RunType]
  /\ hookStall \in [HookNodes -> ActorType] /\ hookResumer \in ActorType /\ hookCanceller \in ActorType

(* What a run and an actor at work know of their job.                       *)
Busy(r) == hookRun[r].pc # "idle"
AtWork ==
  /\ \A r \in HookRuns : /\ Busy(r) => hookRun[r].job \in HookJobs /\ hookRun[r].node \in HookNodes
                         /\ hookRun[r].pc = "record" => hookRun[r].answer \in {"ok", "retry", "reject"}
                         /\ hookRun[r].pc = "answer" => hookRun[r].answer # "none"
                         /\ hookRun[r].beating => Busy(r)
  /\ \A n \in HookNodes : hookStall[n].pc # "idle" => hookStall[n].job \in hookTaken
  /\ hookCanceller.pc # "idle" => hookCanceller.job \in hookTaken /\ hookCanceller.node \in HookNodes
  /\ hookResumer.pc \in {"save", "publish"} => hookResumer.job \in HookJobs
HookTyped == StoresTyped /\ ProcessesTyped /\ AtWork

-----------------------------------------------------------------------------
(* Where a delivery is, and how many requests its record accounts for.      *)
Has(r, j) == Busy(r) /\ hookRun[r].job = j
Resuming(j) == hookResumer.pc \in {"save", "publish"} /\ hookResumer.job = j
Counted(s, rec) == s <= rec.attempts \/ rec.attempts > HookMaxRetries
Early == {"claimed", "lease", "load", "begin", "gate", "circuit", "send"}
Copied == {"begin", "gate", "circuit", "send", "answer", "record", "blame", "save"}
Fits(x, rec, s, n) ==
  /\ x.pc \in Early \/ (x.pc \in {"save", "finish", "settle"} /\ x.settle # "ack") => s <= HookMaxRetries + n
  /\ x.pc \in Copied => x.copy.attempts = rec.attempts /\ x.copy.status # "paused"
  /\ x.pc \in {"gate", "circuit", "send"} => s < x.copy.attempts \/ x.copy.attempts > HookMaxRetries

InOnePlace(j) ==
  /\ hookClaim[j] # W!NoNode \/ j \in hookReady => hookClient[j] = "done" /\ ~Resuming(j) /\ hookJob[j].status # "paused"
  /\ hookClaim[j] # W!NoNode => j \notin hookReady
  /\ Resuming(j) \/ hookJob[j].status = "paused" => hookClient[j] = "done"
  /\ hookResumer.pc = "save" /\ hookResumer.job = j => hookResumer.copy = hookJob[j]
  /\ hookResumer.pc = "publish" /\ hookResumer.job = j => hookJob[j].status # "paused"
  /\ \A r \in HookRuns : Has(r, j) => hookClaim[j] = hookRun[r].node
  /\ \A r, q \in HookRuns : Has(r, j) /\ Has(q, j) => r = q
Waits(j) ==
  \/ hookJob[j].status = "paused" \/ Resuming(j) \/ j \in hookReady
  \/ hookClaim[j] # W!NoNode /\ \A r \in HookRuns : ~Has(r, j)
InBudget(j) ==
  /\ hookSent[j] <= HookMaxRetries + 1 + hookRecoveries[j] /\ Counted(hookSent[j], hookJob[j])
  /\ hookClient[j] # "done" => hookSent[j] = 0
  /\ Waits(j) => hookSent[j] <= HookMaxRetries + hookRecoveries[j]
  /\ \A r \in HookRuns : Has(r, j) => Fits(hookRun[r], hookJob[j], hookSent[j], hookRecoveries[j])
Owned(j) == InOnePlace(j) /\ InBudget(j)
HookInv == HookTyped /\ \A j \in HookJobs \ hookTaken : Owned(j)
-----------------------------------------------------------------------------
(* Values of the types.                                                     *)
LEMMA Values ==
  ASSUME W!Assumption
  PROVE  /\ W!NoRecord \in W!Record /\ W!IdleRun \in RunType /\ W!IdleActor \in ActorType /\ W!Up \in HookEngineType
         /\ W!AttemptCap \in Nat /\ HookMaxRetries \in Nat
  <1>1. HookMaxRetries \in Nat BY DEF W!Assumption
  <1>2. W!AttemptCap \in Nat /\ 0 \in 0 .. W!AttemptCap BY <1>1 DEF W!AttemptCap
  <1>3. W!NoRecord \in W!Record BY <1>2 DEF W!NoRecord, W!Record, W!Statuses
  <1>4. W!IdleRun \in RunType BY <1>3 DEF W!IdleRun, RunType, W!Stages
  <1>5. W!IdleActor \in ActorType BY <1>3 DEF W!IdleActor, ActorType
  <1>6. W!Up \in HookEngineType BY DEF W!Up, HookEngineType
  <1> QED BY <1>1, <1>2, <1>3, <1>4, <1>5, <1>6

(* A record with another status is a record.                                *)
LEMMA NewStatus ==
  ASSUME NEW rec \in W!Record, NEW st \in W!Statuses
  PROVE  [rec EXCEPT !.status = st] \in W!Record
  BY DEF W!Record

(* What a call or a fault takes off its allowance leaves a setting.         *)
LEMMA Spent ==
  ASSUME hookSetting \in HookSettingType, NEW kind,
         \/ kind \in W!Offers /\ W!Offered(kind)
         \/ kind \in W!Faults /\ W!Spend(kind)
  PROVE  hookSetting' \in HookSettingType /\ hookSetting'.fleet = hookSetting.fleet
  <1>1. CASE kind \in W!Offers /\ W!Offered(kind)
    <2>1. hookSetting.offers[kind] - 1 \in Nat BY <1>1 DEF W!Offered, HookSettingType
    <2> QED BY <1>1, <2>1 DEF W!Offered, HookSettingType
  <1>2. CASE kind \in W!Faults /\ W!Spend(kind)
    <2>1. hookSetting.budget[kind] - 1 \in Nat BY <1>2 DEF W!Spend, HookSettingType
    <2> QED BY <1>2, <2>1 DEF W!Spend, HookSettingType
  <1> QED BY <1>1, <1>2

(* Callers and operators: who fires, resends, pauses and resumes.           *)
LEMMA ClientTypes ==
  ASSUME W!Assumption, HookTyped, NEW j \in HookJobs,
         \/ W!Fire(j) \/ W!Persist(j) \/ W!Enqueue(j) \/ \E clone \in HookJobs : W!Resend(j, clone)
         \/ W!Disable \/ W!Scan(j)
  PROVE  HookTyped'
  <1> USE Values
  <1>1. CASE W!Fire(j) \/ W!Disable
    <2>1. hookSetting' \in HookSettingType BY <1>1, Spent DEF W!Fire, W!Disable, W!Offers, HookTyped, StoresTyped
    <2> QED BY <1>1, <2>1
          DEF W!Fire, W!Disable, HookTyped, StoresTyped, ProcessesTyped, AtWork, W!broker, W!actors, W!switches, W!histories, Busy
  <1>2. CASE W!Persist(j)
    <2>1. [W!NoRecord EXCEPT !.status = IF hookClient[j] = "save" THEN "waiting" ELSE "paused"] \in W!Record
      BY NewStatus DEF W!Statuses
    <2> QED BY <1>2, <2>1
          DEF W!Persist, W!SaveStatus, W!Save, HookTyped, StoresTyped, ProcessesTyped, AtWork, W!broker, W!actors, W!switches, W!histories, Busy
  <1>3. CASE W!Enqueue(j)
    BY <1>3 DEF W!Enqueue, W!Publish, HookTyped, StoresTyped, ProcessesTyped, AtWork, W!actors, W!switches, W!histories, Busy
  <1>4. ASSUME NEW clone \in HookJobs, W!Resend(j, clone) PROVE HookTyped'
    <2>1. hookSetting' \in HookSettingType BY <1>4, Spent DEF W!Resend, W!Offers, HookTyped, StoresTyped
    <2>2. [W!NoRecord EXCEPT !.status = "waiting"] \in W!Record BY NewStatus DEF W!Statuses
    <2> QED BY <1>4, <2>1, <2>2
          DEF W!Resend, W!SaveStatus, W!Save, HookTyped, StoresTyped, ProcessesTyped, AtWork, W!broker, W!actors, W!switches, W!histories, Busy
  <1>5. CASE W!Scan(j)
    BY <1>5 DEF W!Scan, W!WorkerIdOf, HookTyped, StoresTyped, ProcessesTyped, AtWork, W!broker, W!actors, W!switches, W!histories, Busy
  <1> QED BY <1>1, <1>2, <1>3, <1>4, <1>5

(* pauseDispatcher, resumeDispatcher and the release of held deliveries.    *)
LEMMA OperatorTypes ==
  ASSUME W!Assumption, HookTyped, \/ \E n \in hookSetting.fleet : W!Pause(n) \/ W!Resume(n)
                                  \/ W!ResumeStep
  PROVE  HookTyped'
  <1> USE Values
  <1>1. ASSUME NEW n \in hookSetting.fleet, W!Pause(n) \/ W!Resume(n) PROVE HookTyped'
    <2>0. n \in HookNodes BY DEF HookTyped, StoresTyped, HookSettingType
    <2>1. hookSetting' \in HookSettingType BY <1>1, Spent DEF W!Pause, W!Resume, W!Offers, HookTyped, StoresTyped
    <2>2. hookEngine' \in [HookNodes -> HookEngineType]
      <3>1. hookEngine[n] \in HookEngineType BY <2>0 DEF HookTyped, ProcessesTyped
      <3>2. \A b \in BOOLEAN : [hookEngine[n] EXCEPT !.paused = b] \in HookEngineType BY <3>1 DEF HookEngineType
      <3> QED BY <1>1, <3>2 DEF W!Pause, W!Resume, HookTyped, ProcessesTyped
    <2>3. hookResumer' \in ActorType /\ hookResumer'.pc \notin {"save", "publish"}
      BY <1>1, <2>0 DEF W!Pause, W!Resume, HookTyped, ProcessesTyped, ActorType, W!IdleActor, W!actors
    <2> QED BY <1>1, <2>1, <2>2, <2>3
          DEF W!Pause, W!Resume, HookTyped, StoresTyped, ProcessesTyped, AtWork, W!broker, W!actors, W!histories, Busy
  <1>2. ASSUME W!ResumeList PROVE HookTyped'
    <2>1. hookResumer' \in ActorType /\ (hookResumer'.pc \in {"save", "publish"} => hookResumer'.job \in HookJobs)
      BY <1>2 DEF W!ResumeList, HookTyped, StoresTyped, ProcessesTyped, ActorType, W!IdleActor
    <2> QED BY <1>2, <2>1
          DEF W!ResumeList, HookTyped, StoresTyped, ProcessesTyped, AtWork, W!broker, W!switches, W!histories, Busy
  <1>3. ASSUME W!ResumeSave PROVE HookTyped'
    <2>1. hookResumer' \in ActorType /\ hookResumer'.job = hookResumer.job /\ hookResumer.job \in HookJobs
      BY <1>3 DEF W!ResumeSave, HookTyped, ProcessesTyped, AtWork, ActorType
    <2>2. hookJob' \in [HookJobs -> W!Record]
      <3>1. [hookResumer.copy EXCEPT !.status = "waiting"] \in W!Record
        BY NewStatus DEF HookTyped, ProcessesTyped, ActorType, W!Statuses
      <3> QED BY <1>3, <2>1, <3>1 DEF W!ResumeSave, W!SaveStatus, W!Save, HookTyped, StoresTyped
    <2> QED BY <1>3, <2>1, <2>2
          DEF W!ResumeSave, HookTyped, StoresTyped, ProcessesTyped, AtWork, W!broker, W!switches, W!histories, Busy
  <1>4. ASSUME W!ResumePublish PROVE HookTyped'
    <2>1. hookResumer' \in ActorType /\ hookResumer'.pc = "list" /\ hookResumer.job \in HookJobs
      BY <1>4 DEF W!ResumePublish, HookTyped, ProcessesTyped, AtWork, ActorType, W!IdleActor
    <2> QED BY <1>4, <2>1
          DEF W!ResumePublish, W!Publish, HookTyped, StoresTyped, ProcessesTyped, AtWork, W!switches, W!histories, Busy
  <1> QED BY <1>1, <1>2, <1>3, <1>4 DEF W!ResumeStep

-----------------------------------------------------------------------------
(* What the steps of a run do to it.                                        *)
LEMMA Concluded ==
  ASSUME NEW x \in RunType, NEW status \in W!Statuses
  PROVE  LET y == W!Concludes(x, status)
         IN /\ y \in RunType /\ y.pc = "save" /\ y.job = x.job /\ y.node = x.node
            /\ y.copy.status = status /\ y.copy.attempts = x.copy.attempts
            /\ y.settle = IF status = "delayed" THEN "nack" ELSE "ack"
  <1>1. PICK c : c = [x.copy EXCEPT !.status = status] OBVIOUS
  <1>2. x.copy \in W!Record BY DEF RunType
  <1>3. c \in W!Record /\ c.status = status /\ c.attempts = x.copy.attempts BY <1>1, <1>2 DEF W!Record
  <1>4. W!Concludes(x, status) = [x EXCEPT !.pc = "save", !.copy = c,
                                           !.settle = IF status = "delayed" THEN "nack" ELSE "ack"]
    BY <1>1 DEF W!Concludes, RunType
  <1>5. "save" \in W!Stages BY DEF W!Stages
  <1> QED BY <1>3, <1>4, <1>5 DEF RunType

(* A run that is over without an answer keeps its delivery and its node.    *)
LEMMA EndsTyped ==
  ASSUME NEW x \in RunType, NEW how \in {"ack", "nack"}
  PROVE  LET y == W!Ends(x, how)
         IN y \in RunType /\ y.pc = "finish" /\ y.job = x.job /\ y.node = x.node /\ y.settle = how
  BY DEF W!Ends, RunType, W!Stages

(* A step that changes one run and, of the rest, only what is well typed.   *)
LEMMA RunTyped ==
  ASSUME HookTyped, NEW r \in HookRuns, NEW y \in RunType, hookRun' = [hookRun EXCEPT ![r] = y],
         y.pc # "idle" => y.job \in HookJobs /\ y.node \in HookNodes,
         y.pc = "record" => y.answer \in {"ok", "retry", "reject"},
         y.pc = "answer" => y.answer # "none", y.beating => y.pc # "idle",
         hookSetting' \in HookSettingType, hookJob' \in [HookJobs -> W!Record], hookReady' \subseteq HookJobs,
         hookClaim' \in [HookJobs -> HookNodes \cup {W!NoNode}], hookSent' \in [HookJobs -> Nat],
         hookEngine' \in [HookNodes -> HookEngineType],
         UNCHANGED <<hookClient, hookRecoveries, hookTaken, hookStall, hookResumer, hookCanceller>>
  PROVE  HookTyped'
  <1>1. hookRun' \in [HookRuns -> RunType] BY DEF HookTyped, ProcessesTyped
  <1>2. \A q \in HookRuns : hookRun'[q] = IF q = r THEN y ELSE hookRun[q] BY DEF HookTyped, ProcessesTyped
  <1> QED BY <1>1, <1>2 DEF HookTyped, StoresTyped, ProcessesTyped, AtWork, Busy

(* What a step of a run starts from.                                        *)
LEMMA AtStage ==
  ASSUME HookTyped, NEW r \in HookRuns, hookRun[r].pc # "idle"
  PROVE  /\ hookRun[r] \in RunType /\ hookRun[r].job \in HookJobs /\ hookRun[r].node \in HookNodes
         /\ hookRun[r].copy \in W!Record /\ hookJob[hookRun[r].job] \in W!Record
         /\ hookEngine[hookRun[r].node] \in HookEngineType
  BY DEF HookTyped, StoresTyped, ProcessesTyped, AtWork, Busy, RunType

(* An id that is given back, and a record that is written.                  *)
LEMMA Handling ==
  ASSUME HookTyped, NEW j \in HookJobs
  PROVE  /\ W!Nack(j) \/ W!Ack(j) => hookReady' \subseteq HookJobs /\ hookClaim' \in [HookJobs -> HookNodes \cup {W!NoNode}]
         /\ \A rec \in W!Record : W!Save(j, rec) => hookJob' = [hookJob EXCEPT ![j] = rec] /\ hookJob' \in [HookJobs -> W!Record]
  BY DEF W!Nack, W!Ack, W!Save, HookTyped, StoresTyped

(* The steps of processJob up to the attempt that is counted.               *)
LEMMA StartTypes ==
  ASSUME W!Assumption, HookTyped, NEW r \in HookRuns, W!Dispatch(r) \/ W!Lease(r) \/ W!Load(r) \/ W!Begin(r)
  PROVE  HookTyped'
  <1> USE Values
  <1> DEFINE n == hookRun[r].node  j == hookRun[r].job
  <1>0. /\ hookRun[r] \in RunType /\ j \in HookJobs /\ n \in HookNodes /\ hookRun[r].copy \in W!Record
        /\ hookJob[j] \in W!Record /\ hookEngine[n] \in HookEngineType /\ r \in HookRuns
    BY AtStage DEF W!Dispatch, W!Lease, W!Load, W!Begin, W!Stage
  <1>1. CASE W!Dispatch(r)
    <2>1. PICK y : y = IF hookEngine[n].state = "up" THEN [hookRun[r] EXCEPT !.pc = "lease"] ELSE W!IdleRun OBVIOUS
    <2>2. hookRun' = [hookRun EXCEPT ![r] = y] BY <1>1, <2>1 DEF W!Dispatch
    <2>3. y \in RunType /\ (y.pc # "idle" => y.job = j /\ y.node = n) /\ (y.beating => y.pc # "idle") /\ y.pc \notin {"answer", "record"}
      BY <1>0, <2>1 DEF RunType, W!Stages, W!IdleRun
    <2>4. hookEngine' \in [HookNodes -> HookEngineType]
      <3>1. [hookEngine[n] EXCEPT !.active = @ \cup {j}] \in HookEngineType BY <1>0 DEF HookEngineType
      <3> QED BY <1>1, <3>1 DEF W!Dispatch, HookTyped, ProcessesTyped
    <2>5. hookReady' \subseteq HookJobs /\ hookClaim' \in [HookJobs -> HookNodes \cup {W!NoNode}]
      BY <1>0, <1>1, Handling DEF W!Dispatch, HookTyped, StoresTyped, W!broker
    <2> QED BY <1>0, <1>1, <2>2, <2>3, <2>4, <2>5, RunTyped
          DEF W!Dispatch, HookTyped, StoresTyped, W!actors, W!histories
  <1>2. CASE W!Lease(r)
    <2>1. PICK y : y = IF hookLease[j] \in {W!NoNode, n} THEN [hookRun[r] EXCEPT !.pc = "load", !.beating = TRUE]
                       ELSE [hookRun[r] EXCEPT !.pc = "settle", !.settle = "nack"] OBVIOUS
    <2>2. hookRun' = [hookRun EXCEPT ![r] = y] BY <1>0, <1>2, <2>1 DEF W!Lease, HookTyped, ProcessesTyped
    <2>3. y \in RunType /\ y.job = j /\ y.node = n /\ y.pc \notin {"idle", "answer", "record"}
      BY <1>0, <2>1 DEF RunType, W!Stages
    <2>4. hookEngine' \in [HookNodes -> HookEngineType]
      <3>1. [hookEngine[n] EXCEPT !.hb[j] = r, !.ac[j] = r] \in HookEngineType BY <1>0 DEF HookEngineType
      <3>2. \/ UNCHANGED hookEngine \/ hookEngine' = [hookEngine EXCEPT ![n] = [hookEngine[n] EXCEPT !.hb[j] = r, !.ac[j] = r]]
        BY <1>0, <1>2 DEF W!Lease, HookTyped, ProcessesTyped
      <3> QED BY <1>0, <3>1, <3>2 DEF HookTyped, ProcessesTyped
    <2> QED BY <1>0, <1>2, <2>2, <2>3, <2>4, RunTyped
          DEF W!Lease, HookTyped, StoresTyped, W!broker, W!actors, W!histories
  <1>3. CASE W!Load(r)
    <2>1. PICK y : y = IF hookJob[j].status \in {"none", "paused", "completed"} THEN W!Ends(hookRun[r], "ack")
                       ELSE [hookRun[r] EXCEPT !.pc = "begin", !.copy = hookJob[j]] OBVIOUS
    <2>2. hookRun' = [hookRun EXCEPT ![r] = y] BY <1>0, <1>3, <2>1 DEF W!Load, HookTyped, ProcessesTyped
    <2>3. y \in RunType /\ y.job = j /\ y.node = n /\ y.pc \notin {"idle", "answer", "record"}
      BY <1>0, <2>1, EndsTyped DEF RunType, W!Stages
    <2> QED BY <1>0, <1>3, <2>2, <2>3, RunTyped
          DEF W!Load, HookTyped, StoresTyped, ProcessesTyped, W!broker, W!actors, W!histories
  <1>4. CASE W!Begin(r)
    <2>1. PICK c : c = [status |-> "active", attempts |-> IF hookRun[r].copy.attempts < W!AttemptCap
                                                          THEN hookRun[r].copy.attempts + 1 ELSE hookRun[r].copy.attempts]
      OBVIOUS
    <2>2. c \in W!Record BY <1>0, <2>1 DEF W!Record, W!Statuses
    <2>3. PICK y : y = [hookRun[r] EXCEPT !.pc = "gate", !.copy = c] OBVIOUS
    <2>4. hookRun' = [hookRun EXCEPT ![r] = y] BY <1>0, <1>4, <2>1, <2>3 DEF W!Begin, HookTyped, ProcessesTyped
    <2>5. y \in RunType /\ y.job = j /\ y.node = n /\ y.pc \notin {"idle", "answer", "record"}
      BY <1>0, <2>2, <2>3 DEF RunType, W!Stages
    <2>6. hookJob' \in [HookJobs -> W!Record] BY <1>0, <1>4, <2>1, <2>2, Handling DEF W!Begin
    <2> QED BY <1>0, <1>4, <2>4, <2>5, <2>6, RunTyped
          DEF W!Begin, HookTyped, StoresTyped, ProcessesTyped, W!broker, W!actors, W!histories
  <1> QED BY <1>1, <1>2, <1>3, <1>4

(* The endpoint, the limiter, the breaker and the request.                  *)
LEMMA RequestTypes ==
  ASSUME W!Assumption, HookTyped, NEW r \in HookRuns, W!Gate(r) \/ W!CheckCircuit(r) \/ W!Send(r) \/ W!Answered(r)
  PROVE  HookTyped'
  <1> USE Values
  <1> DEFINE n == hookRun[r].node  j == hookRun[r].job
  <1>0. /\ hookRun[r] \in RunType /\ j \in HookJobs /\ n \in HookNodes /\ hookRun[r].copy \in W!Record
        /\ hookJob[j] \in W!Record /\ hookEngine[n] \in HookEngineType /\ r \in HookRuns
        /\ [hookJob EXCEPT ![j] = hookRun[r].copy] \in [HookJobs -> W!Record]
    BY AtStage DEF W!Gate, W!CheckCircuit, W!Send, W!Answered, W!Stage, HookTyped, StoresTyped
  <1>1. CASE W!Gate(r)
    <2>1. PICK y : hookRun' = [hookRun EXCEPT ![r] = y] /\ (\/ y = W!Concludes(hookRun[r], "failed")
                                                           \/ y = W!Concludes(hookRun[r], "delayed")
                                                           \/ y = [hookRun[r] EXCEPT !.pc = "circuit"])
      BY <1>0, <1>1 DEF W!Gate, HookTyped, ProcessesTyped
    <2>2. y \in RunType /\ y.job = j /\ y.node = n /\ y.pc \notin {"idle", "answer", "record"}
      BY <1>0, <2>1, Concluded DEF RunType, W!Stages, W!Statuses
    <2>3. hookSetting' \in HookSettingType BY <1>1, Spent DEF W!Gate, W!Faults, HookTyped, StoresTyped
    <2>4. hookJob' \in [HookJobs -> W!Record] BY <1>0, <1>1 DEF W!Gate, W!Save, HookTyped, StoresTyped
    <2> QED BY <1>0, <1>1, <2>1, <2>2, <2>3, <2>4, RunTyped
          DEF W!Gate, HookTyped, StoresTyped, ProcessesTyped, W!broker, W!actors, W!histories
  <1>2. CASE W!CheckCircuit(r)
    <2>1. PICK y : hookRun' = [hookRun EXCEPT ![r] = y] /\ (\/ y = W!Concludes(hookRun[r], "delayed")
                                                           \/ y = [hookRun[r] EXCEPT !.pc = "blame"]
                                                           \/ y = [hookRun[r] EXCEPT !.pc = "send"])
      BY <1>0, <1>2 DEF W!CheckCircuit, HookTyped, ProcessesTyped
    <2>2. y \in RunType /\ y.job = j /\ y.node = n /\ y.pc \notin {"idle", "answer", "record"}
      BY <1>0, <2>1, Concluded DEF RunType, W!Stages, W!Statuses
    <2>4. hookJob' \in [HookJobs -> W!Record] BY <1>0, <1>2 DEF W!CheckCircuit, W!Save, HookTyped, StoresTyped
    <2> QED BY <1>0, <1>2, <2>1, <2>2, <2>4, RunTyped
          DEF W!CheckCircuit, HookTyped, StoresTyped, ProcessesTyped, W!broker, W!actors
  <1>3. CASE W!Send(r)
    <2>1. PICK kind \in {"ok", "retry", "reject", "error"} :
            hookRun' = [hookRun EXCEPT ![r].pc = "answer", ![r].answer = kind]
      BY <1>3 DEF W!Send
    <2>2. PICK y : y = [hookRun[r] EXCEPT !.pc = "answer", !.answer = kind] OBVIOUS
    <2>3. hookRun' = [hookRun EXCEPT ![r] = y] BY <2>1, <2>2 DEF HookTyped, ProcessesTyped
    <2>4. y \in RunType /\ y.job = j /\ y.node = n /\ y.pc = "answer" /\ y.answer = kind
      BY <1>0, <2>2 DEF RunType, W!Stages
    <2>5. hookSetting' \in HookSettingType BY <1>3, Spent DEF W!Send, W!Faults, HookTyped, StoresTyped
    <2>6. hookSent' \in [HookJobs -> Nat] BY <1>0, <1>3 DEF W!Send, HookTyped, StoresTyped
    <2> QED BY <1>0, <1>3, <2>3, <2>4, <2>5, <2>6, RunTyped
          DEF W!Send, HookTyped, StoresTyped, ProcessesTyped, W!broker, W!actors
  <1>4. CASE W!Answered(r)
    <2>1. PICK y : y = IF hookRun[r].aborted \/ hookRun[r].answer = "error" THEN [hookRun[r] EXCEPT !.pc = "blame"]
                       ELSE [hookRun[r] EXCEPT !.pc = "record"] OBVIOUS
    <2>2. hookRun' = [hookRun EXCEPT ![r] = y] BY <1>0, <1>4, <2>1 DEF W!Answered, HookTyped, ProcessesTyped
    <2>3. hookRun[r].answer \in {"ok", "retry", "reject", "error"}
      BY <1>0, <1>4 DEF W!Answered, W!Stage, HookTyped, AtWork, RunType
    <2>4. /\ y \in RunType /\ y.job = j /\ y.node = n /\ y.pc \notin {"idle", "answer"}
          /\ y.pc = "record" => y.answer \in {"ok", "retry", "reject"}
      BY <1>0, <2>1, <2>3 DEF RunType, W!Stages
    <2>5. hookJob' \in [HookJobs -> W!Record] BY <1>0, <1>4 DEF W!Answered, W!Save, HookTyped, StoresTyped
    <2> QED BY <1>0, <1>4, <2>2, <2>4, <2>5, RunTyped
          DEF W!Answered, HookTyped, StoresTyped, ProcessesTyped, W!broker, W!actors, W!histories
  <1> QED BY <1>1, <1>2, <1>3, <1>4

(* A heartbeat that stops and a signal that aborts leave runs as they are   *)
(* otherwise.                                                               *)
Alike(x, y) ==
  /\ x.pc = y.pc /\ x.node = y.node /\ x.job = y.job /\ x.copy = y.copy
  /\ x.answer = y.answer /\ x.settle = y.settle /\ (x.beating => y.beating)

(* Clearing a heartbeat or raising a signal changes nothing else of a run.  *)
LEMMA Silent ==
  ASSUME NEW f \in [HookRuns -> RunType], NEW h \in HookRuns
  PROVE  /\ [f EXCEPT ![h].beating = FALSE] \in [HookRuns -> RunType]
         /\ [f EXCEPT ![h].aborted = TRUE] \in [HookRuns -> RunType]
         /\ \A q \in HookRuns : /\ Alike([f EXCEPT ![h].beating = FALSE][q], f[q])
                                /\ Alike([f EXCEPT ![h].aborted = TRUE][q], f[q])
  <1>1. f[h] \in RunType OBVIOUS
  <1>2. /\ [f[h] EXCEPT !.beating = FALSE] \in RunType /\ Alike([f[h] EXCEPT !.beating = FALSE], f[h])
        /\ [f[h] EXCEPT !.aborted = TRUE] \in RunType /\ Alike([f[h] EXCEPT !.aborted = TRUE], f[h])
    BY <1>1 DEF RunType, Alike
  <1>3. /\ [f EXCEPT ![h].beating = FALSE] = [f EXCEPT ![h] = [f[h] EXCEPT !.beating = FALSE]]
        /\ [f EXCEPT ![h].aborted = TRUE] = [f EXCEPT ![h] = [f[h] EXCEPT !.aborted = TRUE]]
    OBVIOUS
  <1>4. \A q \in HookRuns : Alike(f[q], f[q]) BY DEF Alike
  <1> QED BY <1>2, <1>3, <1>4

(* A step that raises flags and leaves the actors well typed.               *)
LEMMA FlagsTyped ==
  ASSUME HookTyped, hookRun' \in [HookRuns -> RunType], \A q \in HookRuns : Alike(hookRun'[q], hookRun[q]),
         hookSetting' \in HookSettingType, hookJob' \in [HookJobs -> W!Record], hookReady' \subseteq HookJobs,
         hookClaim' \in [HookJobs -> HookNodes \cup {W!NoNode}], hookEngine' \in [HookNodes -> HookEngineType],
         hookStall' \in [HookNodes -> ActorType], hookCanceller' \in ActorType, hookTaken' \subseteq HookJobs,
         \A n \in HookNodes : hookStall'[n].pc # "idle" => hookStall'[n].job \in hookTaken',
         hookCanceller'.pc # "idle" => hookCanceller'.job \in hookTaken' /\ hookCanceller'.node \in HookNodes,
         UNCHANGED <<hookClient, hookRecoveries, hookSent, hookResumer>>
  PROVE  HookTyped'
  <1>1. AtWork' BY DEF HookTyped, ProcessesTyped, AtWork, Busy, Alike
  <1> QED BY <1>1 DEF HookTyped, StoresTyped, ProcessesTyped

(* The answer is counted, the outcome saved and the id settled.             *)
LEMMA OutcomeTypes ==
  ASSUME W!Assumption, HookTyped, NEW r \in HookRuns, W!RecordAnswer(r) \/ W!Blame(r) \/ W!Conclude(r) \/ W!Settle(r)
  PROVE  HookTyped'
  <1> USE Values
  <1> DEFINE n == hookRun[r].node  j == hookRun[r].job
  <1>0. /\ hookRun[r] \in RunType /\ j \in HookJobs /\ n \in HookNodes /\ hookRun[r].copy \in W!Record
        /\ hookJob[j] \in W!Record /\ hookEngine[n] \in HookEngineType /\ r \in HookRuns
        /\ [hookJob EXCEPT ![j] = hookRun[r].copy] \in [HookJobs -> W!Record]
    BY AtStage DEF W!RecordAnswer, W!Blame, W!Conclude, W!Settle, W!Stage, HookTyped, StoresTyped
  <1>1. CASE W!RecordAnswer(r)
    <2>0. hookRun[r].answer \in {"ok", "retry", "reject"}
      BY <1>0, <1>1 DEF W!RecordAnswer, W!Stage, HookTyped, AtWork
    <2>1. PICK y : hookRun' = [hookRun EXCEPT ![r] = y] /\ (\/ y = W!Concludes(hookRun[r], "failed")
                                                           \/ y = W!Concludes(hookRun[r], "completed")
                                                           \/ y = [hookRun[r] EXCEPT !.pc = "blame"])
      BY <1>0, <1>1, <2>0 DEF W!RecordAnswer, HookTyped, ProcessesTyped
    <2>2. y \in RunType /\ y.job = j /\ y.node = n /\ y.pc \notin {"idle", "answer", "record"}
      BY <1>0, <2>1, Concluded DEF RunType, W!Stages, W!Statuses
    <2> QED BY <1>0, <1>1, <2>1, <2>2, RunTyped
          DEF W!RecordAnswer, HookTyped, StoresTyped, ProcessesTyped, W!broker, W!actors
  <1>2. CASE W!Blame(r)
    <2>1. PICK y : hookRun' = [hookRun EXCEPT ![r] = y] /\ (\/ y = W!Concludes(hookRun[r], "failed")
                                                           \/ y = W!Concludes(hookRun[r], "delayed"))
      BY <1>0, <1>2 DEF W!Blame, HookTyped, ProcessesTyped
    <2>2. y \in RunType /\ y.job = j /\ y.node = n /\ y.pc \notin {"idle", "answer", "record"}
      BY <1>0, <2>1, Concluded DEF RunType, W!Stages, W!Statuses
    <2> QED BY <1>0, <1>2, <2>1, <2>2, RunTyped
          DEF W!Blame, HookTyped, StoresTyped, ProcessesTyped, W!broker, W!actors
  <1>3. CASE W!Conclude(r)
    <2>1. PICK y : y = [hookRun[r] EXCEPT !.pc = "finish"] OBVIOUS
    <2>2. hookRun' = [hookRun EXCEPT ![r] = y] BY <1>0, <1>3, <2>1 DEF W!Conclude, HookTyped, ProcessesTyped
    <2>3. y \in RunType /\ y.job = j /\ y.node = n /\ y.pc \notin {"idle", "answer", "record"}
      BY <1>0, <2>1 DEF RunType, W!Stages
    <2> QED BY <1>0, <1>3, <2>2, <2>3, RunTyped
          DEF W!Conclude, W!Save, HookTyped, StoresTyped, ProcessesTyped, W!broker, W!actors, W!histories
  <1>4. CASE W!Settle(r)
    <2>1. hookRun' = [hookRun EXCEPT ![r] = W!IdleRun] /\ W!IdleRun.pc = "idle" /\ ~W!IdleRun.beating BY <1>4 DEF W!Settle, W!IdleRun
    <2>2. hookEngine' \in [HookNodes -> HookEngineType]
      <3>1. [hookEngine[n] EXCEPT !.active = @ \ {j}] \in HookEngineType BY <1>0 DEF HookEngineType
      <3> QED BY <1>4, <3>1 DEF W!Settle, HookTyped, ProcessesTyped
    <2>3. hookReady' \subseteq HookJobs /\ hookClaim' \in [HookJobs -> HookNodes \cup {W!NoNode}]
      BY <1>0, <1>4, Handling DEF W!Settle
    <2> QED BY <1>0, <1>4, <2>1, <2>2, <2>3, RunTyped
          DEF W!Settle, HookTyped, StoresTyped, W!actors, W!histories
  <1> QED BY <1>1, <1>2, <1>3, <1>4

(* The end of an execution stops whatever heartbeat its job has registered. *)
LEMMA FinishEffect ==
  ASSUME HookTyped, NEW r \in HookRuns, W!Finish(r)
  PROVE  /\ hookRun' \in [HookRuns -> RunType] /\ hookEngine' \in [HookNodes -> HookEngineType]
         /\ \A q \in HookRuns : Alike(hookRun'[q], IF q = r THEN [hookRun[q] EXCEPT !.pc = "settle"] ELSE hookRun[q])
  <1> DEFINE n == hookRun[r].node  j == hookRun[r].job  next == [hookRun EXCEPT ![r].pc = "settle"]
  <1>0. /\ hookRun[r] \in RunType /\ j \in HookJobs /\ n \in HookNodes /\ hookEngine[n] \in HookEngineType
    BY AtStage DEF W!Finish, W!Stage
  <1>1. [hookRun[r] EXCEPT !.pc = "settle"] \in RunType BY <1>0 DEF RunType, W!Stages
  <1>2. /\ next \in [HookRuns -> RunType]
        /\ \A q \in HookRuns : next[q] = IF q = r THEN [hookRun[q] EXCEPT !.pc = "settle"] ELSE hookRun[q]
    BY <1>1 DEF HookTyped, ProcessesTyped
  <1>3. hookEngine[n].hb[j] \in HookRuns \cup {W!NoRun} BY <1>0 DEF HookEngineType
  <1>4. \/ hookRun' = next
        \/ hookEngine[n].hb[j] \in HookRuns /\ hookRun' = [next EXCEPT ![hookEngine[n].hb[j]].beating = FALSE]
    BY <1>3 DEF W!Finish, W!FinishFor, W!Silence
  <1>5. hookRun' \in [HookRuns -> RunType] /\ \A q \in HookRuns : Alike(hookRun'[q], next[q])
    <2>1. CASE hookRun' = next BY <1>2, <2>1 DEF Alike
    <2>2. CASE hookEngine[n].hb[j] \in HookRuns /\ hookRun' = [next EXCEPT ![hookEngine[n].hb[j]].beating = FALSE]
      BY <1>2, <2>2, Silent
    <2> QED BY <1>4, <2>1, <2>2
  <1>6. hookEngine' \in [HookNodes -> HookEngineType]
    <2>1. [hookEngine[n] EXCEPT !.hb[j] = W!NoRun, !.ac[j] = W!NoRun] \in HookEngineType BY <1>0 DEF HookEngineType
    <2>2. hookEngine' = [hookEngine EXCEPT ![n] = [hookEngine[n] EXCEPT !.hb[j] = W!NoRun, !.ac[j] = W!NoRun]]
      <3>1. hookEngine' = [hookEngine EXCEPT ![n].hb[j] = W!NoRun, ![n].ac[j] = W!NoRun] BY DEF W!Finish, W!FinishFor
      <3>2. hookEngine \in [HookNodes -> HookEngineType] BY DEF HookTyped, ProcessesTyped
      <3> QED BY <1>0, <3>1, <3>2
    <2> QED BY <1>0, <2>1, <2>2 DEF HookTyped, ProcessesTyped
  <1> QED BY <1>2, <1>5, <1>6

(* finishJobExecution leaves everything well typed.                         *)
LEMMA FinishTypes ==
  ASSUME HookTyped, NEW r \in HookRuns, W!Finish(r)
  PROVE  HookTyped'
  <1>1. /\ hookRun[r] \in RunType /\ hookRun[r].job \in HookJobs /\ hookRun[r].node \in HookNodes
    BY AtStage DEF W!Finish, W!Stage
  <1>2. AtWork'
    <2>1. \A q \in HookRuns : /\ hookRun'[q].pc # "idle" => hookRun'[q].job \in HookJobs /\ hookRun'[q].node \in HookNodes
                              /\ hookRun'[q].pc = "record" => hookRun'[q].answer \in {"ok", "retry", "reject"}
                              /\ hookRun'[q].pc = "answer" => hookRun'[q].answer # "none"
                              /\ hookRun'[q].beating => hookRun'[q].pc # "idle"
      <3> SUFFICES ASSUME NEW q \in HookRuns
                   PROVE  /\ hookRun'[q].pc # "idle" => hookRun'[q].job \in HookJobs /\ hookRun'[q].node \in HookNodes
                          /\ hookRun'[q].pc = "record" => hookRun'[q].answer \in {"ok", "retry", "reject"}
                          /\ hookRun'[q].pc = "answer" => hookRun'[q].answer # "none"
                          /\ hookRun'[q].beating => hookRun'[q].pc # "idle"
        OBVIOUS
      <3>1. CASE q = r BY <1>1, <3>1, FinishEffect DEF Alike, RunType
      <3>2. CASE q # r BY <3>2, FinishEffect DEF Alike, HookTyped, AtWork, Busy
      <3> QED BY <3>1, <3>2
    <2> QED BY <2>1 DEF W!Finish, HookTyped, AtWork, Busy, W!actors, W!histories
  <1> QED BY <1>2, FinishEffect DEF W!Finish, HookTyped, StoresTyped, ProcessesTyped, W!broker, W!actors, W!histories

(* Lost leases, stalls, cancellations and stop() only raise flags.          *)
Flagging ==
  \/ \E r \in HookRuns : W!LoseLease(r)
  \/ \E n \in HookNodes, j \in HookJobs : W!StallFind(n, j) \/ W!Cancel(n, j)
  \/ W!CancelFinish
  \/ \E n \in HookNodes : W!Stop(n)

(* Each of them changes no run but for its two flags.                       *)
LEMMA OnlyFlags ==
  ASSUME HookTyped, Flagging
  PROVE  hookRun' \in [HookRuns -> RunType] /\ \A q \in HookRuns : Alike(hookRun'[q], hookRun[q])
  <1> USE DEF HookTyped, ProcessesTyped
  <1>0. \A q \in HookRuns : Alike(hookRun[q], hookRun[q]) BY DEF Alike
  <1>1. ASSUME NEW n \in HookNodes, NEW j \in HookJobs
        PROVE  hookEngine[n].hb[j] \in HookRuns \cup {W!NoRun} /\ hookEngine[n].ac[j] \in HookRuns \cup {W!NoRun}
    <2>1. hookEngine[n] \in HookEngineType OBVIOUS
    <2> QED BY <2>1 DEF HookEngineType
  <1>2. ASSUME NEW r \in HookRuns, W!LoseLease(r)
        PROVE  hookRun' \in [HookRuns -> RunType] /\ \A q \in HookRuns : Alike(hookRun'[q], hookRun[q])
    <2> DEFINE quiet == [hookRun EXCEPT ![r].beating = FALSE]
    <2>1. quiet \in [HookRuns -> RunType] /\ \A q \in HookRuns : Alike(quiet[q], hookRun[q]) BY Silent
    <2>2. hookEngine[hookRun[r].node].ac[hookRun[r].job] \in HookRuns \cup {W!NoRun}
      BY <1>1, <1>2 DEF W!LoseLease, AtWork
    <2>3. \/ hookRun' = quiet
          \/ \E a \in HookRuns : hookRun' = [quiet EXCEPT ![a].aborted = TRUE]
      BY <1>2, <2>2 DEF W!LoseLease
    <2>4. ASSUME NEW a \in HookRuns, hookRun' = [quiet EXCEPT ![a].aborted = TRUE]
          PROVE  hookRun' \in [HookRuns -> RunType] /\ \A q \in HookRuns : Alike(hookRun'[q], hookRun[q])
      <3>1. hookRun' \in [HookRuns -> RunType] /\ \A q \in HookRuns : Alike(hookRun'[q], quiet[q])
        BY <2>1, <2>4, Silent
      <3> QED BY <2>1, <3>1 DEF Alike
    <2> QED BY <2>1, <2>3, <2>4
  <1>3. ASSUME NEW n \in HookNodes, NEW j \in HookJobs, W!StallFind(n, j)
        PROVE  hookRun' \in [HookRuns -> RunType] /\ \A q \in HookRuns : Alike(hookRun'[q], hookRun[q])
    BY <1>1, <1>3, Silent DEF W!StallFind, W!Silence
  <1>4. ASSUME NEW n \in HookNodes, NEW j \in HookJobs, W!Cancel(n, j)
        PROVE  hookRun' \in [HookRuns -> RunType] /\ \A q \in HookRuns : Alike(hookRun'[q], hookRun[q])
    BY <1>1, <1>4, Silent DEF W!Cancel
  <1>5. ASSUME W!CancelFinish
        PROVE  hookRun' \in [HookRuns -> RunType] /\ \A q \in HookRuns : Alike(hookRun'[q], hookRun[q])
    <2>1. hookCanceller.node \in HookNodes /\ hookCanceller.job \in HookJobs
      BY <1>5 DEF W!CancelFinish, AtWork, StoresTyped
    <2>2. hookEngine[hookCanceller.node].hb[hookCanceller.job] \in HookRuns \cup {W!NoRun} BY <1>1, <2>1
    <2>3. \/ hookRun' = hookRun
          \/ \E h \in HookRuns : hookRun' = [hookRun EXCEPT ![h].beating = FALSE]
      BY <1>5, <2>2 DEF W!CancelFinish, W!Silence
    <2>4. CASE hookRun' = hookRun BY <1>0, <2>4
    <2>5. ASSUME NEW h \in HookRuns, hookRun' = [hookRun EXCEPT ![h].beating = FALSE]
          PROVE  hookRun' \in [HookRuns -> RunType] /\ \A q \in HookRuns : Alike(hookRun'[q], hookRun[q])
      BY <2>5, Silent
    <2> QED BY <2>3, <2>4, <2>5
  <1>6. ASSUME NEW n \in HookNodes, W!Stop(n)
        PROVE  hookRun' \in [HookRuns -> RunType] /\ \A q \in HookRuns : Alike(hookRun'[q], hookRun[q])
    <2>1. \A q \in HookRuns : [hookRun[q] EXCEPT !.aborted = TRUE] \in RunType
                              /\ Alike([hookRun[q] EXCEPT !.aborted = TRUE], hookRun[q])
      BY DEF RunType, Alike
    <2> QED BY <1>0, <1>6, <2>1 DEF W!Stop
  <1> QED BY <1>2, <1>3, <1>4, <1>5, <1>6 DEF Flagging

(* They leave everything well typed.                                        *)
LEMMA FlagTypes ==
  ASSUME W!Assumption, HookTyped, Flagging
  PROVE  HookTyped'
  <1> USE Values DEF HookTyped, StoresTyped, ProcessesTyped, W!broker, W!actors, W!counters, W!histories
  <1>0. hookRun' \in [HookRuns -> RunType] /\ \A q \in HookRuns : Alike(hookRun'[q], hookRun[q]) BY OnlyFlags
  <1>00. \A n \in HookNodes : hookEngine[n] \in HookEngineType OBVIOUS
  <1>01. \A n \in HookNodes : hookStall[n].pc # "idle" => hookStall[n].job \in hookTaken BY DEF AtWork
  <1>02. hookCanceller.pc # "idle" => hookCanceller.job \in hookTaken /\ hookCanceller.node \in HookNodes BY DEF AtWork
  <1>1. ASSUME NEW r \in HookRuns, W!LoseLease(r) PROVE HookTyped'
    BY <1>0, <1>01, <1>02, <1>1, FlagsTyped DEF W!LoseLease
  <1>2. ASSUME NEW n \in HookNodes, NEW j \in HookJobs, W!StallFind(n, j) PROVE HookTyped'
    <2>1. hookEngine' \in [HookNodes -> HookEngineType]
      <3>1. [hookEngine[n] EXCEPT !.hb[j] = W!NoRun] \in HookEngineType BY <1>00 DEF HookEngineType
      <3> QED BY <1>2, <3>1 DEF W!StallFind
    <2>2. [W!IdleActor EXCEPT !.pc = "get", !.job = j] \in ActorType
          /\ [W!IdleActor EXCEPT !.pc = "get", !.job = j].job = j BY DEF ActorType, W!IdleActor
    <2>3. PICK a : a = [W!IdleActor EXCEPT !.pc = "get", !.job = j] OBVIOUS
    <2>4. \/ UNCHANGED <<hookStall, hookTaken>>
          \/ hookStall' = [hookStall EXCEPT ![n] = a] /\ hookTaken' = hookTaken \cup {j}
      BY <1>2, <2>3 DEF W!StallFind
    <2>5. hookStall' \in [HookNodes -> ActorType] /\ hookTaken' \subseteq HookJobs /\ hookTaken \subseteq hookTaken'
      BY <2>2, <2>3, <2>4
    <2>6. \A m \in HookNodes : hookStall'[m].pc # "idle" => hookStall'[m].job \in hookTaken'
      BY <1>01, <2>2, <2>3, <2>4
    <2> QED BY <1>0, <1>02, <1>2, <2>1, <2>5, <2>6, FlagsTyped DEF W!StallFind
  <1>3. ASSUME NEW n \in HookNodes, NEW j \in HookJobs, W!Cancel(n, j) PROVE HookTyped'
    <2>1. hookSetting' \in HookSettingType BY <1>3, Spent DEF W!Cancel, W!Offers
    <2>2. PICK a : a = [pc |-> "save", node |-> n, job |-> j, copy |-> hookJob[j]] OBVIOUS
    <2>3. a \in ActorType /\ a.job = j /\ a.node = n BY <2>2 DEF ActorType
    <2>4. hookCanceller' = a /\ hookTaken' = hookTaken \cup {j} BY <1>3, <2>2 DEF W!Cancel
    <2>5. \A m \in HookNodes : hookStall'[m].pc # "idle" => hookStall'[m].job \in hookTaken'
      BY <1>01, <1>3, <2>4 DEF W!Cancel
    <2> QED BY <1>0, <1>3, <2>1, <2>3, <2>4, <2>5, FlagsTyped DEF W!Cancel
  <1>4. ASSUME W!CancelFinish PROVE HookTyped'
    <2> DEFINE n == hookCanceller.node  j == hookCanceller.job
    <2>1. n \in HookNodes /\ j \in HookJobs BY <1>4 DEF W!CancelFinish, AtWork
    <2>2. hookEngine' \in [HookNodes -> HookEngineType]
      <3>1. [hookEngine[n] EXCEPT !.hb[j] = W!NoRun, !.ac[j] = W!NoRun, !.active = @ \ {j}] \in HookEngineType
        BY <1>00, <2>1 DEF HookEngineType
      <3>2. hookEngine' = [hookEngine EXCEPT ![n].hb[j] = W!NoRun, ![n].ac[j] = W!NoRun, ![n].active = @ \ {j}]
        BY <1>4 DEF W!CancelFinish
      <3>3. hookEngine' = [hookEngine EXCEPT ![n] = [hookEngine[n] EXCEPT !.hb[j] = W!NoRun, !.ac[j] = W!NoRun, !.active = @ \ {j}]]
        BY <2>1, <3>2
      <3> QED BY <2>1, <3>1, <3>3
    <2>3. hookReady' \subseteq HookJobs /\ hookClaim' \in [HookJobs -> HookNodes \cup {W!NoNode}]
      BY <1>4, <2>1, Handling DEF W!CancelFinish
    <2>4. hookCanceller' = W!IdleActor /\ W!IdleActor.pc = "idle" BY <1>4 DEF W!CancelFinish, W!IdleActor
    <2> QED BY <1>0, <1>01, <1>4, <2>2, <2>3, <2>4, FlagsTyped DEF W!CancelFinish
  <1>5. ASSUME NEW n \in HookNodes, W!Stop(n) PROVE HookTyped'
    <2>1. hookSetting' \in HookSettingType BY <1>5, Spent DEF W!Stop, W!Faults
    <2>2. hookEngine' \in [HookNodes -> HookEngineType]
      <3>1. [hookEngine[n] EXCEPT !.state = "stopping", !.ac = [j \in HookJobs |-> W!NoRun]] \in HookEngineType
        BY <1>00 DEF HookEngineType
      <3> QED BY <1>5, <3>1 DEF W!Stop
    <2> QED BY <1>0, <1>01, <1>02, <1>5, <2>1, <2>2, FlagsTyped DEF W!Stop
  <1> QED BY <1>1, <1>2, <1>3, <1>4, <1>5 DEF Flagging

(* What the stall handler and cancelActiveJob save is of a delivery taken.  *)
Taking == (\E n \in HookNodes : W!StallGet(n) \/ W!StallSave(n) \/ W!StallNack(n)) \/ W!CancelSave

(* The stall handler and cancelActiveJob leave everything well typed.       *)
LEMMA TakingTypes ==
  ASSUME W!Assumption, HookTyped, Taking
  PROVE  HookTyped'
  <1> USE Values DEF HookTyped, StoresTyped, ProcessesTyped, W!broker, W!counters, W!histories, AtWork, Busy
  <1>1. ASSUME NEW n \in HookNodes, W!StallGet(n) \/ W!StallSave(n) \/ W!StallNack(n) PROVE HookTyped'
    <2>0. hookStall[n] \in ActorType /\ hookStall[n].job \in hookTaken /\ hookStall[n].job \in HookJobs
      BY <1>1 DEF W!StallGet, W!StallSave, W!StallNack
    <2>1. CASE W!StallGet(n)
      <3>1. PICK a : a = [hookStall[n] EXCEPT !.copy = hookJob[hookStall[n].job], !.pc = "save"] OBVIOUS
      <3>2. a \in ActorType /\ a.job = hookStall[n].job BY <2>0, <3>1 DEF ActorType
      <3>3. hookStall' = [hookStall EXCEPT ![n] = a] BY <2>1, <3>1 DEF W!StallGet
      <3> QED BY <2>0, <2>1, <3>2, <3>3 DEF W!StallGet
    <2>2. CASE W!StallSave(n)
      <3>1. PICK a : a = [hookStall[n] EXCEPT !.pc = "nack"] OBVIOUS
      <3>2. a \in ActorType /\ a.job = hookStall[n].job BY <2>0, <3>1 DEF ActorType
      <3>3. hookStall' = [hookStall EXCEPT ![n] = a] BY <2>2, <3>1 DEF W!StallSave
      <3>4. [hookStall[n].copy EXCEPT !.status = "stalled"] \in W!Record
        BY <2>0, NewStatus DEF ActorType, W!Statuses
      <3>5. hookJob' \in [HookJobs -> W!Record] BY <2>0, <2>2, <3>4 DEF W!StallSave, W!SaveStatus, W!Save
      <3> QED BY <2>0, <2>2, <3>2, <3>3, <3>5 DEF W!StallSave
    <2>3. CASE W!StallNack(n)
      <3>1. hookStall' = [hookStall EXCEPT ![n] = W!IdleActor] /\ W!IdleActor.pc = "idle" BY <2>3 DEF W!StallNack, W!IdleActor
      <3>2. hookReady' \subseteq HookJobs /\ hookClaim' \in [HookJobs -> HookNodes \cup {W!NoNode}]
        BY <2>0, <2>3, Handling DEF W!StallNack
      <3> QED BY <2>0, <2>3, <3>1, <3>2 DEF W!StallNack
    <2> QED BY <1>1, <2>1, <2>2, <2>3
  <1>2. ASSUME W!CancelSave PROVE HookTyped'
    <2>0. hookCanceller \in ActorType /\ hookCanceller.job \in hookTaken /\ hookCanceller.job \in HookJobs BY <1>2 DEF W!CancelSave
    <2>1. PICK a : a = [hookCanceller EXCEPT !.pc = "finish"] OBVIOUS
    <2>2. a \in ActorType /\ a.job = hookCanceller.job /\ a.node = hookCanceller.node BY <2>0, <2>1 DEF ActorType
    <2>4. [hookCanceller.copy EXCEPT !.status = "failed"] \in W!Record
      BY <2>0, NewStatus DEF ActorType, W!Statuses
    <2>5. hookJob' \in [HookJobs -> W!Record] BY <2>0, <1>2, <2>4 DEF W!CancelSave, W!SaveStatus, W!Save
    <2> QED BY <2>0, <1>2, <2>1, <2>2, <2>5 DEF W!CancelSave
  <1> QED BY <1>1, <1>2 DEF Taking

(* Polling, processes, leases and the breaker's clock.                      *)
Processes ==
  \/ \E n \in hookSetting.fleet : W!PollAny(n) \/ W!Stopped(n) \/ W!Crash(n) \/ W!Restart(n) \/ W!Cool(n)
  \/ \E j \in HookJobs : W!LeaseLapses(j) \/ W!LeaseExpires(j) \/ W!ClaimExpires(j)

(* poll() starts a run that was free, for a delivery of the list.           *)
LEMMA PollEffect ==
  ASSUME HookTyped, NEW n \in hookSetting.fleet, W!PollAny(n)
  PROVE  \E r \in HookRuns, j \in HookJobs :
           /\ hookRun[r] = W!IdleRun /\ W!Poll(n, r, j) /\ n \in HookNodes
           /\ [W!IdleRun EXCEPT !.pc = "claimed", !.node = n, !.job = j].job = j
  <1>1. PICK r : r = CHOOSE q \in W!IdleRuns : TRUE OBVIOUS
  <1>2. r \in HookRuns /\ hookRun[r] = W!IdleRun BY <1>1 DEF W!PollAny, W!IdleRuns
  <1>3. n \in HookNodes BY DEF HookTyped, StoresTyped, HookSettingType
  <1> QED BY <1>1, <1>2, <1>3 DEF W!PollAny, W!IdleRun

(* Polls, crashes, restarts and clocks leave everything well typed.         *)
LEMMA ProcessTypes ==
  ASSUME W!Assumption, HookTyped, Processes
  PROVE  HookTyped'
  <1> USE Values
  <1>00. \A n \in HookNodes : hookEngine[n] \in HookEngineType BY DEF HookTyped, ProcessesTyped
  <1>1. ASSUME NEW n \in hookSetting.fleet, W!PollAny(n) PROVE HookTyped'
    <2>1. PICK r \in HookRuns, j \in HookJobs : hookRun[r] = W!IdleRun /\ W!Poll(n, r, j) /\ n \in HookNodes
      BY <1>1, PollEffect
    <2>2. PICK y : y = [W!IdleRun EXCEPT !.pc = "claimed", !.node = n, !.job = j] OBVIOUS
    <2>3. y \in RunType /\ y.job = j /\ y.node = n /\ y.pc = "claimed"
      BY <2>1, <2>2 DEF RunType, W!Stages, W!IdleRun
    <2>4. hookRun' = [hookRun EXCEPT ![r] = y] BY <2>1, <2>2 DEF W!Poll
    <2> QED BY <2>1, <2>3, <2>4, RunTyped
          DEF W!Poll, HookTyped, StoresTyped, ProcessesTyped, W!actors, W!histories
  <1>2. ASSUME NEW n \in hookSetting.fleet, W!Stopped(n) \/ W!Restart(n) \/ W!Cool(n) PROVE HookTyped'
    <2>0. n \in HookNodes BY DEF HookTyped, StoresTyped, HookSettingType
    <2>1. hookEngine' \in [HookNodes -> HookEngineType]
      <3>1. (~hookEnabled) \in BOOLEAN OBVIOUS
      <3>2. /\ [W!Up EXCEPT !.state = "down"] \in HookEngineType
            /\ [W!Up EXCEPT !.paused = ~hookEnabled] \in HookEngineType
        BY <3>1 DEF W!Up, HookEngineType
      <3> QED BY <1>2, <2>0, <3>2 DEF W!Stopped, W!Restart, W!Cool, HookTyped, ProcessesTyped
    <2> QED BY <1>2, <2>1 DEF W!Stopped, W!Restart, W!Cool, HookTyped, StoresTyped, ProcessesTyped, AtWork, Busy,
                            W!broker, W!actors, W!switches, W!histories
  <1>3. ASSUME NEW n \in hookSetting.fleet, W!Crash(n) PROVE HookTyped'
    <2>0. n \in HookNodes BY DEF HookTyped, StoresTyped, HookSettingType
    <2>1. hookSetting' \in HookSettingType BY <1>3, Spent DEF W!Crash, W!Faults, HookTyped, StoresTyped
    <2>2. hookEngine' \in [HookNodes -> HookEngineType]
      <3>1. [W!Up EXCEPT !.state = "down"] \in HookEngineType BY DEF HookEngineType, W!Up
      <3> QED BY <1>3, <3>1 DEF W!Crash, HookTyped, ProcessesTyped
    <2>3. hookRun' \in [HookRuns -> RunType] /\ hookStall' \in [HookNodes -> ActorType]
          /\ hookResumer' \in ActorType /\ hookCanceller' \in ActorType
      BY <1>3 DEF W!Crash, HookTyped, ProcessesTyped
    <2>4. hookRecoveries' \in [HookJobs -> Nat] BY <1>3 DEF W!Crash, HookTyped, StoresTyped
    <2>5. AtWork'
      BY <1>3, <2>0 DEF W!Crash, AtWork, Busy, HookTyped, StoresTyped, ProcessesTyped, W!IdleRun, W!IdleActor
    <2> QED BY <1>3, <2>1, <2>2, <2>3, <2>4, <2>5
          DEF W!Crash, HookTyped, StoresTyped, ProcessesTyped, W!broker, W!switches
  <1>4. ASSUME NEW j \in HookJobs, W!LeaseLapses(j) \/ W!LeaseExpires(j) \/ W!ClaimExpires(j) PROVE HookTyped'
    <2>1. hookSetting' \in HookSettingType BY <1>4, Spent
      DEF W!LeaseLapses, W!LeaseExpires, W!ClaimExpires, W!Faults, HookTyped, StoresTyped
    <2>2. hookReady' \subseteq HookJobs /\ hookClaim' \in [HookJobs -> HookNodes \cup {W!NoNode}]
      BY <1>4 DEF W!LeaseLapses, W!LeaseExpires, W!ClaimExpires, HookTyped, StoresTyped, W!broker
    <2> QED BY <1>4, <2>1, <2>2 DEF W!LeaseLapses, W!LeaseExpires, W!ClaimExpires, HookTyped, StoresTyped, ProcessesTyped,
                                   AtWork, Busy, W!broker, W!actors, W!switches, W!histories
  <1> QED BY <1>1, <1>2, <1>3, <1>4 DEF Processes

-----------------------------------------------------------------------------
(* Ownership of a delivery a step has nothing to do with.                   *)
LEMMA Untouched ==
  ASSUME NEW j \in HookJobs, Owned(j),
         hookJob'[j] = hookJob[j], hookClaim'[j] = hookClaim[j], (j \in hookReady') <=> (j \in hookReady),
         hookClient'[j] = hookClient[j], hookSent'[j] = hookSent[j], hookRecoveries'[j] = hookRecoveries[j],
         Resuming(j)' <=> Resuming(j),
         Resuming(j) => hookResumer' = hookResumer,
         \A r \in HookRuns : Has(r, j)' <=> Has(r, j),
         \A r \in HookRuns : Has(r, j) => Alike(hookRun'[r], hookRun[r])
  PROVE  Owned(j)'
  <1>1. InOnePlace(j)'
    <2>1. \A r \in HookRuns : Has(r, j)' => hookClaim'[j] = hookRun'[r].node BY DEF Owned, InOnePlace, Alike
    <2> QED BY <2>1 DEF Owned, InOnePlace, Resuming
  <1>2. Waits(j)' <=> Waits(j) BY DEF Waits
  <1>3. ASSUME NEW r \in HookRuns, Has(r, j)'
        PROVE  Fits(hookRun[r], hookJob[j], hookSent[j], hookRecoveries[j])' 
    <2>1. Fits(hookRun[r], hookJob[j], hookSent[j], hookRecoveries[j]) /\ Alike(hookRun'[r], hookRun[r])
      BY <1>3 DEF Owned, InBudget
    <2> QED BY <2>1 DEF Fits, Alike
  <1> QED BY <1>1, <1>2, <1>3 DEF Owned, InBudget

(* A delivery in a run: where else it is not.                               *)
LEMMA InRun ==
  ASSUME W!Assumption, HookTyped, NEW r \in HookRuns, NEW j \in HookJobs, Has(r, j), Owned(j)
  PROVE  /\ hookClaim[j] = hookRun[r].node /\ hookClaim[j] # W!NoNode
         /\ hookClient[j] = "done" /\ ~Resuming(j) /\ hookJob[j].status # "paused" /\ j \notin hookReady
         /\ \A q \in HookRuns : Has(q, j) => q = r
         /\ Fits(hookRun[r], hookJob[j], hookSent[j], hookRecoveries[j]) /\ Counted(hookSent[j], hookJob[j])
         /\ hookSent[j] <= HookMaxRetries + 1 + hookRecoveries[j]
  <1>1. hookRun[r].node \in HookNodes /\ hookRun[r].node # W!NoNode BY DEF Has, HookTyped, AtWork, W!Assumption
  <1> QED BY <1>1 DEF Owned, InOnePlace, InBudget

(* The other deliveries, when one run takes a step.                         *)
LEMMA OthersKept ==
  ASSUME NEW r \in HookRuns, NEW k \in HookJobs, Owned(k), ~Has(r, k), ~Has(r, k)',
         \A q \in HookRuns \ {r} : Alike(hookRun'[q], hookRun[q]),
         hookJob'[k] = hookJob[k], hookClaim'[k] = hookClaim[k], (k \in hookReady') <=> (k \in hookReady),
         hookSent'[k] = hookSent[k], UNCHANGED <<hookClient, hookRecoveries, hookResumer>>
  PROVE  Owned(k)'
  <1>1. \A q \in HookRuns : /\ Has(q, k)' <=> Has(q, k)
                            /\ Has(q, k) => Alike(hookRun'[q], hookRun[q])
    BY DEF Has, Busy, Alike
  <1>2. Resuming(k)' <=> Resuming(k) BY DEF Resuming
  <1> QED BY <1>1, <1>2, Untouched

(* The delivery of the run, while it goes on with it.                       *)
LEMMA OwnKept ==
  ASSUME W!Assumption, HookTyped, NEW r \in HookRuns, NEW j \in HookJobs, Has(r, j), Has(r, j)', Owned(j),
         \A q \in HookRuns \ {r} : Alike(hookRun'[q], hookRun[q]), hookRun'[r].node = hookRun[r].node,
         hookClaim'[j] = hookClaim[j], (j \in hookReady') <=> (j \in hookReady), UNCHANGED <<hookClient, hookRecoveries, hookResumer>>,
         hookJob'[j].status # "paused", Counted(hookSent'[j], hookJob'[j]),
         hookSent'[j] <= HookMaxRetries + 1 + hookRecoveries[j],
         Fits(hookRun'[r], hookJob'[j], hookSent'[j], hookRecoveries[j])
  PROVE  Owned(j)'
  <1>1. /\ hookClaim[j] = hookRun[r].node /\ hookClaim[j] # W!NoNode
        /\ hookClient[j] = "done" /\ ~Resuming(j) /\ j \notin hookReady
        /\ \A q \in HookRuns : Has(q, j) => q = r
    BY InRun
  <1>2. \A q \in HookRuns : Has(q, j)' => q = r
    <2> SUFFICES ASSUME NEW q \in HookRuns, Has(q, j)', q # r PROVE FALSE OBVIOUS
    <2>1. Alike(hookRun'[q], hookRun[q]) OBVIOUS
    <2>2. Has(q, j) BY <2>1 DEF Has, Busy, Alike
    <2> QED BY <1>1, <2>2
  <1>3. ~Resuming(j)' BY <1>1 DEF Resuming
  <1>4. InOnePlace(j)' BY <1>1, <1>2, <1>3 DEF InOnePlace, Resuming
  <1>5. ~Waits(j)' BY <1>1, <1>3 DEF Waits
  <1> QED BY <1>1, <1>2, <1>4, <1>5 DEF Owned, InBudget

(* The delivery of the run, when it lets go of it.                          *)
LEMMA OwnLeft ==
  ASSUME W!Assumption, HookTyped, NEW r \in HookRuns, NEW j \in HookJobs, Has(r, j), ~Has(r, j)', Owned(j),
         \A q \in HookRuns \ {r} : Alike(hookRun'[q], hookRun[q]),
         hookClaim'[j] = W!NoNode, UNCHANGED <<hookClient, hookRecoveries, hookResumer, hookJob, hookSent>>,
         j \in hookReady' => hookSent[j] <= HookMaxRetries + hookRecoveries[j]
  PROVE  Owned(j)'
  <1>1. /\ hookClient[j] = "done" /\ ~Resuming(j) /\ hookJob[j].status # "paused" /\ j \notin hookReady
        /\ \A q \in HookRuns : Has(q, j) => q = r
        /\ Counted(hookSent[j], hookJob[j]) /\ hookSent[j] <= HookMaxRetries + 1 + hookRecoveries[j]
    BY InRun
  <1>2. \A q \in HookRuns : ~Has(q, j)'
    <2> SUFFICES ASSUME NEW q \in HookRuns, Has(q, j)' PROVE FALSE OBVIOUS
    <2>1. q # r /\ Alike(hookRun'[q], hookRun[q]) OBVIOUS
    <2>2. Has(q, j) BY <2>1 DEF Has, Busy, Alike
    <2> QED BY <1>1, <2>1, <2>2
  <1>3. ~Resuming(j)' BY <1>1 DEF Resuming
  <1>4. InOnePlace(j)' BY <1>1, <1>2, <1>3 DEF InOnePlace, Resuming
  <1>5. Waits(j)' => j \in hookReady' BY <1>1, <1>3 DEF Waits
  <1> QED BY <1>1, <1>2, <1>4, <1>5 DEF Owned, InBudget

-----------------------------------------------------------------------------
(* The steps of a run: it is enough to say what becomes of its own delivery *)
(* and of its copy.                                                         *)
LEMMA StepKeeps ==
  ASSUME W!Assumption, HookTyped, NEW r \in HookRuns, Busy(r), NEW y \in RunType,
         y.pc # "idle", y.job = hookRun[r].job, y.node = hookRun[r].node,
         \A q \in HookRuns : Alike(hookRun'[q], IF q = r THEN y ELSE hookRun[q]),
         \A i \in HookJobs \ {hookRun[r].job} : hookJob'[i] = hookJob[i] /\ hookSent'[i] = hookSent[i],
         UNCHANGED <<hookReady, hookClaim, hookClient, hookRecoveries, hookResumer>>,
         Owned(hookRun[r].job) =>
           LET j == hookRun[r].job
           IN /\ hookJob'[j].status # "paused" /\ Counted(hookSent'[j], hookJob'[j])
              /\ hookSent'[j] <= HookMaxRetries + 1 + hookRecoveries[j]
              /\ Fits(y, hookJob'[j], hookSent'[j], hookRecoveries[j]),
         NEW k \in HookJobs, Owned(k)
  PROVE  Owned(k)'
  <1> DEFINE j == hookRun[r].job
  <1>1. Alike(hookRun'[r], y) /\ \A q \in HookRuns \ {r} : Alike(hookRun'[q], hookRun[q]) OBVIOUS
  <1>2. hookRun'[r].pc # "idle" /\ hookRun'[r].job = j /\ hookRun'[r].node = hookRun[r].node BY <1>1 DEF Alike
  <1>3. CASE k # j
    <2>1. ~Has(r, k) /\ ~Has(r, k)' BY <1>2, <1>3 DEF Has
    <2> QED BY <1>1, <1>3, <2>1, OthersKept
  <1>4. CASE k = j
    <2>1. Has(r, k) /\ Has(r, k)' BY <1>2, <1>4 DEF Has, Busy
    <2>2. Fits(hookRun'[r], hookJob'[k], hookSent'[k], hookRecoveries[k]) BY <1>1, <1>4 DEF Fits, Alike
    <2> QED BY <1>1, <1>2, <1>4, <2>1, <2>2, OwnKept
  <1> QED BY <1>3, <1>4

(* The attempt is counted in the record before the request goes out.        *)
LEMMA StartKeeps ==
  ASSUME W!Assumption, HookTyped, NEW r \in HookRuns, W!Lease(r) \/ W!Load(r) \/ W!Begin(r),
         NEW k \in HookJobs, Owned(k)
  PROVE  Owned(k)'
  <1> USE Values
  <1> DEFINE j == hookRun[r].job
  <1>0. /\ hookRun[r] \in RunType /\ j \in HookJobs /\ hookRun[r].copy \in W!Record /\ hookJob[j] \in W!Record
        /\ Busy(r) /\ Has(r, j)
    BY AtStage DEF W!Lease, W!Load, W!Begin, W!Stage, Busy, Has
  <1>1. Owned(j) => /\ Fits(hookRun[r], hookJob[j], hookSent[j], hookRecoveries[j]) /\ Counted(hookSent[j], hookJob[j])
                    /\ hookSent[j] <= HookMaxRetries + 1 + hookRecoveries[j] /\ hookJob[j].status # "paused"
    BY <1>0, InRun
  <1>2. \A q \in HookRuns : Alike(hookRun[q], hookRun[q]) BY DEF Alike
  <1>3. CASE W!Lease(r)
    <2>1. PICK y : y = IF hookLease[j] \in {W!NoNode, hookRun[r].node} THEN [hookRun[r] EXCEPT !.pc = "load", !.beating = TRUE]
                       ELSE [hookRun[r] EXCEPT !.pc = "settle", !.settle = "nack"] OBVIOUS
    <2>2. hookRun' = [hookRun EXCEPT ![r] = y] BY <1>0, <1>3, <2>1 DEF W!Lease, HookTyped, ProcessesTyped
    <2>3. y \in RunType /\ y.job = j /\ y.node = hookRun[r].node /\ y.pc \in {"load", "settle"} /\ hookRun[r].pc = "lease"
      BY <1>0, <1>3, <2>1 DEF RunType, W!Stages, W!Lease, W!Stage
    <2>4. \A q \in HookRuns : Alike(hookRun'[q], IF q = r THEN y ELSE hookRun[q])
      BY <1>0, <1>2, <2>2 DEF HookTyped, ProcessesTyped, Alike
    <2>5. Owned(j) => Fits(y, hookJob[j], hookSent[j], hookRecoveries[j])
      BY <1>1, <2>3 DEF Fits, Early, Copied
    <2> QED BY <1>0, <1>1, <1>3, <2>3, <2>4, <2>5, StepKeeps DEF W!Lease, W!broker, W!actors, W!histories
  <1>4. CASE W!Load(r)
    <2>1. PICK y : y = IF hookJob[j].status \in {"none", "paused", "completed"} THEN W!Ends(hookRun[r], "ack")
                       ELSE [hookRun[r] EXCEPT !.pc = "begin", !.copy = hookJob[j]] OBVIOUS
    <2>2. hookRun' = [hookRun EXCEPT ![r] = y] BY <1>0, <1>4, <2>1 DEF W!Load, HookTyped, ProcessesTyped
    <2>3. /\ y \in RunType /\ y.job = j /\ y.node = hookRun[r].node /\ hookRun[r].pc = "load"
          /\ \/ y.pc = "finish" /\ y.settle = "ack"
             \/ y.pc = "begin" /\ y.copy = hookJob[j] /\ hookJob[j].status # "paused"
      BY <1>0, <1>4, <2>1, EndsTyped DEF RunType, W!Stages, W!Load, W!Stage
    <2>4. \A q \in HookRuns : Alike(hookRun'[q], IF q = r THEN y ELSE hookRun[q])
      BY <1>0, <1>2, <2>2 DEF HookTyped, ProcessesTyped, Alike
    <2>5. Owned(j) => Fits(y, hookJob[j], hookSent[j], hookRecoveries[j])
      BY <1>1, <2>3 DEF Fits, Early, Copied
    <2>6. y.pc # "idle" BY <2>3
    <2> QED BY <1>0, <1>1, <1>4, <2>3, <2>4, <2>5, <2>6, StepKeeps DEF W!Load, W!broker, W!actors, W!histories
  <1>5. CASE W!Begin(r)
    <2>1. PICK c : c = [status |-> "active", attempts |-> IF hookRun[r].copy.attempts < W!AttemptCap
                                                          THEN hookRun[r].copy.attempts + 1 ELSE hookRun[r].copy.attempts]
      OBVIOUS
    <2>2. PICK y : y = [hookRun[r] EXCEPT !.pc = "gate", !.copy = c] OBVIOUS
    <2>3. hookRun' = [hookRun EXCEPT ![r] = y] BY <1>0, <1>5, <2>1, <2>2 DEF W!Begin, HookTyped, ProcessesTyped
    <2>4. hookJob' = [hookJob EXCEPT ![j] = c] BY <1>5, <2>1 DEF W!Begin, W!Save
    <2>5. c \in W!Record BY <1>0, <2>1 DEF W!Record, W!Statuses
    <2>6. /\ y \in RunType /\ y.job = j /\ y.node = hookRun[r].node /\ hookRun[r].pc = "begin" /\ y.pc = "gate"
          /\ y.copy = c
      BY <1>0, <1>5, <2>2, <2>5 DEF RunType, W!Stages, W!Begin, W!Stage
    <2>7. \A q \in HookRuns : Alike(hookRun'[q], IF q = r THEN y ELSE hookRun[q])
      BY <1>0, <1>2, <2>3 DEF HookTyped, ProcessesTyped, Alike
    <2>8. /\ hookJob'[j] = c /\ \A i \in HookJobs \ {j} : hookJob'[i] = hookJob[i] /\ hookSent'[i] = hookSent[i]
          /\ hookSent'[j] = hookSent[j]
      BY <1>0, <1>5, <2>4 DEF HookTyped, StoresTyped, W!Begin, W!histories
    <2>9. Owned(j) => Counted(hookSent[j], c) /\ Fits(y, c, hookSent[j], hookRecoveries[j])
      <3> SUFFICES ASSUME Owned(j) PROVE Counted(hookSent[j], c) /\ Fits(y, c, hookSent[j], hookRecoveries[j]) OBVIOUS
      <3>1. /\ hookSent[j] \in Nat /\ hookRecoveries[j] \in Nat /\ hookRun[r].copy.attempts = hookJob[j].attempts
            /\ hookJob[j].attempts \in Nat /\ hookSent[j] <= HookMaxRetries + hookRecoveries[j] /\ Counted(hookSent[j], hookJob[j])
        BY <1>0, <1>1, <2>6 DEF Fits, Early, Copied, HookTyped, StoresTyped, W!Record
      <3>2. c.status = "active" /\ c.attempts = IF hookJob[j].attempts < W!AttemptCap THEN hookJob[j].attempts + 1
                                                ELSE hookJob[j].attempts
        BY <2>1, <3>1
      <3>3. hookSent[j] < c.attempts \/ c.attempts > HookMaxRetries
        BY <3>1, <3>2 DEF Counted, W!AttemptCap
      <3>4. Counted(hookSent[j], c) BY <3>1, <3>2, <3>3 DEF Counted
      <3> QED BY <2>6, <3>1, <3>2, <3>3, <3>4 DEF Fits, Early, Copied
    <2>10. c.status # "paused" BY <2>1
    <2>11. Owned(j) => /\ hookJob'[j].status # "paused" /\ Counted(hookSent'[j], hookJob'[j])
                       /\ hookSent'[j] <= HookMaxRetries + 1 + hookRecoveries[j]
                       /\ Fits(y, hookJob'[j], hookSent'[j], hookRecoveries[j])
      BY <1>1, <2>8, <2>9, <2>10
    <2>12. UNCHANGED <<hookReady, hookClaim, hookClient, hookRecoveries, hookResumer>> BY <1>5 DEF W!Begin, W!broker, W!actors, W!histories
    <2>13. y.pc # "idle" BY <2>6
    <2> QED BY <1>0, <2>6, <2>7, <2>8, <2>11, <2>12, <2>13, StepKeeps
  <1> QED BY <1>3, <1>4, <1>5

(* Every stage that passes saves the same attempt; only Send sends.         *)
LEMMA RequestKeeps ==
  ASSUME W!Assumption, HookTyped, NEW r \in HookRuns, W!Gate(r) \/ W!CheckCircuit(r) \/ W!Send(r) \/ W!Answered(r),
         NEW k \in HookJobs, Owned(k)
  PROVE  Owned(k)'
  <1> USE Values
  <1> DEFINE j == hookRun[r].job
  <1>0. /\ hookRun[r] \in RunType /\ j \in HookJobs /\ hookRun[r].copy \in W!Record /\ hookJob[j] \in W!Record
        /\ Busy(r) /\ Has(r, j) /\ r \in HookRuns
    BY AtStage DEF W!Gate, W!CheckCircuit, W!Send, W!Answered, W!Stage, Busy, Has
  <1>1. Owned(j) => /\ Fits(hookRun[r], hookJob[j], hookSent[j], hookRecoveries[j]) /\ Counted(hookSent[j], hookJob[j])
                    /\ hookSent[j] <= HookMaxRetries + 1 + hookRecoveries[j] /\ hookJob[j].status # "paused"
    BY <1>0, InRun
  <1>2. \A q \in HookRuns : Alike(hookRun[q], hookRun[q]) BY DEF Alike
  <1>3. hookSent[j] \in Nat /\ hookRecoveries[j] \in Nat /\ hookJob[j].attempts \in Nat /\ hookRun[r].copy.attempts \in Nat
    BY <1>0 DEF HookTyped, StoresTyped, W!Record
  (* Every stage but the request writes the copy back or leaves the record. *)
  <1>4. /\ hookRun[r].pc \in {"gate", "circuit", "answer"} /\ Owned(j)
             => hookRun[r].copy.attempts = hookJob[j].attempts /\ hookRun[r].copy.status # "paused"
        /\ [hookJob EXCEPT ![j] = hookRun[r].copy] \in [HookJobs -> W!Record]
    BY <1>0, <1>1 DEF Fits, Copied, HookTyped, StoresTyped
  <1>5. ASSUME hookRun[r].pc \in {"gate", "circuit", "answer"}, UNCHANGED hookJob \/ W!Save(j, hookRun[r].copy), Owned(j)
        PROVE  /\ hookJob'[j].status # "paused" /\ hookJob'[j].attempts = hookJob[j].attempts
               /\ \A i \in HookJobs \ {j} : hookJob'[i] = hookJob[i]
    BY <1>0, <1>1, <1>4, <1>5 DEF W!Save, HookTyped, StoresTyped
  <1>6. CASE W!Gate(r)
    <2>1. PICK y : hookRun' = [hookRun EXCEPT ![r] = y] /\ (\/ y = W!Concludes(hookRun[r], "failed")
                                                           \/ y = W!Concludes(hookRun[r], "delayed")
                                                           \/ y = [hookRun[r] EXCEPT !.pc = "circuit"])
      BY <1>0, <1>6 DEF W!Gate, HookTyped, ProcessesTyped
    <2>2. /\ y \in RunType /\ y.job = j /\ y.node = hookRun[r].node /\ hookRun[r].pc = "gate"
          /\ y.copy.attempts = hookRun[r].copy.attempts
          /\ \/ y.pc = "save" /\ y.copy.status # "paused"
             \/ y.pc = "circuit" /\ y.copy = hookRun[r].copy
      BY <1>0, <1>6, <2>1, Concluded DEF RunType, W!Stages, W!Statuses, W!Gate, W!Stage
    <2>3. \A q \in HookRuns : Alike(hookRun'[q], IF q = r THEN y ELSE hookRun[q])
      BY <1>0, <1>2, <2>1 DEF HookTyped, ProcessesTyped, Alike
    <2>4. UNCHANGED hookJob \/ W!Save(j, hookRun[r].copy) BY <1>6 DEF W!Gate
    <2>5. \A i \in HookJobs \ {j} : hookJob'[i] = hookJob[i]
      BY <1>0, <2>4 DEF W!Save, HookTyped, StoresTyped
    <2>6. UNCHANGED <<hookReady, hookClaim, hookClient, hookRecoveries, hookResumer, hookSent>>
      BY <1>6 DEF W!Gate, W!broker, W!actors, W!histories
    <2>7. Owned(j) => /\ hookJob'[j].status # "paused" /\ Counted(hookSent'[j], hookJob'[j])
                      /\ hookSent'[j] <= HookMaxRetries + 1 + hookRecoveries[j]
                      /\ Fits(y, hookJob'[j], hookSent'[j], hookRecoveries[j])
      BY <1>1, <1>4, <1>5, <2>2, <2>4, <2>6 DEF Fits, Early, Copied, Counted
    <2>8. y.pc # "idle" BY <2>2
    <2> QED BY <1>0, <2>2, <2>3, <2>5, <2>6, <2>7, <2>8, StepKeeps
  <1>7. CASE W!CheckCircuit(r)
    <2>1. PICK y : hookRun' = [hookRun EXCEPT ![r] = y] /\ (\/ y = W!Concludes(hookRun[r], "delayed")
                                                           \/ y = [hookRun[r] EXCEPT !.pc = "blame"]
                                                           \/ y = [hookRun[r] EXCEPT !.pc = "send"])
      BY <1>0, <1>7 DEF W!CheckCircuit, HookTyped, ProcessesTyped
    <2>2. /\ y \in RunType /\ y.job = j /\ y.node = hookRun[r].node /\ hookRun[r].pc = "circuit"
          /\ y.copy.attempts = hookRun[r].copy.attempts
          /\ \/ y.pc = "save" /\ y.copy.status # "paused"
             \/ y.pc \in {"blame", "send"} /\ y.copy = hookRun[r].copy
      BY <1>0, <1>7, <2>1, Concluded DEF RunType, W!Stages, W!Statuses, W!CheckCircuit, W!Stage
    <2>3. \A q \in HookRuns : Alike(hookRun'[q], IF q = r THEN y ELSE hookRun[q])
      BY <1>0, <1>2, <2>1 DEF HookTyped, ProcessesTyped, Alike
    <2>4. UNCHANGED hookJob \/ W!Save(j, hookRun[r].copy) BY <1>7 DEF W!CheckCircuit
    <2>5. \A i \in HookJobs \ {j} : hookJob'[i] = hookJob[i]
      BY <1>0, <2>4 DEF W!Save, HookTyped, StoresTyped
    <2>6. UNCHANGED <<hookReady, hookClaim, hookClient, hookRecoveries, hookResumer, hookSent>>
      BY <1>7 DEF W!CheckCircuit, W!broker, W!actors
    <2>7. Owned(j) => /\ hookJob'[j].status # "paused" /\ Counted(hookSent'[j], hookJob'[j])
                      /\ hookSent'[j] <= HookMaxRetries + 1 + hookRecoveries[j]
                      /\ Fits(y, hookJob'[j], hookSent'[j], hookRecoveries[j])
      BY <1>1, <1>4, <1>5, <2>2, <2>4, <2>6 DEF Fits, Early, Copied, Counted
    <2>8. y.pc # "idle" BY <2>2
    <2> QED BY <1>0, <2>2, <2>3, <2>5, <2>6, <2>7, <2>8, StepKeeps
  <1>8. CASE W!Send(r)
    <2>1. PICK kind \in {"ok", "retry", "reject", "error"} :
            hookRun' = [hookRun EXCEPT ![r].pc = "answer", ![r].answer = kind]
      BY <1>8 DEF W!Send
    <2>2. PICK y : y = [hookRun[r] EXCEPT !.pc = "answer", !.answer = kind] OBVIOUS
    <2>3. hookRun' = [hookRun EXCEPT ![r] = y] BY <2>1, <2>2 DEF HookTyped, ProcessesTyped
    <2>4. /\ y \in RunType /\ y.job = j /\ y.node = hookRun[r].node /\ hookRun[r].pc = "send" /\ y.pc = "answer"
          /\ y.copy = hookRun[r].copy
      BY <1>0, <1>8, <2>2 DEF RunType, W!Stages, W!Send, W!Stage
    <2>5. \A q \in HookRuns : Alike(hookRun'[q], IF q = r THEN y ELSE hookRun[q])
      BY <1>0, <1>2, <2>3 DEF HookTyped, ProcessesTyped, Alike
    <2>6. hookSent'[j] = hookSent[j] + 1 /\ \A i \in HookJobs \ {j} : hookSent'[i] = hookSent[i]
      BY <1>0, <1>8 DEF W!Send, HookTyped, StoresTyped
    <2>7. UNCHANGED <<hookReady, hookClaim, hookClient, hookRecoveries, hookResumer, hookJob>>
      BY <1>8 DEF W!Send, W!broker, W!actors
    <2>8. Owned(j) => /\ hookSent[j] <= HookMaxRetries + hookRecoveries[j]
                      /\ hookRun[r].copy.attempts = hookJob[j].attempts /\ hookRun[r].copy.status # "paused"
                      /\ hookSent[j] < hookRun[r].copy.attempts \/ hookRun[r].copy.attempts > HookMaxRetries
      BY <1>1, <2>4 DEF Fits, Early, Copied
    <2>9. Owned(j) => Counted(hookSent'[j], hookJob'[j]) /\ hookSent'[j] <= HookMaxRetries + 1 + hookRecoveries[j]
      BY <1>3, <2>6, <2>7, <2>8 DEF Counted
    <2>10. Owned(j) => Fits(y, hookJob'[j], hookSent'[j], hookRecoveries[j])
      BY <2>4, <2>7, <2>8 DEF Fits, Early, Copied
    <2> QED BY <1>0, <1>1, <2>4, <2>5, <2>6, <2>7, <2>9, <2>10, StepKeeps
  <1>9. CASE W!Answered(r)
    <2>1. PICK y : y = IF hookRun[r].aborted \/ hookRun[r].answer = "error" THEN [hookRun[r] EXCEPT !.pc = "blame"]
                       ELSE [hookRun[r] EXCEPT !.pc = "record"] OBVIOUS
    <2>2. hookRun' = [hookRun EXCEPT ![r] = y] BY <1>0, <1>9, <2>1 DEF W!Answered, HookTyped, ProcessesTyped
    <2>3. /\ y \in RunType /\ y.job = j /\ y.node = hookRun[r].node /\ hookRun[r].pc = "answer"
          /\ y.pc \in {"blame", "record"} /\ y.copy = hookRun[r].copy
      BY <1>0, <1>9, <2>1 DEF RunType, W!Stages, W!Answered, W!Stage
    <2>4. \A q \in HookRuns : Alike(hookRun'[q], IF q = r THEN y ELSE hookRun[q])
      BY <1>0, <1>2, <2>2 DEF HookTyped, ProcessesTyped, Alike
    <2>5. UNCHANGED hookJob \/ W!Save(j, hookRun[r].copy) BY <1>9 DEF W!Answered
    <2>6. \A i \in HookJobs \ {j} : hookJob'[i] = hookJob[i]
      BY <1>0, <2>5 DEF W!Save, HookTyped, StoresTyped
    <2>7. UNCHANGED <<hookReady, hookClaim, hookClient, hookRecoveries, hookResumer, hookSent>>
      BY <1>9 DEF W!Answered, W!broker, W!actors, W!histories
    <2>8. Owned(j) => /\ hookJob'[j].status # "paused" /\ Counted(hookSent'[j], hookJob'[j])
                      /\ hookSent'[j] <= HookMaxRetries + 1 + hookRecoveries[j]
                      /\ Fits(y, hookJob'[j], hookSent'[j], hookRecoveries[j])
      BY <1>1, <1>4, <1>5, <2>3, <2>5, <2>7 DEF Fits, Early, Copied, Counted
    <2>9. y.pc # "idle" BY <2>3
    <2> QED BY <1>0, <2>3, <2>4, <2>6, <2>7, <2>8, <2>9, StepKeeps
  <1> QED BY <1>6, <1>7, <1>8, <1>9

(* A delivery is only delayed while its record allows another attempt.      *)
LEMMA OutcomeKeeps ==
  ASSUME W!Assumption, HookTyped, NEW r \in HookRuns, W!RecordAnswer(r) \/ W!Blame(r) \/ W!Conclude(r) \/ W!Finish(r),
         NEW k \in HookJobs, Owned(k)
  PROVE  Owned(k)'
  <1> USE Values
  <1> DEFINE j == hookRun[r].job
  <1>0. /\ hookRun[r] \in RunType /\ j \in HookJobs /\ hookRun[r].copy \in W!Record /\ hookJob[j] \in W!Record
        /\ Busy(r) /\ Has(r, j) /\ r \in HookRuns
    BY AtStage DEF W!RecordAnswer, W!Blame, W!Conclude, W!Finish, W!Stage, Busy, Has
  <1>1. Owned(j) => /\ Fits(hookRun[r], hookJob[j], hookSent[j], hookRecoveries[j]) /\ Counted(hookSent[j], hookJob[j])
                    /\ hookSent[j] <= HookMaxRetries + 1 + hookRecoveries[j] /\ hookJob[j].status # "paused"
    BY <1>0, InRun
  <1>2. \A q \in HookRuns : Alike(hookRun[q], hookRun[q]) BY DEF Alike
  <1>3. hookSent[j] \in Nat /\ hookRecoveries[j] \in Nat /\ hookJob[j].attempts \in Nat /\ hookRun[r].copy.attempts \in Nat
    BY <1>0 DEF HookTyped, StoresTyped, W!Record
  <1>4. CASE W!RecordAnswer(r)
    <2>0. hookRun[r].pc = "record" /\ hookRun[r].answer \in {"ok", "retry", "reject"}
      BY <1>0, <1>4 DEF W!RecordAnswer, W!Stage, HookTyped, AtWork
    <2>1. PICK y : hookRun' = [hookRun EXCEPT ![r] = y] /\ (\/ y = W!Concludes(hookRun[r], "failed")
                                                           \/ y = W!Concludes(hookRun[r], "completed")
                                                           \/ y = [hookRun[r] EXCEPT !.pc = "blame"])
      BY <1>0, <1>4, <2>0 DEF W!RecordAnswer, HookTyped, ProcessesTyped
    <2>2. /\ y \in RunType /\ y.job = j /\ y.node = hookRun[r].node /\ y.copy.attempts = hookRun[r].copy.attempts
          /\ \/ y.pc = "save" /\ y.settle = "ack" /\ y.copy.status # "paused"
             \/ y.pc = "blame" /\ y.copy = hookRun[r].copy
      BY <1>0, <2>1, Concluded DEF RunType, W!Stages, W!Statuses
    <2>3. \A q \in HookRuns : Alike(hookRun'[q], IF q = r THEN y ELSE hookRun[q])
      BY <1>0, <1>2, <2>1 DEF HookTyped, ProcessesTyped, Alike
    <2>4. UNCHANGED <<hookReady, hookClaim, hookClient, hookRecoveries, hookResumer, hookSent, hookJob>>
      BY <1>4 DEF W!RecordAnswer, W!broker, W!actors
    <2>5. Owned(j) => Fits(y, hookJob[j], hookSent[j], hookRecoveries[j])
      BY <1>1, <2>0, <2>2 DEF Fits, Early, Copied
    <2>6. y.pc # "idle" BY <2>2
    <2> QED BY <1>0, <1>1, <2>2, <2>3, <2>4, <2>5, <2>6, StepKeeps
  <1>5. CASE W!Blame(r)
    <2>0. hookRun[r].pc = "blame" BY <1>5 DEF W!Blame, W!Stage
    <2>1. PICK y : hookRun' = [hookRun EXCEPT ![r] = y]
                   /\ (\/ y = W!Concludes(hookRun[r], "failed")
                       \/ y = W!Concludes(hookRun[r], "delayed") /\ ~(hookRun[r].copy.attempts > HookMaxRetries))
      BY <1>0, <1>5 DEF W!Blame, W!OutOfRetries, HookTyped, ProcessesTyped
    <2>2. /\ y \in RunType /\ y.job = j /\ y.node = hookRun[r].node /\ y.copy.attempts = hookRun[r].copy.attempts
          /\ y.pc = "save" /\ y.copy.status # "paused"
          /\ y.settle = "ack" \/ hookRun[r].copy.attempts <= HookMaxRetries
      BY <1>0, <1>3, <2>1, Concluded DEF RunType, W!Stages, W!Statuses
    <2>3. \A q \in HookRuns : Alike(hookRun'[q], IF q = r THEN y ELSE hookRun[q])
      BY <1>0, <1>2, <2>1 DEF HookTyped, ProcessesTyped, Alike
    <2>4. UNCHANGED <<hookReady, hookClaim, hookClient, hookRecoveries, hookResumer, hookSent, hookJob>>
      BY <1>5 DEF W!Blame, W!broker, W!actors
    <2>5. ASSUME Owned(j) PROVE Fits(y, hookJob[j], hookSent[j], hookRecoveries[j])
      <3>1. hookRun[r].copy.attempts = hookJob[j].attempts BY <1>1, <2>0, <2>5 DEF Fits, Copied
      <3>2. y.settle # "ack" => hookSent[j] <= HookMaxRetries + hookRecoveries[j]
        BY <1>1, <1>3, <2>2, <2>5, <3>1 DEF Counted
      <3> QED BY <2>2, <3>1, <3>2 DEF Fits, Early, Copied
    <2>6. y.pc # "idle" BY <2>2
    <2> QED BY <1>0, <1>1, <2>2, <2>3, <2>4, <2>5, <2>6, StepKeeps
  <1>6. CASE W!Conclude(r)
    <2>1. PICK y : y = [hookRun[r] EXCEPT !.pc = "finish"] OBVIOUS
    <2>2. hookRun' = [hookRun EXCEPT ![r] = y] BY <1>0, <1>6, <2>1 DEF W!Conclude, HookTyped, ProcessesTyped
    <2>3. /\ y \in RunType /\ y.job = j /\ y.node = hookRun[r].node /\ hookRun[r].pc = "save" /\ y.pc = "finish"
          /\ y.settle = hookRun[r].settle
      BY <1>0, <1>6, <2>1 DEF RunType, W!Stages, W!Conclude, W!Stage
    <2>4. \A q \in HookRuns : Alike(hookRun'[q], IF q = r THEN y ELSE hookRun[q])
      BY <1>0, <1>2, <2>2 DEF HookTyped, ProcessesTyped, Alike
    <2>5. hookJob'[j] = hookRun[r].copy /\ \A i \in HookJobs \ {j} : hookJob'[i] = hookJob[i]
      BY <1>0, <1>6 DEF W!Conclude, W!Save, HookTyped, StoresTyped
    <2>6. UNCHANGED <<hookReady, hookClaim, hookClient, hookRecoveries, hookResumer, hookSent>>
      BY <1>6 DEF W!Conclude, W!broker, W!actors, W!histories
    <2>7. Owned(j) => /\ hookJob'[j].status # "paused" /\ Counted(hookSent'[j], hookJob'[j])
                      /\ hookSent'[j] <= HookMaxRetries + 1 + hookRecoveries[j]
                      /\ Fits(y, hookJob'[j], hookSent'[j], hookRecoveries[j])
      BY <1>1, <2>3, <2>5, <2>6 DEF Fits, Early, Copied, Counted
    <2>8. y.pc # "idle" BY <2>3
    <2> QED BY <1>0, <2>3, <2>4, <2>5, <2>6, <2>7, <2>8, StepKeeps
  <1>7. CASE W!Finish(r)
    <2>1. PICK y : y = [hookRun[r] EXCEPT !.pc = "settle"] OBVIOUS
    <2>2. /\ y \in RunType /\ y.job = j /\ y.node = hookRun[r].node /\ hookRun[r].pc = "finish" /\ y.pc = "settle"
          /\ y.settle = hookRun[r].settle
      BY <1>0, <1>7, <2>1 DEF RunType, W!Stages, W!Finish, W!Stage
    <2>3. \A q \in HookRuns : Alike(hookRun'[q], IF q = r THEN y ELSE hookRun[q])
      BY <1>7, <2>1, FinishEffect
    <2>4. UNCHANGED <<hookReady, hookClaim, hookClient, hookRecoveries, hookResumer, hookSent, hookJob>>
      BY <1>7 DEF W!Finish, W!broker, W!actors, W!histories
    <2>5. Owned(j) => Fits(y, hookJob[j], hookSent[j], hookRecoveries[j])
      BY <1>1, <2>2 DEF Fits, Early, Copied
    <2>6. y.pc # "idle" BY <2>2
    <2> QED BY <1>0, <1>1, <2>2, <2>3, <2>4, <2>5, <2>6, StepKeeps
  <1> QED BY <1>4, <1>5, <1>6, <1>7

(* The first and the last step of a run: what it lets go of comes back only *)
(* when it was handed back within the budget.                               *)
LEMMA EndsKeep ==
  ASSUME W!Assumption, HookTyped, NEW r \in HookRuns, W!Dispatch(r) \/ W!Settle(r), NEW k \in HookJobs, Owned(k)
  PROVE  Owned(k)'
  <1> USE Values
  <1> DEFINE n == hookRun[r].node  j == hookRun[r].job
  <1>0. /\ hookRun[r] \in RunType /\ j \in HookJobs /\ hookRun[r].copy \in W!Record /\ hookJob[j] \in W!Record
        /\ Busy(r) /\ Has(r, j) /\ r \in HookRuns
    BY AtStage DEF W!Dispatch, W!Settle, W!Stage, Busy, Has
  <1>1. Owned(j) => /\ Fits(hookRun[r], hookJob[j], hookSent[j], hookRecoveries[j]) /\ Counted(hookSent[j], hookJob[j])
                    /\ hookSent[j] <= HookMaxRetries + 1 + hookRecoveries[j] /\ hookJob[j].status # "paused"
    BY <1>0, InRun
  <1>2. \A q \in HookRuns : Alike(hookRun[q], hookRun[q]) BY DEF Alike
  <1>3. UNCHANGED <<hookClient, hookRecoveries, hookResumer, hookJob, hookSent>>
    BY DEF W!Dispatch, W!Settle, W!actors, W!histories
  <1>4. CASE hookRun' = [hookRun EXCEPT ![r] = W!IdleRun] /\ (W!Nack(j) \/ W!Ack(j))
             /\ (W!Nack(j) /\ Owned(j) => hookSent[j] <= HookMaxRetries + hookRecoveries[j])
    <2>1. /\ hookRun'[r].pc = "idle" /\ \A q \in HookRuns \ {r} : Alike(hookRun'[q], hookRun[q])
          /\ hookClaim'[j] = W!NoNode /\ (j \in hookReady' => W!Nack(j))
          /\ \A i \in HookJobs \ {j} : hookClaim'[i] = hookClaim[i] /\ (i \in hookReady' <=> i \in hookReady)
      BY <1>0, <1>2, <1>4 DEF W!IdleRun, W!Nack, W!Ack, HookTyped, StoresTyped, ProcessesTyped
    <2>2. ~Has(r, k)' BY <2>1 DEF Has, Busy
    <2>3. CASE k = j BY <1>0, <1>3, <1>4, <2>1, <2>2, <2>3, OwnLeft
    <2>4. CASE k # j
      <3>1. ~Has(r, k) BY <2>4 DEF Has
      <3> QED BY <1>3, <2>1, <2>2, <2>4, <3>1, OthersKept
    <2> QED BY <2>3, <2>4
  <1>5. CASE W!Dispatch(r)
    <2>1. hookRun[r].pc = "claimed" BY <1>5 DEF W!Dispatch
    <2>2. Owned(j) => hookSent[j] <= HookMaxRetries + hookRecoveries[j] BY <1>1, <2>1 DEF Fits, Early
    <2>3. CASE hookEngine[n].state = "up"
      <3>1. PICK y : y = [hookRun[r] EXCEPT !.pc = "lease"] OBVIOUS
      <3>2. hookRun' = [hookRun EXCEPT ![r] = y] BY <1>0, <1>5, <2>3, <3>1 DEF W!Dispatch, HookTyped, ProcessesTyped
      <3>3. y \in RunType /\ y.job = j /\ y.node = n /\ y.pc = "lease"
        BY <1>0, <3>1 DEF RunType, W!Stages
      <3>4. \A q \in HookRuns : Alike(hookRun'[q], IF q = r THEN y ELSE hookRun[q])
        BY <1>0, <1>2, <3>2 DEF HookTyped, ProcessesTyped, Alike
      <3>5. Owned(j) => Fits(y, hookJob[j], hookSent[j], hookRecoveries[j])
        BY <2>2, <3>3 DEF Fits, Early, Copied
      <3>6. UNCHANGED <<hookReady, hookClaim>> BY <1>5, <2>3 DEF W!Dispatch, W!broker
      <3> QED BY <1>0, <1>1, <1>3, <3>3, <3>4, <3>5, <3>6, StepKeeps
    <2>4. CASE hookEngine[n].state # "up"
      BY <1>4, <1>5, <2>2, <2>4 DEF W!Dispatch
    <2> QED BY <2>3, <2>4
  <1>6. CASE W!Settle(r)
    <2>1. hookRun[r].settle # "ack" /\ Owned(j) => hookSent[j] <= HookMaxRetries + hookRecoveries[j]
      BY <1>1, <1>6 DEF Fits, W!Settle, W!Stage
    <2>2. CASE hookRun[r].settle = "ack"
      <3>1. W!Ack(j) /\ hookRun' = [hookRun EXCEPT ![r] = W!IdleRun] BY <1>6, <2>2 DEF W!Settle
      <3>2. ~W!Nack(j) BY <1>0, <3>1 DEF W!Ack, W!Nack
      <3> QED BY <1>4, <3>1, <3>2
    <2>3. CASE hookRun[r].settle # "ack" BY <1>4, <1>6, <2>1, <2>3 DEF W!Settle
    <2> QED BY <2>2, <2>3
  <1> QED BY <1>5, <1>6

-----------------------------------------------------------------------------
(* Steps that leave the runs to their deliveries.                           *)
LEMMA FlagsKeep ==
  ASSUME W!Assumption, HookTyped, Flagging, NEW k \in HookJobs, Owned(k), k \notin hookTaken'
  PROVE  Owned(k)'
  <1>0. \A q \in HookRuns : Alike(hookRun'[q], hookRun[q]) BY OnlyFlags
  <1>1. \A q \in HookRuns : Has(q, k)' <=> Has(q, k) BY <1>0 DEF Has, Busy, Alike
  <1>2. UNCHANGED <<hookJob, hookClient, hookSent, hookRecoveries, hookResumer>>
    BY DEF Flagging, W!LoseLease, W!StallFind, W!Cancel, W!CancelFinish, W!Stop, W!actors, W!histories, W!counters
  <1>3. hookClaim'[k] = hookClaim[k] /\ (k \in hookReady' <=> k \in hookReady)
    <2>1. CASE W!CancelFinish
      <3>1. hookCanceller.job # k BY <2>1 DEF W!CancelFinish, HookTyped, AtWork, W!histories
      <3>2. hookClaim \in [HookJobs -> HookNodes \cup {W!NoNode}] BY DEF HookTyped, StoresTyped
      <3> QED BY <2>1, <3>1, <3>2 DEF W!CancelFinish, W!Ack
    <2>2. CASE ~W!CancelFinish
      BY <2>2 DEF Flagging, W!LoseLease, W!StallFind, W!Cancel, W!Stop, W!broker
    <2> QED BY <2>1, <2>2
  <1>4. Resuming(k)' <=> Resuming(k) BY <1>2 DEF Resuming
  <1> QED BY <1>0, <1>1, <1>2, <1>3, <1>4, Untouched

(* They write and hand back what they took, and nothing else.               *)
LEMMA TakingKeeps ==
  ASSUME W!Assumption, HookTyped, Taking, NEW k \in HookJobs, Owned(k), k \notin hookTaken
  PROVE  Owned(k)'
  <1>0. hookRun' = hookRun /\ UNCHANGED <<hookClient, hookSent, hookRecoveries, hookResumer>>
    BY DEF Taking, W!StallGet, W!StallSave, W!StallNack, W!CancelSave, W!actors, W!histories
  <1>1. \A q \in HookRuns : (Has(q, k)' <=> Has(q, k)) /\ Alike(hookRun'[q], hookRun[q])
    BY <1>0 DEF Has, Busy, Alike
  <1>2. hookJob'[k] = hookJob[k] /\ hookClaim'[k] = hookClaim[k] /\ (k \in hookReady' <=> k \in hookReady)
    <2>1. \A n \in HookNodes : hookStall[n].pc # "idle" => hookStall[n].job # k BY DEF HookTyped, AtWork
    <2>2. hookCanceller.pc # "idle" => hookCanceller.job # k BY DEF HookTyped, AtWork
    <2> QED BY <2>1, <2>2 DEF Taking, W!StallGet, W!StallSave, W!StallNack, W!CancelSave, W!SaveStatus, W!Save, W!Nack,
                              W!broker, HookTyped, StoresTyped
  <1>3. Resuming(k)' <=> Resuming(k) BY <1>0 DEF Resuming
  <1> QED BY <1>0, <1>1, <1>2, <1>3, Untouched

(* A delivery that is not in a run, nor ready, nor claimed.                 *)
LEMMA NotOut ==
  ASSUME W!Assumption, HookTyped, NEW j \in HookJobs, Owned(j),
         hookClient[j] # "done" \/ Resuming(j) \/ hookJob[j].status = "paused"
  PROVE  hookClaim[j] = W!NoNode /\ j \notin hookReady /\ \A r \in HookRuns : ~Has(r, j)
  <1>1. hookClaim[j] = W!NoNode /\ j \notin hookReady BY DEF Owned, InOnePlace
  <1>2. \A r \in HookRuns : Has(r, j) => hookRun[r].node # W!NoNode BY DEF Has, HookTyped, AtWork, W!Assumption
  <1> QED BY <1>1, <1>2 DEF Owned, InOnePlace

(* A delivery enters the list once, from its caller, and is unsent then.    *)
LEMMA ClientKeeps ==
  ASSUME W!Assumption, HookTyped,
         NEW j \in HookJobs, \/ W!Fire(j) \/ W!Persist(j) \/ W!Enqueue(j) \/ W!Disable \/ W!Scan(j)
                             \/ \E clone \in HookJobs : W!Resend(j, clone),
         NEW k \in HookJobs, Owned(k)
  PROVE  Owned(k)'
  <1> USE Values
  <1>0. hookRun' = hookRun /\ UNCHANGED <<hookSent, hookRecoveries, hookResumer>>
    BY DEF W!Fire, W!Persist, W!Enqueue, W!Disable, W!Scan, W!Resend, W!actors, W!histories
  <1>1. \A q \in HookRuns : (Has(q, k)' <=> Has(q, k)) /\ Alike(hookRun'[q], hookRun[q])
    BY <1>0 DEF Has, Busy, Alike
  <1>2. Resuming(k)' <=> Resuming(k) BY <1>0 DEF Resuming
  <1>3. hookSent[k] \in Nat /\ hookRecoveries[k] \in Nat BY DEF HookTyped, StoresTyped
  <1>4. CASE UNCHANGED <<hookJob, W!broker, hookClient>>
    BY <1>0, <1>1, <1>2, <1>4, Untouched DEF W!broker
  <1>5. ASSUME NEW i \in HookJobs, W!Fire(i) PROVE Owned(k)'
    <2>0. hookClient[i] = "idle" /\ hookClient' = [hookClient EXCEPT ![i] = IF hookEnabled THEN "save" ELSE "hold"]
          /\ UNCHANGED <<hookJob, hookReady, hookClaim>>
      BY <1>5 DEF W!Fire, W!broker
    <2>1. CASE k # i BY <1>0, <1>1, <1>2, <2>0, <2>1, Untouched DEF HookTyped, StoresTyped
    <2>2. CASE k = i
      <3>1. hookClient'[k] # "done" /\ hookClient[k] # "done" BY <2>0, <2>2 DEF HookTyped, StoresTyped
      <3>2. hookClaim[k] = W!NoNode /\ k \notin hookReady /\ \A r \in HookRuns : ~Has(r, k) BY <3>1, NotOut
      <3>3. InOnePlace(k)' BY <1>0, <1>1, <1>2, <2>0, <3>1, <3>2 DEF Owned, InOnePlace
      <3>4. Waits(k)' <=> Waits(k) BY <1>0, <1>1, <1>2, <2>0 DEF Waits
      <3>5. InBudget(k)' BY <1>0, <1>1, <2>0, <3>1, <3>2, <3>4 DEF Owned, InBudget
      <3> QED BY <3>3, <3>5 DEF Owned
    <2> QED BY <2>1, <2>2
  (* A new record: of a fired delivery, or of the clone of a failed one.    *)
  <1>6. ASSUME NEW i \in HookJobs, NEW st \in {"waiting", "paused"}, hookClient[i] # "done",
               hookJob' = [hookJob EXCEPT ![i] = [W!NoRecord EXCEPT !.status = st]], UNCHANGED <<hookReady, hookClaim>>,
               hookClient' = [hookClient EXCEPT ![i] = IF st = "waiting" THEN "publish" ELSE "done"]
        PROVE  Owned(k)'
    <2>1. CASE k # i BY <1>0, <1>1, <1>2, <1>6, <2>1, Untouched DEF HookTyped, StoresTyped
    <2>2. CASE k = i
      <3>1. hookClaim[k] = W!NoNode /\ k \notin hookReady /\ \A r \in HookRuns : ~Has(r, k)
        BY <1>6, <2>2, NotOut
      <3>2. ~Resuming(k) /\ hookSent[k] = 0 BY <1>6, <2>2 DEF Owned, InOnePlace, InBudget
      <3>3. hookJob'[k].status = st /\ hookJob'[k].attempts = 0 BY <1>6, <2>2 DEF W!NoRecord, HookTyped, StoresTyped
      <3>4. hookClient'[k] = IF st = "waiting" THEN "publish" ELSE "done"
        BY <1>6, <2>2 DEF HookTyped, StoresTyped
      <3>5. InOnePlace(k)'
        BY <1>0, <1>1, <1>2, <1>6, <3>1, <3>2, <3>3, <3>4 DEF InOnePlace, Resuming
      <3>6. Counted(hookSent[k], hookJob'[k]) BY <3>2, <3>3 DEF Counted
      <3>7. InBudget(k)' BY <1>0, <1>1, <1>3, <3>1, <3>2, <3>6 DEF InBudget
      <3> QED BY <3>5, <3>7 DEF Owned
    <2> QED BY <2>1, <2>2
  <1>7. ASSUME W!Persist(j) PROVE Owned(k)'
    <2>1. PICK st \in {"waiting", "paused"} : st = IF hookClient[j] = "save" THEN "waiting" ELSE "paused" OBVIOUS
    <2>2. /\ hookClient[j] # "done" /\ hookJob' = [hookJob EXCEPT ![j] = [W!NoRecord EXCEPT !.status = st]]
          /\ UNCHANGED <<hookReady, hookClaim>>
      BY <1>7, <2>1 DEF W!Persist, W!SaveStatus, W!Save, W!broker
    <2>3. hookClient' = [hookClient EXCEPT ![j] = IF st = "waiting" THEN "publish" ELSE "done"]
      BY <1>7, <2>1 DEF W!Persist, HookTyped, StoresTyped
    <2> QED BY <1>6, <2>2, <2>3
  <1>8. ASSUME NEW clone \in HookJobs, W!Resend(j, clone) PROVE Owned(k)'
    <2>1. /\ hookClient[clone] # "done" /\ hookJob' = [hookJob EXCEPT ![clone] = [W!NoRecord EXCEPT !.status = "waiting"]]
          /\ UNCHANGED <<hookReady, hookClaim>>
          /\ hookClient' = [hookClient EXCEPT ![clone] = IF "waiting" = "waiting" THEN "publish" ELSE "done"]
      BY <1>8 DEF W!Resend, W!SaveStatus, W!Save, W!broker
    <2> QED BY <1>6, <2>1
  <1>9. ASSUME W!Enqueue(j) PROVE Owned(k)'
    <2>0. /\ hookClient[j] = "publish" /\ hookClient' = [hookClient EXCEPT ![j] = "done"]
          /\ hookReady' = hookReady \cup {j} /\ UNCHANGED <<hookJob, hookClaim>>
      BY <1>9 DEF W!Enqueue, W!Publish
    <2>1. CASE k # j BY <1>0, <1>1, <1>2, <2>0, <2>1, Untouched DEF HookTyped, StoresTyped
    <2>2. CASE k = j
      <3>1. /\ hookClaim[k] = W!NoNode /\ k \notin hookReady /\ \A r \in HookRuns : ~Has(r, k)
            /\ ~Resuming(k) /\ hookSent[k] = 0 /\ hookJob[k].status # "paused"
        BY <2>0, <2>2, NotOut DEF Owned, InOnePlace, InBudget
      <3>2. hookClient'[k] = "done" BY <2>0, <2>2 DEF HookTyped, StoresTyped
      <3>3. InOnePlace(k)' BY <1>0, <1>1, <1>2, <2>0, <3>1, <3>2 DEF InOnePlace, Resuming
      <3>4. InBudget(k)' BY <1>0, <1>1, <1>3, <2>0, <3>1, <3>2 DEF Owned, InBudget
      <3> QED BY <3>3, <3>4 DEF Owned
    <2> QED BY <2>1, <2>2
  <1>10. CASE W!Disable BY <1>4, <1>10 DEF W!Disable
  <1>11. CASE W!Scan(j) BY <1>4, <1>11 DEF W!Scan, W!WorkerIdOf
  <1> QED BY <1>5, <1>7, <1>8, <1>9, <1>10, <1>11

(* A held delivery enters the list through one resume, with its attempts.   *)
LEMMA OperatorKeeps ==
  ASSUME W!Assumption, HookTyped, \/ \E n \in hookSetting.fleet : W!Pause(n) \/ W!Resume(n)
                                  \/ W!ResumeStep,
         NEW k \in HookJobs, Owned(k)
  PROVE  Owned(k)'
  <1> USE Values
  <1>0. hookRun' = hookRun /\ UNCHANGED <<hookSent, hookRecoveries, hookClient, hookClaim>>
    BY DEF W!Pause, W!Resume, W!ResumeStep, W!ResumeList, W!ResumeSave, W!ResumePublish, W!Publish, W!broker, W!histories
  <1>1. \A q \in HookRuns : (Has(q, k)' <=> Has(q, k)) /\ Alike(hookRun'[q], hookRun[q])
    BY <1>0 DEF Has, Busy, Alike
  <1>2. ASSUME NEW n \in hookSetting.fleet, W!Pause(n) \/ W!Resume(n) PROVE Owned(k)'
    <2>1. ~Resuming(k) /\ ~Resuming(k)' /\ UNCHANGED <<hookJob, hookReady>>
      BY <1>2 DEF W!Pause, W!Resume, Resuming, W!IdleActor, W!broker, W!actors
    <2> QED BY <1>0, <1>1, <2>1, Untouched
  <1>3. ASSUME W!ResumeList PROVE Owned(k)'
    <2>0. hookResumer.pc = "list" /\ ~Resuming(k) /\ UNCHANGED <<hookJob, hookReady>>
      BY <1>3 DEF W!ResumeList, Resuming, W!broker
    <2>1. CASE ~Resuming(k)' BY <1>0, <1>1, <2>0, <2>1, Untouched
    <2>2. CASE Resuming(k)'
      <3>1. PICK i \in HookJobs : /\ hookJob[i].status = "paused"
                                  /\ hookResumer' = [hookResumer EXCEPT !.pc = "save", !.job = i, !.copy = hookJob[i]]
        <4>1. hookResumer' # W!IdleActor BY <2>2 DEF Resuming, W!IdleActor
        <4> QED BY <1>3, <4>1 DEF W!ResumeList
      <3>2. hookResumer \in ActorType BY DEF HookTyped, ProcessesTyped
      <3>3. hookResumer'.pc = "save" /\ hookResumer'.job = i /\ hookResumer'.copy = hookJob[i] /\ i = k
        BY <2>2, <3>1, <3>2 DEF ActorType, Resuming
      <3>4. hookClaim[k] = W!NoNode /\ k \notin hookReady /\ \A r \in HookRuns : ~Has(r, k)
        BY <3>1, <3>3, NotOut
      <3>5. InOnePlace(k)' BY <1>0, <1>1, <2>0, <3>1, <3>3, <3>4 DEF Owned, InOnePlace
      <3>6. InBudget(k)' BY <1>0, <1>1, <2>0, <3>1, <3>3, <3>4 DEF Owned, InBudget, Waits
      <3> QED BY <3>5, <3>6 DEF Owned
    <2> QED BY <2>1, <2>2
  <1>4. ASSUME W!ResumeSave PROVE Owned(k)'
    <2>0. /\ hookResumer.pc = "save" /\ hookResumer \in ActorType /\ hookResumer.job \in HookJobs
          /\ hookJob' = [hookJob EXCEPT ![hookResumer.job] = [hookResumer.copy EXCEPT !.status = "waiting"]]
          /\ hookResumer' = [hookResumer EXCEPT !.pc = "publish"] /\ UNCHANGED hookReady
      BY <1>4 DEF W!ResumeSave, W!SaveStatus, W!Save, W!broker, HookTyped, ProcessesTyped, AtWork
    <2>1. hookResumer'.pc = "publish" /\ hookResumer'.job = hookResumer.job BY <2>0 DEF ActorType
    <2>2. CASE k # hookResumer.job
      <3>1. ~Resuming(k) /\ ~Resuming(k)' /\ hookJob'[k] = hookJob[k]
        BY <2>0, <2>1, <2>2 DEF Resuming, HookTyped, StoresTyped
      <3> QED BY <1>0, <1>1, <2>0, <3>1, Untouched
    <2>3. CASE k = hookResumer.job
      <3>1. Resuming(k) /\ Resuming(k)' BY <2>0, <2>1, <2>3 DEF Resuming
      <3>2. hookClaim[k] = W!NoNode /\ k \notin hookReady /\ \A r \in HookRuns : ~Has(r, k) BY <3>1, NotOut
      <3>3. hookResumer.copy = hookJob[k] /\ hookClient[k] = "done"
        BY <2>0, <2>3, <3>1 DEF Owned, InOnePlace
      <3>4. hookJob[k] \in W!Record /\ hookJob' = [hookJob EXCEPT ![k] = [hookJob[k] EXCEPT !.status = "waiting"]]
        BY <2>0, <2>3, <3>3 DEF HookTyped, StoresTyped
      <3>5. hookJob'[k].status = "waiting" /\ hookJob'[k].attempts = hookJob[k].attempts
        BY <3>4 DEF W!Record, HookTyped, StoresTyped
      <3>6. InOnePlace(k)' BY <1>0, <1>1, <2>0, <2>1, <3>2, <3>3, <3>5 DEF InOnePlace
      <3>7. Waits(k) /\ Counted(hookSent[k], hookJob'[k]) BY <3>1, <3>5 DEF Waits, Owned, InBudget, Counted
      <3>8. InBudget(k)' BY <1>0, <1>1, <3>2, <3>3, <3>7 DEF Owned, InBudget
      <3> QED BY <3>6, <3>8 DEF Owned
    <2> QED BY <2>2, <2>3
  <1>5. ASSUME W!ResumePublish PROVE Owned(k)'
    <2>0. /\ hookResumer.pc = "publish" /\ UNCHANGED hookJob /\ hookReady' = hookReady \cup {hookResumer.job}
          /\ ~Resuming(k)' /\ hookResumer'.pc = "list"
      BY <1>5 DEF W!ResumePublish, W!Publish, Resuming, W!IdleActor
    <2>1. CASE k # hookResumer.job
      <3>1. ~Resuming(k) BY <2>1 DEF Resuming
      <3> QED BY <1>0, <1>1, <2>0, <2>1, <3>1, Untouched
    <2>2. CASE k = hookResumer.job
      <3>1. Resuming(k) BY <2>0, <2>2 DEF Resuming
      <3>2. hookClaim[k] = W!NoNode /\ k \notin hookReady /\ \A r \in HookRuns : ~Has(r, k) BY <3>1, NotOut
      <3>3. hookClient[k] = "done" /\ hookJob[k].status # "paused" /\ Waits(k)
        BY <2>0, <2>2, <3>1 DEF Owned, InOnePlace, Waits
      <3>4. InOnePlace(k)' BY <1>0, <1>1, <2>0, <3>2, <3>3 DEF InOnePlace
      <3>5. InBudget(k)' BY <1>0, <1>1, <2>0, <3>2, <3>3 DEF Owned, InBudget
      <3> QED BY <3>4, <3>5 DEF Owned
    <2> QED BY <2>1, <2>2
  <1> QED BY <1>2, <1>3, <1>4, <1>5 DEF W!ResumeStep

(* A claim that runs out has no run left; a crash is counted.               *)
LEMMA ProcessesKeep ==
  ASSUME W!Assumption, HookTyped, Processes, NEW k \in HookJobs, Owned(k)
  PROVE  Owned(k)'
  <1> USE Values
  <1>0. hookSent[k] \in Nat /\ hookRecoveries[k] \in Nat BY DEF HookTyped, StoresTyped
  <1>1. ASSUME NEW n \in hookSetting.fleet, W!PollAny(n) PROVE Owned(k)'
    <2>1. PICK r \in HookRuns, j \in HookJobs : /\ hookRun[r] = W!IdleRun /\ W!Poll(n, r, j) /\ n \in HookNodes
                                                /\ [W!IdleRun EXCEPT !.pc = "claimed", !.node = n, !.job = j].job = j
      BY <1>1, PollEffect
    <2>2. PICK y : y = [W!IdleRun EXCEPT !.pc = "claimed", !.node = n, !.job = j] OBVIOUS
    <2>3. y.pc = "claimed" /\ y.node = n /\ y.job = j BY <2>2 DEF W!IdleRun
    <2>4. hookRun'[r] = y /\ \A q \in HookRuns \ {r} : hookRun'[q] = hookRun[q]
      BY <2>1, <2>2 DEF W!Poll, HookTyped, ProcessesTyped
    <2>5. /\ j \in hookReady /\ hookReady' = hookReady \ {j} /\ hookClaim' = [hookClaim EXCEPT ![j] = n]
          /\ UNCHANGED <<hookJob, hookClient, hookSent, hookRecoveries, hookResumer>>
      BY <2>1 DEF W!Poll, W!actors, W!histories
    <2>6. ~Has(r, k) BY <2>1 DEF Has, Busy, W!IdleRun
    <2>7. CASE k # j
      <3>1. \A q \in HookRuns : (Has(q, k)' <=> Has(q, k)) /\ (Has(q, k) => Alike(hookRun'[q], hookRun[q]))
        BY <2>3, <2>4, <2>6, <2>7 DEF Has, Busy, Alike
      <3>2. hookClaim'[k] = hookClaim[k] /\ (k \in hookReady' <=> k \in hookReady)
        BY <2>5, <2>7 DEF HookTyped, StoresTyped
      <3>3. Resuming(k)' <=> Resuming(k) BY <2>5 DEF Resuming
      <3> QED BY <2>5, <3>1, <3>2, <3>3, Untouched
    <2>8. CASE k = j
      <3>1. /\ hookClaim[k] = W!NoNode /\ hookClient[k] = "done" /\ ~Resuming(k) /\ hookJob[k].status # "paused"
            /\ Waits(k)
        BY <2>5, <2>8 DEF Owned, InOnePlace, Waits
      <3>2. \A q \in HookRuns : ~Has(q, k)
        <4>1. \A q \in HookRuns : Has(q, k) => hookRun[q].node # W!NoNode BY DEF Has, HookTyped, AtWork, W!Assumption
        <4> QED BY <3>1, <4>1 DEF Owned, InOnePlace
      <3>3. \A q \in HookRuns : Has(q, k)' => q = r BY <2>4, <3>2 DEF Has, Busy
      <3>4. hookClaim'[k] = n /\ hookRun'[r].node = n /\ k \notin hookReady' /\ ~Resuming(k)'
        BY <2>3, <2>4, <2>5, <2>8, <3>1 DEF HookTyped, StoresTyped, Resuming
      <3>5. InOnePlace(k)' BY <2>5, <3>1, <3>3, <3>4 DEF InOnePlace, Resuming
      <3>6. Has(r, k)' BY <2>3, <2>4, <2>8 DEF Has, Busy
      <3>7. ~Waits(k)' BY <2>5, <3>1, <3>4, <3>6 DEF Waits
      <3>8. Fits(hookRun'[r], hookJob[k], hookSent[k], hookRecoveries[k])
        BY <2>3, <2>4, <3>1 DEF Owned, InBudget, Fits, Early, Copied
      <3>9. InBudget(k)' BY <2>5, <3>1, <3>3, <3>7, <3>8 DEF Owned, InBudget
      <3> QED BY <3>5, <3>9 DEF Owned
    <2> QED BY <2>7, <2>8
  <1>2. CASE UNCHANGED <<hookJob, hookReady, hookClaim, hookClient, hookSent, hookRecoveries, hookResumer, hookRun>>
    <2>1. \A q \in HookRuns : (Has(q, k)' <=> Has(q, k)) /\ Alike(hookRun'[q], hookRun[q])
      BY <1>2 DEF Has, Busy, Alike
    <2>2. Resuming(k)' <=> Resuming(k) BY <1>2 DEF Resuming
    <2> QED BY <1>2, <2>1, <2>2, Untouched
  <1>3. ASSUME NEW n \in hookSetting.fleet, W!Stopped(n) \/ W!Restart(n) \/ W!Cool(n) PROVE Owned(k)'
    BY <1>2, <1>3 DEF W!Stopped, W!Restart, W!Cool, W!broker, W!actors, W!histories
  <1>4. ASSUME NEW n \in hookSetting.fleet, W!Crash(n) PROVE Owned(k)'
    <2> DEFINE lost == {hookRun[r].job : r \in {x \in HookRuns : hookRun[x].node = n}}
    <2>1. /\ hookRun' = [r \in HookRuns |-> IF hookRun[r].node = n THEN W!IdleRun ELSE hookRun[r]]
          /\ hookResumer' = (IF hookResumer.node = n THEN W!IdleActor ELSE hookResumer)
          /\ hookRecoveries'[k] = hookRecoveries[k] + (IF k \in lost THEN 1 ELSE 0)
          /\ UNCHANGED <<hookJob, hookReady, hookClaim, hookClient, hookSent>>
      BY <1>4 DEF W!Crash, W!broker
    <2>2. \A q \in HookRuns : Has(q, k)' => Has(q, k) /\ hookRun'[q] = hookRun[q]
      BY <2>1 DEF Has, Busy, W!IdleRun
    <2>3. Resuming(k)' => Resuming(k) /\ hookResumer' = hookResumer BY <2>1 DEF Resuming, W!IdleActor
    <2>4. /\ hookRecoveries'[k] \in Nat /\ hookRecoveries'[k] >= hookRecoveries[k]
          /\ k \in lost => hookRecoveries'[k] = hookRecoveries[k] + 1
      BY <1>0, <2>1
    <2>5. InOnePlace(k)' BY <2>1, <2>2, <2>3 DEF Owned, InOnePlace, Resuming
    <2>6. Waits(k)' => Waits(k) \/ k \in lost
      <3> SUFFICES ASSUME Waits(k)', ~Waits(k) PROVE k \in lost OBVIOUS
      <3>1. hookClaim[k] # W!NoNode /\ \A r \in HookRuns : ~Has(r, k)' BY <2>1, <2>3 DEF Waits
      <3>2. PICK r \in HookRuns : Has(r, k) BY <3>1 DEF Waits
      <3>3. hookRun[r].node = n BY <2>1, <3>1, <3>2 DEF Has, Busy
      <3> QED BY <3>2, <3>3 DEF Has
    <2>7. Waits(k)' => hookSent[k] <= HookMaxRetries + hookRecoveries'[k]
      BY <1>0, <2>4, <2>6 DEF Owned, InBudget
    <2>8. ASSUME NEW r \in HookRuns, Has(r, k)' PROVE Fits(hookRun'[r], hookJob[k], hookSent[k], hookRecoveries'[k])
      <3>1. Fits(hookRun[r], hookJob[k], hookSent[k], hookRecoveries[k]) BY <2>2, <2>8 DEF Owned, InBudget
      <3> QED BY <1>0, <2>2, <2>4, <2>8, <3>1 DEF Fits
    <2>9. hookSent[k] <= HookMaxRetries + 1 + hookRecoveries'[k] BY <1>0, <2>4 DEF Owned, InBudget
    <2>10. InBudget(k)' BY <2>1, <2>7, <2>8, <2>9 DEF Owned, InBudget
    <2> QED BY <2>5, <2>10 DEF Owned
  <1>5. ASSUME NEW j \in HookJobs, W!LeaseLapses(j) \/ W!LeaseExpires(j) PROVE Owned(k)'
    BY <1>2, <1>5 DEF W!LeaseLapses, W!LeaseExpires, W!broker, W!actors, W!histories
  <1>6. ASSUME NEW j \in HookJobs, W!ClaimExpires(j) PROVE Owned(k)'
    <2>1. /\ hookClaim[j] # W!NoNode /\ hookClaim' = [hookClaim EXCEPT ![j] = W!NoNode]
          /\ hookReady' = IF hookSetting.reclaims THEN hookReady \cup {j} ELSE hookReady
          /\ \A r \in HookRuns : hookRun[r].job = j => hookRun[r].node # hookClaim[j]
          /\ UNCHANGED <<hookJob, hookRun, hookClient, hookSent, hookRecoveries, hookResumer>>
      BY <1>6 DEF W!ClaimExpires, W!actors, W!histories
    <2>2. \A q \in HookRuns : (Has(q, k)' <=> Has(q, k)) /\ Alike(hookRun'[q], hookRun[q])
      BY <2>1 DEF Has, Busy, Alike
    <2>3. Resuming(k)' <=> Resuming(k) BY <2>1 DEF Resuming
    <2>4. CASE k # j
      <3>1. hookClaim'[k] = hookClaim[k] /\ (k \in hookReady' <=> k \in hookReady)
        BY <2>1, <2>4 DEF HookTyped, StoresTyped
      <3> QED BY <2>1, <2>2, <2>3, <3>1, Untouched
    <2>5. CASE k = j
      <3>1. \A r \in HookRuns : ~Has(r, k) BY <2>1, <2>5 DEF Has, Owned, InOnePlace
      <3>2. Waits(k) /\ hookClaim'[k] = W!NoNode BY <2>1, <2>5, <3>1 DEF Waits, HookTyped, StoresTyped
      <3>3. hookClient[k] = "done" /\ ~Resuming(k) /\ hookJob[k].status # "paused"
        BY <2>1, <2>5 DEF Owned, InOnePlace
      <3>4. InOnePlace(k)' BY <2>1, <2>2, <2>3, <3>1, <3>2, <3>3 DEF InOnePlace, Resuming
      <3>5. InBudget(k)' BY <2>1, <2>2, <3>1, <3>2, <3>3 DEF Owned, InBudget
      <3> QED BY <3>4, <3>5 DEF Owned
    <2> QED BY <2>4, <2>5
  <1> QED BY <1>1, <1>3, <1>4, <1>5, <1>6 DEF Processes

-----------------------------------------------------------------------------
(* The theorem.                                                             *)
(* Nothing is fired yet and no actor is at work.                            *)
LEMMA HookStarts == ASSUME W!Assumption PROVE W!Init => HookInv
  <1> SUFFICES ASSUME W!Init PROVE HookInv OBVIOUS
  <1> USE Values DEF W!Init, W!InitWith
  <1>1. hookSetting \in HookSettingType BY DEF W!Assumption, HookSettingType
  <1>2. HookTyped
    BY <1>1 DEF HookTyped, StoresTyped, ProcessesTyped, AtWork, Busy, W!IdleRun, W!IdleActor
  <1>3. ASSUME NEW j \in HookJobs PROVE Owned(j)
    <2>1. (\A r \in HookRuns : ~Has(r, j)) /\ ~Resuming(j) BY DEF Has, Busy, Resuming, W!IdleRun, W!IdleActor
    <2>2. InOnePlace(j) BY <2>1 DEF InOnePlace, W!NoRecord, W!IdleActor
    <2>3. InBudget(j) BY <2>1 DEF InBudget, Counted, W!NoRecord
    <2> QED BY <2>2, <2>3 DEF Owned
  <1> QED BY <1>2, <1>3 DEF HookInv

(* The actions, by what they do to a delivery.                              *)
LEMMA HookSteps ==
  ASSUME HookTyped, W!Next
  PROVE  \/ \E j \in HookJobs : \/ W!Fire(j) \/ W!Persist(j) \/ W!Enqueue(j) \/ W!Disable \/ W!Scan(j)
                                \/ \E clone \in HookJobs : W!Resend(j, clone)
         \/ W!Disable
         \/ (\E n \in hookSetting.fleet : W!Pause(n) \/ W!Resume(n)) \/ W!ResumeStep
         \/ \E r \in HookRuns : W!RunStep(r)
         \/ Flagging \/ Taking \/ Processes
  <1>1. hookSetting.fleet \subseteq HookNodes BY DEF HookTyped, StoresTyped, HookSettingType
  <1> QED BY <1>1 DEF W!Next, Flagging, Taking, Processes, W!StallStep, W!CancelStep

(* Every step keeps the invariant.                                          *)
LEMMA HookStays ==
  ASSUME W!Assumption, HookInv, [W!Next]_(W!vars)
  PROVE  HookInv'
  <1>0. HookTyped /\ \A j \in HookJobs \ hookTaken : Owned(j) BY DEF HookInv
  <1>1. CASE UNCHANGED W!vars
    <2>1. HookInv' <=> HookInv
      BY <1>1 DEF W!vars, HookInv, HookTyped, StoresTyped, ProcessesTyped, AtWork, Busy, Owned, InOnePlace,
                  InBudget, Waits, Resuming, Has
    <2> QED BY <2>1
  <1>2. ASSUME W!Next PROVE HookInv'
    <2>1. CASE \/ \E j \in HookJobs : \/ W!Fire(j) \/ W!Persist(j) \/ W!Enqueue(j) \/ W!Disable \/ W!Scan(j)
                                      \/ \E clone \in HookJobs : W!Resend(j, clone)
               \/ W!Disable
      <3>1. hookTaken' = hookTaken BY <2>1 DEF W!Fire, W!Persist, W!Enqueue, W!Disable, W!Scan, W!Resend, W!histories
      <3>2. HookTyped'
        <4>1. CASE W!Disable
          <5>1. hookSetting' \in HookSettingType BY <1>0, <4>1, Spent DEF W!Disable, W!Offers, HookTyped, StoresTyped
          <5> QED BY <1>0, <4>1, <5>1
                DEF W!Disable, HookTyped, StoresTyped, ProcessesTyped, AtWork, W!broker, W!actors, W!histories, Busy
        <4>2. CASE ~W!Disable BY <1>0, <2>1, <4>2, ClientTypes
        <4> QED BY <4>1, <4>2
      <3>3. ASSUME NEW k \in HookJobs, k \notin hookTaken' PROVE Owned(k)'
        <4>1. Owned(k) BY <1>0, <3>1, <3>3
        <4>2. PICK j \in HookJobs : \/ W!Fire(j) \/ W!Persist(j) \/ W!Enqueue(j) \/ W!Disable \/ W!Scan(j)
                                    \/ \E clone \in HookJobs : W!Resend(j, clone)
          BY <2>1, <3>3
        <4> QED BY <1>0, <4>1, <4>2, ClientKeeps
      <3> QED BY <3>2, <3>3 DEF HookInv
    <2>2. CASE (\E n \in hookSetting.fleet : W!Pause(n) \/ W!Resume(n)) \/ W!ResumeStep
      <3>1. hookTaken' = hookTaken
        BY <2>2 DEF W!Pause, W!Resume, W!ResumeStep, W!ResumeList, W!ResumeSave, W!ResumePublish, W!histories
      <3> QED BY <1>0, <2>2, <3>1, OperatorTypes, OperatorKeeps DEF HookInv
    <2>3. ASSUME NEW r \in HookRuns, W!RunStep(r) PROVE HookInv'
      <3>1. hookTaken' = hookTaken
        BY <2>3 DEF W!RunStep, W!Dispatch, W!Lease, W!Load, W!Begin, W!Gate, W!CheckCircuit, W!Send, W!Answered, W!RecordAnswer,
                    W!Blame, W!Conclude, W!Finish, W!Settle, W!histories
      <3>2. HookTyped' BY <1>0, <2>3, StartTypes, RequestTypes, OutcomeTypes, FinishTypes DEF W!RunStep
      <3>3. ASSUME NEW k \in HookJobs, k \notin hookTaken' PROVE Owned(k)'
        <4>1. Owned(k) BY <1>0, <3>1, <3>3
        <4> QED BY <1>0, <2>3, <4>1, StartKeeps, RequestKeeps, OutcomeKeeps, EndsKeep DEF W!RunStep
      <3> QED BY <3>2, <3>3 DEF HookInv
    <2>4. CASE Flagging
      <3>1. hookTaken \subseteq hookTaken'
        BY <2>4 DEF Flagging, W!LoseLease, W!StallFind, W!Cancel, W!CancelFinish, W!Stop, W!histories
      <3> QED BY <1>0, <2>4, <3>1, FlagTypes, FlagsKeep DEF HookInv
    <2>5. CASE Taking
      <3>1. hookTaken' = hookTaken BY <2>5 DEF Taking, W!StallGet, W!StallSave, W!StallNack, W!CancelSave, W!histories
      <3> QED BY <1>0, <2>5, <3>1, TakingTypes, TakingKeeps DEF HookInv
    <2>6. CASE Processes
      <3>1. hookTaken' = hookTaken
        BY <2>6 DEF Processes, W!PollAny, W!Poll, W!Stopped, W!Crash, W!Restart, W!Cool, W!LeaseLapses, W!LeaseExpires,
                    W!ClaimExpires, W!histories
      <3> QED BY <1>0, <2>6, <3>1, ProcessTypes, ProcessesKeep DEF HookInv
    <2> QED BY <1>0, <1>2, <2>1, <2>2, <2>3, <2>4, <2>5, <2>6, HookSteps
  <1> QED BY <1>1, <1>2

(* A delivery that neither a stall handler nor a cancellation took from its *)
(* run is sent at most MaxRetries + 1 times, plus once for every process    *)
(* that died with it, however pauses, resumes, resends, a refusing limiter, *)
(* the breaker, stop(), lapsing leases and crashes interleave: the attempt  *)
(* is counted in the record before its request goes out.                    *)
THEOREM DeliveriesWithinBudget == ASSUME W!Assumption PROVE W!Spec => []W!SendsWithinBudget
  <1>1. W!Init => HookInv BY HookStarts
  <1>2. HookInv /\ [W!Next]_(W!vars) => HookInv' BY HookStays
  <1>3. HookInv => W!SendsWithinBudget BY DEF HookInv, Owned, InBudget, W!SendsWithinBudget
  <1> QED BY <1>1, <1>2, <1>3, PTL DEF W!Spec

-----------------------------------------------------------------------------
(* Flow. No job before its parents: the invariant that carries it through   *)
(* the calls, the engines, the pauses and the scan, and its proof.          *)
VARIABLES flowSetting, flowRec, flowBorn, flowPlace, flowLock, flowBatchLock,
  flowDisabled, flowPaused, flowClient, flowEngine, flowAdmin, flowScan,
  flowEnded
flowVars == <<flowSetting, flowRec, flowBorn, flowPlace, flowLock, flowBatchLock,
  flowDisabled, flowPaused, flowClient, flowEngine, flowAdmin, flowScan,
  flowEnded>>
F == INSTANCE Flow WITH
  Jobs <- FlowJobs, Clients <- FlowClients, Engines <- FlowEngines,
  Settings <- FlowSettings, setting <- flowSetting, rec <- flowRec,
  born <- flowBorn, place <- flowPlace, lock <- flowLock,
  batchLock <- flowBatchLock, disabled <- flowDisabled,
  paused <- flowPaused, client <- flowClient, engine <- flowEngine,
  admin <- flowAdmin, scan <- flowScan, ended <- flowEnded

(* What a job waits for never changes, and a final status once saved stays  *)
(* in the history: a job that was ready stays ready. A record says of its   *)
(* job only what is true (Genuine), and so does every copy that is still to *)
(* be written back, however old it is.                                      *)
FlowFree == \A j \in FlowJobs : flowSetting.dependsOn[j] = {}
ReadyJob(j) == \A p \in flowSetting.dependsOn[j] : F!Satisfied(p)
Genuine(j, r) ==
  /\ r.status = "completed" => "completed" \in flowEnded[j]
  /\ r.status = "failed" => "failed" \in flowEnded[j]
  /\ r.status = "active" => ReadyJob(j)
  /\ r.status \in {"paused", "waiting-children"} => r.deps = flowSetting.dependsOn[j]
  /\ r.status = "paused" => j \in F!ToSet(flowBorn)

SomeJob == FlowJobs \cup {F!NoJob}
ClientRecord ==
  [pc : {"idle", "save", "register", "read", "write", "promote", "publish", "clone", "mark"},
   job : SomeJob, copy : F!Record, left : SUBSET FlowJobs, parent : SomeJob, seen : F!Record]
Level == [failed : BOOLEAN, left : SUBSET FlowJobs]
EngineRecord ==
  [pc : {"idle", "acquire", "refused", "activate", "gate", "giveBack", "save", "nack", "ack", "prune",
         "open", "notify", "kidFail", "kidSave", "kidPublish"},
   jobs : Seq(FlowJobs), copy : [FlowJobs -> F!Record], prev : F!Record, ready : SUBSET FlowJobs, failed : SUBSET FlowJobs,
   result : [FlowJobs -> {"ok", "bad", "drop"}], stack : Seq(Level), kid : SomeJob, seen : F!Record]
AdminRecord ==
  [pc : {"idle", "pause", "list", "next", "save", "publish", "broker"},
   checks : BOOLEAN, left : Seq(FlowJobs), copy : [FlowJobs -> F!Record], ready : BOOLEAN]
ScanRecord == [pc : {"idle", "save", "nack"}, job : SomeJob, seen : F!Record]
FlowTyped ==
  /\ flowSetting \in F!Setting /\ flowRec \in [FlowJobs -> F!Record] /\ flowBorn \in Seq(FlowJobs)
  /\ flowPlace \in [FlowJobs -> {"none", "queued", "delayed"}]
  /\ flowEnded \in [FlowJobs -> SUBSET {"completed", "failed"}]
  /\ flowClient \in [FlowClients -> ClientRecord] /\ flowEngine \in [FlowEngines -> EngineRecord]
  /\ flowAdmin \in AdminRecord /\ flowScan \in ScanRecord

SettingOk == F!ResumesFit(flowSetting) /\ \A k \in flowSetting.spare : flowSetting.dependsOn[k] = {}

RecsOk == \A j \in FlowJobs : Genuine(j, flowRec[j])
PlacesOk == \A j \in FlowJobs : flowPlace[j] # "none" => ReadyJob(j)
ClientOk(c) ==
  LET me == flowClient[c]
  IN /\ me.pc # "idle" => me.job \in FlowJobs
     /\ me.pc \in {"save", "register", "read", "write", "promote"} =>
          /\ me.copy.deps = flowSetting.dependsOn[me.job]
          /\ me.copy.status \in {"paused", "waiting-children", "delayed", "waiting"}
     /\ me.pc \in {"read", "write", "mark"} => me.parent \in FlowJobs
     /\ me.pc = "write" => Genuine(me.parent, me.seen)
     /\ me.pc \in {"clone", "mark"} =>
          /\ flowSetting.dependsOn[me.job] = {} /\ me.copy.status = "waiting"
          /\ me.parent # F!NoJob => me.seen.status = "failed" /\ Genuine(me.parent, me.seen)
     /\ me.pc \in {"promote", "publish"} => ReadyJob(me.job)
EngineGood(me) ==
  /\ me.pc \notin {"idle", "activate", "save"} => me.jobs # <<>>
  /\ \A j \in F!ToSet(me.jobs) \cup me.ready \cup me.failed : ReadyJob(j)
  /\ \A j \in FlowJobs : Genuine(j, me.copy[j])
  /\ me.pc = "gate" => Genuine(Head(me.jobs), me.prev)
  /\ me.pc = "notify" => me.stack # <<>>
  /\ me.pc \in {"open", "kidFail", "kidSave", "kidPublish"} => me.kid \in FlowJobs
  /\ me.pc \in {"kidSave", "kidPublish"} => ReadyJob(me.kid)
EngineOk(e) == EngineGood(flowEngine[e])
AdminOk ==
  /\ flowAdmin.pc \in {"save", "publish"} => flowAdmin.left # <<>>
  /\ flowAdmin.pc = "broker" => ~flowAdmin.checks
  /\ \A j \in F!ToSet(flowAdmin.left) :
       flowAdmin.copy[j].deps = flowSetting.dependsOn[j] /\ (~flowAdmin.checks => ReadyJob(j))
  /\ flowAdmin.pc = "publish" \/ (flowAdmin.pc = "save" /\ flowAdmin.ready) => ReadyJob(Head(flowAdmin.left))
ScanOk == flowScan.pc # "idle" => flowScan.job \in FlowJobs /\ ReadyJob(flowScan.job)

(* While a flow with dependencies is resumed, nothing of it is being added; *)
(* once the engine has checked, what is still held is ready.                *)
FlowResuming == flowAdmin.pc \in {"list", "next", "save", "publish", "broker"}
SettledOk ==
  FlowResuming /\ ~FlowFree =>
    /\ flowSetting.built /\ flowSetting.todo = {}
    /\ \A c \in FlowClients : flowClient[c].pc \in {"idle", "clone", "mark", "publish"}
HeldOk == FlowResuming /\ ~flowAdmin.checks => \A j \in FlowJobs : flowRec[j].status = "paused" => ReadyJob(j)

Fixed == IsFiniteSet(FlowJobs) /\ F!NoJob \notin FlowJobs
FlowInv ==
  /\ Fixed /\ FlowTyped /\ SettingOk /\ RecsOk /\ PlacesOk
  /\ \A c \in FlowClients : ClientOk(c)
  /\ \A e \in FlowEngines : EngineOk(e)
  /\ AdminOk /\ ScanOk /\ SettledOk /\ HeldOk

-----------------------------------------------------------------------------
(* Lists and finite sets. The n-th member of a finite set of numbers is     *)
(* there.                                                                   *)
LEMMA FlowRanks ==
  ASSUME NEW kept \in SUBSET Nat, IsFiniteSet(kept)
  PROVE  /\ Cardinality(kept) \in Nat
         /\ \A k \in kept : Cardinality({m \in kept : m <= k}) \in 1 .. Cardinality(kept)
         /\ \A k, l \in kept : Cardinality({m \in kept : m <= k}) = Cardinality({m \in kept : m <= l}) => k = l
         /\ \A n \in 1 .. Cardinality(kept) : \E k \in kept : Cardinality({m \in kept : m <= k}) = n
  <1> DEFINE Upto(k) == {m \in kept : m <= k}
             rank == [k \in kept |-> Cardinality(Upto(k))]
             c == Cardinality(kept)
  <1>1. c \in Nat BY FS_CardinalityType
  <1>2. ASSUME NEW k \in kept PROVE Cardinality(Upto(k)) \in 1 .. c /\ IsFiniteSet(Upto(k))
    <2>1. Upto(k) \in SUBSET kept OBVIOUS
    <2>2. IsFiniteSet(Upto(k)) /\ Cardinality(Upto(k)) <= c BY <2>1, FS_Subset
    <2>3. Cardinality(Upto(k)) \in Nat BY <2>2, FS_CardinalityType
    <2>4. k \in Upto(k) OBVIOUS
    <2>5. Cardinality(Upto(k)) # 0 BY <2>2, <2>4, FS_EmptySet
    <2> QED BY <1>1, <2>2, <2>3, <2>5
  <1>3. ASSUME NEW k \in kept, NEW l \in kept, k < l PROVE Cardinality(Upto(k)) # Cardinality(Upto(l))
    <2>a. \A m \in kept : m \in Nat OBVIOUS
    <2>b. k \in Nat /\ l \in Nat BY <2>a
    <2>c. ~(l <= k) /\ l <= l BY <2>b, <1>3
    <2>d. \A m \in kept : m <= k => m <= l BY <2>a, <2>b, <1>3
    <2>1. Upto(k) \in SUBSET Upto(l) /\ l \in Upto(l) /\ l \notin Upto(k) BY <2>c, <2>d
    <2> QED BY <1>2, <2>1, FS_Subset
  <1>4. ASSUME NEW k \in kept, NEW l \in kept, Cardinality(Upto(k)) = Cardinality(Upto(l)) PROVE k = l
    <2>1. k \in Nat /\ l \in Nat OBVIOUS
    <2>2. k < l \/ l < k \/ k = l BY <2>1
    <2> QED BY <1>3, <1>4, <2>2
  <1>5. rank \in Injection(kept, 1 .. c)
    <2>1. rank \in [kept -> 1 .. c] BY <1>2
    <2>2. \A k, l \in kept : rank[k] = rank[l] => k = l BY <1>4
    <2> HIDE DEF rank
    <2> QED BY <2>1, <2>2 DEF Injection, IsInjective
  <1>6. IsFiniteSet(1 .. c) /\ Cardinality(1 .. c) = c
    <2>1. 1 \in Int /\ c \in Int BY <1>1
    <2>2. IsFiniteSet(1 .. c) /\ Cardinality(1 .. c) = IF 1 > c THEN 0 ELSE c - 1 + 1 BY <2>1, FS_Interval
    <2> QED BY <1>1, <2>2
  <1>7. rank \in Surjection(kept, 1 .. c) BY <1>5, <1>6, FS_Injection
  <1>8. \A n \in 1 .. c : \E k \in kept : rank[k] = n BY <1>7 DEF Surjection
  <1> QED BY <1>1, <1>2, <1>4, <1>8

(* A part's copies of what the libraries define are what they define.       *)
LEMMA FlowLibrary ==
  /\ \A T : F!Cardinality(T) = Cardinality(T)
  /\ \A T : F!IsFiniteSet(T) <=> IsFiniteSet(T)
  /\ \A f : F!IsInjective(f) <=> IsInjective(f)
  <1>1. \A T : F!Cardinality(T) = Cardinality(T) BY Zenon DEF F!Cardinality, Cardinality
  <1>2. \A T : F!IsFiniteSet(T) <=> IsFiniteSet(T) BY Zenon DEF F!IsFiniteSet, IsFiniteSet
  <1>3. \A f : F!IsInjective(f) <=> IsInjective(f) BY Zenon DEF F!IsInjective, IsInjective
  <1> QED BY <1>1, <1>2, <1>3

LEMMA FlowMembers ==
  ASSUME NEW T, NEW q \in Seq(T)
  PROVE  /\ F!ToSet(q) \subseteq T
         /\ \A x : x \in F!ToSet(q) <=> \E k \in 1 .. Len(q) : q[k] = x
  BY DEF F!ToSet

LEMMA FlowLists ==
  ASSUME NEW T, NEW q \in Seq(T)
  PROVE  /\ q # <<>> => /\ Head(q) \in T /\ Head(q) \in F!ToSet(q)
                        /\ Tail(q) \in Seq(T) /\ F!ToSet(Tail(q)) \subseteq F!ToSet(q)
         /\ \A i \in T : Append(q, i) \in Seq(T) /\ F!ToSet(q) \cup {i} \subseteq F!ToSet(Append(q, i))
  <1>1. ASSUME q # <<>>
        PROVE  /\ Head(q) \in T /\ Head(q) \in F!ToSet(q)
               /\ Tail(q) \in Seq(T) /\ F!ToSet(Tail(q)) \subseteq F!ToSet(q)
    <2>1. /\ Head(q) \in T /\ Head(q) = q[1] /\ Len(q) \in Nat /\ Len(q) >= 1
          /\ Tail(q) \in Seq(T) /\ Len(Tail(q)) = Len(q) - 1
          /\ \A k \in 1 .. Len(Tail(q)) : Tail(q)[k] = q[k + 1]
      BY <1>1
    <2> DEFINE t == Tail(q)
    <2>2. \A x : x \in F!ToSet(t) <=> \E k \in 1 .. Len(t) : t[k] = x BY <2>1, FlowMembers
    <2>3. \A x : x \in F!ToSet(q) <=> \E k \in 1 .. Len(q) : q[k] = x BY FlowMembers
    <2>4. \A k \in 1 .. Len(t) : k + 1 \in 1 .. Len(q) BY <2>1
    <2> QED BY <2>1, <2>2, <2>3, <2>4
  <1>2. ASSUME NEW i \in T
        PROVE  Append(q, i) \in Seq(T) /\ F!ToSet(q) \cup {i} \subseteq F!ToSet(Append(q, i))
    <2> DEFINE r == Append(q, i)
    <2>1. /\ r \in Seq(T) /\ Len(r) = Len(q) + 1 /\ Len(q) \in Nat /\ r[Len(q) + 1] = i
          /\ \A k \in 1 .. Len(q) : r[k] = q[k] /\ k \in 1 .. Len(r)
          /\ Len(q) + 1 \in 1 .. Len(r)
      OBVIOUS
    <2> HIDE DEF r
    <2>2. \A x : x \in F!ToSet(r) <=> \E k \in 1 .. Len(r) : r[k] = x BY <2>1, FlowMembers
    <2>3. \A x : x \in F!ToSet(q) <=> \E k \in 1 .. Len(q) : q[k] = x BY FlowMembers
    <2> QED BY <2>1, <2>2, <2>3 DEF r
  <1> QED BY <1>1, <1>2

LEMMA FlowJoins ==
  ASSUME NEW T, NEW q \in Seq(T), NEW r \in Seq(T)
  PROVE  q \o r \in Seq(T) /\ F!ToSet(q \o r) \subseteq F!ToSet(q) \cup F!ToSet(r)
  <1> DEFINE s == q \o r
  <1>1. /\ s \in Seq(T) /\ Len(s) = Len(q) + Len(r) /\ Len(q) \in Nat /\ Len(r) \in Nat
        /\ \A n \in 1 .. Len(q) : s[n] = q[n]
        /\ \A n \in 1 .. Len(s) : n > Len(q) => n - Len(q) \in 1 .. Len(r) /\ s[n] = r[n - Len(q)]
    OBVIOUS
  <1> HIDE DEF s
  <1>2. \A n \in 1 .. Len(s) : n \in 1 .. Len(q) \/ n > Len(q) BY <1>1
  <1>3. \A x : x \in F!ToSet(q) <=> \E k \in 1 .. Len(q) : q[k] = x BY FlowMembers
  <1>4. \A x : x \in F!ToSet(r) <=> \E k \in 1 .. Len(r) : r[k] = x BY FlowMembers
  <1>5. \A x : x \in F!ToSet(s) <=> \E k \in 1 .. Len(s) : s[k] = x BY <1>1, FlowMembers
  <1> QED BY <1>1, <1>2, <1>3, <1>4, <1>5 DEF s

LEMMA FlowListing ==
  ASSUME NEW T, IsFiniteSet(T)
  PROVE  F!SetToSeq(T) \in Seq(T) /\ F!ToSet(F!SetToSeq(T)) = T
  <1> DEFINE c == Cardinality(T)
             q == F!SetToSeq(T)
  <1>1. c \in Nat /\ ExistsBijection(1 .. c, T) BY FS_CardinalityType
  <1>2. \E f \in [1 .. c -> T] : IsInjective(f)
    BY <1>1 DEF ExistsBijection, Bijection, Injection
  <1>3. q \in [1 .. c -> T] /\ IsInjective(q)
    <2>1. c = F!Cardinality(T) BY FlowLibrary
    <2>2. \E f \in [1 .. F!Cardinality(T) -> T] : F!IsInjective(f) BY <1>2, <2>1, FlowLibrary
    <2>3. q \in [1 .. F!Cardinality(T) -> T] /\ F!IsInjective(q) BY <2>2, Zenon DEF F!SetToSeq
    <2> QED BY <2>1, <2>3, FlowLibrary
  <1> HIDE DEF q
  <1>4. q \in Injection(1 .. c, T) BY <1>3 DEF Injection
  <1>5. IsFiniteSet(1 .. c) /\ Cardinality(1 .. c) = c
    <2>1. 1 \in Int /\ c \in Int BY <1>1
    <2>2. IsFiniteSet(1 .. c) /\ Cardinality(1 .. c) = IF 1 > c THEN 0 ELSE c - 1 + 1 BY <2>1, FS_Interval
    <2> QED BY <1>1, <2>2
  <1>6. q \in Surjection(1 .. c, T) BY <1>4, <1>5, FS_Injection
  <1>7. q \in Seq(T) /\ Len(q) = c BY <1>1, <1>3
  <1>8. \A x : x \in F!ToSet(q) <=> x \in T
    <2>1. \A x \in T : \E n \in 1 .. c : q[n] = x BY <1>6 DEF Surjection
    <2> QED BY <1>3, <1>7, <2>1, FlowMembers
  <1> QED BY <1>7, <1>8 DEF q

(* The held jobs are those whose record says paused, in the order of birth. *)
LEMMA HeldLists ==
  ASSUME FlowTyped
  PROVE  /\ F!Held \in Seq(FlowJobs) /\ \A j \in F!ToSet(F!Held) : flowRec[j].status = "paused"
         /\ F!Held = <<>> => \A j \in F!ToSet(flowBorn) : flowRec[j].status # "paused"
  <1> DEFINE q == flowBorn
             at == {n \in DOMAIN q : flowRec[q[n]].status = "paused"}
             c == Cardinality(at)
             rank(n) == Cardinality({m \in at : m <= n})
             nth(k) == CHOOSE n \in at : rank(n) = c + 1 - k
             held == F!Held
  <1>1. q \in Seq(FlowJobs) /\ DOMAIN q = 1 .. Len(q) /\ Len(q) \in Nat BY DEF FlowTyped
  <1>2. at \in SUBSET Nat /\ IsFiniteSet(at)
    <2>1. 1 \in Int /\ Len(q) \in Int BY <1>1
    <2>2. IsFiniteSet(1 .. Len(q)) BY <2>1, FS_Interval
    <2>3. at \in SUBSET (1 .. Len(q)) BY <1>1
    <2> QED BY <2>2, <2>3, FS_Subset
  <1>4. held = [k \in 1 .. c |-> q[nth(k)]] BY Zenon DEF F!Held, F!Cardinality, Cardinality
  <1>5. \A k \in 1 .. c : nth(k) \in at
    <2>1. c \in Nat BY <1>2, FS_CardinalityType
    <2>2. \A k \in 1 .. c : \E n \in at : rank(n) = k BY <1>2, FlowRanks
    <2>3. \A k \in 1 .. c : c + 1 - k \in 1 .. c BY <2>1
    <2> HIDE DEF at, c, rank
    <2> QED BY <2>2, <2>3
  <1>6. \A n \in at : c # 0
    <2>1. c \in Nat BY <1>2, FS_CardinalityType
    <2>2. \A n \in at : rank(n) \in 1 .. c BY <1>2, FlowRanks
    <2> HIDE DEF at, c, rank
    <2> QED BY <2>1, <2>2
  <1>7. c \in Nat BY <1>2, FS_CardinalityType
  <1> HIDE DEF nth, c, held
  <1>8. \A k \in 1 .. c : q[nth(k)] \in FlowJobs /\ flowRec[q[nth(k)]].status = "paused" BY <1>1, <1>5
  <1>9. held \in Seq(FlowJobs) /\ Len(held) = c
    <2>1. \A k \in 1 .. c : q[nth(k)] \in FlowJobs BY <1>8
    <2> QED BY <1>4, <1>7, <2>1, IsASeq
  <1>10. \A j \in F!ToSet(held) : flowRec[j].status = "paused"
    <2>1. \A x : x \in F!ToSet(held) <=> \E k \in 1 .. c : held[k] = x BY <1>9, FlowMembers
    <2>2. \A k \in 1 .. c : held[k] = q[nth(k)] BY <1>4
    <2> QED BY <1>8, <2>1, <2>2
  <1>11. ASSUME held = <<>> PROVE \A j \in F!ToSet(q) : flowRec[j].status # "paused"
    <2>1. c = 0 BY <1>9, <1>11
    <2>2. at = {} BY <1>6, <2>1
    <2>3. \A x : x \in F!ToSet(q) <=> \E k \in 1 .. Len(q) : q[k] = x BY <1>1, FlowMembers
    <2> QED BY <1>1, <2>2, <2>3
  <1> QED BY <1>9, <1>10, <1>11 DEF held

LEMMA FlowFinite == ASSUME FlowInv PROVE IsFiniteSet(FlowJobs)
  BY DEF FlowInv, Fixed

(* What a step leaves true: the history grows, nothing else of it matters.  *)
Grows ==
  /\ flowSetting'.dependsOn = flowSetting.dependsOn /\ flowSetting'.policy = flowSetting.policy
  /\ flowSetting'.built = flowSetting.built
  /\ flowEnded' \in [FlowJobs -> SUBSET {"completed", "failed"}]
  /\ \A j \in FlowJobs : flowEnded[j] \subseteq flowEnded'[j]
  /\ flowBorn' \in Seq(FlowJobs) /\ F!ToSet(flowBorn) \subseteq F!ToSet(flowBorn')

LEMMA StaysTrue ==
  ASSUME FlowTyped, Grows
  PROVE  /\ \A j \in FlowJobs : ReadyJob(j) => ReadyJob(j)'
         /\ \A j \in FlowJobs : \A r \in F!Record : Genuine(j, r) => Genuine(j, r)'
         /\ FlowFree' = FlowFree
  <1>1. /\ flowSetting'.dependsOn = flowSetting.dependsOn /\ flowSetting'.policy = flowSetting.policy
        /\ flowSetting.dependsOn \in [FlowJobs -> SUBSET FlowJobs]
    BY DEF FlowTyped, Grows, F!Setting
  <1>2. \A p \in FlowJobs : F!Satisfied(p) => F!Satisfied(p)' BY <1>1 DEF Grows, F!Satisfied
  <1>3. \A j \in FlowJobs : ReadyJob(j) => ReadyJob(j)'
    <2> SUFFICES ASSUME NEW j \in FlowJobs, ReadyJob(j), NEW p \in flowSetting.dependsOn[j] PROVE F!Satisfied(p)'
      BY <1>1 DEF ReadyJob
    <2>1. p \in FlowJobs /\ F!Satisfied(p) BY <1>1 DEF ReadyJob
    <2> QED BY <1>2, <2>1
  <1>4. ASSUME NEW j \in FlowJobs, NEW r \in F!Record, Genuine(j, r) PROVE Genuine(j, r)'
    <2>1. /\ r.status = "completed" => "completed" \in flowEnded'[j]
          /\ r.status = "failed" => "failed" \in flowEnded'[j]
      BY <1>4 DEF Genuine, Grows
    <2>2. r.status = "active" => ReadyJob(j)' BY <1>3, <1>4 DEF Genuine
    <2>3. /\ r.status \in {"paused", "waiting-children"} => r.deps = flowSetting'.dependsOn[j]
          /\ r.status = "paused" => j \in F!ToSet(flowBorn')
      BY <1>1, <1>4 DEF Genuine, Grows
    <2>4. F!ToSet(flowBorn)' = F!ToSet(flowBorn') BY DEF F!ToSet
    <2> QED BY <2>1, <2>2, <2>3, <2>4 DEF Genuine
  <1>5. FlowFree' = FlowFree BY <1>1 DEF FlowFree
  <1> QED BY <1>3, <1>4, <1>5

LEMMA FreeIsReady == ASSUME FlowFree PROVE \A j \in FlowJobs : ReadyJob(j)
  BY DEF FlowFree, ReadyJob

LEMMA CallerStays ==
  ASSUME FlowTyped, Grows, NEW c \in FlowClients, ClientOk(c), flowClient'[c] = flowClient[c]
  PROVE  ClientOk(c)'
  <1>1. flowClient[c] \in ClientRecord BY DEF FlowTyped
  <1>2. flowClient[c].seen \in F!Record /\ flowClient[c].parent \in SomeJob BY <1>1 DEF ClientRecord
  <1>3. flowClient[c].pc # "idle" => flowClient[c].job \in FlowJobs BY DEF ClientOk
  <1>6. flowClient[c].parent # F!NoJob => flowClient[c].parent \in FlowJobs BY <1>2 DEF SomeJob
  <1>7. flowSetting'.dependsOn = flowSetting.dependsOn BY DEF Grows
  <1>8. PICK j, p, r : j = flowClient[c].job /\ p = flowClient[c].parent /\ r = flowClient[c].seen OBVIOUS
  <1>9. ReadyJob(j) /\ j \in FlowJobs => ReadyJob(j)' BY StaysTrue
  <1>10. Genuine(p, r) /\ p \in FlowJobs => Genuine(p, r)' BY <1>2, <1>8, StaysTrue
  <1> QED BY <1>3, <1>6, <1>7, <1>8, <1>9, <1>10 DEF ClientOk

LEMMA GoodStays ==
  ASSUME FlowTyped, Grows, NEW m \in EngineRecord, EngineGood(m)
  PROVE  EngineGood(m)'
  <1>1. /\ m.copy \in [FlowJobs -> F!Record] /\ m.prev \in F!Record /\ m.jobs \in Seq(FlowJobs)
        /\ m.ready \subseteq FlowJobs /\ m.failed \subseteq FlowJobs
    BY DEF EngineRecord
  <1>2. F!ToSet(m.jobs) \subseteq FlowJobs BY <1>1, FlowMembers
  <1>3. \A j \in F!ToSet(m.jobs) \cup m.ready \cup m.failed : ReadyJob(j)'
    BY <1>1, <1>2, StaysTrue DEF EngineGood
  <1>4. \A j \in FlowJobs : Genuine(j, m.copy[j])' BY <1>1, StaysTrue DEF EngineGood
  <1>5. m.pc = "gate" => Genuine(Head(m.jobs), m.prev)'
    <2> SUFFICES ASSUME m.pc = "gate" PROVE Genuine(Head(m.jobs), m.prev)' OBVIOUS
    <2>1. m.jobs # <<>> /\ Genuine(Head(m.jobs), m.prev) BY DEF EngineGood
    <2>2. Head(m.jobs) \in FlowJobs BY <1>1, <2>1, FlowLists
    <2> QED BY <1>1, <2>1, <2>2, StaysTrue
  <1>6. m.pc \in {"kidSave", "kidPublish"} => ReadyJob(m.kid)' BY StaysTrue DEF EngineGood
  <1>7. F!ToSet(m.jobs)' = F!ToSet(m.jobs) BY DEF F!ToSet
  <1> QED BY <1>3, <1>4, <1>5, <1>6, <1>7 DEF EngineGood

LEMMA EngineStays ==
  ASSUME FlowTyped, Grows, NEW e \in FlowEngines, EngineOk(e), flowEngine'[e] = flowEngine[e]
  PROVE  EngineOk(e)'
  <1>1. PICK m : m = flowEngine[e] OBVIOUS
  <1>2. m \in EngineRecord /\ EngineGood(m) BY <1>1 DEF FlowTyped, EngineOk
  <1>3. EngineGood(m)' BY <1>2, GoodStays
  <1>4. m = flowEngine'[e] BY <1>1
  <1> QED BY <1>3, <1>4 DEF EngineOk

LEMMA AdminStays ==
  ASSUME FlowTyped, Grows, AdminOk, flowAdmin' = flowAdmin
  PROVE  AdminOk'
  <1>1. flowAdmin.left \in Seq(FlowJobs) BY DEF FlowTyped, AdminRecord
  <1>2. F!ToSet(flowAdmin.left) \subseteq FlowJobs BY <1>1, FlowMembers
  <1>3. flowAdmin.left # <<>> => Head(flowAdmin.left) \in FlowJobs BY <1>1, FlowLists
  <1>4. F!ToSet(flowAdmin.left)' = F!ToSet(flowAdmin.left) BY DEF F!ToSet
  <1>5. flowSetting'.dependsOn = flowSetting.dependsOn BY DEF Grows
  <1>6. \A j \in F!ToSet(flowAdmin.left) : ReadyJob(j) => ReadyJob(j)' BY <1>2, StaysTrue
  <1>7. flowAdmin.pc = "publish" \/ (flowAdmin.pc = "save" /\ flowAdmin.ready) => ReadyJob(Head(flowAdmin.left))'
    BY <1>3, StaysTrue DEF AdminOk
  <1> QED BY <1>4, <1>5, <1>6, <1>7 DEF AdminOk

LEMMA ScanStays == ASSUME FlowTyped, Grows, ScanOk, flowScan' = flowScan PROVE ScanOk'
  BY StaysTrue DEF ScanOk

(* What a step writes: records that say what is true, ids that are ready.   *)
Writes ==
  /\ flowRec' \in [FlowJobs -> F!Record]
  /\ \A j \in FlowJobs : flowRec'[j] = flowRec[j] \/ Genuine(j, flowRec[j])'
Holds == \A j \in FlowJobs : flowRec'[j] = flowRec[j] \/ flowRec'[j].status # "paused" \/ ReadyJob(j) \/ ~FlowResuming
Places ==
  /\ flowPlace' \in [FlowJobs -> {"none", "queued", "delayed"}]
  /\ \A j \in FlowJobs : flowPlace'[j] # "none" => flowPlace[j] # "none" \/ ReadyJob(j)

LEMMA RecsStay == ASSUME FlowTyped, Grows, RecsOk, Writes PROVE RecsOk'
  <1> SUFFICES ASSUME NEW j \in FlowJobs PROVE Genuine(j, flowRec[j])' BY DEF RecsOk
  <1>1. CASE flowRec'[j] = flowRec[j]
    <2>1. flowRec[j] \in F!Record /\ Genuine(j, flowRec[j]) BY DEF FlowTyped, RecsOk
    <2>2. PICK r : r = flowRec[j] OBVIOUS
    <2>3. Genuine(j, r)' BY <2>1, <2>2, StaysTrue
    <2>4. r = flowRec'[j] BY <1>1, <2>2
    <2> QED BY <2>3, <2>4
  <1> QED BY <1>1 DEF Writes

LEMMA PlacesStay == ASSUME FlowTyped, Grows, PlacesOk, Places PROVE PlacesOk'
  BY StaysTrue DEF PlacesOk, Places

LEMMA HeldStays == ASSUME FlowTyped, Grows, HeldOk, Writes, Holds, flowAdmin' = flowAdmin PROVE HeldOk'
  <1> SUFFICES ASSUME FlowResuming, ~flowAdmin.checks, NEW j \in FlowJobs, flowRec'[j].status = "paused" PROVE ReadyJob(j)'
    BY DEF HeldOk, FlowResuming
  <1>1. ReadyJob(j) BY DEF HeldOk, Holds
  <1> QED BY <1>1, StaysTrue

(* A step of an engine, of a caller, or of the scan, by what it moves.      *)
LEMMA EngineMoves ==
  ASSUME FlowInv, NEW e \in FlowEngines, NEW m \in EngineRecord, EngineGood(m),
         flowEngine' = [flowEngine EXCEPT ![e] = m], Grows, Writes, Holds, Places,
         UNCHANGED <<flowSetting, flowClient, flowAdmin, flowScan>>
  PROVE  FlowInv'
  <1>1. Fixed /\ FlowTyped /\ SettingOk /\ RecsOk /\ PlacesOk /\ AdminOk /\ ScanOk /\ SettledOk /\ HeldOk
        /\ (\A c \in FlowClients : ClientOk(c)) /\ \A d \in FlowEngines : EngineOk(d)
    BY DEF FlowInv
  <1>a. flowEngine' \in [FlowEngines -> EngineRecord] /\ flowEngine'[e] = m
        /\ \A d \in FlowEngines : d # e => flowEngine'[d] = flowEngine[d]
    BY <1>1 DEF FlowTyped
  <1>0. Fixed' BY <1>1 DEF Fixed
  <1>2. FlowTyped' BY <1>1, <1>a DEF FlowTyped, Grows, Writes, Places
  <1>3. SettingOk' BY <1>1 DEF SettingOk, F!ResumesFit
  <1>4. RecsOk' BY <1>1, RecsStay
  <1>5. PlacesOk' BY <1>1, PlacesStay
  <1>6. \A c \in FlowClients : ClientOk(c)' BY <1>1, CallerStays
  <1>7. \A d \in FlowEngines : EngineOk(d)'
    <2>1. EngineGood(m)' BY <1>1, GoodStays
    <2>2. m = flowEngine'[e] BY <1>a
    <2>3. EngineOk(e)' BY <2>1, <2>2 DEF EngineOk
    <2>4. \A d \in FlowEngines : d # e => EngineOk(d)' BY <1>1, <1>a, EngineStays
    <2> QED BY <2>3, <2>4
  <1>8. AdminOk' BY <1>1, AdminStays
  <1>9. ScanOk' BY <1>1, ScanStays
  <1>10. SettledOk' BY <1>1 DEF SettledOk, FlowResuming, FlowFree
  <1>11. HeldOk' BY <1>1, HeldStays
  <1> QED BY <1>0, <1>2, <1>3, <1>4, <1>5, <1>6, <1>7, <1>8, <1>9, <1>10, <1>11 DEF FlowInv

LEMMA ScanMoves ==
  ASSUME FlowInv, Grows, Writes, Holds, Places, UNCHANGED <<flowClient, flowEngine, flowAdmin>>,
         flowSetting' \in F!Setting, SettingOk', flowSetting'.todo \subseteq flowSetting.todo,
         flowScan' \in ScanRecord, ScanOk'
  PROVE  FlowInv'
  <1>1. Fixed /\ FlowTyped /\ SettingOk /\ RecsOk /\ PlacesOk /\ AdminOk /\ ScanOk /\ SettledOk /\ HeldOk
        /\ (\A c \in FlowClients : ClientOk(c)) /\ \A d \in FlowEngines : EngineOk(d)
    BY DEF FlowInv
  <1>0. Fixed' BY <1>1 DEF Fixed
  <1>2. FlowTyped' BY <1>1 DEF FlowTyped, Grows, Writes, Places
  <1>4. RecsOk' BY <1>1, RecsStay
  <1>5. PlacesOk' BY <1>1, PlacesStay
  <1>6. \A c \in FlowClients : ClientOk(c)' BY <1>1, CallerStays
  <1>7. \A d \in FlowEngines : EngineOk(d)' BY <1>1, EngineStays
  <1>8. AdminOk' BY <1>1, AdminStays
  <1>9. FlowFree' = FlowFree BY <1>1, StaysTrue
  <1>10. SettledOk' BY <1>1, <1>9 DEF SettledOk, FlowResuming, Grows
  <1>11. HeldOk' BY <1>1, HeldStays
  <1> QED BY <1>0, <1>2, <1>4, <1>5, <1>6, <1>7, <1>8, <1>10, <1>11 DEF FlowInv

LEMMA CallerMoves ==
  ASSUME FlowInv, NEW c \in FlowClients, Grows, Writes, Holds, Places, UNCHANGED <<flowEngine, flowAdmin, flowScan>>,
         flowSetting' \in F!Setting, SettingOk', flowSetting'.todo \subseteq flowSetting.todo,
         flowClient' \in [FlowClients -> ClientRecord],
         \A d \in FlowClients : d # c => flowClient'[d] = flowClient[d],
         ClientOk(c)',
         flowClient'[c].pc \in {"idle", "clone", "mark", "publish"} \/ ~FlowResuming \/ FlowFree
  PROVE  FlowInv'
  <1>1. Fixed /\ FlowTyped /\ SettingOk /\ RecsOk /\ PlacesOk /\ AdminOk /\ ScanOk /\ SettledOk /\ HeldOk
        /\ (\A d \in FlowClients : ClientOk(d)) /\ \A d \in FlowEngines : EngineOk(d)
    BY DEF FlowInv
  <1>0. Fixed' BY <1>1 DEF Fixed
  <1>2. FlowTyped' BY <1>1 DEF FlowTyped, Grows, Writes, Places
  <1>4. RecsOk' BY <1>1, RecsStay
  <1>5. PlacesOk' BY <1>1, PlacesStay
  <1>6. \A d \in FlowClients : ClientOk(d)' BY <1>1, CallerStays
  <1>7. \A d \in FlowEngines : EngineOk(d)' BY <1>1, EngineStays
  <1>8. AdminOk' BY <1>1, AdminStays
  <1>9. FlowFree' = FlowFree BY <1>1, StaysTrue
  <1>10. SettledOk' BY <1>1, <1>9 DEF SettledOk, FlowResuming, Grows
  <1>11. HeldOk' BY <1>1, HeldStays
  <1>12. ScanOk' BY <1>1, ScanStays
  <1> QED BY <1>0, <1>2, <1>4, <1>5, <1>6, <1>7, <1>8, <1>10, <1>11, <1>12 DEF FlowInv

LEMMA AdminMoves ==
  ASSUME FlowInv, Grows, Writes, Places, UNCHANGED <<flowClient, flowEngine, flowScan>>,
         flowSetting' \in F!Setting, SettingOk', flowAdmin' \in AdminRecord, AdminOk', SettledOk', HeldOk'
  PROVE  FlowInv'
  <1>1. Fixed /\ FlowTyped /\ SettingOk /\ RecsOk /\ PlacesOk /\ AdminOk /\ ScanOk /\ SettledOk /\ HeldOk
        /\ (\A d \in FlowClients : ClientOk(d)) /\ \A d \in FlowEngines : EngineOk(d)
    BY DEF FlowInv
  <1>0. Fixed' BY <1>1 DEF Fixed
  <1>2. FlowTyped' BY <1>1 DEF FlowTyped, Grows, Writes, Places
  <1>4. RecsOk' BY <1>1, RecsStay
  <1>5. PlacesOk' BY <1>1, PlacesStay
  <1>6. \A d \in FlowClients : ClientOk(d)' BY <1>1, CallerStays
  <1>7. \A d \in FlowEngines : EngineOk(d)' BY <1>1, EngineStays
  <1>12. ScanOk' BY <1>1, ScanStays
  <1> QED BY <1>0, <1>2, <1>4, <1>5, <1>6, <1>7, <1>12 DEF FlowInv

(* Steps that write nothing, one record, or one place.                      *)
LEMMA HistoryStays ==
  ASSUME FlowTyped, UNCHANGED <<flowEnded, flowBorn>>,
         flowSetting'.dependsOn = flowSetting.dependsOn, flowSetting'.policy = flowSetting.policy,
         flowSetting'.built = flowSetting.built
  PROVE  Grows
  <1>1. F!ToSet(flowBorn') = F!ToSet(flowBorn) OBVIOUS
  <1> QED BY <1>1 DEF Grows, FlowTyped

LEMMA NoWrite ==
  ASSUME FlowTyped
  PROVE  (flowRec' = flowRec => Writes /\ Holds) /\ (flowPlace' = flowPlace => Places)
  BY DEF Writes, Holds, Places, FlowTyped

LEMMA OneWrite ==
  ASSUME FlowTyped, NEW j \in FlowJobs, NEW r \in F!Record, F!Save(j, r), Genuine(j, r)'
  PROVE  Writes /\ (r.status # "paused" \/ ReadyJob(j) \/ ~FlowResuming => Holds)
  <1>1. flowRec' = [flowRec EXCEPT ![j] = r] /\ flowRec \in [FlowJobs -> F!Record] BY DEF F!Save, FlowTyped
  <1>2. flowRec' \in [FlowJobs -> F!Record] /\ flowRec'[j] = r /\ \A i \in FlowJobs : i # j => flowRec'[i] = flowRec[i] BY <1>1
  <1>3. ASSUME NEW i \in FlowJobs PROVE flowRec'[i] = flowRec[i] \/ Genuine(i, flowRec[i])'
    <2>1. CASE i = j
      <3>1. r = flowRec'[i] BY <1>2, <2>1
      <3> QED BY <2>1, <3>1
    <2> QED BY <1>2, <2>1
  <1>4. r.status # "paused" \/ ReadyJob(j) \/ ~FlowResuming => Holds BY <1>2 DEF Holds
  <1> QED BY <1>2, <1>3, <1>4 DEF Writes

LEMMA OnePut ==
  ASSUME FlowTyped, NEW j \in FlowJobs, NEW list \in {"none", "queued", "delayed"}, F!Put(j, list),
         list # "none" => ReadyJob(j)
  PROVE  Places
  BY DEF Places, F!Put, FlowTyped

LEMMA OfferTaken ==
  ASSUME FlowTyped, SettingOk, NEW call \in F!Calls, F!Offered(call)
  PROVE  /\ flowSetting' \in F!Setting /\ SettingOk' /\ flowSetting'.todo = flowSetting.todo
         /\ flowSetting'.dependsOn = flowSetting.dependsOn /\ flowSetting'.policy = flowSetting.policy
         /\ flowSetting'.built = flowSetting.built
         /\ call = "publisherResume" => FlowFree
         /\ call = "resume" => FlowFree \/ flowSetting.built
  <1>1. flowSetting \in F!Setting /\ flowSetting.offers \in [F!Calls -> Nat] /\ flowSetting.offers[call] > 0
        /\ flowSetting' = [flowSetting EXCEPT !.offers[call] = @ - 1]
    BY DEF FlowTyped, F!Offered, F!Setting
  <1>2. /\ flowSetting' \in F!Setting /\ flowSetting'.todo = flowSetting.todo /\ flowSetting'.spare = flowSetting.spare
        /\ flowSetting'.dependsOn = flowSetting.dependsOn /\ flowSetting'.policy = flowSetting.policy
        /\ flowSetting'.built = flowSetting.built
        /\ \A k \in F!Calls : flowSetting.offers[k] = 0 => flowSetting'.offers[k] = 0
    BY <1>1 DEF F!Setting
  <1>3. SettingOk' BY <1>2 DEF SettingOk, F!ResumesFit, F!Calls
  <1> QED BY <1>1, <1>2, <1>3 DEF SettingOk, F!ResumesFit, FlowFree, F!Calls

(* The calls. A caller takes the job's dependencies with it, and goes on to *)
(* publish it when it has none or has seen them completed.                  *)
LEMMA CallerFacts ==
  ASSUME FlowInv, NEW c \in FlowClients
  PROVE  /\ FlowTyped /\ SettingOk /\ RecsOk /\ ClientOk(c) /\ SettledOk
         /\ flowClient \in [FlowClients -> ClientRecord] /\ flowClient[c] \in ClientRecord
         /\ flowSetting.dependsOn \in [FlowJobs -> SUBSET FlowJobs] /\ flowRec \in [FlowJobs -> F!Record]
         /\ flowSetting \in F!Setting
         /\ F!Absent \in F!Record /\ F!IdleClient \in ClientRecord
         /\ F!NoJob \notin FlowJobs
         /\ flowClient[c].pc \notin {"idle", "clone", "mark", "publish"} => ~FlowResuming \/ FlowFree
  <1>1. FlowTyped /\ SettingOk /\ RecsOk /\ ClientOk(c) /\ SettledOk BY DEF FlowInv
  <1>2. /\ flowClient \in [FlowClients -> ClientRecord] /\ flowClient[c] \in ClientRecord
        /\ flowSetting.dependsOn \in [FlowJobs -> SUBSET FlowJobs] /\ flowRec \in [FlowJobs -> F!Record]
        /\ flowSetting \in F!Setting
    BY <1>1 DEF FlowTyped, F!Setting
  <1>3. F!Absent \in F!Record BY DEF F!Absent, F!Record, F!Statuses
  <1>4. F!IdleClient \in ClientRecord BY <1>3 DEF F!IdleClient, ClientRecord, SomeJob
  <1>5. F!NoJob \notin FlowJobs BY DEF FlowInv, Fixed
  <1> QED BY <1>1, <1>2, <1>3, <1>4, <1>5 DEF SettledOk

LEMMA AddStartKeeps ==
  ASSUME FlowInv, NEW c \in FlowClients, NEW j \in FlowJobs, F!AddStart(c, j)
  PROVE  FlowInv'
  <1> DEFINE started == [F!IdleClient EXCEPT !.pc = "save", !.job = j, !.copy = F!Added(j), !.left = flowSetting.dependsOn[j]]
  <1> USE CallerFacts
  <1>1. /\ flowClient[c].pc = "idle" /\ j \in flowSetting.todo /\ flowSetting' = [flowSetting EXCEPT !.todo = @ \ {j}]
        /\ flowClient' = [flowClient EXCEPT ![c] = IF \E p \in flowSetting.dependsOn[j] : flowRec[p].status = "absent"
                                                   THEN F!IdleClient ELSE started]
        /\ UNCHANGED <<flowRec, flowBorn, flowPlace, flowEngine, flowAdmin, flowScan, flowEnded>>
    BY DEF F!AddStart
  <1>2. /\ flowSetting' \in F!Setting /\ flowSetting'.todo \subseteq flowSetting.todo
        /\ flowSetting'.spare = flowSetting.spare /\ flowSetting'.offers = flowSetting.offers
        /\ flowSetting'.dependsOn = flowSetting.dependsOn /\ flowSetting'.policy = flowSetting.policy
        /\ flowSetting'.built = flowSetting.built
    BY <1>1 DEF F!Setting
  <1>3. SettingOk' BY <1>2 DEF SettingOk, F!ResumesFit
  <1>4. Grows BY <1>1, <1>2, HistoryStays
  <1>5. Writes /\ Holds /\ Places BY <1>1, NoWrite
  <1>6. F!Added(j) \in F!Record /\ F!Added(j).deps = flowSetting.dependsOn[j]
        /\ F!Added(j).status \in {"paused", "waiting-children", "delayed", "waiting"}
    BY DEF F!Added, F!Absent, F!Record, F!Statuses
  <1>7. started \in ClientRecord /\ started.pc = "save" /\ started.job = j /\ started.copy = F!Added(j)
    BY <1>6 DEF F!IdleClient, ClientRecord, SomeJob
  <1>8. /\ flowClient' \in [FlowClients -> ClientRecord] /\ flowClient'[c] \in {F!IdleClient, started}
        /\ \A d \in FlowClients : d # c => flowClient'[d] = flowClient[d]
    BY <1>1, <1>7
  <1> HIDE DEF started
  <1>9. ClientOk(c)' BY <1>2, <1>6, <1>7, <1>8 DEF ClientOk, F!IdleClient
  <1>10. ~FlowResuming \/ FlowFree BY <1>1 DEF SettledOk
  <1> QED BY <1>1, <1>2, <1>3, <1>4, <1>5, <1>8, <1>9, <1>10, CallerMoves

LEMMA AddSaveKeeps ==
  ASSUME FlowInv, NEW c \in FlowClients, F!AddSave(c)
  PROVE  FlowInv'
  <1> USE CallerFacts
  <1>1. PICK j, r : j = flowClient[c].job /\ r = flowClient[c].copy OBVIOUS
  <1>2. /\ flowClient[c].pc = "save" /\ F!Save(j, r)
        /\ flowBorn' = IF j \in F!ToSet(flowBorn) THEN flowBorn ELSE Append(flowBorn, j)
        /\ UNCHANGED <<flowSetting, flowPlace, flowEngine, flowAdmin, flowScan, flowEnded>>
    BY <1>1 DEF F!AddSave, F!Saves
  <1>3. /\ j \in FlowJobs /\ r \in F!Record /\ r.deps = flowSetting.dependsOn[j]
        /\ r.status \in {"paused", "waiting-children", "delayed", "waiting"}
    BY <1>1, <1>2 DEF ClientOk, ClientRecord
  <1>4. flowBorn \in Seq(FlowJobs) BY DEF FlowTyped
  <1>5. flowBorn' \in Seq(FlowJobs) /\ F!ToSet(flowBorn) \cup {j} \subseteq F!ToSet(flowBorn') BY <1>2, <1>3, <1>4, FlowLists
  <1>6. Grows BY <1>2, <1>5 DEF Grows, FlowTyped
  <1>7. Genuine(j, r)'
    <2>1. F!ToSet(flowBorn)' = F!ToSet(flowBorn') BY DEF F!ToSet
    <2> QED BY <1>2, <1>3, <1>5, <2>1 DEF Genuine
  <1>8. ~FlowResuming \/ FlowFree BY <1>2
  <1>9. Writes /\ Holds BY <1>2, <1>3, <1>7, <1>8, OneWrite, FreeIsReady
  <1>10. Places BY <1>2, NoWrite
  <1>11. flowClient' = [flowClient EXCEPT ![c] = F!IdleClient]
         \/ (r.deps # {} /\ flowClient' = [flowClient EXCEPT ![c].pc = "register"])
         \/ (r.deps = {} /\ flowClient' = [flowClient EXCEPT ![c].pc = "publish"])
    BY <1>1 DEF F!AddSave, F!Leaves, F!Goto
  <1>12. /\ flowClient' \in [FlowClients -> ClientRecord]
         /\ \A d \in FlowClients : d # c => flowClient'[d] = flowClient[d]
    BY <1>11 DEF ClientRecord
  <1>13. ClientOk(c)'
    <2>1. CASE flowClient' = [flowClient EXCEPT ![c] = F!IdleClient] BY <2>1 DEF ClientOk, F!IdleClient
    <2>2. CASE flowClient' = [flowClient EXCEPT ![c].pc = "register"]
      <3>1. flowClient'[c] = [flowClient[c] EXCEPT !.pc = "register"] BY <2>2
      <3>2. flowClient'[c].pc = "register" /\ flowClient'[c].job = j /\ flowClient'[c].copy = r BY <1>1, <3>1 DEF ClientRecord
      <3> QED BY <1>2, <1>3, <3>2 DEF ClientOk
    <2>3. CASE r.deps = {} /\ flowClient' = [flowClient EXCEPT ![c].pc = "publish"]
      <3>1. flowClient'[c] = [flowClient[c] EXCEPT !.pc = "publish"] BY <2>3
      <3>2. flowClient'[c].pc = "publish" /\ flowClient'[c].job = j BY <1>1, <3>1 DEF ClientRecord
      <3>3. ReadyJob(j) BY <1>3, <2>3 DEF ReadyJob
      <3>4. ReadyJob(j)' BY <1>3, <1>6, <3>3, StaysTrue
      <3> QED BY <1>3, <3>2, <3>4 DEF ClientOk
    <2> QED BY <1>11, <2>1, <2>2, <2>3
  <1>14. flowSetting' \in F!Setting /\ SettingOk' /\ flowSetting'.todo \subseteq flowSetting.todo
    BY <1>2 DEF SettingOk, F!ResumesFit
  <1> QED BY <1>2, <1>6, <1>8, <1>9, <1>10, <1>12, <1>13, <1>14, CallerMoves

LEMMA RegisterLockKeeps ==
  ASSUME FlowInv, NEW c \in FlowClients, F!RegisterLock(c)
  PROVE  FlowInv'
  <1> USE CallerFacts
  <1>1. PICK p \in flowClient[c].left :
          /\ flowClient' = [flowClient EXCEPT ![c].pc = "read", ![c].parent = p, ![c].left = @ \ {p}]
          /\ flowSetting' = flowSetting \/ F!Offered("impatient")
    BY DEF F!RegisterLock
  <1>2. flowClient[c].pc = "register" /\ UNCHANGED <<flowRec, flowBorn, flowPlace, flowEngine, flowAdmin, flowScan, flowEnded>>
    BY DEF F!RegisterLock
  <1>3. /\ flowSetting' \in F!Setting /\ SettingOk' /\ flowSetting'.todo = flowSetting.todo
        /\ flowSetting'.dependsOn = flowSetting.dependsOn /\ flowSetting'.policy = flowSetting.policy
        /\ flowSetting'.built = flowSetting.built
    <2>1. CASE flowSetting' = flowSetting BY <2>1 DEF SettingOk, F!ResumesFit
    <2>2. CASE F!Offered("impatient")
      <3>1. "impatient" \in F!Calls BY DEF F!Calls
      <3> QED BY <2>2, <3>1, OfferTaken
    <2> QED BY <1>1, <2>1, <2>2
  <1>4. Grows BY <1>2, <1>3, HistoryStays
  <1>5. Writes /\ Holds /\ Places BY <1>2, NoWrite
  <1>6. p \in FlowJobs BY <1>1 DEF ClientRecord
  <1>7. flowClient'[c] = [flowClient[c] EXCEPT !.pc = "read", !.parent = p, !.left = @ \ {p}]
        /\ \A d \in FlowClients : d # c => flowClient'[d] = flowClient[d]
    BY <1>1
  <1>8. flowClient'[c] \in ClientRecord /\ flowClient'[c].pc = "read" /\ flowClient'[c].parent = p
        /\ flowClient'[c].job = flowClient[c].job /\ flowClient'[c].copy = flowClient[c].copy
    <2>1. PICK me, m : me = flowClient[c] /\ m = flowClient'[c] OBVIOUS
    <2>2. PICK rest : rest = me.left \ {p} OBVIOUS
    <2>3. me \in ClientRecord /\ p \in SomeJob BY <1>6, <2>1 DEF SomeJob
    <2>4. rest \subseteq FlowJobs BY <2>2, <2>3 DEF ClientRecord
    <2>5. m = [me EXCEPT !.pc = "read", !.parent = p, !.left = rest] BY <1>7, <2>1, <2>2
    <2>6. m \in ClientRecord /\ m.pc = "read" /\ m.parent = p /\ m.job = me.job /\ m.copy = me.copy
      BY <2>3, <2>4, <2>5 DEF ClientRecord
    <2> QED BY <2>1, <2>6
  <1>9. flowClient' \in [FlowClients -> ClientRecord] BY <1>1, <1>7, <1>8
  <1>10. ClientOk(c)' BY <1>2, <1>3, <1>6, <1>8 DEF ClientOk
  <1>11. ~FlowResuming \/ FlowFree BY <1>2
  <1> QED BY <1>2, <1>3, <1>4, <1>5, <1>7, <1>9, <1>10, <1>11, CallerMoves

LEMMA RegisterReadKeeps ==
  ASSUME FlowInv, NEW c \in FlowClients, F!RegisterRead(c)
  PROVE  FlowInv'
  <1> USE CallerFacts
  <1>1. PICK p, r : p = flowClient[c].parent /\ r = flowRec[p] OBVIOUS
  <1>2. /\ flowClient[c].pc = "read" /\ UNCHANGED <<flowSetting, flowRec, flowBorn, flowPlace, flowEngine, flowAdmin, flowScan, flowEnded>>
        /\ flowClient' = [flowClient EXCEPT ![c].seen = r, ![c].pc = IF r.status = "absent" THEN "register" ELSE "write"]
    BY <1>1 DEF F!RegisterRead
  <1>3. p \in FlowJobs /\ r \in F!Record /\ Genuine(p, r) BY <1>1, <1>2 DEF ClientOk, RecsOk
  <1>4. Grows BY <1>2, HistoryStays
  <1>5. Writes /\ Holds /\ Places BY <1>2, NoWrite
  <1>6. flowClient'[c] = [flowClient[c] EXCEPT !.seen = r, !.pc = IF r.status = "absent" THEN "register" ELSE "write"]
        /\ \A d \in FlowClients : d # c => flowClient'[d] = flowClient[d]
    BY <1>2
  <1>7. /\ flowClient'[c] \in ClientRecord /\ flowClient'[c].pc \in {"register", "write"}
        /\ flowClient'[c].parent = p /\ flowClient'[c].seen = r
        /\ flowClient'[c].job = flowClient[c].job /\ flowClient'[c].copy = flowClient[c].copy
    BY <1>1, <1>3, <1>6 DEF ClientRecord
  <1>8. flowClient' \in [FlowClients -> ClientRecord] BY <1>2, <1>6, <1>7
  <1>9. Genuine(p, r)' BY <1>3, <1>4, StaysTrue
  <1>10. ClientOk(c)' BY <1>2, <1>3, <1>7, <1>9 DEF ClientOk
  <1>11. ~FlowResuming \/ FlowFree BY <1>2
  <1>12. flowSetting' \in F!Setting /\ SettingOk' /\ flowSetting'.todo \subseteq flowSetting.todo
    BY <1>2 DEF SettingOk, F!ResumesFit
  <1> QED BY <1>2, <1>4, <1>5, <1>6, <1>8, <1>10, <1>11, <1>12, CallerMoves

LEMMA RegisterSaveKeeps ==
  ASSUME FlowInv, NEW c \in FlowClients, F!RegisterSave(c)
  PROVE  FlowInv'
  <1> USE CallerFacts
  <1>1. PICK p, seen, r : /\ p = flowClient[c].parent /\ seen = flowClient[c].seen
                          /\ r = [seen EXCEPT !.kids = @ \cup {flowClient[c].job}]
    OBVIOUS
  <1>2. /\ flowClient[c].pc = "write" /\ F!Save(p, r)
        /\ UNCHANGED <<flowSetting, flowBorn, flowPlace, flowEngine, flowAdmin, flowScan, flowEnded>>
        /\ flowClient' = [flowClient EXCEPT ![c].pc = "register", ![c].seen = F!Absent]
    BY <1>1 DEF F!RegisterSave
  <1>3. p \in FlowJobs /\ seen \in F!Record /\ Genuine(p, seen) /\ flowClient[c].job \in FlowJobs
    BY <1>1, <1>2 DEF ClientOk, ClientRecord
  <1>4. r \in F!Record /\ r.status = seen.status /\ r.deps = seen.deps BY <1>1, <1>3 DEF F!Record
  <1>5. Genuine(p, r) BY <1>3, <1>4 DEF Genuine
  <1>6. Grows BY <1>2, HistoryStays
  <1>7. Genuine(p, r)' BY <1>3, <1>4, <1>5, <1>6, StaysTrue
  <1>8. ~FlowResuming \/ FlowFree BY <1>2
  <1>9. Writes /\ Holds BY <1>2, <1>3, <1>4, <1>7, <1>8, OneWrite, FreeIsReady
  <1>10. Places BY <1>2, NoWrite
  <1>11. flowClient'[c] = [flowClient[c] EXCEPT !.pc = "register", !.seen = F!Absent]
         /\ \A d \in FlowClients : d # c => flowClient'[d] = flowClient[d]
    BY <1>2
  <1>12. /\ flowClient'[c] \in ClientRecord /\ flowClient'[c].pc = "register"
         /\ flowClient'[c].job = flowClient[c].job /\ flowClient'[c].copy = flowClient[c].copy
    BY <1>11 DEF ClientRecord
  <1>13. flowClient' \in [FlowClients -> ClientRecord] BY <1>2, <1>11, <1>12
  <1>14. ClientOk(c)' BY <1>2, <1>12 DEF ClientOk
  <1>15. flowSetting' \in F!Setting /\ SettingOk' /\ flowSetting'.todo \subseteq flowSetting.todo
    BY <1>2 DEF SettingOk, F!ResumesFit
  <1> QED BY <1>2, <1>6, <1>8, <1>9, <1>10, <1>11, <1>13, <1>14, <1>15, CallerMoves

(* A record that says completed is of a job that has completed.             *)
LEMMA CompletedParents ==
  ASSUME FlowTyped, RecsOk, NEW deps \in SUBSET FlowJobs, F!CanProceed(deps)
  PROVE  \A p \in deps : F!Satisfied(p)
  BY DEF F!CanProceed, RecsOk, Genuine, F!Satisfied

LEMMA RegisteredKeeps ==
  ASSUME FlowInv, NEW c \in FlowClients, F!Registered(c)
  PROVE  FlowInv'
  <1> USE CallerFacts
  <1>1. PICK j, deps : j = flowClient[c].job /\ deps = flowClient[c].copy.deps OBVIOUS
  <1>2. /\ flowClient[c].pc = "register" /\ UNCHANGED <<flowSetting, flowRec, flowBorn, flowPlace, flowEngine, flowAdmin, flowScan, flowEnded>>
        /\ \/ flowClient' = [flowClient EXCEPT ![c] = F!IdleClient]
           \/ F!CanProceed(deps) /\ flowClient' = [flowClient EXCEPT ![c].pc = "promote"]
    BY <1>1 DEF F!Registered, F!Goto, F!Leaves
  <1>3. j \in FlowJobs /\ deps = flowSetting.dependsOn[j] /\ deps \in SUBSET FlowJobs BY <1>1, <1>2 DEF ClientOk
  <1>4. Grows BY <1>2, HistoryStays
  <1>5. Writes /\ Holds /\ Places BY <1>2, NoWrite
  <1>6. /\ flowClient' \in [FlowClients -> ClientRecord] /\ \A d \in FlowClients : d # c => flowClient'[d] = flowClient[d]
    BY <1>2 DEF ClientRecord
  <1>7. ClientOk(c)'
    <2>1. CASE flowClient' = [flowClient EXCEPT ![c] = F!IdleClient] BY <2>1 DEF ClientOk, F!IdleClient
    <2>2. CASE F!CanProceed(deps) /\ flowClient' = [flowClient EXCEPT ![c].pc = "promote"]
      <3>1. flowClient'[c] = [flowClient[c] EXCEPT !.pc = "promote"] BY <2>2
      <3>2. flowClient'[c].pc = "promote" /\ flowClient'[c].job = j /\ flowClient'[c].copy = flowClient[c].copy
        BY <1>1, <3>1 DEF ClientRecord
      <3>3. ReadyJob(j) BY <1>3, <2>2, CompletedParents DEF ReadyJob
      <3>4. ReadyJob(j)' BY <1>3, <1>4, <3>3, StaysTrue
      <3> QED BY <1>1, <1>2, <1>3, <3>2, <3>4 DEF ClientOk
    <2> QED BY <1>2, <2>1, <2>2
  <1>8. ~FlowResuming \/ FlowFree BY <1>2
  <1>9. flowSetting' \in F!Setting /\ SettingOk' /\ flowSetting'.todo \subseteq flowSetting.todo
    BY <1>2 DEF SettingOk, F!ResumesFit
  <1> QED BY <1>2, <1>4, <1>5, <1>6, <1>7, <1>8, <1>9, CallerMoves

LEMMA AddPromoteKeeps ==
  ASSUME FlowInv, NEW c \in FlowClients, F!AddPromote(c)
  PROVE  FlowInv'
  <1> USE CallerFacts
  <1>1. PICK j, r : j = flowClient[c].job /\ r = [flowClient[c].copy EXCEPT !.status = "waiting"] OBVIOUS
  <1>2. /\ flowClient[c].pc = "promote" /\ F!Save(j, r) /\ flowClient' = [flowClient EXCEPT ![c].pc = "publish"]
        /\ UNCHANGED <<flowSetting, flowBorn, flowPlace, flowEngine, flowAdmin, flowScan, flowEnded>>
    BY <1>1 DEF F!AddPromote, F!Goto
  <1>3. j \in FlowJobs /\ flowClient[c].copy \in F!Record /\ ReadyJob(j) BY <1>1, <1>2 DEF ClientOk, ClientRecord
  <1>4. r \in F!Record /\ r.status = "waiting" BY <1>1, <1>3 DEF F!Record, F!Statuses
  <1>5. Genuine(j, r)' BY <1>4 DEF Genuine
  <1>6. Grows BY <1>2, HistoryStays
  <1>7. Writes /\ Holds /\ Places BY <1>2, <1>3, <1>4, <1>5, OneWrite, NoWrite
  <1>8. flowClient'[c] = [flowClient[c] EXCEPT !.pc = "publish"] /\ \A d \in FlowClients : d # c => flowClient'[d] = flowClient[d]
    BY <1>2
  <1>9. flowClient'[c] \in ClientRecord /\ flowClient'[c].pc = "publish" /\ flowClient'[c].job = j
    BY <1>1, <1>8 DEF ClientRecord
  <1>10. flowClient' \in [FlowClients -> ClientRecord] BY <1>2, <1>8, <1>9
  <1>11. ReadyJob(j)' BY <1>3, <1>6, StaysTrue
  <1>12. ClientOk(c)' BY <1>3, <1>9, <1>11 DEF ClientOk
  <1>13. flowSetting' \in F!Setting /\ SettingOk' /\ flowSetting'.todo \subseteq flowSetting.todo
    BY <1>2 DEF SettingOk, F!ResumesFit
  <1> QED BY <1>2, <1>6, <1>7, <1>8, <1>9, <1>10, <1>12, <1>13, CallerMoves

LEMMA AddPublishKeeps ==
  ASSUME FlowInv, NEW c \in FlowClients, F!AddPublish(c)
  PROVE  FlowInv'
  <1> USE CallerFacts
  <1>1. PICK j : j = flowClient[c].job OBVIOUS
  <1>2. /\ flowClient[c].pc = "publish" /\ flowClient' = [flowClient EXCEPT ![c] = F!IdleClient]
        /\ F!Put(j, "delayed") \/ F!Put(j, "queued")
        /\ UNCHANGED <<flowSetting, flowRec, flowBorn, flowEngine, flowAdmin, flowScan, flowEnded>>
    BY <1>1 DEF F!AddPublish, F!Leaves
  <1>3. j \in FlowJobs /\ ReadyJob(j) BY <1>1, <1>2 DEF ClientOk
  <1>4. Grows BY <1>2, HistoryStays
  <1>5. Writes /\ Holds BY <1>2, NoWrite
  <1>6. Places BY <1>2, <1>3, OnePut
  <1>7. flowClient' \in [FlowClients -> ClientRecord] /\ flowClient'[c] = F!IdleClient
        /\ \A d \in FlowClients : d # c => flowClient'[d] = flowClient[d]
    BY <1>2
  <1>8. ClientOk(c)' BY <1>7 DEF ClientOk, F!IdleClient
  <1>9. flowClient'[c].pc = "idle" BY <1>7 DEF F!IdleClient
  <1>10. flowSetting' \in F!Setting /\ SettingOk' /\ flowSetting'.todo \subseteq flowSetting.todo
    BY <1>2 DEF SettingOk, F!ResumesFit
  <1> QED BY <1>2, <1>4, <1>5, <1>6, <1>7, <1>8, <1>9, <1>10, CallerMoves

LEMMA CloneKeeps ==
  ASSUME FlowInv, NEW c \in FlowClients, NEW j \in FlowJobs, NEW k \in FlowJobs, NEW call \in {"retry", "rerun"},
         F!Clone(c, j, k, call)
  PROVE  FlowInv'
  <1> USE CallerFacts
  <1>1. PICK r, m : /\ r = flowRec[j]
                    /\ m = [F!IdleClient EXCEPT !.pc = "clone", !.job = k,
                              !.parent = IF call = "retry" THEN j ELSE F!NoJob, !.seen = r,
                              !.copy = [r EXCEPT !.status = "waiting", !.attempt = 0]]
    OBVIOUS
  <1>2. /\ k \in flowSetting.spare /\ flowSetting.offers[call] > 0 /\ flowClient' = [flowClient EXCEPT ![c] = m]
        /\ flowSetting' = [flowSetting EXCEPT !.spare = @ \ {k}, !.offers[call] = @ - 1]
        /\ call = "retry" => r.status = "failed"
        /\ UNCHANGED <<flowRec, flowBorn, flowPlace, flowEngine, flowAdmin, flowScan, flowEnded>>
    BY <1>1 DEF F!Clone
  <1>3. r \in F!Record /\ Genuine(j, r) BY <1>1 DEF RecsOk
  <1>4. flowSetting.offers \in [F!Calls -> Nat] /\ call \in F!Calls BY DEF F!Setting, F!Calls
  <1>5. /\ flowSetting' \in F!Setting /\ flowSetting'.todo = flowSetting.todo /\ flowSetting'.spare \subseteq flowSetting.spare
        /\ flowSetting'.dependsOn = flowSetting.dependsOn /\ flowSetting'.policy = flowSetting.policy
        /\ flowSetting'.built = flowSetting.built
        /\ \A i \in F!Calls : flowSetting.offers[i] = 0 => flowSetting'.offers[i] = 0
    <2>1. PICK left, fewer : left = [flowSetting.offers EXCEPT ![call] = @ - 1] /\ fewer = flowSetting.spare \ {k}
      OBVIOUS
    <2>2. left \in [F!Calls -> Nat] /\ \A i \in F!Calls : flowSetting.offers[i] = 0 => left[i] = 0
      BY <1>2, <1>4, <2>1
    <2>3. fewer \in SUBSET FlowJobs /\ fewer \subseteq flowSetting.spare BY <2>1 DEF F!Setting
    <2>4. flowSetting' = [flowSetting EXCEPT !.spare = fewer, !.offers = left] BY <1>2, <2>1
    <2> QED BY <2>2, <2>3, <2>4 DEF F!Setting
  <1>6. SettingOk' BY <1>5 DEF SettingOk, F!ResumesFit, F!Calls
  <1>7. Grows BY <1>2, <1>5, HistoryStays
  <1>8. Writes /\ Holds /\ Places BY <1>2, NoWrite
  <1>9. PICK copy : copy = [r EXCEPT !.status = "waiting", !.attempt = 0] OBVIOUS
  <1>10. copy \in F!Record /\ copy.status = "waiting" BY <1>3, <1>9 DEF F!Record, F!Statuses
  <1>11. /\ m \in ClientRecord /\ m.pc = "clone" /\ m.job = k /\ m.copy = copy /\ m.seen = r
         /\ m.parent \in {j, F!NoJob} /\ (m.parent # F!NoJob => m.parent = j /\ call = "retry")
    BY <1>1, <1>3, <1>9, <1>10 DEF F!IdleClient, ClientRecord, SomeJob
  <1>12. flowClient' \in [FlowClients -> ClientRecord] /\ flowClient'[c] = m
         /\ \A d \in FlowClients : d # c => flowClient'[d] = flowClient[d]
    BY <1>2, <1>11
  <1>13. flowSetting.dependsOn[k] = {} BY <1>2 DEF SettingOk
  <1>14. Genuine(j, r)' BY <1>3, <1>7, StaysTrue
  <1>15. ClientOk(c)' BY <1>2, <1>5, <1>10, <1>11, <1>12, <1>13, <1>14 DEF ClientOk
  <1> QED BY <1>2, <1>5, <1>6, <1>7, <1>8, <1>11, <1>12, <1>15, CallerMoves

LEMMA CloneSaveKeeps ==
  ASSUME FlowInv, NEW c \in FlowClients, F!CloneSave(c)
  PROVE  FlowInv'
  <1> USE CallerFacts
  <1>1. PICK k, r, p, s : /\ k = flowClient[c].job /\ r = flowClient[c].copy
                          /\ p = flowClient[c].parent /\ s = flowClient[c].seen
    OBVIOUS
  <1>2. /\ flowClient[c].pc = "clone" /\ F!Save(k, r)
        /\ flowBorn' = IF k \in F!ToSet(flowBorn) THEN flowBorn ELSE Append(flowBorn, k)
        /\ flowClient' = [flowClient EXCEPT ![c].pc = IF p = F!NoJob THEN "publish" ELSE "mark"]
        /\ UNCHANGED <<flowSetting, flowPlace, flowEngine, flowAdmin, flowScan, flowEnded>>
    BY <1>1 DEF F!CloneSave, F!Saves, F!Goto
  <1>3. /\ k \in FlowJobs /\ r \in F!Record /\ r.status = "waiting" /\ flowSetting.dependsOn[k] = {}
        /\ p # F!NoJob => p \in FlowJobs /\ s \in F!Record /\ s.status = "failed" /\ Genuine(p, s)
    BY <1>1, <1>2 DEF ClientOk, ClientRecord, SomeJob
  <1>4. flowBorn \in Seq(FlowJobs) BY DEF FlowTyped
  <1>5. flowBorn' \in Seq(FlowJobs) /\ F!ToSet(flowBorn) \subseteq F!ToSet(flowBorn') BY <1>2, <1>3, <1>4, FlowLists
  <1>6. Grows BY <1>2, <1>5 DEF Grows, FlowTyped
  <1>7. Genuine(k, r)' BY <1>3 DEF Genuine
  <1>8. Writes /\ Holds /\ Places BY <1>2, <1>3, <1>7, OneWrite, NoWrite
  <1>9. flowClient'[c] = [flowClient[c] EXCEPT !.pc = IF p = F!NoJob THEN "publish" ELSE "mark"]
        /\ \A d \in FlowClients : d # c => flowClient'[d] = flowClient[d]
    BY <1>2
  <1>10. /\ flowClient'[c] \in ClientRecord /\ flowClient'[c].pc = IF p = F!NoJob THEN "publish" ELSE "mark"
         /\ flowClient'[c].job = k /\ flowClient'[c].copy = r /\ flowClient'[c].parent = p /\ flowClient'[c].seen = s
    BY <1>1, <1>9 DEF ClientRecord
  <1>11. flowClient' \in [FlowClients -> ClientRecord] BY <1>2, <1>9, <1>10
  <1>12. ReadyJob(k) BY <1>3 DEF ReadyJob
  <1>13. ReadyJob(k)' BY <1>3, <1>6, <1>12, StaysTrue
  <1>14. p # F!NoJob => Genuine(p, s)' BY <1>3, <1>6, StaysTrue
  <1>15. ClientOk(c)' BY <1>2, <1>3, <1>10, <1>13, <1>14 DEF ClientOk
  <1>16. flowSetting' \in F!Setting /\ SettingOk' /\ flowSetting'.todo \subseteq flowSetting.todo
    BY <1>2 DEF SettingOk, F!ResumesFit
  <1> QED BY <1>2, <1>6, <1>8, <1>9, <1>10, <1>11, <1>15, <1>16, CallerMoves

LEMMA CloneMarkKeeps ==
  ASSUME FlowInv, NEW c \in FlowClients, F!CloneMark(c)
  PROVE  FlowInv'
  <1> USE CallerFacts
  <1>1. PICK k, p, s : k = flowClient[c].job /\ p = flowClient[c].parent /\ s = flowClient[c].seen OBVIOUS
  <1>2. /\ flowClient[c].pc = "mark" /\ F!Save(p, s) /\ flowClient' = [flowClient EXCEPT ![c].pc = "publish"]
        /\ UNCHANGED <<flowSetting, flowBorn, flowPlace, flowEngine, flowAdmin, flowScan, flowEnded>>
    BY <1>1 DEF F!CloneMark, F!Goto
  <1>3. /\ k \in FlowJobs /\ flowSetting.dependsOn[k] = {}
        /\ p \in FlowJobs /\ s \in F!Record /\ s.status = "failed" /\ Genuine(p, s)
    BY <1>1, <1>2 DEF ClientOk, ClientRecord
  <1>4. Grows BY <1>2, HistoryStays
  <1>5. Genuine(p, s)' BY <1>3, <1>4, StaysTrue
  <1>6. Writes /\ Holds /\ Places BY <1>2, <1>3, <1>5, OneWrite, NoWrite
  <1>7. flowClient'[c] = [flowClient[c] EXCEPT !.pc = "publish"] /\ \A d \in FlowClients : d # c => flowClient'[d] = flowClient[d]
    BY <1>2
  <1>8. flowClient'[c] \in ClientRecord /\ flowClient'[c].pc = "publish" /\ flowClient'[c].job = k
    BY <1>1, <1>7 DEF ClientRecord
  <1>9. flowClient' \in [FlowClients -> ClientRecord] BY <1>2, <1>7, <1>8
  <1>10. ReadyJob(k) BY <1>3 DEF ReadyJob
  <1>11. ReadyJob(k)' BY <1>3, <1>4, <1>10, StaysTrue
  <1>12. ClientOk(c)' BY <1>3, <1>8, <1>11 DEF ClientOk
  <1>13. flowSetting' \in F!Setting /\ SettingOk' /\ flowSetting'.todo \subseteq flowSetting.todo
    BY <1>2 DEF SettingOk, F!ResumesFit
  <1> QED BY <1>2, <1>4, <1>6, <1>7, <1>8, <1>9, <1>12, <1>13, CallerMoves

LEMMA CallersKeep ==
  ASSUME FlowInv, NEW c \in FlowClients, F!ClientStep(c)
  PROVE  FlowInv'
  BY AddStartKeeps, AddSaveKeeps, RegisterLockKeeps, RegisterReadKeeps, RegisterSaveKeeps, RegisteredKeeps,
     AddPromoteKeeps, AddPublishKeeps, CloneKeeps, CloneSaveKeeps, CloneMarkKeeps DEF F!ClientStep

(* The scan: it writes "stalled" over a record that said active, and        *)
(* publishes the id: what was executed was ready.                           *)
LEMMA ScanFindKeeps ==
  ASSUME FlowInv, NEW j \in FlowJobs, F!ScanFind(j)
  PROVE  FlowInv'
  <1>1. FlowTyped /\ SettingOk /\ RecsOk BY DEF FlowInv
  <1>2. PICK r : r = flowRec[j] OBVIOUS
  <1>3. r.status = "active" /\ r \in F!Record /\ Genuine(j, r) BY <1>1, <1>2 DEF F!ScanFind, RecsOk, FlowTyped
  <1>4. "scan" \in F!Calls BY DEF F!Calls
  <1>5. /\ flowSetting' \in F!Setting /\ SettingOk' /\ flowSetting'.todo = flowSetting.todo
        /\ flowSetting'.dependsOn = flowSetting.dependsOn /\ flowSetting'.policy = flowSetting.policy
        /\ flowSetting'.built = flowSetting.built
    BY <1>1, <1>4, OfferTaken DEF F!ScanFind
  <1>6. UNCHANGED <<flowRec, flowBorn, flowPlace, flowClient, flowEngine, flowAdmin, flowEnded>> /\ flowScan' = [pc |-> "save", job |-> j, seen |-> r]
    BY <1>2 DEF F!ScanFind
  <1>7. Grows BY <1>1, <1>5, <1>6, HistoryStays
  <1>8. Writes /\ Holds /\ Places BY <1>1, <1>6, NoWrite
  <1>9. flowScan' \in ScanRecord BY <1>3, <1>6 DEF ScanRecord, SomeJob
  <1>10. ReadyJob(j) BY <1>3 DEF Genuine
  <1>11. ReadyJob(j)' BY <1>1, <1>7, <1>10, StaysTrue
  <1>12. ScanOk' BY <1>6, <1>11 DEF ScanOk
  <1> QED BY <1>5, <1>6, <1>7, <1>8, <1>9, <1>12, ScanMoves

LEMMA ScanSaveKeeps ==
  ASSUME FlowInv, F!ScanSave
  PROVE  FlowInv'
  <1>1. FlowTyped /\ SettingOk /\ ScanOk /\ flowScan \in ScanRecord BY DEF FlowInv, FlowTyped
  <1>2. PICK j, r : j = flowScan.job /\ r = [flowScan.seen EXCEPT !.status = "stalled"] OBVIOUS
  <1>3. /\ flowScan.pc = "save" /\ F!Save(j, r) /\ flowScan' = [flowScan EXCEPT !.pc = "nack"]
        /\ UNCHANGED <<flowSetting, flowBorn, flowPlace, flowClient, flowEngine, flowAdmin, flowEnded>>
    BY <1>2 DEF F!ScanSave
  <1>4. j \in FlowJobs /\ ReadyJob(j) /\ flowScan.seen \in F!Record BY <1>1, <1>2, <1>3 DEF ScanOk, ScanRecord
  <1>5. r \in F!Record /\ r.status = "stalled" BY <1>2, <1>4 DEF F!Record, F!Statuses
  <1>6. Genuine(j, r)' BY <1>5 DEF Genuine
  <1>7. Grows BY <1>1, <1>3, HistoryStays
  <1>8. Writes /\ Holds /\ Places BY <1>1, <1>3, <1>4, <1>5, <1>6, OneWrite, NoWrite
  <1>9. flowScan' \in ScanRecord /\ flowScan'.job = j BY <1>1, <1>2, <1>3 DEF ScanRecord
  <1>10. ReadyJob(j)' BY <1>1, <1>4, <1>7, StaysTrue
  <1>11. ScanOk' BY <1>4, <1>9, <1>10 DEF ScanOk
  <1>12. flowSetting' \in F!Setting /\ SettingOk' /\ flowSetting'.todo \subseteq flowSetting.todo
    BY <1>1, <1>3 DEF SettingOk, F!ResumesFit, FlowTyped
  <1> QED BY <1>3, <1>7, <1>8, <1>9, <1>11, <1>12, ScanMoves

LEMMA ScanNackKeeps ==
  ASSUME FlowInv, F!ScanNack
  PROVE  FlowInv'
  <1>1. FlowTyped /\ SettingOk /\ ScanOk BY DEF FlowInv
  <1>2. PICK j : j = flowScan.job OBVIOUS
  <1>3. /\ flowScan.pc = "nack" /\ F!Put(j, "queued") /\ flowScan' = F!IdleScan
        /\ UNCHANGED <<flowSetting, flowRec, flowBorn, flowClient, flowEngine, flowAdmin, flowEnded>>
    BY <1>2 DEF F!ScanNack
  <1>4. j \in FlowJobs /\ ReadyJob(j) BY <1>1, <1>2, <1>3 DEF ScanOk
  <1>5. Grows BY <1>1, <1>3, HistoryStays
  <1>6. Writes /\ Holds BY <1>1, <1>3, NoWrite
  <1>7. Places BY <1>1, <1>3, <1>4, OnePut
  <1>8. flowScan' \in ScanRecord /\ flowScan'.pc = "idle"
    BY <1>3 DEF F!IdleScan, ScanRecord, SomeJob, F!Absent, F!Record, F!Statuses
  <1>9. ScanOk' BY <1>8 DEF ScanOk
  <1>10. flowSetting' \in F!Setting /\ SettingOk' /\ flowSetting'.todo \subseteq flowSetting.todo
    BY <1>1, <1>3 DEF SettingOk, F!ResumesFit, FlowTyped
  <1> QED BY <1>3, <1>5, <1>6, <1>7, <1>8, <1>9, <1>10, ScanMoves

LEMMA FlowComesDueKeeps ==
  ASSUME FlowInv, NEW j \in FlowJobs, F!ComesDue(j)
  PROVE  FlowInv'
  <1>1. FlowTyped /\ SettingOk /\ ScanOk /\ PlacesOk BY DEF FlowInv
  <1>2. /\ flowPlace[j] = "delayed" /\ F!Put(j, "queued")
        /\ UNCHANGED <<flowSetting, flowRec, flowBorn, flowClient, flowEngine, flowAdmin, flowScan, flowEnded>>
    BY DEF F!ComesDue
  <1>3. ReadyJob(j) BY <1>1, <1>2 DEF PlacesOk
  <1>4. Grows BY <1>1, <1>2, HistoryStays
  <1>5. Writes /\ Holds BY <1>1, <1>2, NoWrite
  <1>6. Places BY <1>1, <1>2, <1>3, OnePut
  <1>7. flowScan' \in ScanRecord /\ ScanOk' BY <1>1, <1>2, <1>4, ScanStays DEF FlowTyped
  <1>8. flowSetting' \in F!Setting /\ SettingOk' /\ flowSetting'.todo \subseteq flowSetting.todo
    BY <1>1, <1>2 DEF SettingOk, F!ResumesFit, FlowTyped
  <1> QED BY <1>2, <1>4, <1>5, <1>6, <1>7, <1>8, ScanMoves

(* Pause and resume. Once the engine's listing has found no held job, what  *)
(* is held later was ready when it was put back.                            *)
LEMMA AdminFacts ==
  ASSUME FlowInv
  PROVE  /\ FlowTyped /\ SettingOk /\ RecsOk /\ AdminOk /\ SettledOk /\ HeldOk
         /\ flowAdmin \in AdminRecord /\ flowRec \in [FlowJobs -> F!Record] /\ flowSetting \in F!Setting
         /\ flowSetting.dependsOn \in [FlowJobs -> SUBSET FlowJobs] /\ flowAdmin.left \in Seq(FlowJobs)
         /\ flowAdmin.copy \in [FlowJobs -> F!Record] /\ F!ToSet(flowAdmin.left) \subseteq FlowJobs
         /\ F!IdleAdmin \in AdminRecord /\ F!IdleAdmin.left = <<>> /\ F!ToSet(<<>>) = {}
  <1>1. /\ FlowTyped /\ SettingOk /\ RecsOk /\ AdminOk /\ SettledOk /\ HeldOk
        /\ flowAdmin \in AdminRecord /\ flowRec \in [FlowJobs -> F!Record] /\ flowSetting \in F!Setting
    BY DEF FlowInv, FlowTyped
  <1>2. /\ flowSetting.dependsOn \in [FlowJobs -> SUBSET FlowJobs] /\ flowAdmin.left \in Seq(FlowJobs)
        /\ flowAdmin.copy \in [FlowJobs -> F!Record]
    BY <1>1 DEF F!Setting, AdminRecord
  <1>3. F!ToSet(flowAdmin.left) \subseteq FlowJobs BY <1>2, FlowMembers
  <1>4. F!Absent \in F!Record BY DEF F!Absent, F!Record, F!Statuses
  <1>5. <<>> \in Seq(FlowJobs) OBVIOUS
  <1>6. [j \in FlowJobs |-> F!Absent] \in [FlowJobs -> F!Record] BY <1>4
  <1>7. F!IdleAdmin \in AdminRecord /\ F!IdleAdmin.left = <<>> BY <1>5, <1>6 DEF F!IdleAdmin, AdminRecord
  <1>8. \A x : x \in F!ToSet(<<>>) <=> \E k \in 1 .. Len(<<>>) : <<>>[k] = x BY <1>5, FlowMembers
  <1>9. F!ToSet(<<>>) = {}
    <2>1. Len(<<>>) = 0 OBVIOUS
    <2>2. \A k \in 1 .. 0 : FALSE OBVIOUS
    <2> QED BY <1>8, <2>1, <2>2
  <1> QED BY <1>1, <1>2, <1>3, <1>7, <1>9

LEMMA PauseKeeps ==
  ASSUME FlowInv, F!Pause
  PROVE  FlowInv'
  <1> USE AdminFacts
  <1>1. "pause" \in F!Calls BY DEF F!Calls
  <1>2. /\ flowSetting' \in F!Setting /\ SettingOk' /\ flowSetting'.todo = flowSetting.todo
        /\ flowSetting'.dependsOn = flowSetting.dependsOn /\ flowSetting'.policy = flowSetting.policy
        /\ flowSetting'.built = flowSetting.built
    BY <1>1, OfferTaken DEF F!Pause
  <1>3. /\ flowAdmin.pc = "idle" /\ flowAdmin' = [flowAdmin EXCEPT !.pc = "pause"]
        /\ UNCHANGED <<flowRec, flowBorn, flowPlace, flowClient, flowEngine, flowScan, flowEnded>>
    BY DEF F!Pause
  <1>4. Grows BY <1>2, <1>3, HistoryStays
  <1>5. Writes /\ Places BY <1>3, NoWrite
  <1>6. flowAdmin' \in AdminRecord /\ flowAdmin'.pc = "pause" /\ flowAdmin'.left = flowAdmin.left
        /\ flowAdmin'.copy = flowAdmin.copy /\ flowAdmin'.checks = flowAdmin.checks
    BY <1>3 DEF AdminRecord
  <1>7. F!ToSet(flowAdmin.left)' = F!ToSet(flowAdmin.left) BY <1>6 DEF F!ToSet
  <1>8. \A j \in F!ToSet(flowAdmin.left) : ReadyJob(j) => ReadyJob(j)' BY <1>4, StaysTrue
  <1>9. AdminOk' BY <1>2, <1>6, <1>7, <1>8 DEF AdminOk
  <1>10. SettledOk' /\ HeldOk' BY <1>6 DEF SettledOk, HeldOk, FlowResuming
  <1> QED BY <1>2, <1>3, <1>4, <1>5, <1>6, <1>9, <1>10, AdminMoves

LEMMA SettingStays == ASSUME FlowInv, UNCHANGED flowSetting PROVE flowSetting' \in F!Setting /\ SettingOk'
  BY DEF FlowInv, FlowTyped, SettingOk, F!ResumesFit

LEMMA PauseBrokerKeeps ==
  ASSUME FlowInv, F!PauseBroker
  PROVE  FlowInv'
  <1> USE AdminFacts
  <1>1. flowAdmin' = F!IdleAdmin /\ UNCHANGED <<flowSetting, flowRec, flowBorn, flowPlace, flowClient, flowEngine, flowScan, flowEnded>>
    BY DEF F!PauseBroker
  <1>2. Grows BY <1>1, HistoryStays
  <1>3. Writes /\ Places BY <1>1, NoWrite
  <1>4. flowSetting' \in F!Setting /\ SettingOk' BY <1>1, SettingStays
  <1>5. F!ToSet(flowAdmin.left)' = {} BY <1>1 DEF F!ToSet
  <1>6. flowAdmin'.pc = "idle" /\ flowAdmin' \in AdminRecord BY <1>1 DEF F!IdleAdmin
  <1>7. AdminOk' BY <1>5, <1>6 DEF AdminOk
  <1>8. SettledOk' /\ HeldOk' BY <1>6 DEF SettledOk, HeldOk, FlowResuming
  <1> QED BY <1>1, <1>2, <1>3, <1>4, <1>6, <1>7, <1>8, AdminMoves

LEMMA ResumeKeeps ==
  ASSUME FlowInv, NEW call \in {"resume", "publisherResume"}, F!Resume(call)
  PROVE  FlowInv'
  <1> USE AdminFacts
  <1>1. call \in F!Calls BY DEF F!Calls
  <1>2. /\ flowSetting' \in F!Setting /\ SettingOk' /\ flowSetting'.todo = flowSetting.todo
        /\ flowSetting'.dependsOn = flowSetting.dependsOn /\ flowSetting'.policy = flowSetting.policy
        /\ flowSetting'.built = flowSetting.built
        /\ call = "publisherResume" => FlowFree
        /\ call = "resume" => FlowFree \/ flowSetting.built
    BY <1>1, OfferTaken DEF F!Resume
  <1>3. /\ flowAdmin.pc = "idle" /\ UNCHANGED <<flowRec, flowBorn, flowPlace, flowClient, flowEngine, flowScan, flowEnded>>
        /\ flowSetting.built => flowSetting.todo = {} /\ \A c \in FlowClients : flowClient[c].pc = "idle"
        /\ flowAdmin' = [flowAdmin EXCEPT !.pc = IF call = "resume" THEN "list" ELSE "broker", !.checks = call = "resume"]
    <2>1. flowSetting.built => flowSetting'.todo = {} /\ ~F!Adding BY <1>2 DEF F!Resume
    <2> QED BY <1>2, <2>1 DEF F!Resume, F!Adding
  <1>4. Grows BY <1>2, <1>3, HistoryStays
  <1>5. Writes /\ Places BY <1>3, NoWrite
  <1>6. /\ flowAdmin' \in AdminRecord /\ flowAdmin'.left = flowAdmin.left /\ flowAdmin'.copy = flowAdmin.copy
        /\ flowAdmin'.pc = (IF call = "resume" THEN "list" ELSE "broker") /\ flowAdmin'.checks = (call = "resume")
    BY <1>3 DEF AdminRecord
  <1>7. F!ToSet(flowAdmin.left)' = F!ToSet(flowAdmin.left) BY <1>6 DEF F!ToSet
  <1>8. call = "publisherResume" => \A j \in FlowJobs : ReadyJob(j)' BY <1>2, <1>4, StaysTrue, FreeIsReady
  <1>9. AdminOk' BY <1>2, <1>6, <1>7, <1>8 DEF AdminOk
  <1>10. FlowFree' = FlowFree BY <1>4, StaysTrue
  <1>11. SettledOk' BY <1>2, <1>3, <1>10 DEF SettledOk
  <1>12. HeldOk' BY <1>6, <1>8 DEF HeldOk
  <1> QED BY <1>2, <1>3, <1>4, <1>5, <1>6, <1>9, <1>11, <1>12, AdminMoves

(* The steps of a resume under way.                                         *)
LEMMA ResumeGoesOn ==
  ASSUME FlowInv, FlowResuming, Grows, Writes, Places, UNCHANGED <<flowSetting, flowClient, flowEngine, flowScan>>,
         flowAdmin' \in AdminRecord, AdminOk', FlowResuming' /\ ~flowAdmin'.checks => HeldOk'
  PROVE  FlowInv'
  <1> USE AdminFacts
  <1>1. flowSetting' \in F!Setting /\ SettingOk' BY SettingStays
  <1>2. SettledOk' BY DEF SettledOk, FlowFree
  <1>3. HeldOk' BY DEF HeldOk
  <1> QED BY <1>1, <1>2, <1>3, AdminMoves

LEMMA ListHeldKeeps ==
  ASSUME FlowInv, F!ListHeld
  PROVE  FlowInv'
  <1> USE AdminFacts
  <1>1. PICK held : held = F!Held OBVIOUS
  <1> DEFINE copies == [j \in FlowJobs |-> IF j \in F!ToSet(held) THEN flowRec[j] ELSE F!Absent]
  <1>2. /\ flowAdmin.pc = "list" /\ UNCHANGED <<flowSetting, flowRec, flowBorn, flowPlace, flowClient, flowEngine, flowScan, flowEnded>>
        /\ flowAdmin' = IF held # <<>> THEN [flowAdmin EXCEPT !.pc = "next", !.left = held, !.copy = copies]
                        ELSE IF flowAdmin.checks THEN [F!IdleAdmin EXCEPT !.pc = "broker"] ELSE F!IdleAdmin
    BY <1>1 DEF F!ListHeld
  <1>3. FlowResuming BY <1>2 DEF FlowResuming
  <1>4. Grows BY <1>2, HistoryStays
  <1>5. Writes /\ Places BY <1>2, NoWrite
  <1>6. /\ held \in Seq(FlowJobs) /\ \A j \in F!ToSet(held) : flowRec[j].status = "paused"
        /\ held = <<>> => \A j \in F!ToSet(flowBorn) : flowRec[j].status # "paused"
    BY <1>1, HeldLists
  <1>7. F!ToSet(held) \subseteq FlowJobs BY <1>6, FlowMembers
  <1>8. F!Absent \in F!Record BY DEF F!Absent, F!Record, F!Statuses
  <1>9. copies \in [FlowJobs -> F!Record] /\ \A j \in F!ToSet(held) : copies[j] = flowRec[j] BY <1>7, <1>8
  <1> HIDE DEF copies
  <1>10. \A j \in F!ToSet(held) : copies[j].deps = flowSetting.dependsOn[j]
    BY <1>6, <1>7, <1>9 DEF RecsOk, Genuine
  <1>11. ~flowAdmin.checks => \A j \in F!ToSet(held) : ReadyJob(j) BY <1>3, <1>6, <1>7 DEF HeldOk
  <1>12. \A j \in FlowJobs : ReadyJob(j) => ReadyJob(j)' BY <1>4, StaysTrue
  <1>13. CASE held # <<>>
    <2>1. /\ flowAdmin' \in AdminRecord /\ flowAdmin'.pc = "next" /\ flowAdmin'.left = held /\ flowAdmin'.copy = copies
          /\ flowAdmin'.checks = flowAdmin.checks
      BY <1>2, <1>6, <1>9, <1>13 DEF AdminRecord
    <2>2. F!ToSet(flowAdmin.left)' = F!ToSet(held) BY <2>1 DEF F!ToSet
    <2>3. AdminOk' BY <1>2, <1>7, <1>10, <1>11, <1>12, <2>1, <2>2 DEF AdminOk
    <2>4. ~flowAdmin'.checks => HeldOk' BY <1>2, <1>3, <1>12, <2>1 DEF HeldOk
    <2> QED BY <1>2, <1>3, <1>4, <1>5, <2>1, <2>3, <2>4, ResumeGoesOn
  <1>14. CASE held = <<>>
    <2>1. \A j \in FlowJobs : flowRec[j].status # "paused" BY <1>6, <1>14 DEF RecsOk, Genuine
    <2>2. flowAdmin' = [F!IdleAdmin EXCEPT !.pc = "broker"] \/ flowAdmin' = F!IdleAdmin BY <1>2, <1>14
    <2>3. /\ flowAdmin' \in AdminRecord /\ flowAdmin'.pc \in {"broker", "idle"} /\ flowAdmin'.left = <<>> /\ ~flowAdmin'.checks
      BY <2>2 DEF F!IdleAdmin, AdminRecord
    <2>4. F!ToSet(flowAdmin.left)' = {} BY <2>3 DEF F!ToSet
    <2>5. AdminOk' BY <2>3, <2>4 DEF AdminOk
    <2>6. HeldOk' BY <1>2, <2>1 DEF HeldOk
    <2> QED BY <1>2, <1>3, <1>4, <1>5, <2>3, <2>5, <2>6, ResumeGoesOn
  <1> QED BY <1>13, <1>14

LEMMA CheckHeldKeeps ==
  ASSUME FlowInv, F!CheckHeld
  PROVE  FlowInv'
  <1> USE AdminFacts
  <1>1. PICK j, deps : j = Head(flowAdmin.left) /\ deps = flowAdmin.copy[j].deps OBVIOUS
  <1>2. /\ flowAdmin.pc = "next" /\ UNCHANGED <<flowSetting, flowRec, flowBorn, flowPlace, flowClient, flowEngine, flowScan, flowEnded>>
        /\ flowAdmin' = IF flowAdmin.left = <<>> THEN [F!IdleAdmin EXCEPT !.pc = "list", !.checks = flowAdmin.checks]
                        ELSE [flowAdmin EXCEPT !.pc = "save", !.ready = ~flowAdmin.checks \/ F!CanProceed(deps)]
    BY <1>1 DEF F!CheckHeld
  <1>3. FlowResuming BY <1>2 DEF FlowResuming
  <1>4. Grows BY <1>2, HistoryStays
  <1>5. Writes /\ Places BY <1>2, NoWrite
  <1>6. \A i \in FlowJobs : ReadyJob(i) => ReadyJob(i)' BY <1>4, StaysTrue
  <1>7. ~flowAdmin.checks => \A i \in FlowJobs : flowRec'[i].status = "paused" => ReadyJob(i)'
    BY <1>2, <1>3, <1>6 DEF HeldOk
  <1>8. CASE flowAdmin.left = <<>>
    <2>1. flowAdmin' = [F!IdleAdmin EXCEPT !.pc = "list", !.checks = flowAdmin.checks] BY <1>2, <1>8
    <2>2. flowAdmin.checks \in BOOLEAN BY DEF AdminRecord
    <2>3. /\ flowAdmin' \in AdminRecord /\ flowAdmin'.pc = "list" /\ flowAdmin'.left = <<>> /\ flowAdmin'.checks = flowAdmin.checks
      BY <2>1, <2>2 DEF F!IdleAdmin, AdminRecord
    <2>4. F!ToSet(flowAdmin.left)' = {} BY <2>3 DEF F!ToSet
    <2>5. AdminOk' BY <2>3, <2>4 DEF AdminOk
    <2>6. ~flowAdmin'.checks => HeldOk' BY <1>7, <2>3 DEF HeldOk
    <2> QED BY <1>2, <1>3, <1>4, <1>5, <2>3, <2>5, <2>6, ResumeGoesOn
  <1>9. CASE flowAdmin.left # <<>>
    <2>1. flowAdmin' = [flowAdmin EXCEPT !.pc = "save", !.ready = ~flowAdmin.checks \/ F!CanProceed(deps)] BY <1>2, <1>9
    <2>2. (~flowAdmin.checks \/ F!CanProceed(deps)) \in BOOLEAN BY DEF AdminRecord, F!CanProceed
    <2>3. /\ flowAdmin' \in AdminRecord /\ flowAdmin'.pc = "save" /\ flowAdmin'.left = flowAdmin.left /\ flowAdmin'.copy = flowAdmin.copy
          /\ flowAdmin'.checks = flowAdmin.checks /\ (flowAdmin'.ready <=> ~flowAdmin.checks \/ F!CanProceed(deps))
      BY <2>1, <2>2 DEF AdminRecord
    <2>4. F!ToSet(flowAdmin.left)' = F!ToSet(flowAdmin.left) BY <2>3 DEF F!ToSet
    <2>5. j \in FlowJobs /\ j \in F!ToSet(flowAdmin.left) BY <1>1, <1>9, FlowLists
    <2>6. deps = flowSetting.dependsOn[j] /\ deps \in SUBSET FlowJobs /\ (~flowAdmin.checks => ReadyJob(j))
      BY <1>1, <2>5 DEF AdminOk
    <2>7. F!CanProceed(deps) => ReadyJob(j) BY <2>6, CompletedParents DEF ReadyJob
    <2>8. flowAdmin'.ready => ReadyJob(j)' BY <1>6, <2>3, <2>5, <2>6, <2>7
    <2>9. j = Head(flowAdmin'.left) BY <1>1, <2>3
    <2>10. AdminOk' BY <1>2, <1>6, <1>9, <2>3, <2>4, <2>8, <2>9 DEF AdminOk
    <2>11. ~flowAdmin'.checks => HeldOk' BY <1>7, <2>3 DEF HeldOk
    <2> QED BY <1>2, <1>3, <1>4, <1>5, <2>3, <2>10, <2>11, ResumeGoesOn
  <1> QED BY <1>8, <1>9

LEMMA TailTaken ==
  ASSUME FlowInv, Grows, UNCHANGED flowSetting, flowAdmin.left # <<>>, flowAdmin' = [flowAdmin EXCEPT !.pc = "next", !.left = Tail(@)]
  PROVE  flowAdmin' \in AdminRecord /\ flowAdmin'.pc = "next" /\ flowAdmin'.checks = flowAdmin.checks /\ AdminOk'
  <1> USE AdminFacts
  <1>1. Tail(flowAdmin.left) \in Seq(FlowJobs) /\ F!ToSet(Tail(flowAdmin.left)) \subseteq F!ToSet(flowAdmin.left) BY FlowLists
  <1>2. /\ flowAdmin' \in AdminRecord /\ flowAdmin'.pc = "next" /\ flowAdmin'.checks = flowAdmin.checks
        /\ flowAdmin'.left = Tail(flowAdmin.left) /\ flowAdmin'.copy = flowAdmin.copy
    BY <1>1 DEF AdminRecord
  <1>3. F!ToSet(flowAdmin.left)' = F!ToSet(Tail(flowAdmin.left)) BY <1>2 DEF F!ToSet
  <1>4. \A j \in FlowJobs : ReadyJob(j) => ReadyJob(j)' BY StaysTrue
  <1>5. AdminOk' BY <1>1, <1>2, <1>3, <1>4 DEF AdminOk
  <1> QED BY <1>2, <1>5

LEMMA SaveHeldKeeps ==
  ASSUME FlowInv, F!SaveHeld
  PROVE  FlowInv'
  <1> USE AdminFacts
  <1>1. PICK j, r : /\ j = Head(flowAdmin.left)
                    /\ r = [flowAdmin.copy[j] EXCEPT !.status = IF flowAdmin.ready THEN "waiting" ELSE "waiting-children"]
    OBVIOUS
  <1>2. /\ flowAdmin.pc = "save" /\ F!Save(j, r) /\ UNCHANGED <<flowSetting, flowBorn, flowPlace, flowClient, flowEngine, flowScan, flowEnded>>
        /\ flowAdmin' = IF flowAdmin.ready THEN [flowAdmin EXCEPT !.pc = "publish"]
                        ELSE [flowAdmin EXCEPT !.pc = "next", !.left = Tail(@)]
    BY <1>1 DEF F!SaveHeld
  <1>3. flowAdmin.left # <<>> BY <1>2 DEF AdminOk
  <1>4. j \in FlowJobs /\ j \in F!ToSet(flowAdmin.left) BY <1>1, <1>3, FlowLists
  <1>5. flowAdmin.copy[j] \in F!Record /\ flowAdmin.copy[j].deps = flowSetting.dependsOn[j] BY <1>4 DEF AdminOk
  <1>6. r \in F!Record /\ r.deps = flowSetting.dependsOn[j] /\ r.status \in {"waiting", "waiting-children"}
    BY <1>1, <1>5 DEF F!Record, F!Statuses
  <1>7. Genuine(j, r)' BY <1>2, <1>6 DEF Genuine
  <1>8. FlowResuming BY <1>2 DEF FlowResuming
  <1>9. Grows BY <1>2, HistoryStays
  <1>10. Writes /\ Holds /\ Places BY <1>2, <1>4, <1>6, <1>7, OneWrite, NoWrite
  <1>11. \A i \in FlowJobs : ReadyJob(i) => ReadyJob(i)' BY <1>9, StaysTrue
  <1>12. ~flowAdmin.checks => \A i \in FlowJobs : flowRec'[i].status = "paused" => ReadyJob(i)'
    BY <1>8, <1>10, <1>11 DEF HeldOk, Holds
  <1>13. CASE flowAdmin.ready
    <2>1. flowAdmin' = [flowAdmin EXCEPT !.pc = "publish"] BY <1>2, <1>13
    <2>2. /\ flowAdmin' \in AdminRecord /\ flowAdmin'.pc = "publish" /\ flowAdmin'.left = flowAdmin.left /\ flowAdmin'.copy = flowAdmin.copy
          /\ flowAdmin'.checks = flowAdmin.checks
      BY <2>1 DEF AdminRecord
    <2>3. F!ToSet(flowAdmin.left)' = F!ToSet(flowAdmin.left) BY <2>2 DEF F!ToSet
    <2>4. ReadyJob(j)' BY <1>1, <1>2, <1>4, <1>11, <1>13 DEF AdminOk
    <2>5. j = Head(flowAdmin'.left) BY <1>1, <2>2
    <2>6. AdminOk' BY <1>2, <1>3, <1>11, <2>2, <2>3, <2>4, <2>5 DEF AdminOk
    <2>7. ~flowAdmin'.checks => HeldOk' BY <1>12, <2>2 DEF HeldOk
    <2> QED BY <1>2, <1>8, <1>9, <1>10, <2>2, <2>6, <2>7, ResumeGoesOn
  <1>14. CASE ~flowAdmin.ready
    <2>1. flowAdmin' = [flowAdmin EXCEPT !.pc = "next", !.left = Tail(@)] BY <1>2, <1>14
    <2>2. flowAdmin' \in AdminRecord /\ flowAdmin'.checks = flowAdmin.checks /\ AdminOk' BY <1>2, <1>3, <1>9, <2>1, TailTaken
    <2>3. ~flowAdmin'.checks => HeldOk' BY <1>12, <2>2 DEF HeldOk
    <2> QED BY <1>2, <1>8, <1>9, <1>10, <2>2, <2>3, ResumeGoesOn
  <1> QED BY <1>13, <1>14

LEMMA PublishHeldKeeps ==
  ASSUME FlowInv, F!PublishHeld
  PROVE  FlowInv'
  <1> USE AdminFacts
  <1>1. PICK j : j = Head(flowAdmin.left) OBVIOUS
  <1>2. /\ flowAdmin.pc = "publish" /\ F!Put(j, "queued") /\ UNCHANGED <<flowSetting, flowRec, flowBorn, flowClient, flowEngine, flowScan, flowEnded>>
        /\ flowAdmin' = [flowAdmin EXCEPT !.pc = "next", !.left = Tail(@)]
    BY <1>1 DEF F!PublishHeld
  <1>3. flowAdmin.left # <<>> /\ ReadyJob(j) BY <1>1, <1>2 DEF AdminOk
  <1>4. j \in FlowJobs BY <1>1, <1>3, FlowLists
  <1>5. FlowResuming BY <1>2 DEF FlowResuming
  <1>6. Grows BY <1>2, HistoryStays
  <1>7. Writes /\ Places BY <1>2, <1>3, <1>4, NoWrite, OnePut
  <1>8. flowAdmin' \in AdminRecord /\ flowAdmin'.checks = flowAdmin.checks /\ AdminOk' BY <1>2, <1>3, <1>6, TailTaken
  <1>9. \A i \in FlowJobs : ReadyJob(i) => ReadyJob(i)' BY <1>6, StaysTrue
  <1>10. ~flowAdmin'.checks => HeldOk' BY <1>2, <1>5, <1>8, <1>9 DEF HeldOk
  <1> QED BY <1>2, <1>5, <1>6, <1>7, <1>8, <1>10, ResumeGoesOn

LEMMA ResumeBrokerKeeps ==
  ASSUME FlowInv, F!ResumeBroker
  PROVE  FlowInv'
  <1> USE AdminFacts
  <1>1. /\ flowAdmin.pc = "broker" /\ flowAdmin' = [F!IdleAdmin EXCEPT !.pc = "list"]
        /\ UNCHANGED <<flowSetting, flowRec, flowBorn, flowPlace, flowClient, flowEngine, flowScan, flowEnded>>
    BY DEF F!ResumeBroker
  <1>2. FlowResuming /\ ~flowAdmin.checks BY <1>1 DEF FlowResuming, AdminOk
  <1>3. Grows BY <1>1, HistoryStays
  <1>4. Writes /\ Places BY <1>1, NoWrite
  <1>5. flowAdmin' \in AdminRecord /\ flowAdmin'.pc = "list" /\ flowAdmin'.left = <<>> BY <1>1 DEF F!IdleAdmin, AdminRecord
  <1>6. F!ToSet(flowAdmin.left)' = {} BY <1>5 DEF F!ToSet
  <1>7. AdminOk' BY <1>5, <1>6 DEF AdminOk
  <1>8. \A i \in FlowJobs : ReadyJob(i) => ReadyJob(i)' BY <1>3, StaysTrue
  <1>9. HeldOk' BY <1>1, <1>2, <1>8 DEF HeldOk
  <1> QED BY <1>1, <1>2, <1>3, <1>4, <1>5, <1>7, <1>9, ResumeGoesOn

(* The engines. What a batch holds is ready; so is a child whose parents    *)
(* have all completed, or failed when the policy ignores that.              *)
LEMMA EngineFacts ==
  ASSUME FlowInv, NEW e \in FlowEngines, NEW me, me = flowEngine[e]
  PROVE  /\ FlowTyped /\ RecsOk /\ PlacesOk /\ EngineGood(me) /\ me \in EngineRecord
         /\ me.copy \in [FlowJobs -> F!Record] /\ me.prev \in F!Record /\ me.jobs \in Seq(FlowJobs)
         /\ me.ready \subseteq FlowJobs /\ me.failed \subseteq FlowJobs /\ me.stack \in Seq(Level)
         /\ me.kid \in SomeJob /\ me.seen \in F!Record
         /\ flowRec \in [FlowJobs -> F!Record] /\ flowSetting \in F!Setting
         /\ flowSetting.dependsOn \in [FlowJobs -> SUBSET FlowJobs] /\ F!Absent \in F!Record
         /\ \A j \in FlowJobs : Genuine(j, F!Absent)
         /\ me.jobs # <<>> =>
              /\ Head(me.jobs) \in FlowJobs /\ ReadyJob(Head(me.jobs))
              /\ Tail(me.jobs) \in Seq(FlowJobs) /\ F!ToSet(Tail(me.jobs)) \subseteq F!ToSet(me.jobs)
         /\ F!IdleEngine \in EngineRecord /\ EngineGood(F!IdleEngine)
  <1>1. /\ FlowTyped /\ RecsOk /\ PlacesOk /\ EngineGood(me) /\ me \in EngineRecord
        /\ flowRec \in [FlowJobs -> F!Record] /\ flowSetting \in F!Setting
    BY DEF FlowInv, FlowTyped, EngineOk
  <1>2. /\ me.copy \in [FlowJobs -> F!Record] /\ me.prev \in F!Record /\ me.jobs \in Seq(FlowJobs)
        /\ me.ready \subseteq FlowJobs /\ me.failed \subseteq FlowJobs /\ me.stack \in Seq(Level)
        /\ me.kid \in SomeJob /\ me.seen \in F!Record
        /\ flowSetting.dependsOn \in [FlowJobs -> SUBSET FlowJobs]
    BY <1>1 DEF EngineRecord, F!Setting
  <1>3. F!Absent \in F!Record /\ \A j \in FlowJobs : Genuine(j, F!Absent) BY DEF F!Absent, F!Record, F!Statuses, Genuine
  <1>4. me.jobs # <<>> =>
          /\ Head(me.jobs) \in FlowJobs /\ ReadyJob(Head(me.jobs))
          /\ Tail(me.jobs) \in Seq(FlowJobs) /\ F!ToSet(Tail(me.jobs)) \subseteq F!ToSet(me.jobs)
    BY <1>1, <1>2, FlowLists DEF EngineGood
  <1>5. <<>> \in Seq(FlowJobs) /\ <<>> \in Seq(Level) OBVIOUS
  <1>6. PICK none, bad : none = [j \in FlowJobs |-> F!Absent] /\ bad = [j \in FlowJobs |-> "bad"] OBVIOUS
  <1>7. none \in [FlowJobs -> F!Record] /\ bad \in [FlowJobs -> {"ok", "bad", "drop"}] /\ \A j \in FlowJobs : none[j] = F!Absent
    BY <1>3, <1>6
  <1>8. F!IdleEngine = [pc |-> "idle", jobs |-> <<>>, copy |-> none, prev |-> F!Absent,
                      ready |-> {}, failed |-> {}, result |-> bad,
                      stack |-> <<>>, kid |-> F!NoJob, seen |-> F!Absent]
    BY <1>6 DEF F!IdleEngine
  <1>9. F!IdleEngine \in EngineRecord BY <1>3, <1>5, <1>7, <1>8 DEF EngineRecord, SomeJob
  <1>10. F!ToSet(<<>>) = {} BY <1>1, AdminFacts
  <1>11. EngineGood(F!IdleEngine) BY <1>3, <1>7, <1>8, <1>10 DEF EngineGood
  <1> QED BY <1>1, <1>2, <1>3, <1>4, <1>9, <1>11

LEMMA EngineIs ==
  ASSUME FlowInv, NEW e \in FlowEngines, NEW me, me = flowEngine[e]
  PROVE  /\ me \in EngineRecord /\ me.seen \in F!Record /\ me.copy \in [FlowJobs -> F!Record]
         /\ me.jobs # <<>> => /\ Head(me.jobs) \in FlowJobs /\ Tail(me.jobs) \in Seq(FlowJobs)
                              /\ ReadyJob(Head(me.jobs)) /\ Genuine(Head(me.jobs), me.copy[Head(me.jobs)])
  <1>1. \A j \in FlowJobs : Genuine(j, me.copy[j]) BY EngineFacts DEF EngineGood
  <1> QED BY <1>1, EngineFacts

(* The records the steps below put in hand.                                 *)
LEMMA Blank == F!Absent \in F!Record /\ F!NoJob \in SomeJob
  BY DEF F!Absent, F!Record, F!Statuses, SomeJob

LEMMA Restated ==
  ASSUME NEW r \in F!Record, NEW status \in F!Statuses, NEW q, q = [r EXCEPT !.status = status]
  PROVE  q \in F!Record /\ q.status = status
  BY DEF F!Record

LEMMA NextAttempt ==
  ASSUME NEW r \in F!Record, NEW a, a = [r EXCEPT !.status = "active", !.attempt = @ + 1]
  PROVE  a \in F!Record /\ a.status = "active"
  <1>1. r.attempt \in Nat /\ r.attempt + 1 \in Nat BY DEF F!Record
  <1>2. PICK n : n = r.attempt + 1 OBVIOUS
  <1>3. a = [r EXCEPT !.status = "active", !.attempt = n] BY <1>2
  <1> QED BY <1>1, <1>2, <1>3 DEF F!Record, F!Statuses

LEMMA PollKeeps ==
  ASSUME FlowInv, NEW e \in FlowEngines, F!Poll(e)
  PROVE  FlowInv'
  <1>1. PICK me : me = flowEngine[e] OBVIOUS
  <1> USE <1>1
  <1>0. me \in EngineRecord /\ (me.jobs # <<>> => Head(me.jobs) \in FlowJobs /\ Tail(me.jobs) \in Seq(FlowJobs))
    BY EngineIs
  <1>2. PICK ids \in SUBSET {j \in FlowJobs : flowPlace[j] = "queued"} :
          /\ flowPlace' = [j \in FlowJobs |-> IF j \in ids THEN "none" ELSE flowPlace[j]]
          /\ flowEngine' = [flowEngine EXCEPT ![e] =
               IF {j \in ids : flowRec[j].status # "absent"} = {} THEN F!IdleEngine
               ELSE [F!IdleEngine EXCEPT !.pc = "acquire", !.jobs = F!SetToSeq({j \in ids : flowRec[j].status # "absent"}),
                       !.copy = [j \in FlowJobs |-> IF j \in {i \in ids : flowRec[i].status # "absent"}
                                                    THEN flowRec[j] ELSE F!Absent]]]
    BY Zenon DEF F!Poll
  <1>3. UNCHANGED <<flowSetting, flowRec, flowBorn, flowClient, flowAdmin, flowScan, flowEnded>> BY DEF F!Poll
  <1>4. Grows BY EngineFacts, <1>3, HistoryStays
  <1>5. Writes /\ Holds BY EngineFacts, <1>3, NoWrite
  <1>6. Places BY EngineFacts, <1>2 DEF Places, FlowTyped
  <1>7. PICK valid : valid = {j \in ids : flowRec[j].status # "absent"} OBVIOUS
  <1>8. valid \subseteq FlowJobs /\ \A j \in valid : ReadyJob(j) BY EngineFacts, <1>2, <1>7 DEF PlacesOk
  <1>9. PICK copies, list : /\ copies = [j \in FlowJobs |-> IF j \in valid THEN flowRec[j] ELSE F!Absent]
                            /\ list = F!SetToSeq(valid)
    OBVIOUS
  <1>10. IsFiniteSet(valid) BY <1>8, FlowFinite, FS_Subset
  <1>11. list \in Seq(FlowJobs) /\ F!ToSet(list) = valid
    <2>1. list \in Seq(valid) /\ F!ToSet(list) = valid BY <1>9, <1>10, FlowListing
    <2> QED BY <1>8, <2>1
  <1>12. copies \in [FlowJobs -> F!Record] /\ \A j \in FlowJobs : Genuine(j, copies[j]) BY EngineFacts, <1>9 DEF RecsOk
  <1>13. CASE valid = {}
    <2>1. flowEngine' = [flowEngine EXCEPT ![e] = F!IdleEngine] BY <1>2, <1>7, <1>13
    <2> QED BY EngineFacts, <1>3, <1>4, <1>5, <1>6, <2>1, EngineMoves
  <1>14. CASE valid # {}
    <2>1. PICK m : m = [F!IdleEngine EXCEPT !.pc = "acquire", !.jobs = list, !.copy = copies] OBVIOUS
    <2>2. flowEngine' = [flowEngine EXCEPT ![e] = m] BY <1>2, <1>7, <1>9, <1>14, <2>1
    <2>9. PICK none : none = F!IdleEngine OBVIOUS
    <2>10. none \in EngineRecord BY EngineFacts, <2>9
    <2>11. none.ready = {} /\ none.failed = {} BY <2>9 DEF F!IdleEngine
    <2>12. m = [none EXCEPT !.pc = "acquire", !.jobs = list, !.copy = copies] BY <2>1, <2>9
    <2>3. /\ m \in EngineRecord /\ m.pc = "acquire" /\ m.jobs = list /\ m.copy = copies
          /\ m.ready = {} /\ m.failed = {}
      BY <1>11, <1>12, <2>10, <2>11, <2>12 DEF EngineRecord
    <2>4. F!ToSet(<<>>) = {} BY AdminFacts
    <2>5. list # <<>> BY <1>11, <1>14, <2>4
    <2>6. EngineGood(m) BY <1>8, <1>11, <1>12, <2>3, <2>5 DEF EngineGood
    <2> QED BY <1>3, <1>4, <1>5, <1>6, <2>2, <2>3, <2>6, EngineMoves
  <1> QED BY <1>13, <1>14

LEMMA AcquireKeeps ==
  ASSUME FlowInv, NEW e \in FlowEngines, F!Acquire(e)
  PROVE  FlowInv'
  <1>1. PICK me : me = flowEngine[e] OBVIOUS
  <1> USE <1>1
  <1>0. me \in EngineRecord /\ (me.jobs # <<>> => Head(me.jobs) \in FlowJobs /\ Tail(me.jobs) \in Seq(FlowJobs))
    BY EngineIs
  <1>2. PICK pc \in {"activate", "refused"} : flowEngine' = [flowEngine EXCEPT ![e] = [me EXCEPT !.pc = pc]]
    BY DEF F!Acquire, F!Moves
  <1>3. me.pc = "acquire" /\ UNCHANGED <<flowSetting, flowRec, flowBorn, flowPlace, flowClient, flowAdmin, flowScan, flowEnded>> BY DEF F!Acquire
  <1>4. Grows /\ Writes /\ Holds /\ Places BY EngineFacts, <1>3, HistoryStays, NoWrite
  <1>5. PICK m : m = [me EXCEPT !.pc = pc] OBVIOUS
  <1>6. /\ m \in EngineRecord /\ m.pc = pc /\ m.jobs = me.jobs /\ m.copy = me.copy
        /\ m.ready = me.ready /\ m.failed = me.failed
    BY <1>0, <1>5 DEF EngineRecord
  <1>7. EngineGood(m) BY EngineFacts, <1>3, <1>6 DEF EngineGood
  <1> QED BY <1>2, <1>3, <1>4, <1>5, <1>6, <1>7, EngineMoves

LEMMA RefuseKeeps ==
  ASSUME FlowInv, NEW e \in FlowEngines, F!Refuse(e)
  PROVE  FlowInv'
  <1>1. PICK me, j : me = flowEngine[e] /\ j = Head(me.jobs) OBVIOUS
  <1> USE <1>1
  <1>0. me \in EngineRecord /\ (me.jobs # <<>> => Head(me.jobs) \in FlowJobs /\ Tail(me.jobs) \in Seq(FlowJobs))
    BY EngineIs
  <1>2. /\ me.pc = "refused" /\ F!Put(j, "queued")
        /\ UNCHANGED <<flowSetting, flowRec, flowBorn, flowClient, flowAdmin, flowScan, flowEnded>>
        /\ IF Len(me.jobs) = 1 THEN flowEngine' = [flowEngine EXCEPT ![e] = F!IdleEngine]
           ELSE flowEngine' = [flowEngine EXCEPT ![e] = [me EXCEPT !.pc = "refused", !.jobs = Tail(@)]]
    BY DEF F!Refuse, F!Next1, F!Job
  <1>3. me.jobs # <<>> BY EngineFacts, <1>2 DEF EngineGood
  <1>4. Grows /\ Writes /\ Holds BY EngineFacts, <1>2, HistoryStays, NoWrite
  <1>5. Places BY EngineFacts, <1>2, <1>3, OnePut
  <1>6. CASE Len(me.jobs) = 1
    <2>1. flowEngine' = [flowEngine EXCEPT ![e] = F!IdleEngine] BY <1>2, <1>6
    <2> QED BY EngineFacts, <1>2, <1>4, <1>5, <2>1, EngineMoves
  <1>7. CASE Len(me.jobs) # 1
    <2>1. PICK m : m = [me EXCEPT !.pc = "refused", !.jobs = Tail(@)] OBVIOUS
    <2>2. flowEngine' = [flowEngine EXCEPT ![e] = m] BY <1>2, <1>7, <2>1
    <2>3. Tail(me.jobs) # <<>>
      <3>1. Len(me.jobs) \in Nat /\ Len(me.jobs) # 0 /\ Len(Tail(me.jobs)) = Len(me.jobs) - 1 BY <1>3
      <3>2. Len(Tail(me.jobs)) # 0 BY <1>7, <3>1
      <3> QED BY <3>2
    <2>4. /\ m \in EngineRecord /\ m.pc = "refused" /\ m.jobs = Tail(me.jobs) /\ m.copy = me.copy
          /\ m.ready = me.ready /\ m.failed = me.failed
      BY <1>0, <1>3, <2>1 DEF EngineRecord
    <2>5. EngineGood(m) BY EngineFacts, <1>2, <1>3, <2>3, <2>4 DEF EngineGood
    <2> QED BY <1>2, <1>4, <1>5, <2>2, <2>4, <2>5, EngineMoves
  <1> QED BY <1>6, <1>7

LEMMA ActivateKeeps ==
  ASSUME FlowInv, NEW e \in FlowEngines, F!Activate(e)
  PROVE  FlowInv'
  <1>1. PICK me, j : me = flowEngine[e] /\ j = Head(me.jobs) OBVIOUS
  <1> USE <1>1
  <1>0. me \in EngineRecord /\ (me.jobs # <<>> => Head(me.jobs) \in FlowJobs /\ Tail(me.jobs) \in Seq(FlowJobs))
    BY EngineIs
  <1>2. PICK copy, active : /\ copy = me.copy[j]
                            /\ active = [copy EXCEPT !.status = "active", !.attempt = @ + 1]
    OBVIOUS
  <1>3. /\ me.pc = "activate" /\ me.jobs # <<>> /\ F!Save(j, active)
        /\ flowEngine' = [flowEngine EXCEPT ![e].pc = "gate", ![e].prev = copy, ![e].copy[j] = active]
        /\ UNCHANGED <<flowSetting, flowBorn, flowPlace, flowClient, flowAdmin, flowScan, flowEnded>>
    BY <1>2 DEF F!Activate, F!Job
  <1>a. me.jobs # <<>> BY <1>3
  <1>4. j \in FlowJobs /\ ReadyJob(j) /\ copy \in F!Record /\ Genuine(j, copy) BY EngineIs, <1>2, <1>a
  <1>5. active \in F!Record /\ active.status = "active" BY <1>2, <1>4, NextAttempt
  <1>6. Genuine(j, active) BY <1>4, <1>5 DEF Genuine
  <1>7. Grows BY EngineFacts, <1>3, HistoryStays
  <1>8. Genuine(j, active)' BY EngineFacts, <1>4, <1>5, <1>6, <1>7, StaysTrue
  <1>9. Writes /\ Holds /\ Places BY EngineFacts, <1>3, <1>4, <1>5, <1>8, OneWrite, NoWrite
  <1>10. PICK copies, m : /\ copies = [me.copy EXCEPT ![j] = active]
                          /\ m = [me EXCEPT !.pc = "gate", !.prev = copy, !.copy = copies]
    OBVIOUS
  <1>11. flowEngine' = [flowEngine EXCEPT ![e] = m] BY <1>3, <1>10
  <1>12. copies \in [FlowJobs -> F!Record] /\ \A i \in FlowJobs : Genuine(i, copies[i])
    BY EngineFacts, <1>4, <1>5, <1>6, <1>10 DEF EngineGood
  <1>13. /\ m \in EngineRecord /\ m.pc = "gate" /\ m.prev = copy /\ m.jobs = me.jobs /\ m.copy = copies
         /\ m.ready = me.ready /\ m.failed = me.failed
    BY <1>0, <1>4, <1>10, <1>12 DEF EngineRecord
  <1>14. EngineGood(m) BY EngineFacts, <1>3, <1>4, <1>12, <1>13 DEF EngineGood
  <1> QED BY <1>3, <1>7, <1>9, <1>11, <1>13, <1>14, EngineMoves

LEMMA GateKeeps ==
  ASSUME FlowInv, NEW e \in FlowEngines, F!Gate(e)
  PROVE  FlowInv'
  <1>1. PICK me, j : me = flowEngine[e] /\ j = Head(me.jobs) OBVIOUS
  <1> USE <1>1
  <1>0. me \in EngineRecord /\ (me.jobs # <<>> => Head(me.jobs) \in FlowJobs /\ Tail(me.jobs) \in Seq(FlowJobs))
    BY EngineIs
  <1>2. me.pc = "gate" /\ UNCHANGED <<flowSetting, flowBorn, flowPlace, flowClient, flowAdmin, flowScan, flowEnded>> BY DEF F!Gate
  <1>3. me.jobs # <<>> /\ j \in FlowJobs /\ ReadyJob(j) /\ Genuine(j, me.prev) BY EngineFacts, <1>2 DEF EngineGood
  <1>4. Grows BY EngineFacts, <1>2, HistoryStays
  <1>5. \/ flowRec' = flowRec /\ flowEngine' = [flowEngine EXCEPT ![e] = [me EXCEPT !.pc = "activate", !.jobs = Tail(@), !.ready = @ \cup {j}]]
        \/ flowRec' = flowRec /\ flowEngine' = [flowEngine EXCEPT ![e] = [me EXCEPT !.pc = "activate", !.jobs = Tail(@), !.failed = @ \cup {j}]]
        \/ F!Save(j, me.prev) /\ flowEngine' = [flowEngine EXCEPT ![e] = [me EXCEPT !.pc = "giveBack"]]
    BY DEF F!Gate, F!Job, F!Moves
  <1>6. CASE flowRec' = flowRec /\ flowEngine' = [flowEngine EXCEPT ![e] = [me EXCEPT !.pc = "activate", !.jobs = Tail(@), !.ready = @ \cup {j}]]
    <2>1. PICK m : m = [me EXCEPT !.pc = "activate", !.jobs = Tail(@), !.ready = @ \cup {j}] OBVIOUS
    <2>2. Writes /\ Holds /\ Places BY EngineFacts, <1>2, <1>6, NoWrite
    <2>3. /\ m \in EngineRecord /\ m.pc = "activate" /\ m.jobs = Tail(me.jobs) /\ m.copy = me.copy
          /\ m.ready = me.ready \cup {j} /\ m.failed = me.failed
      BY <1>0, <1>3, <2>1 DEF EngineRecord
    <2>4. EngineGood(m) BY EngineFacts, <1>3, <2>3 DEF EngineGood
    <2> QED BY <1>2, <1>4, <1>6, <2>1, <2>2, <2>3, <2>4, EngineMoves
  <1>7. CASE flowRec' = flowRec /\ flowEngine' = [flowEngine EXCEPT ![e] = [me EXCEPT !.pc = "activate", !.jobs = Tail(@), !.failed = @ \cup {j}]]
    <2>1. PICK m : m = [me EXCEPT !.pc = "activate", !.jobs = Tail(@), !.failed = @ \cup {j}] OBVIOUS
    <2>2. Writes /\ Holds /\ Places BY EngineFacts, <1>2, <1>7, NoWrite
    <2>3. /\ m \in EngineRecord /\ m.pc = "activate" /\ m.jobs = Tail(me.jobs) /\ m.copy = me.copy
          /\ m.ready = me.ready /\ m.failed = me.failed \cup {j}
      BY <1>0, <1>3, <2>1 DEF EngineRecord
    <2>4. EngineGood(m) BY EngineFacts, <1>3, <2>3 DEF EngineGood
    <2> QED BY <1>2, <1>4, <1>7, <2>1, <2>2, <2>3, <2>4, EngineMoves
  <1>8. CASE F!Save(j, me.prev) /\ flowEngine' = [flowEngine EXCEPT ![e] = [me EXCEPT !.pc = "giveBack"]]
    <2>1. PICK m, r : m = [me EXCEPT !.pc = "giveBack"] /\ r = me.prev OBVIOUS
    <2>2. Genuine(j, r)' BY EngineFacts, <1>3, <1>4, <2>1, StaysTrue
    <2>3. Writes /\ Holds /\ Places BY EngineFacts, <1>2, <1>3, <1>8, <2>1, <2>2, OneWrite, NoWrite
    <2>4. /\ m \in EngineRecord /\ m.pc = "giveBack" /\ m.jobs = me.jobs /\ m.copy = me.copy
          /\ m.ready = me.ready /\ m.failed = me.failed
      BY <1>0, <2>1 DEF EngineRecord
    <2>5. EngineGood(m) BY EngineFacts, <1>3, <2>4 DEF EngineGood
    <2> QED BY <1>2, <1>4, <1>8, <2>1, <2>3, <2>4, <2>5, EngineMoves
  <1> QED BY <1>5, <1>6, <1>7, <1>8

(* The steps that put the first job of the batch in a list and go on to the *)
(* next, or leave it there.                                                 *)
LEMMA NextInBatch ==
  ASSUME FlowInv, NEW e \in FlowEngines, NEW me, me = flowEngine[e], NEW pc \in {"activate", "save"},
         me.jobs # <<>>, F!Next1(e, pc), Writes, Holds, Places,
         UNCHANGED <<flowSetting, flowBorn, flowClient, flowAdmin, flowScan, flowEnded>>
  PROVE  FlowInv'
  <1>0. me \in EngineRecord /\ (me.jobs # <<>> => Head(me.jobs) \in FlowJobs /\ Tail(me.jobs) \in Seq(FlowJobs))
    BY EngineIs
  <1>1. PICK m : m = [me EXCEPT !.pc = pc, !.jobs = Tail(@)] OBVIOUS
  <1>2. flowEngine' = [flowEngine EXCEPT ![e] = m] BY <1>1 DEF F!Next1
  <1>3. /\ m \in EngineRecord /\ m.pc = pc /\ m.jobs = Tail(me.jobs) /\ m.copy = me.copy
        /\ m.ready = me.ready /\ m.failed = me.failed
    BY <1>0, <1>1 DEF EngineRecord
  <1>4. EngineGood(m) BY EngineFacts, <1>3 DEF EngineGood
  <1>5. Grows BY EngineFacts, HistoryStays
  <1> QED BY <1>2, <1>3, <1>4, <1>5, EngineMoves

LEMMA GiveBackKeeps ==
  ASSUME FlowInv, NEW e \in FlowEngines, F!GiveBack(e)
  PROVE  FlowInv'
  <1>1. PICK me, j : me = flowEngine[e] /\ j = Head(me.jobs) OBVIOUS
  <1> USE <1>1
  <1>0. me \in EngineRecord /\ (me.jobs # <<>> => Head(me.jobs) \in FlowJobs /\ Tail(me.jobs) \in Seq(FlowJobs))
    BY EngineIs
  <1>2. me.pc = "giveBack" /\ F!Put(j, "delayed") /\ F!Next1(e, "activate")
        /\ UNCHANGED <<flowSetting, flowRec, flowBorn, flowClient, flowAdmin, flowScan, flowEnded>>
    BY DEF F!GiveBack, F!Job
  <1>3. me.jobs # <<>> BY EngineFacts, <1>2 DEF EngineGood
  <1>4. Writes /\ Holds BY EngineFacts, <1>2, NoWrite
  <1>5. Places BY EngineFacts, <1>2, <1>3, OnePut
  <1> QED BY <1>2, <1>3, <1>4, <1>5, NextInBatch

LEMMA NackKeeps ==
  ASSUME FlowInv, NEW e \in FlowEngines, F!Nack(e)
  PROVE  FlowInv'
  <1>1. PICK me, j : me = flowEngine[e] /\ j = Head(me.jobs) OBVIOUS
  <1> USE <1>1
  <1>0. me \in EngineRecord /\ (me.jobs # <<>> => Head(me.jobs) \in FlowJobs /\ Tail(me.jobs) \in Seq(FlowJobs))
    BY EngineIs
  <1>2. me.pc = "nack" /\ F!Put(j, "delayed") /\ F!Next1(e, "save")
        /\ UNCHANGED <<flowSetting, flowRec, flowBorn, flowClient, flowAdmin, flowScan, flowEnded>>
    BY DEF F!Nack, F!Job
  <1>3. me.jobs # <<>> BY EngineFacts, <1>2 DEF EngineGood
  <1>4. Writes /\ Holds BY EngineFacts, <1>2, NoWrite
  <1>5. Places BY EngineFacts, <1>2, <1>3, OnePut
  <1> QED BY <1>2, <1>3, <1>4, <1>5, NextInBatch

LEMMA PruneKeeps ==
  ASSUME FlowInv, NEW e \in FlowEngines, F!Prune(e)
  PROVE  FlowInv'
  <1>1. PICK me, j : me = flowEngine[e] /\ j = Head(me.jobs) OBVIOUS
  <1> USE <1>1
  <1>0. me \in EngineRecord /\ (me.jobs # <<>> => Head(me.jobs) \in FlowJobs /\ Tail(me.jobs) \in Seq(FlowJobs))
    BY EngineIs
  <1>2. /\ me.pc = "prune" /\ F!Next1(e, "save") /\ (F!Save(j, F!Absent) \/ flowRec' = flowRec)
        /\ UNCHANGED <<flowSetting, flowBorn, flowPlace, flowClient, flowAdmin, flowScan, flowEnded>>
    BY DEF F!Prune, F!Job
  <1>3. me.jobs # <<>> BY EngineFacts, <1>2 DEF EngineGood
  <1>4. Writes /\ Holds /\ Places
    <2>1. CASE flowRec' = flowRec BY EngineFacts, <1>2, <2>1, NoWrite
    <2>2. CASE F!Save(j, F!Absent)
      <3>1. PICK r : r = F!Absent OBVIOUS
      <3>2. r.status = "absent" BY <3>1 DEF F!Absent
      <3>3. Genuine(j, r)' BY <3>2 DEF Genuine
      <3> QED BY EngineFacts, <1>2, <1>3, <2>2, <3>1, <3>2, <3>3, OneWrite, NoWrite
    <2> QED BY <1>2, <2>1, <2>2
  <1> QED BY <1>2, <1>3, <1>4, NextInBatch

LEMMA RunKeeps ==
  ASSUME FlowInv, NEW e \in FlowEngines, F!Run(e)
  PROVE  FlowInv'
  <1>1. PICK me : me = flowEngine[e] OBVIOUS
  <1> USE <1>1
  <1>0. me \in EngineRecord /\ (me.jobs # <<>> => Head(me.jobs) \in FlowJobs /\ Tail(me.jobs) \in Seq(FlowJobs))
    BY EngineIs
  <1>2. me.pc = "activate" /\ me.jobs = <<>> /\ UNCHANGED <<flowSetting, flowRec, flowBorn, flowPlace, flowClient, flowAdmin, flowScan, flowEnded>>
    BY DEF F!Run
  <1>3. Grows /\ Writes /\ Holds /\ Places BY EngineFacts, <1>2, HistoryStays, NoWrite
  <1>4. CASE me.failed \cup me.ready = {}
    <2>1. flowEngine' = [flowEngine EXCEPT ![e] = F!IdleEngine] BY <1>4 DEF F!Run
    <2> QED BY EngineFacts, <1>2, <1>3, <2>1, EngineMoves
  <1>5. CASE me.failed \cup me.ready # {}
    <2>0. flowEngine[e].failed \cup flowEngine[e].ready # {} BY <1>5
    <2>1. PICK said \in [flowEngine[e].ready -> flowSetting.results] :
            flowEngine' = [flowEngine EXCEPT ![e].pc = "save", ![e].prev = F!Absent,
              ![e].jobs = F!SetToSeq(flowEngine[e].failed) \o F!SetToSeq(flowEngine[e].ready),
              ![e].result = [j \in FlowJobs |-> IF j \in flowEngine[e].ready THEN said[j] ELSE "bad"],
              ![e].ready = {}, ![e].failed = {}]
      BY <2>0, Zenon DEF F!Run
    <2>c. said \in [me.ready -> flowSetting.results] BY <2>1
    <2>2. PICK list, results : /\ list = F!SetToSeq(me.failed) \o F!SetToSeq(me.ready)
                               /\ results = [j \in FlowJobs |-> IF j \in me.ready THEN said[j] ELSE "bad"]
      OBVIOUS
    <2>3. IsFiniteSet(me.failed) /\ IsFiniteSet(me.ready)
      BY EngineFacts, FlowFinite, FS_Subset
    <2>4. /\ F!SetToSeq(me.failed) \in Seq(me.failed) /\ F!ToSet(F!SetToSeq(me.failed)) = me.failed
          /\ F!SetToSeq(me.ready) \in Seq(me.ready) /\ F!ToSet(F!SetToSeq(me.ready)) = me.ready
      BY <2>3, FlowListing
    <2>5. F!SetToSeq(me.failed) \in Seq(FlowJobs) /\ F!SetToSeq(me.ready) \in Seq(FlowJobs) BY EngineFacts, <2>4
    <2>6. list \in Seq(FlowJobs) /\ F!ToSet(list) \subseteq me.failed \cup me.ready BY <2>2, <2>4, <2>5, FlowJoins
    <2>7. flowSetting.results \subseteq {"ok", "bad", "drop"} BY EngineFacts DEF F!Setting
    <2>8. results \in [FlowJobs -> {"ok", "bad", "drop"}] BY <2>c, <2>2, <2>7
    <2>9. PICK m : m = [me EXCEPT !.pc = "save", !.prev = F!Absent, !.jobs = list, !.result = results,
                                  !.ready = {}, !.failed = {}]
      OBVIOUS
    <2>d. flowEngine' = [flowEngine EXCEPT ![e].pc = "save", ![e].prev = F!Absent, ![e].jobs = list,
                                           ![e].result = results, ![e].ready = {}, ![e].failed = {}]
      BY <2>1, <2>2
    <2>10. flowEngine' = [flowEngine EXCEPT ![e] = m] BY <2>d, <2>9
    <2>11. /\ m \in EngineRecord /\ m.pc = "save" /\ m.jobs = list /\ m.copy = me.copy
           /\ m.ready = {} /\ m.failed = {}
      BY <1>0, Blank, <2>6, <2>8, <2>9 DEF EngineRecord
    <2>12. EngineGood(m) BY EngineFacts, <2>6, <2>11 DEF EngineGood
    <2> QED BY <1>2, <1>3, <2>10, <2>11, <2>12, EngineMoves
  <1> QED BY <1>4, <1>5

LEMMA FinalSaveKeeps ==
  ASSUME FlowInv, NEW e \in FlowEngines, F!FinalSave(e)
  PROVE  FlowInv'
  <1>1. PICK me, j : me = flowEngine[e] /\ j = Head(me.jobs) OBVIOUS
  <1> USE <1>1
  <1>0. me \in EngineRecord /\ (me.jobs # <<>> => Head(me.jobs) \in FlowJobs /\ Tail(me.jobs) \in Seq(FlowJobs))
    BY EngineIs
  <1>2. PICK out, r : out = F!Outcome(e) /\ r = [me.copy[j] EXCEPT !.status = out] OBVIOUS
  <1>3. out \in {"completed", "delayed", "failed"} BY <1>2 DEF F!Outcome
  <1>4. /\ me.pc = "save" /\ me.jobs # <<>> /\ F!Save(j, r)
        /\ flowEngine' = [flowEngine EXCEPT ![e] = [me EXCEPT !.pc = IF out = "delayed" THEN "nack" ELSE "ack"]]
        /\ IF out = "delayed" THEN UNCHANGED flowEnded ELSE F!Ends(j, out)
        /\ UNCHANGED <<flowSetting, flowBorn, flowPlace, flowClient, flowAdmin, flowScan>>
    BY <1>2 DEF F!FinalSave, F!Moves, F!Job
  <1>5. j \in FlowJobs /\ me.copy[j] \in F!Record /\ flowEnded \in [FlowJobs -> SUBSET {"completed", "failed"}]
    <2>1. me.jobs # <<>> BY <1>4
    <2>2. j \in FlowJobs /\ me.copy[j] \in F!Record BY EngineIs, <2>1
    <2>3. flowEnded \in [FlowJobs -> SUBSET {"completed", "failed"}] BY DEF FlowInv, FlowTyped
    <2> QED BY <2>2, <2>3
  <1>6. r \in F!Record /\ r.status = out
    <2>1. out \in F!Statuses BY <1>3 DEF F!Statuses
    <2> QED BY <1>2, <1>5, <2>1, Restated
  <1>7. /\ flowEnded' \in [FlowJobs -> SUBSET {"completed", "failed"}]
        /\ \A i \in FlowJobs : flowEnded[i] \subseteq flowEnded'[i]
        /\ out # "delayed" => out \in flowEnded'[j]
    BY <1>3, <1>4, <1>5 DEF F!Ends
  <1>8. Grows BY EngineFacts, <1>4, <1>7 DEF Grows, FlowTyped
  <1>9. Genuine(j, r)' BY <1>3, <1>6, <1>7 DEF Genuine
  <1>10. Writes /\ Holds /\ Places BY EngineFacts, <1>3, <1>4, <1>5, <1>6, <1>9, OneWrite, NoWrite
  <1>11. PICK m : m = [me EXCEPT !.pc = IF out = "delayed" THEN "nack" ELSE "ack"] OBVIOUS
  <1>12. /\ m \in EngineRecord /\ m.pc \in {"nack", "ack"} /\ m.jobs = me.jobs /\ m.copy = me.copy
         /\ m.ready = me.ready /\ m.failed = me.failed
    BY <1>0, <1>11 DEF EngineRecord
  <1>13. EngineGood(m) BY EngineFacts, <1>4, <1>12 DEF EngineGood
  <1> QED BY <1>4, <1>8, <1>10, <1>11, <1>12, <1>13, EngineMoves

LEMMA FlowAckKeeps ==
  ASSUME FlowInv, NEW e \in FlowEngines, F!Ack(e)
  PROVE  FlowInv'
  <1>1. PICK me, j : me = flowEngine[e] /\ j = Head(me.jobs) OBVIOUS
  <1> USE <1>1
  <1>0. me \in EngineRecord /\ (me.jobs # <<>> => Head(me.jobs) \in FlowJobs /\ Tail(me.jobs) \in Seq(FlowJobs))
    BY EngineIs
  <1>2. /\ me.pc = "ack" /\ F!Put(j, "none") /\ UNCHANGED <<flowSetting, flowRec, flowBorn, flowClient, flowAdmin, flowScan, flowEnded>>
        /\ \/ flowEngine' = [flowEngine EXCEPT ![e] = [me EXCEPT !.pc = "prune"]]
           \/ flowEngine' = [flowEngine EXCEPT ![e] = [me EXCEPT !.pc = "open", !.kid = j]]
    BY DEF F!Ack, F!Job, F!Moves
  <1>3. me.jobs # <<>> /\ j \in FlowJobs BY EngineFacts, <1>2 DEF EngineGood
  <1>4. Grows /\ Writes /\ Holds BY EngineFacts, <1>2, HistoryStays, NoWrite
  <1>5. Places BY EngineFacts, <1>2, <1>3, OnePut
  <1>6. CASE flowEngine' = [flowEngine EXCEPT ![e] = [me EXCEPT !.pc = "prune"]]
    <2>1. PICK m : m = [me EXCEPT !.pc = "prune"] OBVIOUS
    <2>2. /\ m \in EngineRecord /\ m.pc = "prune" /\ m.jobs = me.jobs /\ m.copy = me.copy
          /\ m.ready = me.ready /\ m.failed = me.failed
      BY <1>0, <2>1 DEF EngineRecord
    <2>3. EngineGood(m) BY EngineFacts, <1>3, <2>2 DEF EngineGood
    <2> QED BY <1>2, <1>4, <1>5, <1>6, <2>1, <2>2, <2>3, EngineMoves
  <1>7. CASE flowEngine' = [flowEngine EXCEPT ![e] = [me EXCEPT !.pc = "open", !.kid = j]]
    <2>1. PICK m : m = [me EXCEPT !.pc = "open", !.kid = j] OBVIOUS
    <2>2. /\ m \in EngineRecord /\ m.pc = "open" /\ m.kid = j /\ m.jobs = me.jobs /\ m.copy = me.copy
          /\ m.ready = me.ready /\ m.failed = me.failed
      BY <1>0, <1>3, <2>1 DEF EngineRecord, SomeJob
    <2>3. EngineGood(m) BY EngineFacts, <1>3, <2>2 DEF EngineGood
    <2> QED BY <1>2, <1>4, <1>5, <1>7, <2>1, <2>2, <2>3, EngineMoves
  <1> QED BY <1>2, <1>6, <1>7

LEMMA BatchEndKeeps ==
  ASSUME FlowInv, NEW e \in FlowEngines, F!BatchEnd(e)
  PROVE  FlowInv'
  <1>1. PICK me : me = flowEngine[e] OBVIOUS
  <1> USE <1>1
  <1>0. me \in EngineRecord /\ (me.jobs # <<>> => Head(me.jobs) \in FlowJobs /\ Tail(me.jobs) \in Seq(FlowJobs))
    BY EngineIs
  <1>2. /\ flowEngine' = [flowEngine EXCEPT ![e] = F!IdleEngine]
        /\ UNCHANGED <<flowSetting, flowRec, flowBorn, flowPlace, flowClient, flowAdmin, flowScan, flowEnded>>
    BY DEF F!BatchEnd
  <1>3. Grows /\ Writes /\ Holds /\ Places BY EngineFacts, <1>2, HistoryStays, NoWrite
  <1> QED BY EngineFacts, <1>2, <1>3, EngineMoves

(* notifyChildren comes back with a stack of jobs to go on with.            *)
LEMMA ReturnsKeeps ==
  ASSUME FlowInv, NEW e \in FlowEngines, NEW me, me = flowEngine[e], me.jobs # <<>>, NEW stack \in Seq(Level),
         F!Returns(e, stack), Writes, Holds, Places, UNCHANGED <<flowSetting, flowBorn, flowClient, flowAdmin, flowScan, flowEnded>>
  PROVE  FlowInv'
  <1>0. me \in EngineRecord /\ (me.jobs # <<>> => Head(me.jobs) \in FlowJobs /\ Tail(me.jobs) \in Seq(FlowJobs))
    BY EngineIs
  <1>1. PICK m : m = [me EXCEPT !.pc = IF stack = <<>> THEN "prune" ELSE "notify", !.stack = stack,
                                !.kid = F!NoJob, !.seen = F!Absent]
    OBVIOUS
  <1>2. flowEngine' = [flowEngine EXCEPT ![e] = m] BY <1>1 DEF F!Returns
  <1>3. /\ m \in EngineRecord /\ m.pc = (IF stack = <<>> THEN "prune" ELSE "notify") /\ m.stack = stack
        /\ m.jobs = me.jobs /\ m.copy = me.copy /\ m.ready = me.ready /\ m.failed = me.failed
    BY <1>0, <1>1, Blank DEF EngineRecord
  <1>4. EngineGood(m) BY EngineFacts, <1>3 DEF EngineGood
  <1>5. Grows BY EngineFacts, HistoryStays
  <1> QED BY <1>2, <1>3, <1>4, <1>5, EngineMoves

LEMMA NotifyOpenKeeps ==
  ASSUME FlowInv, NEW e \in FlowEngines, F!NotifyOpen(e)
  PROVE  FlowInv'
  <1>1. PICK me, r : me = flowEngine[e] /\ r = flowRec[me.kid] OBVIOUS
  <1> USE <1>1
  <1>0. me \in EngineRecord /\ (me.jobs # <<>> => Head(me.jobs) \in FlowJobs /\ Tail(me.jobs) \in Seq(FlowJobs))
    BY EngineIs
  <1>2. PICK stack : stack = IF r.kids = {} THEN me.stack
                             ELSE Append(me.stack, [failed |-> r.status = "failed", left |-> r.kids])
    OBVIOUS
  <1>3. me.pc = "open" /\ F!Returns(e, stack) /\ UNCHANGED <<flowSetting, flowRec, flowBorn, flowPlace, flowClient, flowAdmin, flowScan, flowEnded>>
    BY <1>2 DEF F!NotifyOpen
  <1>4. me.jobs # <<>> /\ me.kid \in FlowJobs BY EngineFacts, <1>3 DEF EngineGood
  <1>5. r.kids \subseteq FlowJobs BY EngineFacts, <1>4 DEF F!Record
  <1>6. [failed |-> r.status = "failed", left |-> r.kids] \in Level BY <1>5 DEF Level
  <1>7. stack \in Seq(Level) BY EngineFacts, <1>2, <1>6
  <1>8. Writes /\ Holds /\ Places BY EngineFacts, <1>3, NoWrite
  <1> QED BY <1>3, <1>4, <1>7, <1>8, ReturnsKeeps

LEMMA NotifyChildKeeps ==
  ASSUME FlowInv, NEW e \in FlowEngines, F!NotifyChild(e)
  PROVE  FlowInv'
  <1>1. PICK me, stack, top : me = flowEngine[e] /\ stack = me.stack /\ top = F!Last(stack) OBVIOUS
  <1> USE <1>1
  <1>0. me \in EngineRecord /\ (me.jobs # <<>> => Head(me.jobs) \in FlowJobs /\ Tail(me.jobs) \in Seq(FlowJobs))
    BY EngineIs
  <1>2. me.pc = "notify" /\ UNCHANGED <<flowSetting, flowRec, flowBorn, flowPlace, flowClient, flowAdmin, flowScan, flowEnded>> BY DEF F!NotifyChild
  <1>3. me.jobs # <<>> /\ stack # <<>> /\ stack \in Seq(Level) BY EngineFacts, <1>2 DEF EngineGood
  <1>4. PICK n : n = Len(stack) OBVIOUS
  <1>5. n \in 1 .. Len(stack) /\ n \in Nat BY <1>3, <1>4
  <1>6. top = stack[n] /\ top \in Level BY <1>1, <1>3, <1>4, <1>5 DEF F!Last
  <1>7. Grows /\ Writes /\ Holds /\ Places BY EngineFacts, <1>2, HistoryStays, NoWrite
  <1>8. CASE F!Returns(e, F!Front(stack))
    <2>1. F!Front(stack) = SubSeq(stack, 1, n - 1) BY <1>4 DEF F!Front
    <2>2. F!Front(stack) \in Seq(Level) BY <1>3, <1>4, <1>5, <2>1
    <2>3. PICK front : front = F!Front(stack) OBVIOUS
    <2> QED BY <1>2, <1>3, <1>7, <1>8, <2>2, <2>3, ReturnsKeeps
  <1>9. ASSUME NEW k \in top.left, NEW fails, NEW starts,
               fails => flowRec[k].status = "waiting-children",
               starts => flowRec[k].status = "waiting-children" /\ F!AllReady(k),
               flowEngine' = [flowEngine EXCEPT ![e].stack = [stack EXCEPT ![Len(stack)].left = @ \ {k}],
                  ![e].pc = IF fails THEN "kidFail" ELSE IF starts THEN "kidSave" ELSE "notify",
                  ![e].kid = IF fails \/ starts THEN k ELSE F!NoJob,
                  ![e].seen = IF fails \/ starts THEN flowRec[k] ELSE F!Absent]
        PROVE  FlowInv'
    <2>1. PICK rest, level, pc, kid, seen :
            /\ level = [top EXCEPT !.left = @ \ {k}] /\ rest = [stack EXCEPT ![n] = level]
            /\ pc = (IF fails THEN "kidFail" ELSE IF starts THEN "kidSave" ELSE "notify")
            /\ kid = (IF fails \/ starts THEN k ELSE F!NoJob)
            /\ seen = (IF fails \/ starts THEN flowRec[k] ELSE F!Absent)
      OBVIOUS
    <2>2. k \in FlowJobs BY <1>6 DEF Level
    <2>3. level \in Level BY <1>6, <2>1 DEF Level
    <2>4. rest \in Seq(Level) /\ rest # <<>>
      <3>1. rest \in Seq(Level) /\ Len(rest) = Len(stack) BY <1>3, <1>5, <2>1, <2>3
      <3> QED BY <1>3, <3>1
    <2>5. rest = [stack EXCEPT ![Len(stack)].left = @ \ {k}] BY <1>4, <1>6, <2>1
    <2>6. PICK m : m = [me EXCEPT !.stack = rest, !.pc = pc, !.kid = kid, !.seen = seen] BY Zenon
    <2>c. flowEngine' = [flowEngine EXCEPT ![e].stack = rest, ![e].pc = pc, ![e].kid = kid, ![e].seen = seen]
      BY <1>9, <2>1, <2>5
    <2>7. flowEngine' = [flowEngine EXCEPT ![e] = m] BY <2>c, <2>6
    <2>8. kid \in SomeJob /\ seen \in F!Record /\ pc \in {"kidFail", "kidSave", "notify"}
          /\ (pc # "notify" => kid = k) /\ (pc = "kidSave" => starts)
      BY EngineFacts, <2>1, <2>2 DEF SomeJob
    <2>9. /\ m \in EngineRecord /\ m.pc = pc /\ m.stack = rest /\ m.kid = kid
          /\ m.jobs = me.jobs /\ m.copy = me.copy /\ m.ready = me.ready /\ m.failed = me.failed
      BY <1>0, <2>4, <2>6, <2>8 DEF EngineRecord
    <2>10. starts => ReadyJob(k)
      <3> SUFFICES ASSUME starts, NEW p \in flowSetting.dependsOn[k] PROVE F!Satisfied(p) BY DEF ReadyJob
      <3>1. flowRec[k].status = "waiting-children" /\ F!AllReady(k) BY <1>9
      <3>2. p \in FlowJobs /\ p \in flowRec[k].deps BY EngineFacts, <2>2, <3>1 DEF RecsOk, Genuine
      <3>3. flowRec[p].status = "completed" \/ (flowRec[p].status = "failed" /\ flowSetting.policy = "ignore")
        BY <3>1, <3>2 DEF F!AllReady
      <3> QED BY EngineFacts, <3>2, <3>3 DEF RecsOk, Genuine, F!Satisfied
    <2>11. EngineGood(m) BY EngineFacts, <1>3, <2>2, <2>4, <2>8, <2>9, <2>10 DEF EngineGood
    <2> QED BY <1>2, <1>7, <2>7, <2>9, <2>11, EngineMoves
  <1>10. ASSUME ~F!Returns(e, F!Front(stack)) PROVE FlowInv'
    <2>0. ~F!Returns(e, F!Front(flowEngine[e].stack)) BY <1>10
    <2>1. PICK k \in F!Last(flowEngine[e].stack).left :
            LET sees == flowRec[k].status = "waiting-children"
                fails == sees /\ F!Last(flowEngine[e].stack).failed /\ flowSetting.policy = "cascade-fail"
                starts == sees /\ ~(F!Last(flowEngine[e].stack).failed /\ flowSetting.policy # "ignore") /\ F!AllReady(k)
            IN flowEngine' = [flowEngine EXCEPT ![e].stack = [flowEngine[e].stack EXCEPT ![Len(flowEngine[e].stack)].left = @ \ {k}],
                  ![e].pc = IF fails THEN "kidFail" ELSE IF starts THEN "kidSave" ELSE "notify",
                  ![e].kid = IF fails \/ starts THEN k ELSE F!NoJob,
                  ![e].seen = IF fails \/ starts THEN flowRec[k] ELSE F!Absent]
      BY <2>0, Zenon DEF F!NotifyChild
    <2>2. PICK fails, starts :
            /\ fails = (flowRec[k].status = "waiting-children" /\ top.failed /\ flowSetting.policy = "cascade-fail")
            /\ starts = (flowRec[k].status = "waiting-children" /\ ~(top.failed /\ flowSetting.policy # "ignore")
                          /\ F!AllReady(k))
      OBVIOUS
    <2>3. k \in top.left BY <2>1
    <2>4. flowEngine' = [flowEngine EXCEPT ![e].stack = [stack EXCEPT ![Len(stack)].left = @ \ {k}],
                      ![e].pc = IF fails THEN "kidFail" ELSE IF starts THEN "kidSave" ELSE "notify",
                      ![e].kid = IF fails \/ starts THEN k ELSE F!NoJob,
                      ![e].seen = IF fails \/ starts THEN flowRec[k] ELSE F!Absent]
      BY <2>1, <2>2
    <2> QED BY <1>9, <2>2, <2>3, <2>4
  <1> QED BY <1>8, <1>10

LEMMA KidFailKeeps ==
  ASSUME FlowInv, NEW e \in FlowEngines, F!KidFail(e)
  PROVE  FlowInv'
  <1>1. PICK me, k, r : me = flowEngine[e] /\ k = me.kid /\ r = [me.seen EXCEPT !.status = "failed"] OBVIOUS
  <1> USE <1>1
  <1>0. me \in EngineRecord /\ (me.jobs # <<>> => Head(me.jobs) \in FlowJobs /\ Tail(me.jobs) \in Seq(FlowJobs))
    BY EngineIs
  <1>2. /\ me.pc = "kidFail" /\ F!Save(k, r) /\ F!Ends(k, "failed")
        /\ flowEngine' = [flowEngine EXCEPT ![e] = [me EXCEPT !.pc = "open"]]
        /\ UNCHANGED <<flowSetting, flowBorn, flowPlace, flowClient, flowAdmin, flowScan>>
    BY DEF F!KidFail, F!Moves
  <1>3. me.jobs # <<>> /\ k \in FlowJobs /\ flowEnded \in [FlowJobs -> SUBSET {"completed", "failed"}]
    BY EngineFacts, <1>2 DEF EngineGood, FlowTyped
  <1>4. r \in F!Record /\ r.status = "failed"
    <2>1. PICK seen : seen = me.seen OBVIOUS
    <2>2. seen \in F!Record BY EngineIs, <2>1
    <2>3. "failed" \in F!Statuses BY DEF F!Statuses
    <2> QED BY <1>1, <2>1, <2>2, <2>3, Restated
  <1>5. /\ flowEnded' \in [FlowJobs -> SUBSET {"completed", "failed"}]
        /\ \A i \in FlowJobs : flowEnded[i] \subseteq flowEnded'[i]
        /\ "failed" \in flowEnded'[k]
    BY <1>2, <1>3 DEF F!Ends
  <1>6. Grows BY EngineFacts, <1>2, <1>5 DEF Grows, FlowTyped
  <1>7. Genuine(k, r)' BY <1>4, <1>5 DEF Genuine
  <1>8. Writes /\ Holds /\ Places BY EngineFacts, <1>2, <1>3, <1>4, <1>7, OneWrite, NoWrite
  <1>9. PICK m : m = [me EXCEPT !.pc = "open"] OBVIOUS
  <1>10. /\ m \in EngineRecord /\ m.pc = "open" /\ m.kid = k /\ m.jobs = me.jobs /\ m.copy = me.copy
         /\ m.ready = me.ready /\ m.failed = me.failed
    BY <1>0, <1>9 DEF EngineRecord
  <1>11. EngineGood(m) BY EngineFacts, <1>3, <1>10 DEF EngineGood
  <1> QED BY <1>2, <1>6, <1>8, <1>9, <1>10, <1>11, EngineMoves

LEMMA KidSaveKeeps ==
  ASSUME FlowInv, NEW e \in FlowEngines, F!KidSave(e)
  PROVE  FlowInv'
  <1>1. PICK me, k, r : me = flowEngine[e] /\ k = me.kid /\ r = [me.seen EXCEPT !.status = "waiting"] OBVIOUS
  <1> USE <1>1
  <1>0. me \in EngineRecord /\ (me.jobs # <<>> => Head(me.jobs) \in FlowJobs /\ Tail(me.jobs) \in Seq(FlowJobs))
    BY EngineIs
  <1>2. /\ me.pc = "kidSave" /\ F!Save(k, r) /\ flowEngine' = [flowEngine EXCEPT ![e] = [me EXCEPT !.pc = "kidPublish"]]
        /\ UNCHANGED <<flowSetting, flowBorn, flowPlace, flowClient, flowAdmin, flowScan, flowEnded>>
    BY DEF F!KidSave, F!Moves
  <1>3. me.jobs # <<>> /\ k \in FlowJobs /\ ReadyJob(k) BY EngineFacts, <1>2 DEF EngineGood
  <1>4. r \in F!Record /\ r.status = "waiting"
    <2>1. PICK seen : seen = me.seen OBVIOUS
    <2>2. seen \in F!Record BY EngineIs, <2>1
    <2>3. "waiting" \in F!Statuses BY DEF F!Statuses
    <2> QED BY <1>1, <2>1, <2>2, <2>3, Restated
  <1>5. Grows BY EngineFacts, <1>2, HistoryStays
  <1>6. Genuine(k, r)' BY <1>4 DEF Genuine
  <1>7. Writes /\ Holds /\ Places BY EngineFacts, <1>2, <1>3, <1>4, <1>6, OneWrite, NoWrite
  <1>8. PICK m : m = [me EXCEPT !.pc = "kidPublish"] OBVIOUS
  <1>9. /\ m \in EngineRecord /\ m.pc = "kidPublish" /\ m.kid = k /\ m.jobs = me.jobs /\ m.copy = me.copy
        /\ m.ready = me.ready /\ m.failed = me.failed
    BY <1>0, <1>8 DEF EngineRecord
  <1>10. EngineGood(m) BY EngineFacts, <1>3, <1>9 DEF EngineGood
  <1> QED BY <1>2, <1>5, <1>7, <1>8, <1>9, <1>10, EngineMoves

LEMMA KidPublishKeeps ==
  ASSUME FlowInv, NEW e \in FlowEngines, F!KidPublish(e)
  PROVE  FlowInv'
  <1>1. PICK me, k, stack : me = flowEngine[e] /\ k = me.kid /\ stack = me.stack OBVIOUS
  <1> USE <1>1
  <1>0. me \in EngineRecord /\ (me.jobs # <<>> => Head(me.jobs) \in FlowJobs /\ Tail(me.jobs) \in Seq(FlowJobs))
    BY EngineIs
  <1>2. /\ me.pc = "kidPublish" /\ F!Put(k, "queued") /\ F!Returns(e, stack)
        /\ UNCHANGED <<flowSetting, flowRec, flowBorn, flowClient, flowAdmin, flowScan, flowEnded>>
    BY DEF F!KidPublish
  <1>3. me.jobs # <<>> /\ k \in FlowJobs /\ ReadyJob(k) BY EngineFacts, <1>2 DEF EngineGood
  <1>4. Writes /\ Holds BY EngineFacts, <1>2, NoWrite
  <1>5. Places BY EngineFacts, <1>2, <1>3, OnePut
  <1> QED BY EngineFacts, <1>2, <1>3, <1>4, <1>5, ReturnsKeeps

LEMMA EnginesKeep ==
  ASSUME FlowInv, NEW e \in FlowEngines, F!EngineStep(e)
  PROVE  FlowInv'
  BY PollKeeps, AcquireKeeps, RefuseKeeps, ActivateKeeps, GateKeeps, GiveBackKeeps, RunKeeps, FinalSaveKeeps,
     NackKeeps, FlowAckKeeps, PruneKeeps, BatchEndKeeps, NotifyOpenKeeps, NotifyChildKeeps, KidFailKeeps,
     KidSaveKeeps, KidPublishKeeps DEF F!EngineStep

LEMMA FlowStarts == ASSUME F!Assumption, F!Init, \A s \in FlowSettings : F!ResumesFit(s) PROVE FlowInv
  <1>1. flowSetting \in FlowSettings /\ flowSetting \in F!Setting /\ F!ResumesFit(flowSetting)
        /\ \A k \in flowSetting.spare : flowSetting.dependsOn[k] = {}
    BY DEF F!Init, F!InitWith, F!Assumption
  <1>2. /\ flowRec = [j \in FlowJobs |-> F!Absent] /\ flowBorn = <<>> /\ flowPlace = [j \in FlowJobs |-> "none"]
        /\ flowClient = [c \in FlowClients |-> F!IdleClient] /\ flowEngine = [e \in FlowEngines |-> F!IdleEngine]
        /\ flowAdmin = F!IdleAdmin /\ flowScan = F!IdleScan /\ flowEnded = [j \in FlowJobs |-> {}]
    BY DEF F!Init, F!InitWith
  <1>3. F!Absent \in F!Record /\ \A j \in FlowJobs : Genuine(j, F!Absent) BY DEF F!Absent, F!Record, F!Statuses, Genuine
  <1>4. <<>> \in Seq(FlowJobs) /\ <<>> \in Seq(Level) OBVIOUS
  <1>5. F!ToSet(<<>>) = {}
    <2>1. \A x : x \in F!ToSet(<<>>) <=> \E k \in 1 .. Len(<<>>) : <<>>[k] = x BY <1>4, FlowMembers
    <2>2. Len(<<>>) = 0 OBVIOUS
    <2>3. \A k \in 1 .. 0 : FALSE OBVIOUS
    <2> QED BY <2>1, <2>2, <2>3
  <1>6. PICK none, bad : none = [j \in FlowJobs |-> F!Absent] /\ bad = [j \in FlowJobs |-> "bad"] OBVIOUS
  <1>7. none \in [FlowJobs -> F!Record] /\ bad \in [FlowJobs -> {"ok", "bad", "drop"}] /\ \A j \in FlowJobs : none[j] = F!Absent
    BY <1>3, <1>6
  <1>8. PICK m : m = [pc |-> "idle", jobs |-> <<>>, copy |-> none, prev |-> F!Absent,
                      ready |-> {}, failed |-> {}, result |-> bad,
                      stack |-> <<>>, kid |-> F!NoJob, seen |-> F!Absent]
    OBVIOUS
  <1>9. F!IdleEngine = m BY <1>6, <1>8 DEF F!IdleEngine
  <1>10. m \in EngineRecord BY <1>3, <1>4, <1>7, <1>8 DEF EngineRecord, SomeJob
  <1>11. EngineGood(m) BY <1>3, <1>5, <1>7, <1>8 DEF EngineGood
  <1>12. flowEngine \in [FlowEngines -> EngineRecord] /\ \A e \in FlowEngines : EngineOk(e)
    BY <1>2, <1>9, <1>10, <1>11 DEF EngineOk
  <1>13. flowClient \in [FlowClients -> ClientRecord] /\ \A c \in FlowClients : ClientOk(c) /\ flowClient[c].pc = "idle"
    BY <1>2, <1>3 DEF ClientOk, F!IdleClient, ClientRecord, SomeJob
  <1>14. /\ flowAdmin = [pc |-> "idle", checks |-> FALSE, left |-> <<>>, copy |-> none, ready |-> FALSE]
    BY <1>2, <1>6 DEF F!IdleAdmin
  <1>15. flowAdmin \in AdminRecord /\ AdminOk /\ SettledOk /\ HeldOk
    BY <1>4, <1>5, <1>7, <1>14 DEF AdminRecord, AdminOk, SettledOk, HeldOk, FlowResuming
  <1>16. flowScan \in ScanRecord /\ ScanOk BY <1>2, <1>3 DEF ScanRecord, ScanOk, F!IdleScan, SomeJob
  <1>17. FlowTyped BY <1>1, <1>2, <1>3, <1>4, <1>12, <1>13, <1>15, <1>16 DEF FlowTyped
  <1>18. SettingOk BY <1>1 DEF SettingOk
  <1>19. RecsOk /\ PlacesOk BY <1>2, <1>3 DEF RecsOk, PlacesOk
  <1>20. Fixed BY FlowLibrary DEF F!Assumption, Fixed
  <1> QED BY <1>12, <1>13, <1>15, <1>16, <1>17, <1>18, <1>19, <1>20 DEF FlowInv

LEMMA FlowSteps == ASSUME FlowInv, F!Next PROVE FlowInv'
  <1>1. \A e \in flowSetting.engines : e \in FlowEngines BY DEF FlowInv, FlowTyped, F!Setting
  <1>2. CASE \E c \in FlowClients : F!ClientStep(c) BY <1>2, CallersKeep
  <1>3. CASE \E e \in flowSetting.engines : F!EngineStep(e) BY <1>1, <1>3, EnginesKeep
  <1>4. CASE \E call \in {"resume", "publisherResume"} : F!Resume(call) BY <1>4, ResumeKeeps
  <1>5. CASE \E j \in FlowJobs : F!ScanFind(j) \/ F!ComesDue(j) BY <1>5, ScanFindKeeps, FlowComesDueKeeps
  <1> QED
    BY <1>2, <1>3, <1>4, <1>5, PauseKeeps, PauseBrokerKeeps, ListHeldKeeps, CheckHeldKeeps, SaveHeldKeeps,
       PublishHeldKeeps, ResumeBrokerKeeps, ScanSaveKeeps, ScanNackKeeps DEF F!Next

LEMMA FlowInvImplies == ASSUME FlowInv PROVE F!ParentsFirst
  <1> SUFFICES ASSUME NEW j \in FlowJobs, flowPlace[j] # "none" \/ F!Batched(j) PROVE ReadyJob(j)
    BY DEF F!ParentsFirst, ReadyJob
  <1>1. CASE flowPlace[j] # "none" BY <1>1 DEF FlowInv, PlacesOk
  <1>2. CASE F!Batched(j) BY <1>2 DEF FlowInv, EngineOk, EngineGood, F!Batched
  <1> QED BY <1>1, <1>2

(* No job with dependencies is queued, claimed or executed before every     *)
(* parent has completed, or has failed under the policy "ignore"            *)
(* (dependency-resolver.ts, define-queue.ts, queue-engine.ts), in whatever  *)
(* order parents end, children register and queues are paused and resumed.  *)
THEOREM NoneBeforeItsParents ==
  ASSUME F!Assumption, \A s \in FlowSettings : F!ResumesFit(s)
  PROVE  F!Spec => []F!ParentsFirst
  <1>1. F!Init => FlowInv BY FlowStarts
  <1>2. FlowInv /\ [F!Next]_(F!vars) => FlowInv'
    <2> SUFFICES ASSUME FlowInv, [F!Next]_(F!vars) PROVE FlowInv' OBVIOUS
    <2>1. CASE F!Next BY <2>1, FlowSteps
    <2>2. CASE UNCHANGED F!vars
      <3>1. UNCHANGED <<flowSetting, flowRec, flowBorn, flowPlace, flowClient, flowEngine, flowAdmin, flowScan, flowEnded>> BY <2>2 DEF F!vars
      <3>2. FlowTyped /\ ScanOk BY DEF FlowInv
      <3>3. Grows /\ Writes /\ Holds /\ Places BY <3>1, <3>2, HistoryStays, NoWrite
      <3>4. flowSetting' \in F!Setting /\ SettingOk' BY <3>1, SettingStays
      <3>5. flowScan' \in ScanRecord /\ ScanOk' BY <3>1, <3>2, <3>3, ScanStays DEF FlowTyped
      <3> QED BY <3>1, <3>3, <3>4, <3>5, ScanMoves
    <2> QED BY <2>1, <2>2
  <1>3. FlowInv => F!ParentsFirst BY FlowInvImplies
  <1> QED BY <1>1, <1>2, <1>3, PTL DEF F!Spec

=============================================================================

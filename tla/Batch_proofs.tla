---------------------------- MODULE Batch_proofs ----------------------------
(***************************************************************************)
(* Batches: no accepted item is lost, none is flushed twice, and a batch    *)
(* that is done stays done - for any number of processes, groups, items,    *)
(* calls and runs, through crashes, lapsed locks and handlers that hang.    *)
(* None of the three is inductive.  They rest on what a call inside the     *)
(* buffer lock knows: it alone has the lock of its group (LockHeld), so the *)
(* copy it works on is the buffer that is stored (CopyTrue) and fits the    *)
(* step it is about to take (Staged); a reservation belongs to one buffer   *)
(* and one call (Reserved), and the job behind it has its items (Backed)    *)
(* while no other job has (Taken); and an item a call is still to add is    *)
(* nowhere yet (Fresh).  A lock that lapsed under its holder voids this for *)
(* its group, which the properties except (lapsed).  OutcomeInv adds what a *)
(* run knows of its job from Load to its last write.                        *)
(***************************************************************************)
EXTENDS Batch, TLAPS, FiniteSetTheorems

-----------------------------------------------------------------------------
(* Types, as far as the arguments need them.                                *)
SettingType ==
  [fleet : SUBSET Nodes, items : SUBSET Items, calls : SUBSET Calls, runs : SUBSET Runs,
   maxPending : Nat, throttle : Nat, remove : BOOLEAN, dedup : BOOLEAN,
   filtered : SUBSET Items, budget : [Budgets -> Nat]]

CallType ==
  [pc : CallPcs, kind : {"add", "flush"} \cup EngineKinds, node : Nodes,
   item : Items \cup {NoItem}, group : Groups, listed : Listing, buf : Buffer,
   job : Jobs \cup {NoJob}, waiting : Nat]

RunType == [pc : RunPcs, node : Nodes, job : Jobs, rec : BatchJob,
            outcome : Outcomes, hung : BOOLEAN]

StoresTyped ==
  /\ setting \in SettingType
  /\ buffers \in [Groups -> Buffer]
  /\ bufferLock \in [Groups -> Calls \cup {NoCall, Vanished}]
  /\ jobs \in [Jobs -> BatchJob]

CallsTyped ==
  /\ call \in [Calls -> CallType \cup {IdleCall}]
  /\ offered \subseteq Items /\ accepted \subseteq offered /\ reflushed \subseteq Items
  /\ lapsed \subseteq Groups

RunsTyped == run \in [Runs -> RunType \cup {IdleRun}]

Typed == StoresTyped /\ CallsTyped /\ RunsTyped

(* What a step does to the call in slot c.                                  *)
Moves(c, pc, buf, job) ==
  /\ \A d \in Calls \ {c} : call'[d] = call[d]
  /\ call'[c].pc = pc /\ call'[c].buf = buf /\ call'[c].job = job
  /\ call'[c].kind = call[c].kind /\ call'[c].node = call[c].node
  /\ call'[c].item = call[c].item /\ call'[c].group = call[c].group
  /\ call'[c].listed = call[c].listed
  /\ call'[c] \in CallType
  /\ call' \in [Calls -> CallType \cup {IdleCall}]

(* The empty buffer, the empty listing and the record of an absent job have *)
(* the types of real ones.                                                  *)
LEMMA NoBufferIsBuffer ==
  /\ NoBuffer \in Buffer /\ NoListing \in Listing
  /\ NoRecord \in BatchJob
BY BatchAssumption DEF NoBuffer, Buffer, NoListing, Listing, NoRecord, BatchJob, Statuses, BatchAssumption

(* A call that is not idle is a full call record.                           *)
LEMMA Busy ==
  ASSUME CallsTyped, NEW c \in Calls, call[c].pc # "idle"
  PROVE  call[c] \in CallType
BY DEF CallsTyped, IdleCall

(* Go: only the program counter of one call moves.                          *)
LEMMA GoMoves ==
  ASSUME CallsTyped, NEW c \in Calls, call[c].pc # "idle", NEW pc \in CallPcs, Go(c, pc)
  PROVE  Moves(c, pc, call[c].buf, call[c].job)
  <1>1. call[c] \in CallType BY Busy
  <1>2. [call[c] EXCEPT !.pc = pc] \in CallType BY <1>1 DEF CallType
  <1>3. call' = [call EXCEPT ![c] = [call[c] EXCEPT !.pc = pc]] BY DEF Go
  <1> QED BY <1>1, <1>2, <1>3 DEF Moves, CallsTyped, CallType

(* A call goes on with another copy of its buffer.                          *)
LEMMA BufMoves ==
  ASSUME CallsTyped, NEW c \in Calls, call[c].pc # "idle", NEW pc \in CallPcs, NEW b \in Buffer,
         call' = [call EXCEPT ![c].buf = b, ![c].pc = pc]
  PROVE  Moves(c, pc, b, call[c].job)
  <1>1. call[c] \in CallType BY Busy
  <1>2. [call[c] EXCEPT !.buf = b, !.pc = pc] \in CallType BY <1>1 DEF CallType
  <1>3. call' = [call EXCEPT ![c] = [call[c] EXCEPT !.buf = b, !.pc = pc]] OBVIOUS
  <1> QED BY <1>1, <1>2, <1>3 DEF Moves, CallsTyped, CallType

-----------------------------------------------------------------------------
(* A call that is inside withBufferLock.                                    *)
Inside(c) == call[c].pc \notin {"idle", "lock"}
Orderly(c) == Inside(c) /\ call[c].group \notin lapsed

Deciding == {"lookup", "republish", "drop", "unmark"}
Unreserved == {"countWaiting", "countActive", "mark", "clear", "write"}
Reserving == {"saveJob", "publish", "delete"}

LockHeld == \A c \in Calls : Orderly(c) => bufferLock[call[c].group] = c

Grouped ==
  /\ \A g \in Groups : \A i \in buffers[g].items : GroupOf[i] = g
  /\ \A c \in Calls :
       /\ \A i \in call[c].buf.items : GroupOf[i] = call[c].group
       /\ \A g \in Groups : \A i \in call[c].listed[g].items : GroupOf[i] = g
       /\ call[c].kind = "add" => /\ call[c].item \in Items
                                  /\ GroupOf[call[c].item] = call[c].group
                                  /\ call[c].listed = NoListing

Reserved ==
  /\ \A g, h \in Groups : buffers[g].job = buffers[h].job /\ buffers[g].job # NoJob => g = h
  /\ \A c \in Calls, g \in Groups :
       buffers[g].job = call[c].job /\ call[c].job # NoJob => g = call[c].group
  /\ \A c, d \in Calls : call[c].job = call[d].job /\ call[c].job # NoJob => c = d
  /\ \A c \in Calls :
       /\ call[c].pc \in Reserving => call[c].job # NoJob
       /\ call[c].pc = "saveJob" => jobs[call[c].job] = NoRecord
       /\ call[c].pc \in {"publish", "delete"} => jobs[call[c].job].status # "absent"
  /\ \A j \in Jobs : jobs[j].status = "absent" => jobs[j] = NoRecord

(* What the copy a call works on has to do with the buffer that is stored.  *)
Staged ==
  \A c \in Calls :
    /\ call[c].pc \in Deciding => call[c].buf.job # NoJob
    /\ call[c].pc \in Unreserved => call[c].buf.job = NoJob
    /\ call[c].pc \in {"republish", "drop"} => jobs[call[c].buf.job].status # "absent"
    /\ call[c].pc = "clear" => call[c].buf.items \subseteq setting.filtered
    /\ call[c].pc = "write" => call[c].kind = "add"
    /\ call[c].pc \in Unreserved \cup Reserving /\ call[c].kind = "add" => call[c].pc = "write"

CopyTrue ==
  \A c \in Calls : Orderly(c) =>
    /\ call[c].pc \in Deciding \cup Unreserved =>
         \/ buffers[call[c].group].items = {} /\ call[c].buf.items \subseteq reflushed
         \/ /\ buffers[call[c].group].items = call[c].buf.items
            /\ buffers[call[c].group].job = call[c].buf.job
    /\ call[c].pc \in Reserving => buffers[call[c].group].job = call[c].job
    /\ call[c].pc = "saveJob" => buffers[call[c].group].items = call[c].buf.items

Backed ==
  \A g \in Groups \ lapsed :
    buffers[g].job # NoJob /\ jobs[buffers[g].job].status # "absent"
      => buffers[g].items \subseteq jobs[buffers[g].job].items \cup setting.filtered

Taken ==
  \A g \in Groups \ lapsed, i \in Items, j \in Jobs :
    i \in buffers[g].items \ reflushed /\ i \in jobs[j].items => j = buffers[g].job

Seen == InBuffer \cup InJobs
        \cup UNION {call[c].buf.items \cup UNION {call[c].listed[g].items : g \in Groups} : c \in Calls}
Adding(c) == call[c].kind = "add" /\ call[c].pc # "unlock"

Fresh ==
  /\ Seen \subseteq offered
  /\ \A c \in Calls : call[c].kind = "add" => call[c].item \in offered
  /\ \A c \in Calls : Adding(c) => call[c].item \notin Seen
  /\ \A c, d \in Calls : Adding(c) /\ call[d].kind = "add" /\ call[c].item = call[d].item => c = d

Unopened == {"idle", "load", "ackGone"}
RunCopies ==
  \A r \in Runs :
    /\ run[r].pc \in Unopened => ~run[r].hung
    /\ run[r].pc \notin Unopened =>
         /\ run[r].rec.items = jobs[run[r].job].items
         /\ run[r].rec.status # "absent" /\ jobs[run[r].job].status # "absent"

Safe(i) == Alike(i) \cap (InBuffer \cup InJobs \cup setting.filtered) # {}

LandedAt(c) ==
  \A i \in Items : call[c].kind = "add" /\ call[c].pc = "unlock" /\ call[c].item = i =>
    Safe(i) \/ GroupOf[i] \in lapsed
Landed == \A c \in Calls : LandedAt(c)

BatchInv == /\ Typed /\ LockHeld /\ Grouped /\ Reserved /\ Staged /\ CopyTrue /\ Backed /\ Taken
            /\ Fresh /\ RunCopies /\ Landed /\ NothingLost /\ FlushedOnce

-----------------------------------------------------------------------------
(* What the options of the definition are stays.                            *)
SameOptions == setting'.filtered = setting.filtered /\ setting'.dedup = setting.dedup

Stored == InBuffer \cup InJobs \cup setting.filtered

(* A step of a call inside its lock that leaves the jobs alone and touches  *)
(* no buffer but its own.                                                   *)
StepOf(c, pc, buf, job) ==
  /\ Inside(c) /\ pc \notin {"idle", "lock"} /\ call[c].pc # "unlock"
  /\ Moves(c, pc, buf, job)
  /\ UNCHANGED <<jobs, bufferLock, lapsed, offered, accepted, run>> /\ SameOptions
  /\ reflushed \subseteq reflushed'
  /\ \A g \in Groups \ {call[c].group} : buffers'[g] = buffers[g]

(* While the locks are held in order, no other call is inside the lock of   *)
(* the same group.                                                          *)
LEMMA Alone ==
  ASSUME LockHeld, NEW c \in Calls, Inside(c), NEW d \in Calls, d # c, Orderly(d)
  PROVE  call[d].group # call[c].group
BY DEF LockHeld, Orderly

(* One step of a call inside its lock (StepOf) keeps each part of the       *)
(* invariant, given what the part needs to know of the step.  The lock stays*)
(* with who has it.                                                         *)
LEMMA StepLock ==
  ASSUME BatchInv, NEW c \in Calls, NEW pc, NEW buf, NEW job, StepOf(c, pc, buf, job)
  PROVE  LockHeld'
BY DEF BatchInv, LockHeld, StepOf, Moves, Orderly, Inside

(* Items stay in the buffer and the copies of their own group.              *)
LEMMA StepGrouped ==
  ASSUME BatchInv, NEW c \in Calls, NEW pc, NEW buf, NEW job, StepOf(c, pc, buf, job),
         \A i \in buf.items \cup buffers'[call[c].group].items : GroupOf[i] = call[c].group
  PROVE  Grouped'
BY DEF BatchInv, Grouped, StepOf, Moves

(* A reservation stays with one buffer and with one call: the job id is     *)
(* kept, given up, or was unused.                                           *)
LEMMA StepReserved ==
  ASSUME BatchInv, NEW c \in Calls, NEW pc, NEW buf, NEW job, StepOf(c, pc, buf, job),
         \/ job = call[c].job /\ buffers'[call[c].group].job \in {NoJob, buffers[call[c].group].job}
         \/ job \in Unused /\ buffers'[call[c].group].job = job,
         pc \in Reserving => job # NoJob,
         pc = "saveJob" => jobs[job] = NoRecord,
         pc \in {"publish", "delete"} => jobs[job].status # "absent"
  PROVE  Reserved'
  <1> USE DEF BatchInv, Reserved, StepOf, Moves
  <1>0. call[c].group \in Groups BY Busy DEF Typed, CallType, Inside
  <1>1. CASE job = call[c].job /\ buffers'[call[c].group].job \in {NoJob, buffers[call[c].group].job}
    BY <1>0, <1>1
  <1>2. CASE job \in Unused /\ buffers'[call[c].group].job = job
    BY <1>0, <1>2 DEF Unused
  <1> QED BY <1>1, <1>2

(* The next step of the call fits the copy it works on.                     *)
LEMMA StepStaged ==
  ASSUME BatchInv, NEW c \in Calls, NEW pc, NEW buf, NEW job, StepOf(c, pc, buf, job),
         pc \in Deciding => buf.job # NoJob,
         pc \in Unreserved => buf.job = NoJob,
         pc \in {"republish", "drop"} => jobs[buf.job].status # "absent",
         pc = "clear" => buf.items \subseteq setting.filtered,
         pc = "write" => call[c].kind = "add",
         pc \in Unreserved \cup Reserving /\ call[c].kind = "add" => pc = "write"
  PROVE  Staged'
BY DEF BatchInv, Staged, StepOf, Moves, SameOptions

CopyOf(c) ==
  /\ call[c].pc \in Deciding \cup Unreserved =>
       \/ buffers[call[c].group].items = {} /\ call[c].buf.items \subseteq reflushed
       \/ /\ buffers[call[c].group].items = call[c].buf.items
          /\ buffers[call[c].group].job = call[c].buf.job
  /\ call[c].pc \in Reserving => buffers[call[c].group].job = call[c].job
  /\ call[c].pc = "saveJob" => buffers[call[c].group].items = call[c].buf.items

(* Nobody else changes the buffer a call has read: only its own copy must be*)
(* looked at.                                                               *)
LEMMA StepCopy ==
  ASSUME BatchInv, NEW c \in Calls, NEW pc, NEW buf, NEW job, StepOf(c, pc, buf, job),
         Orderly(c) => CopyOf(c)'
  PROVE  CopyTrue'
  <1> SUFFICES ASSUME NEW d \in Calls, Orderly(d)' PROVE CopyOf(d)'
    BY DEF CopyTrue, CopyOf
  <1>0. Inside(c) /\ UNCHANGED lapsed /\ call'[c].group = call[c].group BY DEF StepOf, Moves
  <1>1. CASE d = c
    <2>1. Orderly(c) BY <1>0, <1>1 DEF Orderly, Inside
    <2>2. CopyOf(c)' BY <2>1
    <2> QED BY <1>1, <2>2
  <1>2. CASE d # c
    <2>1. call'[d] = call[d] /\ Orderly(d) /\ UNCHANGED lapsed
      BY <1>2 DEF StepOf, Moves, Orderly, Inside
    <2>2. call[d].group # call[c].group BY <1>2, <2>1, Alone DEF BatchInv, StepOf
    <2>3. call[d].group \in Groups BY <2>1, Busy DEF BatchInv, Typed, CallType, Orderly, Inside
    <2>4. buffers'[call[d].group] = buffers[call[d].group] BY <2>2, <2>3 DEF StepOf
    <2>5. CopyOf(d) BY <2>1 DEF BatchInv, CopyTrue, CopyOf
    <2> QED BY <2>1, <2>4, <2>5 DEF CopyOf, StepOf
  <1> QED BY <1>1, <1>2

BackedAt(g) ==
  buffers[g].job # NoJob /\ jobs[buffers[g].job].status # "absent"
    => buffers[g].items \subseteq jobs[buffers[g].job].items \cup setting.filtered
TakenAt(g) ==
  \A i \in Items, j \in Jobs :
    i \in buffers[g].items \ reflushed /\ i \in jobs[j].items => j = buffers[g].job

(* Nor the buffer of another group, and no step inside the lock drops an    *)
(* item from a job.                                                         *)
LEMMA StepBuffers ==
  ASSUME BatchInv, NEW c \in Calls, NEW pc, NEW buf, NEW job, StepOf(c, pc, buf, job),
         NEW own, own = call[c].group,
         own \notin lapsed => BackedAt(own)' /\ TakenAt(own)'
  PROVE  Backed' /\ Taken'
  <1>1. \A g \in Groups \ lapsed : BackedAt(g) /\ TakenAt(g)
    BY DEF BatchInv, Backed, Taken, BackedAt, TakenAt
  <1> SUFFICES ASSUME NEW g \in Groups \ lapsed PROVE BackedAt(g)' /\ TakenAt(g)'
    BY DEF Backed, Taken, BackedAt, TakenAt, StepOf
  <1>2. CASE g # call[c].group
    <2>1. buffers'[g] = buffers[g] /\ UNCHANGED jobs /\ SameOptions /\ reflushed \subseteq reflushed'
      BY <1>2 DEF StepOf
    <2> QED BY <1>1, <2>1 DEF BackedAt, TakenAt, SameOptions
  <1>3. CASE g = own BY <1>3
  <1> QED BY <1>2, <1>3

(* Whatever a call sees it has read.                                        *)
LEMMA StepFresh ==
  ASSUME BatchInv, NEW c \in Calls, NEW pc, NEW buf, NEW job, StepOf(c, pc, buf, job),
         \/ buf.items \cup buffers'[call[c].group].items \subseteq Seen
         \/ /\ call[c].kind = "add" /\ pc = "unlock"
            /\ buf.items \cup buffers'[call[c].group].items \subseteq Seen \cup {call[c].item}
  PROVE  Fresh'
  <1>0. call[c].group \in Groups BY Busy DEF BatchInv, Typed, CallType, Inside, StepOf
  <1>1. \A d \in Calls : /\ call'[d].listed = call[d].listed /\ call'[d].kind = call[d].kind
                         /\ call'[d].item = call[d].item
                         /\ Adding(d)' => Adding(d)
    BY DEF StepOf, Moves, Adding
  <1>2. ASSUME NEW S, Seen \subseteq S, buf.items \cup buffers'[call[c].group].items \subseteq S
        PROVE  Seen' \subseteq S
    <2>1. ASSUME NEW g \in Groups PROVE buffers'[g].items \subseteq S
      <3>1. CASE g = call[c].group BY <1>2, <3>1
      <3>2. CASE g # call[c].group BY <1>2, <3>2 DEF StepOf, Seen, InBuffer
      <3> QED BY <3>1, <3>2
    <2>2. ASSUME NEW j \in Jobs PROVE jobs'[j].items \subseteq S
      BY <1>2 DEF StepOf, Seen, InJobs
    <2>3. ASSUME NEW d \in Calls PROVE call'[d].buf.items \subseteq S
      <3>1. CASE d = c BY <1>2, <3>1 DEF StepOf, Moves
      <3>2. CASE d # c BY <1>2, <3>2 DEF StepOf, Moves, Seen
      <3> QED BY <3>1, <3>2
    <2>4. ASSUME NEW d \in Calls, NEW g \in Groups PROVE call'[d].listed[g].items \subseteq S
      BY <1>1, <1>2 DEF Seen
    <2> QED BY <2>1, <2>2, <2>3, <2>4 DEF Seen, InBuffer, InJobs
  <1>3. CASE buf.items \cup buffers'[call[c].group].items \subseteq Seen
    <2>1. Seen' \subseteq Seen BY <1>2, <1>3
    <2> QED BY <1>1, <2>1 DEF Fresh, BatchInv, StepOf
  <1>4. CASE /\ call[c].kind = "add" /\ pc = "unlock"
             /\ buf.items \cup buffers'[call[c].group].items \subseteq Seen \cup {call[c].item}
    <2>1. Seen' \subseteq Seen \cup {call[c].item} BY <1>2, <1>4
    <2>2. Adding(c) /\ ~Adding(c)' BY <1>1, <1>4 DEF StepOf, Adding, Moves
    <2>3. \A d \in Calls : Adding(d)' => d # c /\ call[d].item # call[c].item
      BY <1>1, <1>4, <2>2 DEF Fresh, BatchInv
    <2> QED BY <1>1, <1>4, <2>1, <2>3 DEF Fresh, BatchInv, StepOf
  <1> QED BY <1>3, <1>4

(* As long as no item leaves the stores, but from groups whose lock lapsed, *)
(* every item stays represented.                                            *)
LEMMA SafeKept ==
  ASSUME Grouped, GroupOf \in [Items -> Groups], SameOptions, NEW i \in Items, Safe(i),
         \A k \in Items : k \in Stored /\ GroupOf[k] = GroupOf[i] => k \in Stored'
  PROVE  Safe(i)'
  <1>1. Alike(i)' = Alike(i) BY DEF Alike, Same, SameOptions
  <1>2. PICK k \in Alike(i) : k \in Stored BY DEF Safe, Stored
  <1>3. k \in Items /\ GroupOf[k] = GroupOf[i] BY DEF Alike
  <1>4. k \in Stored' BY <1>2, <1>3
  <1> QED BY <1>1, <1>4 DEF Safe, Stored

(* What was accepted stays in the buffer or in a job, and what the call has *)
(* just stored is.                                                          *)
LEMMA StepSafe ==
  ASSUME BatchInv, NEW c \in Calls, NEW pc, NEW buf, NEW job, StepOf(c, pc, buf, job),
         \A k \in buffers[call[c].group].items :
           call[c].group \in lapsed \/ k \in Stored',
         pc = "unlock" => LandedAt(c)'
  PROVE  Landed' /\ NothingLost'
  <1>0. /\ call[c] \in CallType /\ GroupOf \in [Items -> Groups]
        /\ accepted \subseteq Items /\ offered \subseteq Items
    BY Busy, BatchAssumption
    DEF BatchInv, Typed, CallsTyped, StepOf, Inside, BatchAssumption
  <1>1. ASSUME NEW i \in Items, Safe(i), GroupOf[i] \notin lapsed PROVE Safe(i)'
    <2> SUFFICES ASSUME NEW k \in Items, k \in Stored, GroupOf[k] = GroupOf[i] PROVE k \in Stored'
      BY <1>0, <1>1, SafeKept DEF BatchInv, StepOf
    <2>1. CASE k \in InJobs \cup setting.filtered
      BY <2>1 DEF Stored, InJobs, StepOf, SameOptions
    <2>2. ASSUME NEW g \in Groups, k \in buffers[g].items PROVE k \in Stored'
      <3>1. GroupOf[k] = g BY <2>2 DEF BatchInv, Grouped
      <3>2. CASE g = call[c].group BY <1>1, <2>2, <3>1, <3>2
      <3>3. CASE g # call[c].group
        BY <2>2, <3>3 DEF Stored, InBuffer, StepOf
      <3> QED BY <3>2, <3>3
    <2> QED BY <2>1, <2>2 DEF Stored, InBuffer
  <1>2. NothingLost'
    <2>1. \A i \in accepted : i \in Items /\ (Safe(i) \/ GroupOf[i] \in lapsed)
      BY <1>0 DEF BatchInv, NothingLost, Safe
    <2>2. \A i \in accepted' : Safe(i)' \/ GroupOf[i] \in lapsed'
      BY <1>1, <2>1 DEF StepOf
    <2> QED BY <2>2 DEF NothingLost, Safe
  <1>3. Landed'
    <2> SUFFICES ASSUME NEW d \in Calls PROVE LandedAt(d)' BY DEF Landed
    <2>1. CASE d = c
      <3>1. CASE pc = "unlock" BY <2>1, <3>1
      <3>2. CASE pc # "unlock" BY <2>1, <3>2 DEF StepOf, Moves, LandedAt
      <3> QED BY <3>1, <3>2
    <2>2. CASE d # c
      <3>1. call'[d] = call[d] /\ UNCHANGED lapsed BY <2>2 DEF StepOf, Moves
      <3>2. LandedAt(d) BY DEF BatchInv, Landed
      <3> QED BY <1>1, <3>1, <3>2 DEF LandedAt
    <2> QED BY <2>1, <2>2
  <1> QED BY <1>2, <1>3

(* A step inside the lock touches no run and gives no job an item it already*)
(* has.                                                                     *)
LEMMA StepOnce ==
  ASSUME BatchInv, NEW c \in Calls, NEW pc, NEW buf, NEW job, StepOf(c, pc, buf, job)
  PROVE  RunCopies' /\ FlushedOnce'
BY DEF BatchInv, RunCopies, FlushedOnce, StepOf

(* The parts together.                                                      *)
LEMMA StepInv ==
  ASSUME BatchInv, NEW c \in Calls, NEW pc, NEW buf, NEW job, StepOf(c, pc, buf, job),
         NEW own, own = call[c].group,
         setting' = setting, buffers' \in [Groups -> Buffer], reflushed' \subseteq Items,
         \A i \in buf.items \cup buffers'[own].items : GroupOf[i] = own,
         \/ job = call[c].job /\ buffers'[own].job \in {NoJob, buffers[own].job}
         \/ job \in Unused /\ buffers'[own].job = job,
         pc \in Reserving => job # NoJob,
         pc = "saveJob" => jobs[job] = NoRecord,
         pc \in {"publish", "delete"} => jobs[job].status # "absent",
         pc \in Deciding => buf.job # NoJob,
         pc \in Unreserved => buf.job = NoJob,
         pc \in {"republish", "drop"} => jobs[buf.job].status # "absent",
         pc = "clear" => buf.items \subseteq setting.filtered,
         pc = "write" => call[c].kind = "add",
         pc \in Unreserved \cup Reserving /\ call[c].kind = "add" => pc = "write",
         Orderly(c) => CopyOf(c)',
         own \notin lapsed => BackedAt(own)' /\ TakenAt(own)',
         \/ buf.items \cup buffers'[own].items \subseteq Seen
         \/ /\ call[c].kind = "add" /\ pc = "unlock"
            /\ buf.items \cup buffers'[own].items \subseteq Seen \cup {call[c].item},
         \A k \in buffers[own].items : own \in lapsed \/ k \in Stored',
         pc = "unlock" => LandedAt(c)'
  PROVE  BatchInv'
  <1>1. Typed' BY DEF BatchInv, Typed, StoresTyped, CallsTyped, RunsTyped, StepOf, Moves
  <1>2. LockHeld' BY StepLock
  <1>3. Grouped' BY StepGrouped
  <1>4. Reserved' BY StepReserved
  <1>5. Staged' BY StepStaged
  <1>6. CopyTrue' BY StepCopy
  <1>7. Backed' /\ Taken' BY StepBuffers
  <1>8. Fresh' BY StepFresh
  <1>9. Landed' /\ NothingLost' BY StepSafe
  <1>10. RunCopies' /\ FlushedOnce' BY StepOnce
  <1> QED BY <1>1, <1>2, <1>3, <1>4, <1>5, <1>6, <1>7, <1>8, <1>9, <1>10 DEF BatchInv

-----------------------------------------------------------------------------
(* What the handlers compute.                                               *)
LEMMA BusyCall ==
  ASSUME BatchInv, NEW c \in Calls, call[c].pc # "idle"
  PROVE  /\ call[c] \in CallType /\ call[c].group \in Groups /\ call[c].buf \in Buffer
         /\ call[c].listed \in [Groups -> Buffer]
         /\ call[c].buf.items \subseteq Items /\ buffers[call[c].group] \in Buffer
         /\ call[c].buf.items \subseteq Seen /\ buffers[call[c].group].items \subseteq Seen
         /\ \A g \in Groups : call[c].listed[g].items \subseteq Seen
         /\ \A i \in call[c].buf.items : GroupOf[i] = call[c].group
         /\ \A i \in buffers[call[c].group].items : GroupOf[i] = call[c].group
         /\ \A i \in call[c].listed[call[c].group].items : GroupOf[i] = call[c].group
  <1>1. CallsTyped /\ buffers \in [Groups -> Buffer] BY DEF BatchInv, Typed, StoresTyped
  <1>2. call[c] \in CallType BY <1>1, Busy
  <1>3. /\ call[c].group \in Groups /\ call[c].buf \in Buffer
        /\ call[c].listed \in [Groups -> Buffer]
    BY <1>2 DEF CallType, Listing
  <1>4. /\ call[c].buf.items \subseteq Items /\ buffers[call[c].group] \in Buffer
    BY <1>1, <1>3 DEF Buffer
  <1>5. /\ call[c].buf.items \subseteq Seen /\ buffers[call[c].group].items \subseteq Seen
        /\ \A g \in Groups : call[c].listed[g].items \subseteq Seen
    BY <1>3 DEF Seen, InBuffer
  <1>6. /\ \A i \in call[c].buf.items : GroupOf[i] = call[c].group
        /\ \A i \in buffers[call[c].group].items : GroupOf[i] = call[c].group
        /\ \A i \in call[c].listed[call[c].group].items : GroupOf[i] = call[c].group
    BY <1>3 DEF BatchInv, Grouped
  <1> QED BY <1>2, <1>3, <1>4, <1>5, <1>6

(* SaveBuffer writes the buffer of one group.                               *)
LEMMA SaveOne ==
  ASSUME buffers \in [Groups -> Buffer], NEW g \in Groups, NEW b \in Buffer, SaveBuffer(g, b)
  PROVE  /\ buffers' \in [Groups -> Buffer] /\ buffers'[g] = b
         /\ \A h \in Groups \ {g} : buffers'[h] = buffers[h]
BY DEF SaveBuffer

(* Where a call goes with a buffer that is not reserved.                    *)
LEMMA AfterHookIs ==
  ASSUME NEW b
  PROVE  /\ AfterHook(b) \in {"clear", "mark"}
         /\ AfterHook(b) = "clear" => b.items \subseteq setting.filtered
BY DEF AfterHook

(* Where a call goes with the copy it has made sure of (Carry).             *)
LEMMA CarryIs ==
  ASSUME NEW c \in Calls, NEW b, call[c] \in CallType
  PROVE  /\ Carry(c, b) \in {"unlock", "write", "countWaiting", "clear", "mark"}
         /\ Carry(c, b) = "clear" => b.items \subseteq setting.filtered
         /\ Carry(c, b) = "write" <=> call[c].kind = "add" /\ ~\E i \in b.items : Same(i, call[c].item)
         /\ call[c].kind = "add" => Carry(c, b) \in {"unlock", "write"}
  <1>1. CASE call[c].kind = "add" BY <1>1 DEF Carry, AddNext
  <1>2. CASE call[c].kind # "add"
    <2>1. Carry(c, b) = FlushNext(c, b) BY <1>2 DEF Carry
    <2>2. FlushNext(c, b) \in {"unlock", "countWaiting", AfterHook(b)}
      BY DEF FlushNext
    <2> QED BY <1>2, <2>1, <2>2, AfterHookIs
  <1> QED BY <1>1, <1>2

(* An item like the one an add() brings stands for it.                      *)
LEMMA LikeIsSafe ==
  ASSUME NEW i \in Items, NEW k \in Items, Same(k, i), GroupOf[k] = GroupOf[i], k \in Stored
  PROVE  Safe(i)
BY DEF Safe, Alike, Same, Stored

-----------------------------------------------------------------------------
(* The steps of a call inside its lock.                                     *)
Still == UNCHANGED <<setting, jobs, bufferLock, lapsed, offered, accepted, run>>

(* ReadBuffer: the copy is the buffer as it is stored, and the next step    *)
(* fits it.                                                                 *)
LEMMA ReadSteps ==
  ASSUME BatchInv, NEW c \in Calls, ReadBuffer(c), UNCHANGED run
  PROVE  BatchInv'
  <1>0. call[c].pc = "read" /\ call[c].pc # "idle" BY DEF ReadBuffer, At
  <1>1. PICK own : own = call[c].group OBVIOUS
  <1>2. PICK b : b = Found(c) OBVIOUS
  <1>3. PICK pc : pc = IF b.job # NoJob THEN "lookup"
                       ELSE IF b = NoBuffer /\ call[c].kind = "flush" THEN "unlock"
                       ELSE Carry(c, b)
    OBVIOUS
  <1>4. call[c] \in CallType /\ own \in Groups BY <1>0, <1>1, BusyCall
  <1>5. /\ b \in {buffers[own], call[c].listed[own]} /\ b \in Buffer
        /\ b.items \subseteq Seen /\ \A i \in b.items : GroupOf[i] = own
        /\ b.items \subseteq Items
    <2>1. b \in {buffers[own], call[c].listed[own]} BY <1>1, <1>2 DEF Found
    <2> QED BY <1>0, <1>1, <1>4, <2>1, BusyCall DEF Buffer
  <1>6. /\ Carry(c, b) \in {"unlock", "write", "countWaiting", "clear", "mark"}
        /\ Carry(c, b) = "clear" => b.items \subseteq setting.filtered
        /\ Carry(c, b) = "write" <=> call[c].kind = "add" /\ ~\E i \in b.items : Same(i, call[c].item)
        /\ call[c].kind = "add" => Carry(c, b) \in {"unlock", "write"}
    BY <1>4, CarryIs
  <1>7. pc \in CallPcs \ {"idle", "lock", "read"} BY <1>3, <1>6 DEF CallPcs
  <1>8. /\ call' = [call EXCEPT ![c].buf = b, ![c].pc = pc]
        /\ reflushed' = IF buffers[own] = NoBuffer THEN reflushed \cup b.items ELSE reflushed
        /\ UNCHANGED buffers /\ Still
    BY <1>1, <1>2, <1>3 DEF ReadBuffer, storeVars, Still
  <1>9. Moves(c, pc, b, call[c].job)
    <2>1. CallsTyped BY DEF BatchInv, Typed
    <2> QED BY <1>0, <1>5, <1>7, <1>8, <2>1, BufMoves
  <1>10. StepOf(c, pc, b, call[c].job)
    BY <1>0, <1>7, <1>8, <1>9 DEF StepOf, Inside, SameOptions, Still
  <1>11. /\ buffers' \in [Groups -> Buffer] /\ reflushed' \subseteq Items
         /\ buffers'[own] = buffers[own] /\ buffers[own].items \subseteq Seen
         /\ \A i \in buffers[own].items : GroupOf[i] = own
    BY <1>0, <1>1, <1>5, <1>8, BusyCall DEF BatchInv, Typed, StoresTyped, CallsTyped
  <1>12. CopyOf(c)'
    <2>1. \/ b = buffers[own]
          \/ buffers[own] = NoBuffer /\ reflushed' = reflushed \cup b.items
      BY <1>1, <1>2, <1>8 DEF Found
    <2>2. call'[c].group = own /\ call'[c].pc = pc /\ call'[c].buf = b BY <1>1, <1>9 DEF Moves
    <2>3. pc \notin Reserving BY <1>3, <1>6 DEF Reserving
    <2>4. pc # "saveJob" BY <2>3 DEF Reserving
    <2>5. buffers' = buffers BY <1>8
    <2>6. \/ buffers'[own].items = {} /\ b.items \subseteq reflushed'
          \/ buffers'[own].items = b.items /\ buffers'[own].job = b.job
      BY <2>1, <2>5 DEF NoBuffer
    <2> QED BY <2>2, <2>3, <2>4, <2>6 DEF CopyOf
  <1>13. ASSUME own \notin lapsed PROVE BackedAt(own)' /\ TakenAt(own)'
    BY <1>4, <1>8, <1>13 DEF BatchInv, Backed, Taken, BackedAt, TakenAt, Still
  <1>14. \A k \in buffers[own].items : k \in Stored'
    BY <1>4, <1>8 DEF Stored, InBuffer
  <1>15. ASSUME pc = "unlock" PROVE LandedAt(c)'
    <2> SUFFICES ASSUME NEW i \in Items, call[c].kind = "add", call[c].item = i PROVE Safe(i)'
      BY <1>9 DEF LandedAt, Moves
    <2>1. PICK k \in b.items : Same(k, i) BY <1>3, <1>6, <1>15
    <2>2. b = buffers[own]
      BY <1>1, <1>2 DEF Found, Engine, EngineKinds
    <2>3. k \in Stored' BY <1>14, <2>1, <2>2
    <2>4. GroupOf[k] = GroupOf[i] BY <1>1, <1>5, <2>1 DEF BatchInv, Grouped
    <2>5. Same(k, i)' BY <1>8, <2>1 DEF Same, Still
    <2> QED BY <1>5, <2>1, <2>3, <2>4, <2>5 DEF Safe, Alike, Same, Stored
  <1>16. /\ pc \in Deciding => b.job # NoJob
         /\ pc \in Unreserved => b.job = NoJob
         /\ pc \notin Reserving \cup {"republish", "drop"}
         /\ pc = "clear" => b.items \subseteq setting.filtered
         /\ pc = "write" => call[c].kind = "add"
         /\ pc \in Unreserved \cup Reserving /\ call[c].kind = "add" => pc = "write"
    BY <1>3, <1>6 DEF Deciding, Unreserved, Reserving
  <1> QED
    <2>1. setting' = setting BY <1>8 DEF Still
    <2>2. \A i \in b.items \cup buffers'[own].items : GroupOf[i] = own BY <1>5, <1>11
    <2>3. b.items \cup buffers'[own].items \subseteq Seen BY <1>5, <1>11
    <2>4. pc \notin {"saveJob", "publish", "delete"} BY <1>16 DEF Reserving
    <2> QED BY <1>1, <1>10, <1>11, <1>12, <1>13, <1>14, <1>15, <1>16, <2>1, <2>2, <2>3, <2>4, StepInv

(* A step that changes nothing but how far the call is.                     *)
LEMMA SteadySteps ==
  ASSUME BatchInv, NEW c \in Calls, NEW pc \in CallPcs, pc \notin {"lock", "read"},
         call[c].pc \notin {"idle", "lock", "unlock"},
         Moves(c, pc, call[c].buf, call[c].job), UNCHANGED <<buffers, reflushed>>, Still,
         pc \in {"publish", "delete"} => jobs[call[c].job].status # "absent",
         pc \in Deciding => call[c].buf.job # NoJob,
         pc \in Unreserved => call[c].buf.job = NoJob,
         pc \in Reserving => call[c].job # NoJob,
         pc # "saveJob",
         pc \in {"republish", "drop"} => jobs[call[c].buf.job].status # "absent",
         pc = "clear" => call[c].buf.items \subseteq setting.filtered,
         pc = "write" => call[c].kind = "add",
         pc \in Unreserved \cup Reserving \cup {"unlock"} /\ call[c].kind = "add" => pc = "write",
         pc \in Deciding \cup Unreserved => call[c].pc \in Deciding \cup Unreserved,
         pc \in Reserving => call[c].pc \in Reserving
  PROVE  BatchInv'
  <1>1. PICK own : own = call[c].group OBVIOUS
  <1>2. own \in Groups BY <1>1, BusyCall
  <1>3. StepOf(c, pc, call[c].buf, call[c].job)
    BY DEF StepOf, Inside, SameOptions, Still, CallPcs
  <1>4. /\ buffers' \in [Groups -> Buffer] /\ reflushed' \subseteq Items
        /\ call[c].buf.items \cup buffers'[own].items \subseteq Seen
        /\ \A i \in call[c].buf.items \cup buffers'[own].items : GroupOf[i] = own
    BY <1>1, BusyCall DEF BatchInv, Typed, StoresTyped, CallsTyped
  <1>5. ASSUME Orderly(c) PROVE CopyOf(c)'
    <2>1. CopyOf(c) BY <1>5 DEF BatchInv, CopyTrue, CopyOf
    <2>2. /\ call'[c].pc = pc /\ call'[c].buf = call[c].buf /\ call'[c].job = call[c].job
          /\ call'[c].group = call[c].group /\ buffers' = buffers /\ reflushed' = reflushed
      BY DEF Moves
    <2> QED BY <2>1, <2>2 DEF CopyOf
  <1>6. ASSUME own \notin lapsed PROVE BackedAt(own)' /\ TakenAt(own)'
    BY <1>2, <1>6 DEF BatchInv, Backed, Taken, BackedAt, TakenAt, Still
  <1>7. \A k \in buffers[own].items : k \in Stored' BY <1>2 DEF Stored, InBuffer
  <1>8. ASSUME pc = "unlock" PROVE LandedAt(c)' BY <1>8 DEF LandedAt, Moves
  <1> QED
    <2>1. setting' = setting /\ buffers' = buffers BY DEF Still
    <2>2. pc \in Unreserved \cup Reserving /\ call[c].kind = "add" => pc = "write" OBVIOUS
    <2> QED BY <1>1, <1>3, <1>4, <1>5, <1>6, <1>7, <1>8, <2>1, <2>2, StepInv

(* Lookup of the reserved job: absent, done or still to be run decides the  *)
(* next step.                                                               *)
LEMMA LookupSteps ==
  ASSUME BatchInv, NEW c \in Calls, Lookup(c), UNCHANGED run
  PROVE  BatchInv'
  <1>1. PICK j : j = call[c].buf.job OBVIOUS
  <1>2. PICK pc : pc = IF ~Exists(j) THEN "unmark"
                       ELSE IF jobs[j].status \in Terminal THEN "drop" ELSE "republish"
    OBVIOUS
  <1>3. call[c].pc = "lookup" /\ Go(c, pc) /\ UNCHANGED <<buffers, reflushed>> /\ Still
    BY <1>1, <1>2 DEF Lookup, At, storeVars, histories, Still
  <1>4. pc \in {"unmark", "drop", "republish"} /\ pc \in CallPcs BY <1>2 DEF CallPcs
  <1>5. Moves(c, pc, call[c].buf, call[c].job) BY <1>3, <1>4, GoMoves DEF BatchInv, Typed
  <1>6. j # NoJob BY <1>1, <1>3 DEF BatchInv, Staged, Deciding
  <1>7. pc \in {"republish", "drop"} => jobs[j].status # "absent" BY <1>2 DEF Exists
  <1> QED BY <1>1, <1>3, <1>4, <1>5, <1>6, <1>7, SteadySteps DEF Deciding, Unreserved, Reserving

(* Republish: the broker is told again of a job that exists; no record      *)
(* changes.                                                                 *)
LEMMA RepublishSteps ==
  ASSUME BatchInv, NEW c \in Calls, Republish(c), UNCHANGED run
  PROVE  BatchInv'
  <1>1. call[c].pc = "republish" /\ Go(c, "drop") /\ UNCHANGED <<buffers, reflushed>> /\ Still
    BY DEF Republish, At, histories, Still
  <1>2. "drop" \in CallPcs BY DEF CallPcs
  <1>3. Moves(c, "drop", call[c].buf, call[c].job) BY <1>1, <1>2, GoMoves DEF BatchInv, Typed
  <1>4. call[c].buf.job # NoJob /\ jobs[call[c].buf.job].status # "absent"
    BY <1>1 DEF BatchInv, Staged, Deciding
  <1> QED BY <1>1, <1>2, <1>3, <1>4, SteadySteps DEF Deciding, Unreserved, Reserving

(* PublishJob: the saved job is told to the broker; no record changes.      *)
LEMMA PublishSteps ==
  ASSUME BatchInv, NEW c \in Calls, PublishJob(c), UNCHANGED run
  PROVE  BatchInv'
  <1>1. call[c].pc = "publish" /\ Go(c, "delete") /\ UNCHANGED <<buffers, reflushed>> /\ Still
    BY DEF PublishJob, At, histories, Still
  <1>2. "delete" \in CallPcs BY DEF CallPcs
  <1>3. Moves(c, "delete", call[c].buf, call[c].job) BY <1>1, <1>2, GoMoves DEF BatchInv, Typed
  <1>4. call[c].job # NoJob /\ jobs[call[c].job].status # "absent"
    BY <1>1 DEF BatchInv, Reserved, Reserving
  <1>5. call[c].kind # "add" BY <1>1 DEF BatchInv, Staged, Reserving
  <1> QED BY <1>1, <1>2, <1>3, <1>4, <1>5, SteadySteps DEF Deciding, Unreserved, Reserving

(* A count of jobs is a number, because there are finitely many.            *)
LEMMA CountIsNat ==
  ASSUME NEW status
  PROVE  Counted(status) \in Nat
  <1>1. IsFiniteSet({j \in Jobs : jobs[j].status = status})
    BY BatchAssumption, FS_Subset DEF BatchAssumption
  <1> QED BY <1>1, FS_CardinalityType DEF Counted

(* The first of the two counts of the back-pressure gate.                   *)
LEMMA CountWaitingSteps ==
  ASSUME BatchInv, NEW c \in Calls, CountWaiting(c), UNCHANGED run
  PROVE  BatchInv'
  <1>1. /\ call[c].pc = "countWaiting" /\ UNCHANGED <<buffers, reflushed>> /\ Still
        /\ call' = [call EXCEPT ![c] = [call[c] EXCEPT !.waiting = Counted("waiting"), !.pc = "countActive"]]
    BY DEF CountWaiting, At, storeVars, histories, Still
  <1>2. "countActive" \in CallPcs BY DEF CallPcs
  <1>3. call[c] \in CallType /\ CallsTyped BY <1>1, BusyCall DEF BatchInv, Typed
  <1>4. [call[c] EXCEPT !.waiting = Counted("waiting"), !.pc = "countActive"] \in CallType
    BY <1>2, <1>3, CountIsNat DEF CallType
  <1>5. Moves(c, "countActive", call[c].buf, call[c].job)
    BY <1>1, <1>3, <1>4 DEF Moves, CallsTyped, CallType
  <1>6. call[c].buf.job = NoJob /\ call[c].kind # "add"
    BY <1>1 DEF BatchInv, Staged, Unreserved
  <1> QED BY <1>1, <1>2, <1>5, <1>6, SteadySteps DEF Deciding, Unreserved, Reserving

(* The second count: the flush is throttled or goes on.                     *)
LEMMA CountActiveSteps ==
  ASSUME BatchInv, NEW c \in Calls, CountActive(c), UNCHANGED run
  PROVE  BatchInv'
  <1>1. PICK pc : pc = IF call[c].waiting + Counted("active") >= setting.maxPending
                       THEN "unlock" ELSE AfterHook(call[c].buf)
    OBVIOUS
  <1>2. call[c].pc = "countActive" /\ Go(c, pc) /\ UNCHANGED <<buffers, reflushed>> /\ Still
    BY <1>1 DEF CountActive, At, storeVars, histories, Still
  <1>3. /\ pc \in {"unlock", "clear", "mark"} /\ pc \in CallPcs
        /\ pc = "clear" => call[c].buf.items \subseteq setting.filtered
    BY <1>1, AfterHookIs DEF CallPcs
  <1>4. Moves(c, pc, call[c].buf, call[c].job) BY <1>2, <1>3, GoMoves DEF BatchInv, Typed
  <1>5. call[c].buf.job = NoJob /\ call[c].kind # "add"
    BY <1>2 DEF BatchInv, Staged, Unreserved
  <1> QED BY <1>2, <1>3, <1>4, <1>5, SteadySteps DEF Deciding, Unreserved, Reserving

(* Drop: the buffer of a reservation whose job is done is deleted; its items*)
(* were in that job.                                                        *)
LEMMA DropSteps ==
  ASSUME BatchInv, NEW c \in Calls, Drop(c), UNCHANGED run
  PROVE  BatchInv'
  <1>0. call[c].pc = "drop" /\ call[c].pc # "idle" BY DEF Drop, At
  <1>1. PICK own : own = call[c].group OBVIOUS
  <1>2. PICK pc : pc = IF call[c].kind = "add" THEN "write" ELSE "unlock" OBVIOUS
  <1>4. call[c] \in CallType /\ own \in Groups /\ buffers \in [Groups -> Buffer]
    BY <1>0, <1>1, BusyCall DEF BatchInv, Typed, StoresTyped
  <1>5. pc \in {"write", "unlock"} /\ pc \in CallPcs BY <1>2 DEF CallPcs
  <1>6. /\ SaveBuffer(own, NoBuffer) /\ call' = [call EXCEPT ![c].buf = NoBuffer, ![c].pc = pc]
        /\ UNCHANGED reflushed /\ Still
    BY <1>1, <1>2 DEF Drop, histories, Still
  <1>7. Moves(c, pc, NoBuffer, call[c].job)
    BY <1>0, <1>5, <1>6, BufMoves, NoBufferIsBuffer DEF BatchInv, Typed
  <1>8. /\ buffers' \in [Groups -> Buffer] /\ buffers'[own] = NoBuffer
        /\ \A g \in Groups \ {own} : buffers'[g] = buffers[g]
    BY <1>4, <1>6, SaveOne, NoBufferIsBuffer
  <1>9. StepOf(c, pc, NoBuffer, call[c].job)
    BY <1>0, <1>1, <1>5, <1>6, <1>7, <1>8 DEF StepOf, Inside, SameOptions, Still
  <1>10. CopyOf(c)' BY <1>1, <1>5, <1>7, <1>8 DEF CopyOf, Moves, Reserving
  <1>11. BackedAt(own)' /\ TakenAt(own)' BY <1>8 DEF BackedAt, TakenAt, NoBuffer
  <1>12. ASSUME NEW k \in buffers[own].items, own \notin lapsed PROVE k \in Stored'
    <2>1. Orderly(c) BY <1>0, <1>1, <1>12 DEF Orderly, Inside
    <2>2. CopyOf(c) BY <2>1 DEF BatchInv, CopyTrue, CopyOf
    <2>3. call[c].buf.job # NoJob /\ jobs[call[c].buf.job].status # "absent"
      BY <1>0 DEF BatchInv, Staged, Deciding
    <2>4. buffers[own].job = call[c].buf.job BY <1>0, <1>1, <1>12, <2>2 DEF CopyOf, Deciding
    <2>5. buffers[own].items \subseteq jobs[call[c].buf.job].items \cup setting.filtered
      BY <1>4, <1>12, <2>3, <2>4 DEF BatchInv, Backed
    <2>6. call[c].buf.job \in Jobs BY <1>4, <2>3, <2>4 DEF Buffer
    <2> QED BY <1>6, <1>12, <2>5, <2>6 DEF Stored, InJobs, Still
  <1>13. ASSUME pc = "unlock" PROVE LandedAt(c)'
    BY <1>2, <1>7, <1>13 DEF LandedAt, Moves
  <1> QED
    <2>1. setting' = setting /\ reflushed' \subseteq Items
      BY <1>6 DEF Still, BatchInv, Typed, CallsTyped
    <2>2. pc \notin Deciding \cup Reserving /\ pc \notin {"saveJob", "publish", "delete", "republish", "drop", "clear"}
      BY <1>5 DEF Deciding, Reserving
    <2>3. NoBuffer.items = {} /\ NoBuffer.job = NoJob BY DEF NoBuffer
    <2>4. pc = "write" => call[c].kind = "add" BY <1>2
    <2>5. pc \in Unreserved \cup Reserving /\ call[c].kind = "add" => pc = "write" BY <1>2
    <2> QED BY <1>1, <1>8, <1>9, <1>10, <1>11, <1>12, <1>13, <2>1, <2>2, <2>3, <2>4, <2>5, StepInv

(* Unmark: the job of a reservation is gone, so its items are up for another*)
(* flush; those a job had already taken are the ones reflushed.             *)
LEMMA UnmarkSteps ==
  ASSUME BatchInv, NEW c \in Calls, Unmark(c), UNCHANGED run
  PROVE  BatchInv'
  <1>0. call[c].pc = "unmark" /\ call[c].pc # "idle" BY DEF Unmark, At
  <1>1. PICK own : own = call[c].group OBVIOUS
  <1>2. PICK b : b = [call[c].buf EXCEPT !.job = NoJob] OBVIOUS
  <1>3. PICK pc : pc = Carry(c, b) OBVIOUS
  <1>4. /\ call[c] \in CallType /\ own \in Groups /\ buffers \in [Groups -> Buffer]
        /\ call[c].buf \in Buffer /\ call[c].buf.items \subseteq Seen
        /\ \A i \in call[c].buf.items : GroupOf[i] = own
        /\ call[c].buf.items \subseteq Items
    BY <1>0, <1>1, BusyCall DEF BatchInv, Typed, StoresTyped
  <1>5. /\ b \in Buffer /\ b.items = call[c].buf.items /\ b.job = NoJob
        /\ b.items \subseteq Items
    BY <1>2, <1>4 DEF Buffer
  <1>6. /\ SaveBuffer(own, b) /\ call' = [call EXCEPT ![c].buf = b, ![c].pc = pc]
        /\ reflushed' = IF jobs[call[c].buf.job].status # "absent"
                        THEN reflushed \cup b.items ELSE reflushed
        /\ Still
    BY <1>1, <1>2, <1>3 DEF Unmark, Still
  <1>7. /\ Carry(c, b) \in {"unlock", "write", "countWaiting", "clear", "mark"}
        /\ Carry(c, b) = "clear" => b.items \subseteq setting.filtered
        /\ Carry(c, b) = "write" <=> call[c].kind = "add" /\ ~\E i \in b.items : Same(i, call[c].item)
        /\ call[c].kind = "add" => Carry(c, b) \in {"unlock", "write"}
    BY <1>4, CarryIs
  <1>8. pc \in {"unlock", "write", "countWaiting", "clear", "mark"} /\ pc \in CallPcs
    BY <1>3, <1>7 DEF CallPcs
  <1>9. Moves(c, pc, b, call[c].job)
    BY <1>0, <1>5, <1>6, <1>8, BufMoves DEF BatchInv, Typed
  <1>10. /\ buffers' \in [Groups -> Buffer] /\ buffers'[own] = b
         /\ \A g \in Groups \ {own} : buffers'[g] = buffers[g]
    BY <1>4, <1>5, <1>6, SaveOne
  <1>11. StepOf(c, pc, b, call[c].job)
    BY <1>0, <1>1, <1>6, <1>8, <1>9, <1>10 DEF StepOf, Inside, SameOptions, Still
  <1>12. CopyOf(c)' BY <1>1, <1>8, <1>9, <1>10 DEF CopyOf, Moves, Reserving
  <1>13. ASSUME own \notin lapsed PROVE CopyOf(c) /\ call[c].buf.job # NoJob
    BY <1>0, <1>1, <1>13 DEF BatchInv, CopyTrue, CopyOf, Orderly, Inside, Staged, Deciding
  <1>14. ASSUME own \notin lapsed PROVE BackedAt(own)' /\ TakenAt(own)'
    <2>1. BackedAt(own)' BY <1>5, <1>10 DEF BackedAt
    <2> SUFFICES ASSUME NEW i \in Items, NEW j \in Jobs,
                        i \in b.items \ reflushed', i \in jobs[j].items
                 PROVE  FALSE
      BY <1>6, <1>10, <2>1 DEF TakenAt, Still
    <2>2. i \notin reflushed BY <1>6
    <2>3. /\ buffers[own].items = call[c].buf.items /\ buffers[own].job = call[c].buf.job
      BY <1>0, <1>1, <1>5, <1>13, <1>14, <2>2 DEF CopyOf, Deciding
    <2>4. j = call[c].buf.job
      BY <1>4, <1>5, <1>14, <2>2, <2>3 DEF BatchInv, Taken
    <2>5. jobs[j].status = "absent" BY <1>6, <2>4
    <2>6. jobs[j].items = {} BY <2>5 DEF BatchInv, Reserved, NoRecord
    <2> QED BY <2>6
  <1>15. ASSUME NEW k \in buffers[own].items, own \notin lapsed PROVE k \in Stored'
    <2>1. k \in b.items BY <1>0, <1>1, <1>5, <1>13, <1>15 DEF CopyOf, Deciding
    <2> QED BY <1>4, <1>10, <2>1 DEF Stored, InBuffer
  <1>16. ASSUME pc = "unlock" PROVE LandedAt(c)'
    <2> SUFFICES ASSUME NEW i \in Items, call[c].kind = "add", call[c].item = i PROVE Safe(i)'
      BY <1>9 DEF LandedAt, Moves
    <2>1. PICK k \in b.items : Same(k, i) BY <1>3, <1>7, <1>16
    <2>2. k \in Stored' BY <1>4, <1>10, <2>1 DEF Stored, InBuffer
    <2>3. GroupOf[k] = GroupOf[i] BY <1>1, <1>4, <1>5, <2>1 DEF BatchInv, Grouped
    <2>4. Same(k, i)' BY <1>6, <2>1 DEF Same, Still
    <2> QED BY <1>5, <2>1, <2>2, <2>3, <2>4 DEF Safe, Alike, Same, Stored
  <1> QED
    <2>1. setting' = setting /\ reflushed' \subseteq Items
      BY <1>5, <1>6 DEF Still, BatchInv, Typed, CallsTyped
    <2>2. pc \notin Deciding \cup Reserving /\ pc \notin {"saveJob", "publish", "delete", "republish", "drop"}
      BY <1>8 DEF Deciding, Reserving
    <2>3. pc = "clear" => b.items \subseteq setting.filtered BY <1>3, <1>7
    <2>4. pc = "write" => call[c].kind = "add" BY <1>3, <1>7
    <2>5. pc \in Unreserved \cup Reserving /\ call[c].kind = "add" => pc = "write"
      BY <1>3, <1>7 DEF Unreserved, Reserving
    <2>6. b.items \cup buffers'[own].items \subseteq Seen
          /\ \A i \in b.items \cup buffers'[own].items : GroupOf[i] = own
      BY <1>4, <1>5, <1>10
    <2> QED BY <1>1, <1>5, <1>10, <1>11, <1>12, <1>14, <1>15, <1>16,
               <2>1, <2>2, <2>3, <2>4, <2>5, <2>6, StepInv

(* Write: an added item lands in the buffer its call has read.              *)
LEMMA WriteSteps ==
  ASSUME BatchInv, NEW c \in Calls, Write(c), UNCHANGED run
  PROVE  BatchInv'
  <1>0. call[c].pc = "write" /\ call[c].pc # "idle" BY DEF Write, At
  <1>1. PICK own : own = call[c].group OBVIOUS
  <1>2. PICK item : item = call[c].item OBVIOUS
  <1>3. PICK b : b = [call[c].buf EXCEPT !.items = @ \cup {item}] OBVIOUS
  <1>4. /\ call[c] \in CallType /\ own \in Groups /\ buffers \in [Groups -> Buffer]
        /\ call[c].buf \in Buffer /\ call[c].buf.items \subseteq Seen
        /\ \A i \in call[c].buf.items : GroupOf[i] = own
        /\ call[c].buf.items \subseteq Items
    BY <1>0, <1>1, BusyCall DEF BatchInv, Typed, StoresTyped
  <1>5. call[c].kind = "add" /\ call[c].buf.job = NoJob BY <1>0 DEF BatchInv, Staged, Unreserved
  <1>6. item \in Items /\ GroupOf[item] = own /\ item \notin Seen
    BY <1>0, <1>1, <1>2, <1>5 DEF BatchInv, Grouped, Fresh, Adding
  <1>7. b \in Buffer /\ b.items = call[c].buf.items \cup {item} /\ b.job = NoJob
    BY <1>3, <1>4, <1>5, <1>6 DEF Buffer
  <1>8. SaveBuffer(own, b) /\ Go(c, "unlock") /\ UNCHANGED reflushed /\ Still
    BY <1>1, <1>2, <1>3 DEF Write, histories, Still
  <1>9. Moves(c, "unlock", call[c].buf, call[c].job)
    BY <1>0, <1>8, GoMoves DEF BatchInv, Typed, CallPcs
  <1>10. /\ buffers' \in [Groups -> Buffer] /\ buffers'[own] = b
         /\ \A g \in Groups \ {own} : buffers'[g] = buffers[g]
    BY <1>4, <1>7, <1>8, SaveOne
  <1>11. StepOf(c, "unlock", call[c].buf, call[c].job)
    BY <1>0, <1>1, <1>8, <1>9, <1>10 DEF StepOf, Inside, SameOptions, Still
  <1>12. CopyOf(c)' BY <1>9 DEF CopyOf, Moves, Deciding, Unreserved, Reserving
  <1>13. ASSUME own \notin lapsed PROVE CopyOf(c)
    BY <1>0, <1>1, <1>13 DEF BatchInv, CopyTrue, CopyOf, Orderly, Inside
  <1>14. ASSUME own \notin lapsed PROVE BackedAt(own)' /\ TakenAt(own)'
    <2>1. BackedAt(own)' BY <1>7, <1>10 DEF BackedAt
    <2> SUFFICES ASSUME NEW i \in Items, NEW j \in Jobs,
                        i \in b.items \ reflushed, i \in jobs[j].items
                 PROVE  FALSE
      BY <1>8, <1>10, <2>1 DEF TakenAt, Still
    <2>2. i # item BY <1>6 DEF Seen, InJobs
    <2>3. /\ buffers[own].items = call[c].buf.items /\ buffers[own].job = NoJob
      BY <1>0, <1>1, <1>5, <1>7, <1>13, <1>14, <2>2 DEF CopyOf, Unreserved
    <2>4. j = NoJob BY <1>4, <1>7, <1>14, <2>2, <2>3 DEF BatchInv, Taken
    <2> QED BY <2>4, BatchAssumption DEF BatchAssumption
  <1>15. ASSUME NEW k \in buffers[own].items, own \notin lapsed PROVE k \in Stored'
    <2>1. k \in b.items BY <1>0, <1>1, <1>7, <1>13, <1>15 DEF CopyOf, Unreserved
    <2> QED BY <1>4, <1>10, <2>1 DEF Stored, InBuffer
  <1>16. LandedAt(c)'
    <2>1. Safe(item)' BY <1>4, <1>6, <1>7, <1>10 DEF Safe, Alike, Same, InBuffer
    <2> QED BY <1>2, <1>9, <2>1 DEF LandedAt, Moves
  <1> QED
    <2>1. setting' = setting /\ reflushed' \subseteq Items
      BY <1>8 DEF Still, BatchInv, Typed, CallsTyped
    <2>2. "unlock" \notin Deciding \cup Reserving \cup Unreserved
      BY DEF Deciding, Reserving, Unreserved
    <2>3. call[c].buf.items \cup buffers'[own].items \subseteq Seen \cup {call[c].item}
          /\ \A i \in call[c].buf.items \cup buffers'[own].items : GroupOf[i] = own
      BY <1>2, <1>4, <1>6, <1>7, <1>10
    <2> QED BY <1>1, <1>5, <1>7, <1>10, <1>11, <1>12, <1>14, <1>15, <1>16, <2>1, <2>2, <2>3, StepInv

(* A step that takes the buffer away: what was in it has to be stored       *)
(* elsewhere, unless the lock had lapsed.                                   *)
LEMMA EmptyingSteps ==
  ASSUME BatchInv, NEW c \in Calls, call[c].pc \in {"clear", "delete"},
         SaveBuffer(call[c].group, NoBuffer), Go(c, "unlock"), UNCHANGED reflushed, Still,
         Orderly(c) => buffers[call[c].group].items \subseteq InJobs \cup setting.filtered
  PROVE  BatchInv'
  <1>0. call[c].pc \notin {"idle", "lock", "unlock"} OBVIOUS
  <1>1. PICK own : own = call[c].group OBVIOUS
  <1>2. /\ own \in Groups /\ buffers \in [Groups -> Buffer] /\ call[c].kind # "add"
        /\ call[c].buf.items \subseteq Seen
        /\ \A i \in call[c].buf.items : GroupOf[i] = own
    BY <1>0, <1>1, BusyCall DEF BatchInv, Typed, StoresTyped, Staged, Unreserved, Reserving
  <1>3. Moves(c, "unlock", call[c].buf, call[c].job) BY GoMoves DEF BatchInv, Typed, CallPcs
  <1>4. /\ buffers' \in [Groups -> Buffer] /\ buffers'[own] = NoBuffer
        /\ \A g \in Groups \ {own} : buffers'[g] = buffers[g]
    BY <1>1, <1>2, SaveOne, NoBufferIsBuffer
  <1>5. StepOf(c, "unlock", call[c].buf, call[c].job)
    BY <1>0, <1>1, <1>3, <1>4 DEF StepOf, Inside, SameOptions, Still
  <1>6. CopyOf(c)' BY <1>3 DEF CopyOf, Moves, Deciding, Unreserved, Reserving
  <1>7. BackedAt(own)' /\ TakenAt(own)' BY <1>4 DEF BackedAt, TakenAt, NoBuffer
  <1>8. ASSUME NEW k \in buffers[own].items, own \notin lapsed PROVE k \in Stored'
    <2>1. k \in InJobs \cup setting.filtered BY <1>0, <1>1, <1>8 DEF Orderly, Inside
    <2> QED BY <2>1 DEF Stored, InJobs, Still
  <1>9. LandedAt(c)' BY <1>2, <1>3 DEF LandedAt, Moves
  <1> QED
    <2>1. setting' = setting /\ reflushed' \subseteq Items
      BY DEF Still, BatchInv, Typed, CallsTyped
    <2>2. "unlock" \notin Deciding \cup Reserving \cup Unreserved
      BY DEF Deciding, Reserving, Unreserved
    <2>3. NoBuffer.items = {} /\ NoBuffer.job = NoJob BY DEF NoBuffer
    <2> QED BY <1>1, <1>2, <1>4, <1>5, <1>6, <1>7, <1>8, <1>9, <2>1, <2>2, <2>3, StepInv

(* Clear: every item of the copy was filtered away by the hook.             *)
LEMMA ClearSteps ==
  ASSUME BatchInv, NEW c \in Calls, Clear(c), UNCHANGED run
  PROVE  BatchInv'
  <1>1. /\ call[c].pc = "clear" /\ SaveBuffer(call[c].group, NoBuffer) /\ Go(c, "unlock")
        /\ UNCHANGED reflushed /\ Still
    BY DEF Clear, At, histories, Still
  <1>2. ASSUME Orderly(c) PROVE buffers[call[c].group].items \subseteq setting.filtered
    <2>1. CopyOf(c) BY <1>2 DEF BatchInv, CopyTrue, CopyOf
    <2>2. call[c].buf.items \subseteq setting.filtered BY <1>1 DEF BatchInv, Staged
    <2> QED BY <1>1, <2>1, <2>2 DEF CopyOf, Unreserved
  <1> QED BY <1>1, <1>2, EmptyingSteps

(* DeleteBuffer: the job has been saved and published with these items.     *)
LEMMA DeleteSteps ==
  ASSUME BatchInv, NEW c \in Calls, DeleteBuffer(c), UNCHANGED run
  PROVE  BatchInv'
  <1>1. /\ call[c].pc = "delete" /\ SaveBuffer(call[c].group, NoBuffer) /\ Go(c, "unlock")
        /\ UNCHANGED reflushed /\ Still
    BY DEF DeleteBuffer, At, histories, Still
  <1>2. ASSUME Orderly(c) PROVE buffers[call[c].group].items \subseteq InJobs \cup setting.filtered
    <2>1. CopyOf(c) BY <1>2 DEF BatchInv, CopyTrue, CopyOf
    <2>2. buffers[call[c].group].job = call[c].job BY <1>1, <2>1 DEF CopyOf, Reserving
    <2>3. call[c].job # NoJob /\ jobs[call[c].job].status # "absent"
      BY <1>1 DEF BatchInv, Reserved, Reserving
    <2>4. call[c].job \in Jobs /\ call[c].group \in Groups
      BY <1>1, <2>3, BusyCall DEF CallType
    <2>5. buffers[call[c].group].items \subseteq jobs[call[c].job].items \cup setting.filtered
      BY <1>2, <2>2, <2>3, <2>4 DEF BatchInv, Backed, Orderly
    <2> QED BY <2>4, <2>5 DEF InJobs
  <1> QED BY <1>1, <1>2, EmptyingSteps

(* Mark: the buffer is reserved for a job id nobody has used.               *)
LEMMA MarkSteps ==
  ASSUME BatchInv, NEW c \in Calls, Mark(c), UNCHANGED run
  PROVE  BatchInv'
  <1>0. call[c].pc = "mark" /\ call[c].pc # "idle" /\ Unused # {} BY DEF Mark, At
  <1>1. PICK own : own = call[c].group OBVIOUS
  <1>2. PICK j : j = CHOOSE fresh \in Unused : TRUE OBVIOUS
  <1>3. PICK b : b = [call[c].buf EXCEPT !.job = j] OBVIOUS
  <1>4. /\ j \in Unused /\ j \in Jobs /\ jobs[j] = NoRecord /\ j # NoJob
    BY <1>0, <1>2, BatchAssumption DEF Unused, BatchAssumption
  <1>5. /\ call[c] \in CallType /\ own \in Groups /\ buffers \in [Groups -> Buffer]
        /\ call[c].buf \in Buffer /\ call[c].buf.items \subseteq Seen
        /\ \A i \in call[c].buf.items : GroupOf[i] = own
    BY <1>0, <1>1, BusyCall DEF BatchInv, Typed, StoresTyped
  <1>6. b \in Buffer /\ b.items = call[c].buf.items /\ b.job = j
    BY <1>3, <1>4, <1>5 DEF Buffer
  <1>7. /\ SaveBuffer(own, b) /\ UNCHANGED reflushed /\ Still
        /\ call' = [call EXCEPT ![c] = [call[c] EXCEPT !.job = j, !.pc = "saveJob"]]
    BY <1>1, <1>2, <1>3 DEF Mark, histories, Still
  <1>8. Moves(c, "saveJob", call[c].buf, j)
    <2>1. [call[c] EXCEPT !.job = j, !.pc = "saveJob"] \in CallType
      BY <1>4, <1>5 DEF CallType, CallPcs
    <2> QED BY <1>5, <1>7, <2>1 DEF Moves, BatchInv, Typed, CallsTyped, CallType
  <1>9. /\ buffers' \in [Groups -> Buffer] /\ buffers'[own] = b
        /\ \A g \in Groups \ {own} : buffers'[g] = buffers[g]
    BY <1>5, <1>6, <1>7, SaveOne
  <1>10. StepOf(c, "saveJob", call[c].buf, j)
    BY <1>0, <1>1, <1>7, <1>8, <1>9 DEF StepOf, Inside, SameOptions, Still
  <1>11. CopyOf(c)' BY <1>1, <1>6, <1>8, <1>9 DEF CopyOf, Moves, Deciding, Unreserved
  <1>12. call[c].kind # "add" /\ call[c].buf.job = NoJob BY <1>0 DEF BatchInv, Staged, Unreserved
  <1>13. ASSUME own \notin lapsed PROVE CopyOf(c)
    BY <1>0, <1>1, <1>13 DEF BatchInv, CopyTrue, CopyOf, Orderly, Inside
  <1>14. ASSUME own \notin lapsed PROVE BackedAt(own)' /\ TakenAt(own)'
    <2>1. BackedAt(own)' BY <1>4, <1>6, <1>7, <1>9 DEF BackedAt, NoRecord, Still
    <2> SUFFICES ASSUME NEW i \in Items, NEW k \in Jobs,
                        i \in b.items \ reflushed, i \in jobs[k].items
                 PROVE  FALSE
      BY <1>7, <1>9, <2>1 DEF TakenAt, Still
    <2>2. /\ buffers[own].items = call[c].buf.items /\ buffers[own].job = NoJob
      BY <1>0, <1>1, <1>6, <1>12, <1>13, <1>14 DEF CopyOf, Unreserved
    <2>3. k = NoJob BY <1>5, <1>6, <1>14, <2>2 DEF BatchInv, Taken
    <2> QED BY <2>3, BatchAssumption DEF BatchAssumption
  <1>15. ASSUME NEW k \in buffers[own].items, own \notin lapsed PROVE k \in Stored'
    <2>1. k \in b.items BY <1>0, <1>1, <1>6, <1>13, <1>15 DEF CopyOf, Unreserved
    <2> QED BY <1>5, <1>9, <2>1 DEF Stored, InBuffer
  <1> QED
    <2>1. setting' = setting /\ reflushed' \subseteq Items
      BY <1>7 DEF Still, BatchInv, Typed, CallsTyped
    <2>2. "saveJob" \notin Deciding \cup Unreserved BY DEF Deciding, Unreserved
    <2>3. call[c].buf.items \cup buffers'[own].items \subseteq Seen
          /\ \A i \in call[c].buf.items \cup buffers'[own].items : GroupOf[i] = own
      BY <1>5, <1>6, <1>9
    <2> QED BY <1>1, <1>4, <1>6, <1>9, <1>10, <1>11, <1>12, <1>14, <1>15, <2>1, <2>2, <2>3, StepInv

-----------------------------------------------------------------------------
(* createBatchJob.                                                          *)
LEMMA CreateSteps ==
  ASSUME BatchInv, NEW c \in Calls, CreateJob(c), UNCHANGED run
  PROVE  BatchInv'
  <1>0. call[c].pc = "saveJob" /\ call[c].pc \notin {"idle", "lock"} BY DEF CreateJob, At
  <1>1. PICK own : own = call[c].group OBVIOUS
  <1>2. PICK j : j = call[c].job OBVIOUS
  <1>3. PICK items : items = call[c].buf.items OBVIOUS
  <1>4. /\ call[c] \in CallType /\ own \in Groups /\ jobs \in [Jobs -> BatchJob]
        /\ items \subseteq Items /\ items \subseteq Seen
        /\ \A i \in items : GroupOf[i] = own
    BY <1>0, <1>1, <1>3, BusyCall DEF BatchInv, Typed, StoresTyped
  <1>5. j # NoJob /\ j \in Jobs /\ jobs[j] = NoRecord
    BY <1>0, <1>2, <1>4 DEF BatchInv, Reserved, Reserving, CallType
  <1>6. PICK rec : rec = [status |-> "waiting", attempt |-> 0, items |-> items \ setting.filtered]
    OBVIOUS
  <1>7. /\ jobs' = [jobs EXCEPT ![j] = rec] /\ Go(c, "publish")
        /\ UNCHANGED <<setting, buffers, bufferLock, offered, accepted, reflushed, lapsed, run>>
    BY <1>2, <1>3, <1>6 DEF CreateJob, SaveJob, histories
  <1>8. rec \in BatchJob /\ rec.status = "waiting" /\ rec.items = items \ setting.filtered
    BY <1>4, <1>6, BatchAssumption DEF BatchJob, Statuses, BatchAssumption
  <1>9. /\ jobs' \in [Jobs -> BatchJob] /\ jobs'[j] = rec
        /\ \A k \in Jobs \ {j} : jobs'[k] = jobs[k]
    BY <1>4, <1>5, <1>7, <1>8
  <1>10. Moves(c, "publish", call[c].buf, j)
    BY <1>0, <1>2, <1>7, GoMoves DEF BatchInv, Typed, CallPcs
  <1>11. jobs[j].status = "absent" /\ jobs[j].items = {} BY <1>5 DEF NoRecord
  <1>12. \A k \in Jobs : jobs[k].status # "absent" => k # j /\ jobs'[k] = jobs[k]
    BY <1>9, <1>11
  <1>13. Typed' BY <1>7, <1>9, <1>10 DEF Typed, StoresTyped, CallsTyped, RunsTyped, Moves, BatchInv
  <1>14. LockHeld' BY <1>0, <1>7, <1>10 DEF BatchInv, LockHeld, Orderly, Inside, Moves
  <1>15. Grouped' BY <1>7, <1>10 DEF BatchInv, Grouped, Moves
  <1>16. \A d \in Calls \ {c} : call[d].job # j
    BY <1>2, <1>5 DEF BatchInv, Reserved
  <1>17. \A d \in Calls : call[d].job \in Jobs \cup {NoJob} /\ call[d].buf.job \in Jobs \cup {NoJob}
    BY DEF BatchInv, Typed, CallsTyped, CallType, Buffer, IdleCall, NoBuffer
  <1>18. Reserved'
    <2>1. \A d \in Calls : /\ call'[d].pc \in Reserving => call'[d].job # NoJob
                           /\ call'[d].pc = "saveJob" => jobs'[call'[d].job] = NoRecord
                           /\ call'[d].pc \in {"publish", "delete"} => jobs'[call'[d].job].status # "absent"
      <3> SUFFICES ASSUME NEW d \in Calls
                   PROVE  /\ call'[d].pc \in Reserving => call'[d].job # NoJob
                          /\ call'[d].pc = "saveJob" => jobs'[call'[d].job] = NoRecord
                          /\ call'[d].pc \in {"publish", "delete"} => jobs'[call'[d].job].status # "absent"
        OBVIOUS
      <3>1. CASE d = c BY <1>5, <1>8, <1>9, <1>10, <3>1 DEF Moves
      <3>2. CASE d # c
        <4>1. call'[d] = call[d] /\ call[d].job # j BY <1>10, <1>16, <3>2 DEF Moves
        <4>2. call[d].pc \in Reserving => call[d].job # NoJob /\ call[d].job \in Jobs
          BY <1>17 DEF BatchInv, Reserved
        <4>3. call[d].pc \in Reserving => jobs'[call[d].job] = jobs[call[d].job]
          BY <1>9, <4>1, <4>2
        <4> QED BY <4>1, <4>2, <4>3 DEF BatchInv, Reserved, Reserving
      <3> QED BY <3>1, <3>2
    <2>2. \A k \in Jobs : jobs'[k].status = "absent" => jobs'[k] = NoRecord
      BY <1>8, <1>9 DEF BatchInv, Reserved
    <2>3. \A d \in Calls : call'[d].job = call[d].job /\ call'[d].group = call[d].group
      BY <1>2, <1>10 DEF Moves
    <2> QED BY <1>7, <2>1, <2>2, <2>3 DEF BatchInv, Reserved
  <1>19. Staged'
    <2> SUFFICES ASSUME NEW d \in Calls
                 PROVE  /\ call'[d].pc \in Deciding => call'[d].buf.job # NoJob
                        /\ call'[d].pc \in Unreserved => call'[d].buf.job = NoJob
                        /\ call'[d].pc \in {"republish", "drop"} => jobs'[call'[d].buf.job].status # "absent"
                        /\ call'[d].pc = "clear" => call'[d].buf.items \subseteq setting'.filtered
                        /\ call'[d].pc = "write" => call'[d].kind = "add"
                        /\ call'[d].pc \in Unreserved \cup Reserving /\ call'[d].kind = "add" => call'[d].pc = "write"
      BY DEF Staged
    <2>1. CASE d = c
      <3>1. call[c].kind # "add" BY <1>0 DEF BatchInv, Staged, Reserving
      <3> QED BY <1>10, <2>1, <3>1 DEF Moves, Deciding, Unreserved, Reserving
    <2>2. CASE d # c
      <3>1. call'[d] = call[d] BY <1>10, <2>2 DEF Moves
      <3>2. call[d].pc \in {"republish", "drop"} => call[d].buf.job \in Jobs
        BY <1>17 DEF BatchInv, Staged, Deciding
      <3>3. call[d].pc \in {"republish", "drop"} => jobs'[call[d].buf.job].status # "absent"
        BY <1>12, <3>2 DEF BatchInv, Staged
      <3> QED BY <1>7, <3>1, <3>3 DEF BatchInv, Staged
    <2> QED BY <2>1, <2>2
  <1>20. CopyTrue'
    <2> SUFFICES ASSUME NEW d \in Calls, Orderly(d)' PROVE CopyOf(d)'
      BY DEF CopyTrue, CopyOf
    <2>1. CASE d = c
      <3>1. CopyOf(c)
        <4>1. Orderly(c) BY <1>0, <1>7, <1>10, <2>1 DEF Orderly, Inside, Moves
        <4> QED BY <4>1 DEF BatchInv, CopyTrue, CopyOf
      <3>2. CopyOf(c)' BY <1>0, <1>2, <1>7, <1>10, <3>1 DEF CopyOf, Moves, Deciding, Unreserved, Reserving
      <3> QED BY <2>1, <3>2
    <2>2. CASE d # c
      <3>1. call'[d] = call[d] BY <1>10, <2>2 DEF Moves
      <3>2. Orderly(d) BY <1>7, <3>1 DEF Orderly, Inside
      <3>3. CopyOf(d) BY <3>2 DEF BatchInv, CopyTrue, CopyOf
      <3> QED BY <1>7, <3>1, <3>3 DEF CopyOf
    <2> QED BY <2>1, <2>2
  <1>21. ASSUME own \notin lapsed PROVE buffers[own].job = j /\ buffers[own].items = items
    <2>1. Orderly(c) BY <1>0, <1>1, <1>21 DEF Orderly, Inside
    <2> QED BY <1>0, <1>1, <1>2, <1>3, <2>1 DEF BatchInv, CopyTrue, Reserving
  <1>22. \A g \in Groups : buffers[g].job = j => g = own
    BY <1>1, <1>2, <1>5 DEF BatchInv, Reserved
  <1>23. Backed'
    <2> SUFFICES ASSUME NEW g \in Groups \ lapsed, NEW k \in Jobs, k = buffers[g].job,
                        jobs'[k].status # "absent"
                 PROVE  buffers[g].items \subseteq jobs'[k].items \cup setting.filtered
      BY <1>7 DEF Backed, BatchInv, Typed, StoresTyped, Buffer
    <2>1. CASE k = j BY <1>8, <1>9, <1>21, <1>22, <2>1
    <2>2. CASE k # j
      <3>1. k # NoJob BY BatchAssumption DEF BatchAssumption
      <3> QED BY <1>9, <2>2, <3>1 DEF BatchInv, Backed
    <2> QED BY <2>1, <2>2
  <1>24. Taken'
    <2> SUFFICES ASSUME NEW g \in Groups \ lapsed, NEW i \in Items, NEW k \in Jobs,
                        i \in buffers[g].items \ reflushed, i \in jobs'[k].items
                 PROVE  k = buffers[g].job
      BY <1>7 DEF Taken
    <2>1. CASE k = j
      <3>1. i \in items BY <1>8, <1>9, <2>1
      <3>2. g = own BY <1>4, <3>1 DEF BatchInv, Grouped
      <3> QED BY <1>21, <2>1, <3>2
    <2>2. CASE k # j BY <1>9, <2>2 DEF BatchInv, Taken
    <2> QED BY <2>1, <2>2
  <1>25. \A k \in Jobs : jobs[k].items \subseteq jobs'[k].items BY <1>9, <1>11
  <1>26. Fresh'
    <2>1. \A d \in Calls : /\ call'[d].buf = call[d].buf /\ call'[d].listed = call[d].listed
                           /\ call'[d].kind = call[d].kind /\ call'[d].item = call[d].item
                           /\ Adding(d)' => Adding(d)
      BY <1>0, <1>10 DEF Moves, Adding
    <2>2. Seen' \subseteq Seen
      <3>1. InBuffer' = InBuffer BY <1>7 DEF InBuffer
      <3>2. InJobs' \subseteq InJobs \cup items BY <1>8, <1>9 DEF InJobs
      <3>3. UNION {call'[d].buf.items \cup UNION {call'[d].listed[g].items : g \in Groups} : d \in Calls}
            = UNION {call[d].buf.items \cup UNION {call[d].listed[g].items : g \in Groups} : d \in Calls}
        BY <2>1
      <3> QED BY <1>4, <3>1, <3>2, <3>3 DEF Seen
    <2> QED BY <1>7, <2>1, <2>2 DEF BatchInv, Fresh
  <1>27. RunCopies' BY <1>7, <1>12 DEF BatchInv, RunCopies, Typed, RunsTyped, RunType, IdleRun, Unopened
  <1>28. ASSUME NEW i \in Items, Safe(i) PROVE Safe(i)'
    <2>1. \A k \in Items : k \in Stored => k \in Stored'
      BY <1>7, <1>25 DEF Stored, InBuffer, InJobs
    <2>2. Grouped /\ GroupOf \in [Items -> Groups] /\ SameOptions
      BY <1>7, BatchAssumption DEF BatchInv, SameOptions, BatchAssumption
    <2> QED BY <1>28, <2>1, <2>2, SafeKept
  <1>29. NothingLost'
    <2>1. \A i \in accepted : i \in Items /\ (Safe(i) \/ GroupOf[i] \in lapsed)
      BY DEF BatchInv, NothingLost, Safe, Typed, CallsTyped
    <2>2. \A i \in accepted' : Safe(i)' \/ GroupOf[i] \in lapsed' BY <1>7, <1>28, <2>1
    <2> QED BY <2>2 DEF NothingLost, Safe
  <1>30. Landed'
    <2> SUFFICES ASSUME NEW d \in Calls PROVE LandedAt(d)' BY DEF Landed
    <2>1. CASE d = c BY <1>10, <2>1 DEF LandedAt, Moves
    <2>2. CASE d # c
      <3>1. call'[d] = call[d] BY <1>10, <2>2 DEF Moves
      <3>2. LandedAt(d) BY DEF BatchInv, Landed
      <3> QED BY <1>7, <1>28, <3>1, <3>2 DEF LandedAt
    <2> QED BY <2>1, <2>2
  <1>31. FlushedOnce'
    <2> SUFFICES ASSUME NEW k \in Jobs, NEW l \in Jobs, k # l,
                        NEW i, i \in jobs'[k].items, i \in jobs'[l].items
                 PROVE  i \in reflushed \/ GroupOf[i] \in lapsed
      BY <1>7 DEF FlushedOnce
    <2>1. ASSUME NEW m \in Jobs \ {j}, i \in items, i \in jobs[m].items
          PROVE  i \in reflushed \/ GroupOf[i] \in lapsed
      <3> SUFFICES ASSUME own \notin lapsed, i \notin reflushed PROVE FALSE BY <1>4, <2>1
      <3>1. i \in buffers[own].items /\ i \in Items BY <1>4, <1>21, <2>1
      <3>2. m = j BY <1>4, <1>21, <2>1, <3>1 DEF BatchInv, Taken
      <3> QED BY <2>1, <3>2
    <2>2. CASE k = j BY <1>8, <1>9, <2>1, <2>2
    <2>3. CASE l = j BY <1>8, <1>9, <2>1, <2>3
    <2>4. CASE k # j /\ l # j BY <1>9, <2>4 DEF BatchInv, FlushedOnce
    <2> QED BY <2>2, <2>3, <2>4
  <1> QED
    BY <1>13, <1>14, <1>15, <1>18, <1>19, <1>20, <1>23, <1>24, <1>26, <1>27, <1>29, <1>30, <1>31
    DEF BatchInv

-----------------------------------------------------------------------------
(* Steps that begin, end or only admit a call, and steps of the clock: what *)
(* is stored stays, and a call has no copy in hand before it reads.         *)
Begins(d) ==
  /\ call'[d].pc \in {"idle", "lock"} /\ call'[d].buf = NoBuffer /\ call'[d].job = NoJob
  /\ \A g \in Groups : call'[d].listed[g] \in {NoBuffer, buffers[g], call[d].listed[g]}
  /\ call'[d].kind = "add" =>
       /\ call'[d].item \in Items \ offered /\ call'[d].item \in offered'
       /\ call'[d].group = GroupOf[call'[d].item] /\ call'[d].listed = NoListing
       /\ \A e \in Calls \ {d} : call'[e] = call[e]
Enters(d) ==
  /\ call[d].pc = "lock" /\ call'[d].pc = "read"
  /\ call'[d].buf = call[d].buf /\ call'[d].job = call[d].job
  /\ call'[d].kind = call[d].kind /\ call'[d].item = call[d].item
  /\ call'[d].group = call[d].group /\ call'[d].listed = call[d].listed
Outside ==
  /\ UNCHANGED <<jobs, reflushed>> /\ SameOptions
  /\ \A r \in Runs : run'[r] \in {run[r], IdleRun}
  /\ \A g \in Groups : buffers'[g].items = buffers[g].items /\ buffers'[g].job = buffers[g].job
  /\ lapsed \subseteq lapsed' /\ offered \subseteq offered'
  /\ \A i \in accepted' : i \in accepted \/ (i \in Items /\ (Safe(i) \/ GroupOf[i] \in lapsed))
  /\ \A d \in Calls : call'[d] = call[d] \/ Begins(d) \/ Enters(d)

(* Steps outside the locks that change no buffer item and no job, and start *)
(* calls with an empty copy, keep the invariant.                            *)
LEMMA OutsideInv ==
  ASSUME BatchInv, Outside, Typed', LockHeld'
  PROVE  BatchInv'
  <1>0. NoBuffer.items = {} /\ NoBuffer.job = NoJob BY DEF NoBuffer
  <1>1. \A d \in Calls : call'[d] = call[d] \/ Begins(d) \/ Enters(d) BY DEF Outside
  <1>2. /\ jobs' = jobs /\ reflushed' = reflushed /\ setting'.filtered = setting.filtered
        /\ lapsed \subseteq lapsed' /\ offered \subseteq offered'
        /\ \A g \in Groups : buffers'[g].items = buffers[g].items /\ buffers'[g].job = buffers[g].job
    BY DEF Outside, SameOptions
  <1>3. GroupOf \in [Items -> Groups] BY BatchAssumption DEF BatchAssumption
  <1>4. Grouped'
    <2>1. \A g \in Groups : \A i \in buffers'[g].items : GroupOf[i] = g
      BY <1>2 DEF BatchInv, Grouped
    <2> SUFFICES ASSUME NEW d \in Calls
                 PROVE  /\ \A i \in call'[d].buf.items : GroupOf[i] = call'[d].group
                        /\ \A g \in Groups : \A i \in call'[d].listed[g].items : GroupOf[i] = g
                        /\ call'[d].kind = "add" => /\ call'[d].item \in Items
                                                    /\ GroupOf[call'[d].item] = call'[d].group
                                                    /\ call'[d].listed = NoListing
      BY <2>1 DEF Grouped
    <2>2. CASE call'[d] = call[d] BY <2>2 DEF BatchInv, Grouped
    <2>3. CASE Begins(d) BY <1>0, <2>3 DEF BatchInv, Grouped, Begins
    <2>4. CASE Enters(d) BY <2>4 DEF BatchInv, Grouped, Enters
    <2> QED BY <1>1, <2>2, <2>3, <2>4
  <1>5. \A d \in Calls : \/ call'[d].job = NoJob
                         \/ call'[d].job = call[d].job /\ call'[d].group = call[d].group
    BY <1>1 DEF Begins, Enters
  <1>6. \A d \in Calls : call'[d].pc \notin {"idle", "lock", "read"} => call'[d] = call[d]
    BY <1>1 DEF Begins, Enters
  <1>7. Reserved'
    <2>1. \A d \in Calls : /\ call'[d].pc \in Reserving => call'[d].job # NoJob
                           /\ call'[d].pc = "saveJob" => jobs'[call'[d].job] = NoRecord
                           /\ call'[d].pc \in {"publish", "delete"} => jobs'[call'[d].job].status # "absent"
      BY <1>2, <1>6 DEF BatchInv, Reserved, Reserving
    <2>2. \A g, h \in Groups : buffers'[g].job = buffers'[h].job /\ buffers'[g].job # NoJob => g = h
      BY <1>2 DEF BatchInv, Reserved
    <2>3. \A d \in Calls, g \in Groups :
            buffers'[g].job = call'[d].job /\ call'[d].job # NoJob => g = call'[d].group
      BY <1>2, <1>5 DEF BatchInv, Reserved
    <2>4. \A d, e \in Calls : call'[d].job = call'[e].job /\ call'[d].job # NoJob => d = e
      BY <1>5 DEF BatchInv, Reserved
    <2>5. \A j \in Jobs : jobs'[j].status = "absent" => jobs'[j] = NoRecord
      BY <1>2 DEF BatchInv, Reserved
    <2> QED BY <2>1, <2>2, <2>3, <2>4, <2>5 DEF Reserved
  <1>8. Staged'
    BY <1>2, <1>6 DEF BatchInv, Staged, Deciding, Unreserved, Reserving
  <1>9. CopyTrue'
    <2> SUFFICES ASSUME NEW d \in Calls, Orderly(d)' PROVE CopyOf(d)'
      BY DEF CopyTrue, CopyOf
    <2>1. CASE call'[d].pc = "read"
      BY <2>1 DEF CopyOf, Deciding, Unreserved, Reserving
    <2>2. CASE call'[d].pc # "read"
      <3>1. call'[d] = call[d] BY <1>6, <2>2 DEF Orderly, Inside
      <3>2. Orderly(d) BY <1>2, <3>1 DEF Orderly, Inside
      <3>3. CopyOf(d) BY <3>2 DEF BatchInv, CopyTrue, CopyOf
      <3>4. call[d].group \in Groups BY <3>2, BusyCall DEF Orderly, Inside
      <3> QED BY <1>2, <3>1, <3>3, <3>4 DEF CopyOf
    <2> QED BY <2>1, <2>2
  <1>10. Backed' BY <1>2 DEF BatchInv, Backed
  <1>11. Taken' BY <1>2 DEF BatchInv, Taken
  <1>12. Fresh'
    <2>1. InBuffer' = InBuffer /\ InJobs' = InJobs BY <1>2 DEF InBuffer, InJobs
    <2>2. Seen' \subseteq Seen
      <3>1. ASSUME NEW d \in Calls PROVE call'[d].buf.items \subseteq Seen
        BY <1>0, <1>1 DEF Seen, Begins, Enters
      <3>2. ASSUME NEW d \in Calls, NEW g \in Groups PROVE call'[d].listed[g].items \subseteq Seen
        <4>1. call[d].listed[g].items \subseteq Seen /\ buffers[g].items \subseteq Seen
          BY DEF Seen, InBuffer
        <4>2. call'[d].listed[g] \in {NoBuffer, buffers[g], call[d].listed[g]}
          BY <1>1 DEF Begins, Enters
        <4> QED BY <1>0, <4>1, <4>2
      <3>3. InBuffer \cup InJobs \subseteq Seen BY DEF Seen
      <3> QED BY <2>1, <3>1, <3>2, <3>3 DEF Seen
    <2>3. ASSUME NEW d \in Calls, call'[d].kind = "add"
          PROVE  /\ call'[d].item \in offered'
                 /\ \/ /\ call[d].kind = "add" /\ call'[d].item = call[d].item
                       /\ Adding(d)' => Adding(d)
                    \/ /\ call'[d].item \notin offered
                       /\ \A e \in Calls \ {d} : call'[e] = call[e]
      BY <1>1, <1>2, <2>3 DEF Begins, Enters, Adding, BatchInv, Fresh
    <2>4. Seen' \subseteq offered /\ offered \subseteq offered' BY <1>2, <2>2 DEF BatchInv, Fresh
    <2>5. \A d \in Calls : Adding(d)' => call'[d].item \notin Seen'
      BY <2>2, <2>3, <2>4 DEF BatchInv, Fresh, Adding
    <2>6. \A d, e \in Calls : Adding(d)' /\ call'[e].kind = "add" /\ call'[d].item = call'[e].item => d = e
      <3> SUFFICES ASSUME NEW d \in Calls, NEW e \in Calls, d # e, Adding(d)',
                          call'[e].kind = "add", call'[d].item = call'[e].item
                   PROVE  FALSE
        OBVIOUS
      <3>0. call'[d].kind = "add" BY DEF Adding
      <3>1. CASE call'[d].item \in offered
        <4>1. call[d].kind = "add" /\ call'[d].item = call[d].item /\ Adding(d)
          BY <2>3, <3>0, <3>1
        <4>2. call[e].kind = "add" /\ call'[e].item = call[e].item
          BY <2>3, <3>1
        <4> QED BY <4>1, <4>2 DEF BatchInv, Fresh
      <3>2. CASE call'[d].item \notin offered
        <4>1. call'[e] = call[e] \/ call'[d] = call[d]
          BY <2>3, <3>0, <3>2 DEF BatchInv, Fresh
        <4> QED BY <3>0, <3>2, <4>1 DEF BatchInv, Fresh
      <3> QED BY <3>1, <3>2
    <2> QED BY <2>3, <2>4, <2>5, <2>6 DEF Fresh
  <1>13. RunCopies' BY <1>2 DEF BatchInv, RunCopies, Outside, IdleRun, Unopened
  <1>14. ASSUME NEW i \in Items, Safe(i) PROVE Safe(i)'
    <2>1. Stored' = Stored BY <1>2 DEF Stored, InBuffer, InJobs
    <2> QED BY <1>3, <1>14, <2>1, SafeKept DEF BatchInv, Outside
  <1>15. NothingLost'
    <2>1. \A i \in accepted : i \in Items /\ (Safe(i) \/ GroupOf[i] \in lapsed)
      BY DEF BatchInv, NothingLost, Safe, Typed, CallsTyped
    <2>2. \A i \in accepted' : i \in Items /\ (Safe(i) \/ GroupOf[i] \in lapsed)
      BY <2>1 DEF Outside
    <2>3. \A i \in accepted' : Safe(i)' \/ GroupOf[i] \in lapsed' BY <1>2, <1>14, <2>2
    <2> QED BY <2>3 DEF NothingLost, Safe
  <1>16. Landed'
    <2> SUFFICES ASSUME NEW d \in Calls, call'[d].pc = "unlock" PROVE LandedAt(d)'
      BY DEF Landed, LandedAt
    <2>1. call'[d] = call[d] BY <1>6
    <2>2. LandedAt(d) BY DEF BatchInv, Landed
    <2> QED BY <1>2, <1>14, <2>1, <2>2 DEF LandedAt
  <1>17. FlushedOnce' BY <1>2 DEF BatchInv, FlushedOnce
  <1> QED BY <1>4, <1>7, <1>8, <1>9, <1>10, <1>11, <1>12, <1>13, <1>15, <1>16, <1>17 DEF BatchInv

(* Steps of the runs: a run writes records back with the items they had.    *)
WorkerStep ==
  /\ UNCHANGED <<buffers, bufferLock, call, offered, accepted, reflushed, lapsed>> /\ SameOptions
  /\ \A j \in Jobs : /\ jobs'[j].items = jobs[j].items
                     /\ jobs'[j].status = "absent" <=> jobs[j].status = "absent"
                     /\ jobs[j].status = "absent" => jobs'[j] = jobs[j]

(* Steps of the workers keep it too: a job they write keeps its items and is*)
(* not absent.                                                              *)
LEMMA WorkerInv ==
  ASSUME BatchInv, WorkerStep, Typed', RunCopies'
  PROVE  BatchInv'
  <1>1. /\ UNCHANGED <<buffers, bufferLock, call, offered, accepted, reflushed, lapsed>>
        /\ setting'.filtered = setting.filtered
    BY DEF WorkerStep, SameOptions
  <1>2. \A j \in Jobs : /\ jobs'[j].items = jobs[j].items
                        /\ jobs'[j].status = "absent" <=> jobs[j].status = "absent"
                        /\ jobs[j].status = "absent" => jobs'[j] = jobs[j]
    BY DEF WorkerStep
  <1>3. /\ \A d \in Calls : call[d].job \in Jobs \cup {NoJob} /\ call[d].buf.job \in Jobs \cup {NoJob}
        /\ \A g \in Groups : buffers[g].job \in Jobs \cup {NoJob}
    BY DEF BatchInv, Typed, StoresTyped, CallsTyped, CallType, Buffer, IdleCall, NoBuffer
  <1>4. LockHeld' BY <1>1 DEF BatchInv, LockHeld, Orderly, Inside
  <1>5. Grouped' BY <1>1 DEF BatchInv, Grouped
  <1>6. Reserved'
    <2>1. \A d \in Calls : /\ call[d].pc = "saveJob" => jobs'[call[d].job] = NoRecord
                           /\ call[d].pc \in {"publish", "delete"} => jobs'[call[d].job].status # "absent"
      <3> SUFFICES ASSUME NEW d \in Calls, call[d].pc \in Reserving
                   PROVE  /\ call[d].pc = "saveJob" => jobs'[call[d].job] = NoRecord
                          /\ call[d].pc \in {"publish", "delete"} => jobs'[call[d].job].status # "absent"
        BY DEF Reserving
      <3>1. call[d].job \in Jobs BY <1>3 DEF BatchInv, Reserved
      <3>2. NoRecord.status = "absent" BY DEF NoRecord
      <3> QED BY <1>2, <3>1, <3>2 DEF BatchInv, Reserved
    <2>2. \A j \in Jobs : jobs'[j].status = "absent" => jobs'[j] = NoRecord
      BY <1>2 DEF BatchInv, Reserved
    <2> QED BY <1>1, <2>1, <2>2 DEF BatchInv, Reserved
  <1>7. Staged'
    <2>1. \A d \in Calls :
            call[d].pc \in {"republish", "drop"} => jobs'[call[d].buf.job].status # "absent"
      <3> SUFFICES ASSUME NEW d \in Calls, call[d].pc \in {"republish", "drop"}
                   PROVE  jobs'[call[d].buf.job].status # "absent"
        OBVIOUS
      <3>1. call[d].buf.job \in Jobs BY <1>3 DEF BatchInv, Staged, Deciding
      <3> QED BY <1>2, <3>1 DEF BatchInv, Staged
    <2> QED BY <1>1, <2>1 DEF BatchInv, Staged
  <1>8. CopyTrue' BY <1>1 DEF BatchInv, CopyTrue, Orderly, Inside
  <1>9. Backed' BY <1>1, <1>2, <1>3 DEF BatchInv, Backed
  <1>10. Taken' BY <1>1, <1>2 DEF BatchInv, Taken
  <1>11. InBuffer' = InBuffer /\ InJobs' = InJobs BY <1>1, <1>2 DEF InBuffer, InJobs
  <1>12. Fresh' BY <1>1, <1>11 DEF BatchInv, Fresh, Seen, Adding
  <1>13. ASSUME NEW i \in Items, Safe(i) PROVE Safe(i)'
    <2>1. Stored' = Stored BY <1>1, <1>11 DEF Stored
    <2>2. GroupOf \in [Items -> Groups] BY BatchAssumption DEF BatchAssumption
    <2> QED BY <1>13, <2>1, <2>2, SafeKept DEF BatchInv, WorkerStep
  <1>14. NothingLost'
    <2>1. \A i \in accepted : i \in Items /\ (Safe(i) \/ GroupOf[i] \in lapsed)
      BY DEF BatchInv, NothingLost, Safe, Typed, CallsTyped
    <2>2. \A i \in accepted' : Safe(i)' \/ GroupOf[i] \in lapsed' BY <1>1, <1>13, <2>1
    <2> QED BY <2>2 DEF NothingLost, Safe
  <1>15. Landed' BY <1>1, <1>13 DEF BatchInv, Landed, LandedAt
  <1>16. FlushedOnce' BY <1>1, <1>2 DEF BatchInv, FlushedOnce
  <1> QED BY <1>4, <1>5, <1>6, <1>7, <1>8, <1>9, <1>10, <1>12, <1>14, <1>15, <1>16 DEF BatchInv

-----------------------------------------------------------------------------
(* A budget counts down, the options stay.                                  *)
LEMMA SpendKeeps ==
  ASSUME setting \in SettingType, NEW kind \in Budgets, Spend(kind)
  PROVE  setting' \in SettingType /\ SameOptions
  <1>1. setting' = [setting EXCEPT !.budget = [setting.budget EXCEPT ![kind] = @ - 1]]
    BY DEF Spend, SettingType
  <1>2. setting.budget \in [Budgets -> Nat] /\ setting.budget[kind] > 0
    BY DEF Spend, Affordable, SettingType
  <1>3. [setting.budget EXCEPT ![kind] = @ - 1] \in [Budgets -> Nat]
    BY <1>2
  <1> QED BY <1>1, <1>3 DEF SettingType, SameOptions

(* A call that begins.                                                      *)
LEMMA OpenedIs ==
  ASSUME NEW kind \in {"add", "flush"} \cup EngineKinds, NEW n \in Nodes, NEW g \in Groups
  PROVE  /\ Opened(kind, n, g).pc = "lock" /\ Opened(kind, n, g).buf = NoBuffer
         /\ Opened(kind, n, g).job = NoJob /\ Opened(kind, n, g).listed = NoListing
         /\ Opened(kind, n, g).kind = kind /\ Opened(kind, n, g).group = g
         /\ Opened(kind, n, g) \in CallType
BY NoBufferIsBuffer DEF Opened, IdleCall, CallType, CallPcs

(* A slot is filled with a new call, or emptied.                            *)
LEMMA OpenInv ==
  ASSUME BatchInv, NEW c \in Calls, NEW X \in CallType \cup {IdleCall},
         call' = [call EXCEPT ![c] = X],
         X.pc \in {"idle", "lock"}, X.buf = NoBuffer, X.job = NoJob,
         \A g \in Groups : X.listed[g] \in {NoBuffer, buffers[g], call[c].listed[g]},
         X.kind = "add" => /\ X.item \in Items \ offered /\ X.item \in offered'
                           /\ X.group = GroupOf[X.item] /\ X.listed = NoListing,
         UNCHANGED <<buffers, jobs, reflushed, lapsed, run>>,
         setting' \in SettingType, SameOptions,
         offered \subseteq offered', offered' \subseteq Items, accepted' \subseteq offered',
         \A i \in accepted' : i \in accepted \/ (i \in Items /\ (Safe(i) \/ GroupOf[i] \in lapsed)),
         bufferLock' \in [Groups -> Calls \cup {NoCall, Vanished}],
         \A d \in Calls \ {c} : Orderly(d) => bufferLock'[call[d].group] = d
  PROVE  BatchInv'
  <1>1. call \in [Calls -> CallType \cup {IdleCall}] BY DEF BatchInv, Typed, CallsTyped
  <1>2. /\ call' \in [Calls -> CallType \cup {IdleCall}] /\ call'[c] = X
        /\ \A d \in Calls \ {c} : call'[d] = call[d]
    BY <1>1
  <1>3. Typed' BY <1>2 DEF BatchInv, Typed, StoresTyped, CallsTyped, RunsTyped
  <1>4. LockHeld' BY <1>2 DEF LockHeld, Orderly, Inside
  <1>5. Begins(c) BY <1>2 DEF Begins
  <1>6. Outside BY <1>2, <1>5 DEF Outside
  <1> QED BY <1>3, <1>4, <1>6, OutsideInv

(* A free slot is an idle one.                                              *)
LEMMA FreeIs ==
  ASSUME BatchInv, NEW c, Free(c)
  PROVE  c \in Calls /\ call[c].pc = "idle"
  <1>1. IdleCalls \subseteq Calls
    BY DEF IdleCalls, BatchInv, Typed, StoresTyped, SettingType
  <1> QED BY <1>1 DEF Free, IdleCalls, At

(* Add: a new item is offered by a call that has nothing in hand yet.       *)
LEMMA AddSteps ==
  ASSUME BatchInv, NEW n \in Nodes, NEW c, NEW i \in Items, Add(n, c, i), UNCHANGED run
  PROVE  BatchInv'
  <1>1. c \in Calls BY FreeIs DEF Add
  <1>2. i \notin offered /\ offered' = offered \cup {i} /\ GroupOf[i] \in Groups
    BY BatchAssumption DEF Add, BatchAssumption
  <1>3. PICK X : X = [Opened("add", n, GroupOf[i]) EXCEPT !.item = i] OBVIOUS
  <1>4. /\ X.pc = "lock" /\ X.buf = NoBuffer /\ X.job = NoJob /\ X.listed = NoListing
        /\ X.group = GroupOf[i] /\ X.item = i /\ X \in CallType
    <2>1. Opened("add", n, GroupOf[i]) \in CallType BY <1>2, OpenedIs
    <2> QED BY <1>2, <1>3, <2>1, OpenedIs DEF CallType
  <1>5. \A g \in Groups : X.listed[g] = NoBuffer BY <1>4 DEF NoListing
  <1>6. /\ call' = [call EXCEPT ![c] = X]
        /\ UNCHANGED <<setting, buffers, bufferLock, jobs, accepted, reflushed, lapsed>>
    BY <1>3 DEF Add, storeVars
  <1>7. /\ SameOptions /\ setting' \in SettingType /\ offered' \subseteq Items
        /\ accepted' \subseteq offered' /\ bufferLock' \in [Groups -> Calls \cup {NoCall, Vanished}]
    BY <1>2, <1>6 DEF BatchInv, Typed, StoresTyped, CallsTyped, SameOptions
  <1>8. \A d \in Calls \ {c} : Orderly(d) => bufferLock'[call[d].group] = d
    BY <1>6 DEF BatchInv, LockHeld
  <1>9. \A k \in accepted' : k \in accepted \/ (k \in Items /\ (Safe(k) \/ GroupOf[k] \in lapsed))
    BY <1>6
  <1>10. \A g \in Groups : X.listed[g] \in {NoBuffer, buffers[g], call[c].listed[g]} BY <1>5
  <1>11. X.kind = "add" => /\ X.item \in Items \ offered /\ X.item \in offered'
                           /\ X.group = GroupOf[X.item] /\ X.listed = NoListing
    BY <1>2, <1>4
  <1>12. offered \subseteq offered' /\ X \in CallType \cup {IdleCall} /\ X.pc \in {"idle", "lock"}
    BY <1>2, <1>4
  <1> QED BY <1>1, <1>4, <1>6, <1>7, <1>8, <1>9, <1>10, <1>11, <1>12, OpenInv

(* Beginning with the copies of some buffers, or none.                      *)
LEMMA BeginInv ==
  ASSUME BatchInv, NEW c \in Calls, NEW X \in CallType, X.kind # "add",
         call' = [call EXCEPT ![c] = X],
         X.pc = "lock", X.buf = NoBuffer, X.job = NoJob,
         \A g \in Groups : X.listed[g] \in {NoBuffer, buffers[g], call[c].listed[g]},
         UNCHANGED <<buffers, bufferLock, jobs, offered, accepted, reflushed, lapsed, run>>,
         setting' \in SettingType, SameOptions
  PROVE  BatchInv'
  <1>1. /\ offered \subseteq Items /\ accepted \subseteq offered
        /\ bufferLock \in [Groups -> Calls \cup {NoCall, Vanished}]
    BY DEF BatchInv, Typed, StoresTyped, CallsTyped
  <1>2. \A d \in Calls \ {c} : Orderly(d) => bufferLock'[call[d].group] = d
    BY DEF BatchInv, LockHeld
  <1> QED BY <1>1, <1>2, OpenInv

(* Flush of one group by a client.                                          *)
LEMMA FlushSteps ==
  ASSUME BatchInv, NEW n \in Nodes, NEW c, NEW g \in Groups, Flush(n, c, g), UNCHANGED run
  PROVE  BatchInv'
  <1>1. c \in Calls BY FreeIs DEF Flush
  <1>2. setting' \in SettingType /\ SameOptions
    BY SpendKeeps DEF Flush, BatchInv, Typed, StoresTyped, Budgets
  <1>3. PICK X : X = Opened("flush", n, g) OBVIOUS
  <1>4. /\ X.pc = "lock" /\ X.buf = NoBuffer /\ X.job = NoJob /\ X.listed = NoListing
        /\ X.kind # "add" /\ X \in CallType
    BY <1>3, OpenedIs
  <1>5. \A h \in Groups : X.listed[h] = NoBuffer BY <1>4 DEF NoListing
  <1>6. /\ call' = [call EXCEPT ![c] = X]
        /\ UNCHANGED <<buffers, bufferLock, jobs, offered, accepted, reflushed, lapsed>>
    BY <1>3 DEF Flush, histories
  <1> QED BY <1>1, <1>2, <1>4, <1>5, <1>6, BeginInv

(* A timer or a starting engine lists the buffers it will flush.            *)
LEMMA StartSteps ==
  ASSUME BatchInv, NEW n \in Nodes, NEW c, NEW kind \in EngineKinds, NEW groups \in SUBSET Groups,
         StartFlushing(n, c, kind, groups), setting' \in SettingType, SameOptions,
         UNCHANGED <<buffers, bufferLock, jobs, offered, accepted, reflushed, lapsed, run>>
  PROVE  BatchInv'
  <1>1. c \in Calls BY FreeIs DEF StartFlushing
  <1>2. buffers \in [Groups -> Buffer] BY DEF BatchInv, Typed, StoresTyped
  <1>3. Listed(groups) \in Listing BY <1>2, NoBufferIsBuffer DEF Listed, Listing
  <1>4. PICK g \in groups : call' = [call EXCEPT ![c] =
                              [Opened(kind, n, g) EXCEPT !.listed = Listed(groups)]]
    BY DEF StartFlushing
  <1>5. PICK X : X = [Opened(kind, n, g) EXCEPT !.listed = Listed(groups)] OBVIOUS
  <1>6. /\ X.pc = "lock" /\ X.buf = NoBuffer /\ X.job = NoJob /\ X.listed = Listed(groups)
        /\ X.kind = kind /\ X \in CallType
    <2>1. Opened(kind, n, g) \in CallType BY OpenedIs
    <2>2. /\ Opened(kind, n, g).pc = "lock" /\ Opened(kind, n, g).buf = NoBuffer
          /\ Opened(kind, n, g).job = NoJob /\ Opened(kind, n, g).kind = kind
      BY OpenedIs
    <2> QED BY <1>3, <1>5, <2>1, <2>2 DEF CallType
  <1>7. \A h \in Groups : X.listed[h] \in {NoBuffer, buffers[h], call[c].listed[h]}
    BY <1>6 DEF Listed
  <1>8. X.kind # "add" BY <1>6 DEF EngineKinds
  <1>9. call' = [call EXCEPT ![c] = X] BY <1>4, <1>5
  <1> QED BY <1>1, <1>6, <1>7, <1>8, <1>9, BeginInv

(* Ending a call.                                                           *)
LEMMA IdleCallIs ==
  /\ IdleCall.pc = "idle" /\ IdleCall.buf = NoBuffer /\ IdleCall.job = NoJob
  /\ IdleCall.kind = "none" /\ \A g \in Groups : IdleCall.listed[g] = NoBuffer
BY DEF IdleCall, NoListing

(* A call ends; an accepted item has landed.                                *)
LEMMA EndInv ==
  ASSUME BatchInv, NEW c \in Calls, call' = [call EXCEPT ![c] = IdleCall],
         UNCHANGED <<buffers, jobs, offered, reflushed, lapsed, run>>,
         setting' \in SettingType, SameOptions, accepted' \subseteq offered,
         \A i \in accepted' : i \in accepted \/ (i \in Items /\ (Safe(i) \/ GroupOf[i] \in lapsed)),
         bufferLock' \in [Groups -> Calls \cup {NoCall, Vanished}],
         \A d \in Calls \ {c} : Orderly(d) => bufferLock'[call[d].group] = d
  PROVE  BatchInv'
  <1>1. PICK X : X = IdleCall OBVIOUS
  <1>2. /\ X \in CallType \cup {IdleCall} /\ X.pc \in {"idle", "lock"} /\ X.buf = NoBuffer
        /\ X.job = NoJob /\ X.kind # "add"
        /\ \A g \in Groups : X.listed[g] \in {NoBuffer, buffers[g], call[c].listed[g]}
    BY <1>1, IdleCallIs
  <1>3. call' = [call EXCEPT ![c] = X] BY <1>1
  <1>4. /\ offered \subseteq offered' /\ offered' \subseteq Items /\ accepted' \subseteq offered'
    BY DEF BatchInv, Typed, CallsTyped
  <1> QED BY <1>2, <1>3, <1>4, OpenInv

(* A call gives up waiting for the lock: its item was not accepted.         *)
LEMMA TimeoutSteps ==
  ASSUME BatchInv, NEW c \in Calls, LockTimeout(c), UNCHANGED run
  PROVE  BatchInv'
  <1>1. setting' \in SettingType /\ SameOptions
    BY SpendKeeps DEF LockTimeout, BatchInv, Typed, StoresTyped, Budgets
  <1>2. /\ call' = [call EXCEPT ![c] = IdleCall]
        /\ UNCHANGED <<buffers, bufferLock, jobs, offered, accepted, reflushed, lapsed>>
    BY DEF LockTimeout, histories
  <1>3. /\ accepted' \subseteq offered
        /\ bufferLock' \in [Groups -> Calls \cup {NoCall, Vanished}]
        /\ \A i \in accepted' : i \in accepted \/ (i \in Items /\ (Safe(i) \/ GroupOf[i] \in lapsed))
    BY <1>2 DEF BatchInv, Typed, StoresTyped, CallsTyped
  <1>4. \A d \in Calls \ {c} : Orderly(d) => bufferLock'[call[d].group] = d
    BY <1>2 DEF BatchInv, LockHeld
  <1> QED BY <1>1, <1>2, <1>3, <1>4, EndInv

(* Unlock: the call gives the lock back and answers, or turns to the next   *)
(* group it has listed.                                                     *)
LEMMA UnlockSteps ==
  ASSUME BatchInv, NEW c \in Calls, Unlock(c), UNCHANGED run
  PROVE  BatchInv'
  <1>0. call[c].pc = "unlock" /\ call[c].pc # "idle" BY DEF Unlock, At
  <1>1. PICK own : own = call[c].group OBVIOUS
  <1>2. PICK rest : rest = [call[c].listed EXCEPT ![own] = NoBuffer] OBVIOUS
  <1>3. /\ call[c] \in CallType /\ own \in Groups /\ call[c].listed \in [Groups -> Buffer]
        /\ bufferLock \in [Groups -> Calls \cup {NoCall, Vanished}]
        /\ offered \subseteq Items /\ accepted \subseteq offered /\ setting \in SettingType
    BY <1>0, <1>1, BusyCall DEF BatchInv, Typed, StoresTyped, CallsTyped
  <1>4. /\ rest \in Listing
        /\ \A g \in Groups : rest[g] \in {NoBuffer, call[c].listed[g]}
    BY <1>2, <1>3, NoBufferIsBuffer DEF Listing
  <1>5. /\ UNCHANGED <<setting, buffers, jobs, offered, reflushed, lapsed>>
        /\ bufferLock' = [bufferLock EXCEPT ![own] = IF @ = c THEN NoCall ELSE @]
        /\ accepted' = IF call[c].kind = "add" THEN accepted \cup {call[c].item} ELSE accepted
        /\ Proceed(c)
    BY <1>1 DEF Unlock
  <1>6. /\ bufferLock' \in [Groups -> Calls \cup {NoCall, Vanished}]
        /\ \A d \in Calls \ {c} : Orderly(d) => bufferLock'[call[d].group] = d
    <2>1. \A d \in Calls : Orderly(d) => bufferLock[call[d].group] = d /\ call[d].group \in Groups
      BY BusyCall DEF BatchInv, LockHeld, Orderly, Inside
    <2> QED BY <1>3, <1>5, <2>1
  <1>7. /\ accepted' \subseteq offered
        /\ \A i \in accepted' : i \in accepted \/ (i \in Items /\ (Safe(i) \/ GroupOf[i] \in lapsed))
    <2>1. CASE call[c].kind # "add" BY <1>3, <1>5, <2>1
    <2>2. CASE call[c].kind = "add"
      <3>1. PICK i : i = call[c].item OBVIOUS
      <3>2. i \in Items /\ i \in offered BY <2>2, <3>1 DEF BatchInv, Grouped, Fresh
      <3>3. Safe(i) \/ GroupOf[i] \in lapsed
        BY <1>0, <2>2, <3>1, <3>2 DEF BatchInv, Landed, LandedAt
      <3>4. accepted' = accepted \cup {i} BY <1>5, <2>2, <3>1
      <3> QED BY <1>3, <3>2, <3>3, <3>4
    <2> QED BY <2>1, <2>2
  <1>8. SameOptions /\ setting' \in SettingType BY <1>3, <1>5 DEF SameOptions
  <1>9. CASE rest = NoListing
    <2>1. call' = [call EXCEPT ![c] = IdleCall] BY <1>1, <1>2, <1>5, <1>9 DEF Proceed
    <2> QED BY <1>5, <1>6, <1>7, <1>8, <2>1, EndInv
  <1>10. CASE rest # NoListing
    <2>1. PICK g \in Groups :
            call' = [call EXCEPT ![c] = [Opened(call[c].kind, call[c].node, g) EXCEPT !.listed = rest]]
      BY <1>1, <1>2, <1>5, <1>10 DEF Proceed
    <2>2. call[c].kind # "add"
      <3>1. [NoListing EXCEPT ![own] = NoBuffer] = NoListing BY <1>3 DEF NoListing
      <3> QED BY <1>2, <1>10, <3>1 DEF BatchInv, Grouped
    <2>3. PICK X : X = [Opened(call[c].kind, call[c].node, g) EXCEPT !.listed = rest] OBVIOUS
    <2>4. /\ X.pc = "lock" /\ X.buf = NoBuffer /\ X.job = NoJob /\ X.listed = rest
          /\ X.kind = call[c].kind /\ X \in CallType
      <3>0. call[c].kind \in {"add", "flush"} \cup EngineKinds /\ call[c].node \in Nodes
        BY <1>3 DEF CallType
      <3>1. Opened(call[c].kind, call[c].node, g) \in CallType BY <3>0, OpenedIs
      <3>2. /\ Opened(call[c].kind, call[c].node, g).pc = "lock"
            /\ Opened(call[c].kind, call[c].node, g).buf = NoBuffer
            /\ Opened(call[c].kind, call[c].node, g).job = NoJob
            /\ Opened(call[c].kind, call[c].node, g).kind = call[c].kind
        BY <3>0, OpenedIs
      <3> QED BY <1>4, <2>3, <3>1, <3>2 DEF CallType
    <2>5. call' = [call EXCEPT ![c] = X] BY <2>1, <2>3
    <2>6. X.kind # "add" /\ X.pc \in {"idle", "lock"} BY <2>2, <2>4
    <2>7. \A h \in Groups : X.listed[h] \in {NoBuffer, buffers[h], call[c].listed[h]}
      BY <1>4, <2>4
    <2> QED BY <1>3, <1>5, <1>6, <1>7, <1>8, <2>4, <2>5, <2>6, <2>7, OpenInv
  <1> QED BY <1>9, <1>10

(* TakeLock: nobody has the lock of the group, and the call holds no copy   *)
(* yet.                                                                     *)
LEMMA TakeLockSteps ==
  ASSUME BatchInv, NEW c \in Calls, TakeLock(c), UNCHANGED run
  PROVE  BatchInv'
  <1>0. call[c].pc = "lock" /\ call[c].pc # "idle" BY DEF TakeLock, At
  <1>1. PICK own : own = call[c].group OBVIOUS
  <1>2. /\ bufferLock[own] = NoCall /\ bufferLock' = [bufferLock EXCEPT ![own] = c] /\ Go(c, "read")
        /\ UNCHANGED <<setting, buffers, jobs, offered, accepted, reflushed, lapsed>>
    BY <1>1 DEF TakeLock, histories
  <1>3. /\ own \in Groups /\ bufferLock \in [Groups -> Calls \cup {NoCall, Vanished}]
    BY <1>0, <1>1, BusyCall DEF BatchInv, Typed, StoresTyped
  <1>4. Moves(c, "read", call[c].buf, call[c].job)
    BY <1>0, <1>2, GoMoves DEF BatchInv, Typed, CallPcs
  <1>5. Typed' BY <1>2, <1>3, <1>4 DEF BatchInv, Typed, StoresTyped, CallsTyped, RunsTyped, Moves
  <1>6. LockHeld'
    <2> SUFFICES ASSUME NEW d \in Calls, Orderly(d)' PROVE bufferLock'[call'[d].group] = d
      BY DEF LockHeld
    <2>1. CASE d = c BY <1>1, <1>2, <1>3, <1>4, <2>1 DEF Moves
    <2>2. CASE d # c
      <3>1. call'[d] = call[d] BY <1>4, <2>2 DEF Moves
      <3>2. Orderly(d) BY <1>2, <3>1 DEF Orderly, Inside
      <3>3. bufferLock[call[d].group] = d BY <3>2 DEF BatchInv, LockHeld
      <3>4. d # NoCall BY BatchAssumption DEF BatchAssumption
      <3> QED BY <1>2, <1>3, <3>1, <3>3, <3>4
    <2> QED BY <2>1, <2>2
  <1>7. Enters(c) /\ \A d \in Calls \ {c} : call'[d] = call[d]
    BY <1>0, <1>4 DEF Enters, Moves
  <1>8. Outside BY <1>2, <1>7 DEF Outside, SameOptions
  <1> QED BY <1>5, <1>6, <1>8, OutsideInv

(* The wait of a buffer is over: only its time stamp changes.               *)
LEMMA MaxWaitSteps ==
  ASSUME BatchInv, NEW g \in Groups, MaxWaitPasses(g), UNCHANGED run
  PROVE  BatchInv'
  <1>1. /\ buffers' = [buffers EXCEPT ![g] = [buffers[g] EXCEPT !.due = TRUE]]
        /\ UNCHANGED <<setting, bufferLock, jobs, call, offered, accepted, reflushed, lapsed>>
    BY DEF MaxWaitPasses, SaveBuffer, histories
  <1>2. buffers \in [Groups -> Buffer] BY DEF BatchInv, Typed, StoresTyped
  <1>3. [buffers[g] EXCEPT !.due = TRUE] \in Buffer BY <1>2 DEF Buffer
  <1>4. /\ buffers' \in [Groups -> Buffer]
        /\ \A h \in Groups : buffers'[h].items = buffers[h].items /\ buffers'[h].job = buffers[h].job
    BY <1>1, <1>2, <1>3 DEF Buffer
  <1>5. Typed' BY <1>1, <1>4 DEF BatchInv, Typed, StoresTyped, CallsTyped, RunsTyped
  <1>6. LockHeld' BY <1>1 DEF BatchInv, LockHeld, Orderly, Inside
  <1>7. Outside BY <1>1, <1>4 DEF Outside, SameOptions
  <1> QED BY <1>5, <1>6, <1>7, OutsideInv

(* The lock of a group lapses under its holder: the group no longer counts  *)
(* as orderly.                                                              *)
LEMMA LapseSteps ==
  ASSUME BatchInv, NEW g \in Groups, BufferLockExpires(g), UNCHANGED run
  PROVE  BatchInv'
  <1>1. /\ bufferLock' = [bufferLock EXCEPT ![g] = NoCall]
        /\ UNCHANGED <<buffers, jobs, call, offered, accepted, reflushed>>
    BY DEF BufferLockExpires
  <1>2. setting \in SettingType /\ bufferLock \in [Groups -> Calls \cup {NoCall, Vanished}]
    BY DEF BatchInv, Typed, StoresTyped
  <1>3. \/ bufferLock[g] = Vanished /\ UNCHANGED <<setting, lapsed>>
        \/ Spend("lapse") /\ lapsed' = lapsed \cup {g}
    BY DEF BufferLockExpires
  <1>4. setting' \in SettingType /\ SameOptions /\ lapsed \subseteq lapsed' /\ lapsed' \subseteq lapsed \cup {g}
    BY <1>2, <1>3, SpendKeeps DEF SameOptions, Budgets
  <1>5. Typed' BY <1>1, <1>2, <1>4 DEF BatchInv, Typed, StoresTyped, CallsTyped, RunsTyped
  <1>6. LockHeld'
    <2> SUFFICES ASSUME NEW d \in Calls, Orderly(d)' PROVE bufferLock'[call'[d].group] = d
      BY DEF LockHeld
    <2>1. Orderly(d) BY <1>1, <1>4 DEF Orderly, Inside
    <2>2. bufferLock[call[d].group] = d /\ call[d].group \in Groups
      BY <2>1, BusyCall DEF BatchInv, LockHeld, Orderly, Inside
    <2>3. call[d].group # g
      BY <1>1, <1>3, <2>2, BatchAssumption DEF BatchAssumption, Orderly
    <2> QED BY <1>1, <1>2, <2>2, <2>3
  <1>7. Outside BY <1>1, <1>4 DEF Outside
  <1> QED BY <1>5, <1>6, <1>7, OutsideInv

(* A crash empties the slots and the runs of its process; the locks it held *)
(* vanish with it.                                                          *)
LEMMA CrashSteps ==
  ASSUME BatchInv, NEW n \in Nodes, Crash(n)
  PROVE  BatchInv'
  <1>1. /\ call' = [c \in Calls |-> IF call[c].node = n THEN IdleCall ELSE call[c]]
        /\ bufferLock' = [g \in Groups |->
             IF bufferLock[g] \in Calls /\ call[bufferLock[g]].node = n THEN Vanished ELSE bufferLock[g]]
        /\ run' = [r \in Runs |-> IF run[r].node = n THEN IdleRun ELSE run[r]]
        /\ UNCHANGED <<buffers, jobs, offered, accepted, reflushed, lapsed>>
    BY DEF Crash, histories
  <1>2. setting' \in SettingType /\ SameOptions
    BY SpendKeeps DEF Crash, BatchInv, Typed, StoresTyped, Budgets
  <1>3. /\ bufferLock \in [Groups -> Calls \cup {NoCall, Vanished}]
        /\ call \in [Calls -> CallType \cup {IdleCall}] /\ run \in [Runs -> RunType \cup {IdleRun}]
    BY DEF BatchInv, Typed, StoresTyped, CallsTyped, RunsTyped
  <1>4. /\ bufferLock' \in [Groups -> Calls \cup {NoCall, Vanished}]
        /\ call' \in [Calls -> CallType \cup {IdleCall}] /\ run' \in [Runs -> RunType \cup {IdleRun}]
    BY <1>1, <1>3
  <1>5. Typed' BY <1>1, <1>2, <1>4 DEF BatchInv, Typed, StoresTyped, CallsTyped, RunsTyped
  <1>6. LockHeld'
    <2> SUFFICES ASSUME NEW d \in Calls, Orderly(d)' PROVE bufferLock'[call'[d].group] = d
      BY DEF LockHeld
    <2>1. call'[d] = call[d] /\ call[d].node # n
      BY <1>1, IdleCallIs DEF Orderly, Inside
    <2>2. Orderly(d) BY <1>1, <2>1 DEF Orderly, Inside
    <2>3. bufferLock[call[d].group] = d /\ call[d].group \in Groups
      BY <2>2, BusyCall DEF BatchInv, LockHeld, Orderly, Inside
    <2> QED BY <1>1, <2>1, <2>3
  <1>7. \A d \in Calls : call'[d] = call[d] \/ Begins(d)
    BY <1>1, IdleCallIs DEF Begins
  <1>8. \A r \in Runs : run'[r] \in {run[r], IdleRun} BY <1>1
  <1>9. Outside BY <1>1, <1>2, <1>7, <1>8 DEF Outside
  <1> QED BY <1>5, <1>6, <1>9, OutsideInv

(* A step that no call and no run takes.                                    *)
LEMMA QuietInv ==
  ASSUME BatchInv, UNCHANGED <<buffers, bufferLock, jobs, call, offered, accepted, reflushed, lapsed, run>>,
         setting' \in SettingType, SameOptions
  PROVE  BatchInv'
  <1>1. Typed' BY DEF BatchInv, Typed, StoresTyped, CallsTyped, RunsTyped
  <1>2. RunCopies' BY DEF BatchInv, RunCopies
  <1>3. WorkerStep BY DEF WorkerStep
  <1> QED BY <1>1, <1>2, <1>3, WorkerInv

-----------------------------------------------------------------------------
(* A batch is held by one run, unless it is one the exceptions name, and a  *)
(* run that is about to write a batch has found it open.                    *)
HeldOnce ==
  \A q, r \in Runs :
    q # r /\ run[q].job = run[r].job /\ run[r].job # NoJob => run[r].job \in shared

Opening == {"activate", "lease", "giveBack", "handler", "release", "save"}
OpenAt(r) ==
  /\ run[r].hung => run[r].job \in outlived
  /\ run[r].pc \in Opening =>
       /\ run[r].rec.status \notin Terminal
       /\ run[r].job \notin shared \cup outlived => jobs[run[r].job].status \notin Terminal

OutcomeInv == BatchInv /\ HeldOnce /\ \A r \in Runs : OpenAt(r)

(* What OutcomeStands says of a step.                                       *)
Stands ==
  \A j \in Jobs \ (shared \cup outlived) :
    jobs[j].status \in Terminal => jobs'[j].status \in {jobs[j].status, "removed"}

(* Runs stay where they are or end, the batches as they are.                *)
LEMMA RunsStay ==
  ASSUME OutcomeInv, BatchInv', UNCHANGED <<jobs, outlived>>, shared \subseteq shared',
         \A r \in Runs : run'[r] \in {run[r], IdleRun}
  PROVE  OutcomeInv' /\ Stands
  <1>1. IdleRun.job = NoJob /\ IdleRun.pc = "idle" /\ IdleRun.hung = FALSE BY DEF IdleRun
  <1>2. HeldOnce' BY <1>1 DEF OutcomeInv, HeldOnce
  <1>3. ASSUME NEW r \in Runs PROVE OpenAt(r)'
    BY <1>1 DEF OutcomeInv, OpenAt, Opening
  <1>4. Stands BY DEF Stands
  <1> QED BY <1>2, <1>3, <1>4 DEF OutcomeInv

(* A step of the run in slot r: it may write its batch back.                *)
Writes(r, rec) ==
  /\ run[r].pc \notin Unopened /\ rec \in BatchJob
  /\ rec.items = jobs[run[r].job].items /\ rec.status # "absent"
  /\ jobs' = [jobs EXCEPT ![run[r].job] = rec]
  /\ run[r].pc \in Opening \/ run[r].hung \/ rec.status = "removed"

(* A run is replaced by another stage of itself, with or without writing its*)
(* job (Writes).                                                            *)
LEMMA RunInv ==
  ASSUME OutcomeInv, NEW r \in Runs, NEW X \in RunType \cup {IdleRun},
         run' = [run EXCEPT ![r] = X],
         UNCHANGED <<buffers, bufferLock, call, offered, accepted, reflushed, lapsed, shared>>,
         setting' \in SettingType, SameOptions,
         outlived' \in {outlived, outlived \cup {run[r].job}},
         jobs' = jobs \/ \E rec : Writes(r, rec),
         X.job \in {run[r].job, NoJob}, X.hung => X.job \in outlived',
         X.pc \in Unopened => ~X.hung,
         X.pc \notin Unopened => /\ X.job = run[r].job /\ X.rec.items = jobs[X.job].items
                                 /\ X.rec.status # "absent" /\ jobs[X.job].status # "absent",
         X.pc \in Opening => /\ X.rec.status \notin Terminal
                             /\ X.job \notin shared \cup outlived' => jobs'[X.job].status \notin Terminal
  PROVE  OutcomeInv' /\ Stands
  <1>1. /\ run \in [Runs -> RunType \cup {IdleRun}] /\ jobs \in [Jobs -> BatchJob]
        /\ \A q \in Runs : run[q].pc \notin Unopened =>
             /\ run[q].job \in Jobs /\ run[q].rec.items = jobs[run[q].job].items
             /\ run[q].rec.status # "absent" /\ jobs[run[q].job].status # "absent"
    BY DEF OutcomeInv, BatchInv, Typed, StoresTyped, RunsTyped, RunCopies, RunType, IdleRun, Unopened
  <1>2. run'[r] = X /\ \A q \in Runs \ {r} : run'[q] = run[q] BY <1>1
  <1>3. PICK own : own = run[r].job OBVIOUS
  <1>4. /\ jobs' \in [Jobs -> BatchJob]
        /\ \A j \in Jobs : /\ jobs'[j].items = jobs[j].items
                           /\ jobs'[j].status = "absent" <=> jobs[j].status = "absent"
                           /\ jobs[j].status = "absent" => jobs'[j] = jobs[j]
        /\ \A j \in Jobs \ {own} : jobs'[j] = jobs[j]
    <2>1. CASE jobs' = jobs BY <1>1, <2>1
    <2>2. ASSUME NEW rec, Writes(r, rec)
          PROVE  /\ jobs' \in [Jobs -> BatchJob] /\ jobs'[own].items = jobs[own].items
                 /\ jobs'[own].status # "absent" /\ jobs[own].status # "absent" /\ own \in Jobs
                 /\ \A j \in Jobs \ {own} : jobs'[j] = jobs[j]
      BY <1>1, <1>3, <2>2 DEF Writes
    <2>3. CASE \E rec : Writes(r, rec) BY <2>2, <2>3
    <2> QED BY <2>1, <2>3
  <1>5. Typed' BY <1>1, <1>2, <1>4 DEF OutcomeInv, BatchInv, Typed, StoresTyped, CallsTyped, RunsTyped
  <1>6. RunCopies'
    <2> SUFFICES ASSUME NEW q \in Runs
                 PROVE  /\ run'[q].pc \in Unopened => ~run'[q].hung
                        /\ run'[q].pc \notin Unopened =>
                             /\ run'[q].rec.items = jobs'[run'[q].job].items
                             /\ run'[q].rec.status # "absent" /\ jobs'[run'[q].job].status # "absent"
      BY DEF RunCopies
    <2>1. CASE q = r
      <3>1. X.pc \notin Unopened => X.job \in Jobs
        BY DEF RunType, IdleRun, Unopened
      <3> QED BY <1>2, <1>4, <2>1, <3>1
    <2>2. CASE q # r BY <1>1, <1>2, <1>4, <2>2 DEF OutcomeInv, BatchInv, RunCopies
    <2> QED BY <2>1, <2>2
  <1>7. BatchInv'
    <2>1. WorkerStep BY <1>4 DEF WorkerStep
    <2> QED BY <1>5, <1>6, <2>1, WorkerInv DEF OutcomeInv
  <1>8. HeldOnce' BY <1>2 DEF OutcomeInv, HeldOnce
  <1>9. ASSUME NEW q \in Runs PROVE OpenAt(q)'
    <2>1. CASE q = r BY <1>2, <2>1 DEF OpenAt
    <2>2. CASE q # r
      <3>1. run'[q] = run[q] /\ OpenAt(q) /\ outlived \subseteq outlived' BY <1>2, <2>2 DEF OutcomeInv
      <3>2. run[q].pc \in Opening => run[q].job \in Jobs
        BY <1>1 DEF Opening, Unopened
      <3>3. ASSUME run[q].job \in Jobs
            PROVE  run[q].job \in shared \/ jobs'[run[q].job] = jobs[run[q].job]
        <4>1. CASE run[q].job = own
          <5>1. own # NoJob BY <3>3, <4>1, BatchAssumption DEF BatchAssumption
          <5> QED BY <1>3, <2>2, <4>1, <5>1 DEF OutcomeInv, HeldOnce
        <4>2. CASE run[q].job # own BY <1>4, <3>3, <4>2
        <4> QED BY <4>1, <4>2
      <3> QED BY <3>1, <3>2, <3>3 DEF OpenAt
    <2> QED BY <2>1, <2>2
  <1>10. Stands
    <2> SUFFICES ASSUME NEW j \in Jobs \ (shared \cup outlived), jobs[j].status \in Terminal
                 PROVE  jobs'[j].status \in {jobs[j].status, "removed"}
      BY DEF Stands
    <2>1. CASE jobs' = jobs BY <2>1
    <2>2. ASSUME NEW rec, Writes(r, rec) PROVE jobs'[j].status \in {jobs[j].status, "removed"}
      <3>1. CASE j # own BY <1>4, <3>1
      <3>2. CASE j = own
        <4>1. jobs'[j] = rec BY <1>1, <1>3, <2>2, <3>2 DEF Writes
        <4>2. OpenAt(r) BY DEF OutcomeInv
        <4>3. rec.status = "removed" BY <1>3, <2>2, <3>2, <4>2 DEF OpenAt, Writes
        <4> QED BY <4>1, <4>3
      <3> QED BY <3>1, <3>2
    <2>3. CASE \E rec : Writes(r, rec) BY <2>2, <2>3
    <2> QED BY <2>1, <2>3
  <1> QED BY <1>7, <1>8, <1>9, <1>10 DEF OutcomeInv

(* The steps of a run.                                                      *)
RunOnly ==
  UNCHANGED <<setting, buffers, bufferLock, call, offered, accepted, reflushed, lapsed, shared, outlived>>

(* What is known of a run under way: its job, its copy of the record, and   *)
(* that both have the same items.                                           *)
LEMMA BusyRun ==
  ASSUME OutcomeInv, NEW r \in Runs, run[r].pc # "idle"
  PROVE  /\ run[r] \in RunType /\ run[r].job \in Jobs /\ run[r].rec \in BatchJob
         /\ jobs[run[r].job] \in BatchJob /\ run[r].hung \in BOOLEAN
         /\ run[r].hung => run[r].job \in outlived
         /\ run[r].pc \in Unopened => ~run[r].hung
         /\ run[r].pc \notin Unopened => /\ run[r].rec.items = jobs[run[r].job].items
                                         /\ run[r].rec.status # "absent"
                                         /\ jobs[run[r].job].status # "absent"
         /\ run[r].pc \in Opening =>
              /\ run[r].rec.status \notin Terminal
              /\ run[r].job \notin shared \cup outlived => jobs[run[r].job].status \notin Terminal
  <1>1. run[r] \in RunType /\ jobs \in [Jobs -> BatchJob]
    BY DEF OutcomeInv, BatchInv, Typed, StoresTyped, RunsTyped, IdleRun
  <1>2. run[r].job \in Jobs /\ run[r].rec \in BatchJob /\ run[r].hung \in BOOLEAN
    BY <1>1 DEF RunType
  <1>3. /\ run[r].pc \in Unopened => ~run[r].hung
        /\ run[r].pc \notin Unopened => /\ run[r].rec.items = jobs[run[r].job].items
                                        /\ run[r].rec.status # "absent"
                                        /\ jobs[run[r].job].status # "absent"
    BY DEF OutcomeInv, BatchInv, RunCopies
  <1>4. OpenAt(r) BY DEF OutcomeInv
  <1> QED BY <1>1, <1>2, <1>3, <1>4 DEF OpenAt

(* A step that writes nothing.                                              *)
LEMMA ReadOnlyRun ==
  ASSUME OutcomeInv, NEW r \in Runs, run[r].pc # "idle", RunOnly, UNCHANGED jobs,
         NEW pc \in RunPcs, NEW o \in Outcomes, pc \notin Unopened, run[r].pc \notin Unopened,
         pc \in Opening => run[r].pc \in Opening,
         run' = [run EXCEPT ![r].outcome = o, ![r].pc = pc]
  PROVE  OutcomeInv' /\ Stands
  <1>1. PICK X : X = [run[r] EXCEPT !.outcome = o, !.pc = pc] OBVIOUS
  <1>2. run[r] \in RunType BY BusyRun
  <1>3. /\ X \in RunType /\ X.pc = pc /\ X.job = run[r].job /\ X.rec = run[r].rec
        /\ X.hung = run[r].hung
    BY <1>1, <1>2 DEF RunType
  <1>4. run' = [run EXCEPT ![r] = X] BY <1>1
  <1>5. /\ X.hung => X.job \in outlived'
        /\ X.pc \in Unopened => ~X.hung
        /\ X.pc \notin Unopened => /\ X.job = run[r].job /\ X.rec.items = jobs[X.job].items
                                   /\ X.rec.status # "absent" /\ jobs[X.job].status # "absent"
        /\ X.pc \in Opening => /\ X.rec.status \notin Terminal
                               /\ X.job \notin shared \cup outlived' => jobs'[X.job].status \notin Terminal
    BY <1>3, BusyRun DEF RunOnly
  <1>6. /\ UNCHANGED <<buffers, bufferLock, call, offered, accepted, reflushed, lapsed, shared>>
        /\ setting' \in SettingType /\ SameOptions /\ outlived' = outlived
    BY DEF RunOnly, SameOptions, OutcomeInv, BatchInv, Typed, StoresTyped
  <1> QED BY <1>3, <1>4, <1>5, <1>6, RunInv

(* A run goes from one stage to the next and writes nothing.                *)
LEMMA StageMoves ==
  ASSUME OutcomeInv, NEW r \in Runs, run[r].pc # "idle", RunOnly, UNCHANGED jobs,
         NEW pc \in RunPcs, pc \notin Unopened, run[r].pc \notin Unopened,
         pc \in Opening => run[r].pc \in Opening, ToStage(r, pc)
  PROVE  OutcomeInv' /\ Stands
  <1>1. run[r] \in RunType /\ run \in [Runs -> RunType \cup {IdleRun}]
    BY BusyRun DEF OutcomeInv, BatchInv, Typed, RunsTyped
  <1>2. PICK o \in Outcomes : o = run[r].outcome BY <1>1 DEF RunType
  <1>3. [run[r] EXCEPT !.outcome = o, !.pc = pc] = [run[r] EXCEPT !.pc = pc]
    BY <1>1, <1>2 DEF RunType
  <1>4. run' = [run EXCEPT ![r].outcome = o, ![r].pc = pc] BY <1>1, <1>3 DEF ToStage
  <1> QED BY <1>4, ReadOnlyRun

(* A step that writes the batch back.                                       *)
LEMMA WritingRun ==
  ASSUME OutcomeInv, NEW r \in Runs, run[r].pc \in Opening, RunOnly,
         NEW pc \in RunPcs, pc \notin Unopened,
         NEW rec \in BatchJob, rec.items = run[r].rec.items, rec.status # "absent",
         pc \in Opening => rec.status \notin Terminal,
         SaveJob(run[r].job, rec), run' = [run EXCEPT ![r].rec = rec, ![r].pc = pc]
  PROVE  OutcomeInv' /\ Stands
  <1>0. run[r].pc # "idle" /\ run[r].pc \notin Unopened BY DEF Opening, Unopened
  <1>1. PICK X : X = [run[r] EXCEPT !.rec = rec, !.pc = pc] OBVIOUS
  <1>2. /\ run[r] \in RunType /\ run[r].job \in Jobs /\ jobs[run[r].job].status # "absent"
        /\ rec.items = jobs[run[r].job].items /\ jobs \in [Jobs -> BatchJob]
    BY <1>0, BusyRun DEF OutcomeInv, BatchInv, Typed, StoresTyped
  <1>3. /\ X \in RunType /\ X.pc = pc /\ X.job = run[r].job /\ X.rec = rec
        /\ X.hung = run[r].hung
    BY <1>1, <1>2 DEF RunType
  <1>4. run' = [run EXCEPT ![r] = X] BY <1>1
  <1>5. Writes(r, rec) BY <1>0, <1>2 DEF Writes, SaveJob
  <1>6. jobs'[X.job] = rec BY <1>2, <1>3 DEF SaveJob
  <1>7. /\ X.hung => X.job \in outlived'
        /\ X.pc \in Unopened => ~X.hung
        /\ X.pc \notin Unopened => /\ X.job = run[r].job /\ X.rec.items = jobs[X.job].items
                                   /\ X.rec.status # "absent" /\ jobs[X.job].status # "absent"
        /\ X.pc \in Opening => /\ X.rec.status \notin Terminal
                               /\ X.job \notin shared \cup outlived' => jobs'[X.job].status \notin Terminal
    BY <1>0, <1>2, <1>3, <1>6, BusyRun DEF RunOnly
  <1>8. /\ UNCHANGED <<buffers, bufferLock, call, offered, accepted, reflushed, lapsed, shared>>
        /\ setting' \in SettingType /\ SameOptions /\ outlived' = outlived
    BY DEF RunOnly, SameOptions, OutcomeInv, BatchInv, Typed, StoresTyped
  <1> QED BY <1>3, <1>4, <1>5, <1>7, <1>8, RunInv

(* The promise of executeJob settles.                                       *)
LEMMA SettlingRun ==
  ASSUME OutcomeInv, NEW r \in Runs, run[r].pc # "idle", RunOnly, Settle(r),
         jobs' = jobs \/ \E rec : Writes(r, rec)
  PROVE  OutcomeInv' /\ Stands
  <1>1. PICK X : X = IF run[r].hung THEN [run[r] EXCEPT !.pc = "zombie"] ELSE IdleRun OBVIOUS
  <1>2. run' = [run EXCEPT ![r] = X] BY <1>1 DEF Settle
  <1>3. run[r] \in RunType BY BusyRun
  <1>4. \/ X = IdleRun
        \/ /\ X \in RunType /\ X.pc = "zombie" /\ X.job = run[r].job /\ X.rec = run[r].rec
           /\ X.hung = run[r].hung /\ run[r].hung
    BY <1>1, <1>3 DEF RunType, RunPcs
  <1>5. IdleRun.pc = "idle" /\ IdleRun.job = NoJob /\ IdleRun.hung = FALSE BY DEF IdleRun
  <1>6. "zombie" \notin Unopened \cup Opening /\ "idle" \in Unopened \ Opening
    BY DEF Unopened, Opening
  <1>7. /\ X.job \in {run[r].job, NoJob} /\ X \in RunType \cup {IdleRun}
        /\ X.hung => X.job \in outlived'
        /\ X.pc \in Unopened => ~X.hung
        /\ X.pc \notin Unopened => /\ X.job = run[r].job /\ X.rec.items = jobs[X.job].items
                                   /\ X.rec.status # "absent" /\ jobs[X.job].status # "absent"
        /\ X.pc \notin Opening
    BY <1>4, <1>5, <1>6, BusyRun DEF RunOnly
  <1>8. /\ UNCHANGED <<buffers, bufferLock, call, offered, accepted, reflushed, lapsed, shared>>
        /\ setting' \in SettingType /\ SameOptions /\ outlived' = outlived
    BY DEF RunOnly, SameOptions, OutcomeInv, BatchInv, Typed, StoresTyped
  <1> QED BY <1>2, <1>7, <1>8, RunInv

(* Load: a run reads its job and goes on only if it is not over.            *)
LEMMA LoadSteps ==
  ASSUME OutcomeInv, NEW r \in Runs, Load(r)
  PROVE  OutcomeInv' /\ Stands
  <1>0. run[r].pc = "load" /\ run[r].pc # "idle" /\ run[r].pc \in Unopened
    BY DEF Load, Stage, Unopened
  <1>1. PICK j : j = run[r].job OBVIOUS
  <1>2. PICK rec : rec = IF Exists(j) THEN jobs[j] ELSE NoRecord OBVIOUS
  <1>3. PICK pc : pc = IF Exists(j) /\ jobs[j].status \notin Terminal
                       THEN "activate" ELSE "ackGone"
    OBVIOUS
  <1>4. PICK X : X = [run[r] EXCEPT !.rec = rec, !.pc = pc] OBVIOUS
  <1>5. run[r] \in RunType /\ j \in Jobs /\ jobs[j] \in BatchJob /\ ~run[r].hung
    BY <1>0, <1>1, BusyRun
  <1>6. /\ rec \in BatchJob
        /\ \/ pc = "ackGone"
           \/ pc = "activate" /\ rec = jobs[j] /\ Exists(j) /\ jobs[j].status \notin Terminal
    BY <1>2, <1>3, <1>5, NoBufferIsBuffer
  <1>7. X \in RunType /\ X.job = j /\ ~X.hung /\ X.pc = pc /\ X.rec = rec
    BY <1>1, <1>4, <1>5, <1>6 DEF RunType, RunPcs
  <1>8. /\ run' = [run EXCEPT ![r] = X] /\ RunOnly /\ UNCHANGED jobs
    BY <1>1, <1>2, <1>3, <1>4 DEF Load, RunOnly, storeVars, bufferVars
  <1>9. "ackGone" \in Unopened \ Opening /\ "activate" \in Opening \ Unopened
    BY DEF Unopened, Opening
  <1>10. /\ X.job \in {run[r].job, NoJob}
         /\ X.hung => X.job \in outlived'
         /\ X.pc \in Unopened => ~X.hung
         /\ X.pc \notin Unopened => /\ X.job = run[r].job /\ X.rec.items = jobs[X.job].items
                                    /\ X.rec.status # "absent" /\ jobs[X.job].status # "absent"
         /\ X.pc \in Opening => /\ X.rec.status \notin Terminal
                                /\ X.job \notin shared \cup outlived' => jobs'[X.job].status \notin Terminal
    BY <1>1, <1>6, <1>7, <1>8, <1>9 DEF Exists
  <1>11. /\ UNCHANGED <<buffers, bufferLock, call, offered, accepted, reflushed, lapsed, shared>>
         /\ setting' \in SettingType /\ SameOptions /\ outlived' = outlived
    BY <1>8 DEF RunOnly, SameOptions, OutcomeInv, BatchInv, Typed, StoresTyped
  <1>12. X \in RunType \cup {IdleRun} /\ jobs' = jobs BY <1>7, <1>8
  <1> QED BY <1>8, <1>10, <1>11, <1>12, RunInv

(* Every stage of a run.                                                    *)
LEMMA RunSteps ==
  ASSUME OutcomeInv, NEW r \in Runs, RunStep(r)
  PROVE  OutcomeInv' /\ Stands
  <1>1. CASE Load(r) BY <1>1, LoadSteps
  <1>2. CASE AckGone(r)
    <2>1. /\ run[r].pc # "idle" /\ RunOnly /\ Settle(r) /\ UNCHANGED jobs
      BY <1>2 DEF AckGone, Stage, RunOnly, bufferVars
    <2> QED BY <2>1, SettlingRun
  <1>3. CASE Activate(r)
    <2>0. PICK next : next = IF run[r].rec.attempt > MaxRetries THEN MaxRetries + 2
                             ELSE run[r].rec.attempt + 1
      OBVIOUS
    <2>1. PICK rec : rec = [run[r].rec EXCEPT !.status = "active", !.attempt = next] OBVIOUS
    <2>2. /\ run[r].pc = "activate" /\ RunOnly /\ SaveJob(run[r].job, rec)
          /\ run' = [run EXCEPT ![r].rec = rec, ![r].pc = "lease"]
      BY <1>3, <2>0, <2>1 DEF Activate, Stage, RunOnly, bufferVars
    <2>3. run[r].rec \in BatchJob /\ next \in 0 .. MaxRetries + 2
      <3>1. run[r].rec \in BatchJob BY <2>2, BusyRun
      <3>2. run[r].rec.attempt \in 0 .. MaxRetries + 2 /\ MaxRetries \in Nat
        BY <3>1, BatchAssumption DEF BatchJob, BatchAssumption
      <3> QED BY <2>0, <3>1, <3>2
    <2>4. rec \in BatchJob /\ rec.status = "active" /\ rec.items = run[r].rec.items
      BY <2>1, <2>3 DEF BatchJob, Statuses
    <2> QED BY <2>2, <2>4, WritingRun DEF Opening, Unopened, RunPcs, Terminal
  <1>4. CASE Lease(r)
    <2>1. PICK pc \in {"handler", "giveBack"} : ToStage(r, pc) BY <1>4 DEF Lease
    <2>2. run[r].pc = "lease" /\ RunOnly /\ UNCHANGED jobs
      BY <1>4 DEF Lease, Stage, RunOnly, bufferVars
    <2> QED BY <2>1, <2>2, StageMoves DEF Opening, Unopened, RunPcs
  <1>5. CASE GiveBack(r)
    <2>1. PICK rec : rec = [run[r].rec EXCEPT !.status = "waiting"] OBVIOUS
    <2>2. /\ run[r].pc = "giveBack" /\ RunOnly /\ SaveJob(run[r].job, rec)
          /\ run' = [run EXCEPT ![r].rec = rec, ![r].pc = "nackBack"]
      BY <1>5, <2>1 DEF GiveBack, Stage, RunOnly, bufferVars
    <2>3. run[r].rec \in BatchJob BY <2>2, BusyRun
    <2>4. rec \in BatchJob /\ rec.status = "waiting" /\ rec.items = run[r].rec.items
      BY <2>1, <2>3 DEF BatchJob, Statuses
    <2> QED BY <2>2, <2>4, WritingRun DEF Opening, Unopened, RunPcs, Terminal
  <1>6. CASE NackBack(r)
    <2>1. /\ run[r].pc # "idle" /\ RunOnly /\ Settle(r) /\ UNCHANGED jobs
      BY <1>6 DEF NackBack, Stage, RunOnly, bufferVars
    <2> QED BY <2>1, SettlingRun
  <1>7. CASE HandlerEnds(r)
    <2>1. PICK o \in Outcomes : run' = [run EXCEPT ![r].outcome = o, ![r].pc = "release"]
      BY <1>7 DEF HandlerEnds
    <2>2. run[r].pc = "handler" /\ RunOnly /\ UNCHANGED jobs
      BY <1>7 DEF HandlerEnds, Stage, RunOnly, storeVars, bufferVars
    <2> QED BY <2>1, <2>2, ReadOnlyRun DEF Opening, Unopened, RunPcs
  <1>8. CASE ReleaseLease(r)
    <2>1. run[r].pc = "release" /\ RunOnly /\ UNCHANGED jobs /\ ToStage(r, "save")
      BY <1>8 DEF ReleaseLease, Stage, RunOnly, bufferVars
    <2> QED BY <2>1, StageMoves DEF Opening, Unopened, RunPcs
  <1>9. CASE SaveOutcome(r)
    <2>1. PICK rec : rec = [run[r].rec EXCEPT !.status = Final(r)] OBVIOUS
    <2>2. PICK pc \in {"nack", "ack"} : pc = IF Retries(r) THEN "nack" ELSE "ack" OBVIOUS
    <2>3. /\ run[r].pc = "save" /\ RunOnly /\ SaveJob(run[r].job, rec)
          /\ run' = [run EXCEPT ![r].rec = rec, ![r].pc = pc]
      BY <1>9, <2>1, <2>2 DEF SaveOutcome, Stage, RunOnly, bufferVars
    <2>4. run[r].rec \in BatchJob BY <2>3, BusyRun
    <2>5. Final(r) \in {"completed", "waiting", "failed"} BY DEF Final
    <2>6. rec \in BatchJob /\ rec.status # "absent" /\ rec.items = run[r].rec.items
      BY <2>1, <2>4, <2>5 DEF BatchJob, Statuses
    <2> QED BY <2>2, <2>3, <2>6, WritingRun DEF Opening, Unopened, RunPcs
  <1>10. CASE NackRetry(r)
    <2>1. /\ run[r].pc # "idle" /\ RunOnly /\ Settle(r) /\ UNCHANGED jobs
      BY <1>10 DEF NackRetry, Stage, RunOnly, bufferVars
    <2> QED BY <2>1, SettlingRun
  <1>11. CASE AckOutcome(r)
    <2>1. /\ run[r].pc = "ack" /\ RunOnly /\ UNCHANGED jobs
          /\ ToStage(r, "prune") \/ Settle(r)
      BY <1>11 DEF AckOutcome, Stage, RunOnly, bufferVars
    <2>2. CASE ToStage(r, "prune")
      BY <2>1, <2>2, StageMoves DEF Opening, Unopened, RunPcs
    <2>3. CASE Settle(r) BY <2>1, <2>3, SettlingRun
    <2> QED BY <2>1, <2>2, <2>3
  <1>12. CASE Prune(r)
    <2>1. PICK j : j = run[r].job OBVIOUS
    <2>2. /\ run[r].pc = "prune" /\ RunOnly /\ Settle(r)
          /\ jobs' = [jobs EXCEPT ![j].status = IF Exists(j) THEN "removed" ELSE @]
      BY <1>12, <2>1 DEF Prune, Stage, RunOnly, bufferVars
    <2>3. PICK rec : rec = [jobs[j] EXCEPT !.status = "removed"] OBVIOUS
    <2>4. j \in Jobs /\ jobs[j] \in BatchJob /\ jobs[j].status # "absent"
      BY <2>1, <2>2, BusyRun DEF Unopened
    <2>5. /\ rec \in BatchJob /\ rec.status = "removed" /\ rec.items = jobs[j].items
      BY <2>3, <2>4 DEF BatchJob, Statuses
    <2>6. jobs' = jobs \/ jobs' = [jobs EXCEPT ![j] = rec]
      <3>1. CASE Exists(j) BY <2>2, <2>3, <3>1
      <3>2. CASE ~Exists(j)
        <4>1. jobs[j].status = "removed" BY <2>4, <3>2 DEF Exists
        <4>2. rec = jobs[j] BY <2>3, <2>4, <4>1 DEF BatchJob
        <4>3. [jobs[j] EXCEPT !.status = @] = jobs[j] BY <2>4 DEF BatchJob
        <4>4. jobs' = [jobs EXCEPT ![j] = rec] BY <2>2, <3>2, <4>2, <4>3
        <4> QED BY <4>4
      <3> QED BY <3>1, <3>2
    <2>7. jobs' = jobs \/ Writes(r, rec)
      BY <2>1, <2>2, <2>5, <2>6 DEF Writes, Unopened
    <2> QED BY <2>2, <2>7, SettlingRun
  <1>13. CASE ZombieEnds(r)
    <2>1. run[r].pc = "zombie" /\ RunOnly /\ UNCHANGED jobs /\ run' = [run EXCEPT ![r] = IdleRun]
      BY <1>13 DEF ZombieEnds, Stage, RunOnly, storeVars, bufferVars
    <2>2. run \in [Runs -> RunType \cup {IdleRun}] /\ setting \in SettingType
      BY DEF OutcomeInv, BatchInv, Typed, StoresTyped, RunsTyped
    <2>3. \A q \in Runs : run'[q] \in {run[q], IdleRun} BY <2>1, <2>2
    <2>4. run' \in [Runs -> RunType \cup {IdleRun}] BY <2>1, <2>2
    <2>5. BatchInv'
      <3>1. Typed' BY <2>1, <2>4 DEF OutcomeInv, BatchInv, Typed, StoresTyped, CallsTyped, RunsTyped, RunOnly
      <3>2. RunCopies' BY <2>1, <2>3 DEF OutcomeInv, BatchInv, RunCopies, IdleRun, Unopened
      <3>3. WorkerStep BY <2>1 DEF WorkerStep, RunOnly, SameOptions
      <3> QED BY <3>1, <3>2, <3>3, WorkerInv DEF OutcomeInv
    <2> QED BY <2>1, <2>3, <2>5, RunsStay DEF RunOnly
  <1> QED BY <1>1, <1>2, <1>3, <1>4, <1>5, <1>6, <1>7, <1>8, <1>9, <1>10, <1>11, <1>12, <1>13
          DEF RunStep

(* Progress of a live handler is written with the record the run has.       *)
LEMMA ProgressSteps ==
  ASSUME OutcomeInv, NEW r \in Runs, Progress(r)
  PROVE  OutcomeInv' /\ Stands
  <1>1. /\ run[r].pc = "handler" \/ run[r].hung
        /\ jobs' = [jobs EXCEPT ![run[r].job] = run[r].rec]
        /\ UNCHANGED run /\ RunOnly
    BY DEF Progress, SaveJob, Stage, bufferVars, workerVars, RunOnly
  <1>2. run[r].pc # "idle" /\ run[r].pc \notin Unopened
    BY <1>1 DEF OutcomeInv, BatchInv, RunCopies, Unopened
  <1>3. run[r].pc \in Opening \/ run[r].hung BY <1>1 DEF Opening
  <1>4. PICK X : X = run[r] OBVIOUS
  <1>5. X \in RunType /\ X.job \in Jobs /\ X.rec \in BatchJob BY <1>2, <1>4, BusyRun
  <1>6. run' = [run EXCEPT ![r] = X]
    BY <1>1, <1>4 DEF OutcomeInv, BatchInv, Typed, RunsTyped
  <1>7. Writes(r, X.rec) BY <1>1, <1>2, <1>3, <1>4, <1>5, BusyRun DEF Writes
  <1>8. jobs'[X.job] = X.rec
    BY <1>1, <1>4, <1>5 DEF OutcomeInv, BatchInv, Typed, StoresTyped
  <1>9. /\ X.hung => X.job \in outlived'
        /\ X.pc \notin Unopened /\ X.job = run[r].job
        /\ X.rec.items = jobs[X.job].items /\ X.rec.status # "absent" /\ jobs[X.job].status # "absent"
        /\ X.pc \in Opening => /\ X.rec.status \notin Terminal
                               /\ X.job \notin shared \cup outlived' => jobs'[X.job].status \notin Terminal
    <2>1. X.pc \notin Unopened BY <1>2, <1>4
    <2> QED BY <1>1, <1>2, <1>4, <1>8, <2>1, BusyRun DEF RunOnly
  <1>10. /\ UNCHANGED <<buffers, bufferLock, call, offered, accepted, reflushed, lapsed, shared>>
         /\ setting' \in SettingType /\ SameOptions /\ outlived' = outlived
    BY <1>1 DEF RunOnly, SameOptions, OutcomeInv, BatchInv, Typed, StoresTyped
  <1> QED BY <1>5, <1>6, <1>7, <1>9, <1>10, RunInv

(* The timeout of a handler that hangs: the run goes on while the handler   *)
(* may still report progress, so its job counts as outlived.                *)
LEMMA HangSteps ==
  ASSUME OutcomeInv, NEW r \in Runs, HandlerTimesOut(r)
  PROVE  OutcomeInv' /\ Stands
  <1>1. /\ run[r].pc = "handler" /\ outlived' = outlived \cup {run[r].job}
        /\ run' = [run EXCEPT ![r] = [run[r] EXCEPT !.outcome = "error", !.hung = TRUE, !.pc = "release"]]
        /\ UNCHANGED <<buffers, bufferLock, jobs, call, offered, accepted, reflushed, lapsed, shared>>
    BY DEF HandlerTimesOut, Stage, bufferVars
  <1>2. setting' \in SettingType /\ SameOptions
    BY SpendKeeps DEF HandlerTimesOut, OutcomeInv, BatchInv, Typed, StoresTyped, Budgets
  <1>3. run[r].pc # "idle" /\ run[r].pc \in Opening \ Unopened BY <1>1 DEF Opening, Unopened
  <1>4. PICK X : X = [run[r] EXCEPT !.outcome = "error", !.hung = TRUE, !.pc = "release"] OBVIOUS
  <1>5. /\ X \in RunType /\ X.pc = "release" /\ X.job = run[r].job /\ X.rec = run[r].rec
    BY <1>3, <1>4, BusyRun DEF RunType, RunPcs, Outcomes
  <1>6. "release" \notin Unopened BY DEF Unopened
  <1>7. /\ X.job \in outlived' /\ X.pc \notin Unopened
        /\ X.rec.items = jobs[X.job].items /\ X.rec.status # "absent" /\ jobs[X.job].status # "absent"
        /\ X.rec.status \notin Terminal
    BY <1>1, <1>3, <1>5, <1>6, BusyRun
  <1>8. X.job \in {run[r].job, NoJob} /\ run' = [run EXCEPT ![r] = X] BY <1>1, <1>4, <1>5
  <1> QED BY <1>1, <1>2, <1>5, <1>7, <1>8, RunInv

(* Poll: ready jobs get idle runs, one each; a job somebody already runs    *)
(* counts as shared.                                                        *)
LEMMA PollSteps ==
  ASSUME OutcomeInv, NEW n \in Nodes, Poll(n)
  PROVE  OutcomeInv' /\ Stands
  <1>0. PICK picked \in (SUBSET {j \in Jobs : queue[j] = "ready"}) \ {{}} :
          /\ \E slot \in {CHOOSE f \in [picked -> {r \in setting.runs : Stage(r, "idle")}] :
                            \A i, j \in picked : f[i] = f[j] => i = j} :
               run' = [r \in Runs |->
                       IF \E j \in picked : slot[j] = r
                       THEN [IdleRun EXCEPT !.pc = "load", !.node = n,
                               !.job = CHOOSE j \in picked : slot[j] = r]
                       ELSE run[r]]
          /\ shared' = shared \cup {j \in picked : HeldBy(j) # {}}
    BY Zenon DEF Poll
  <1>1. PICK slot \in {CHOOSE f \in [picked -> {r \in setting.runs : Stage(r, "idle")}] :
                         \A i, j \in picked : f[i] = f[j] => i = j} :
          run' = [r \in Runs |->
                    IF \E j \in picked : slot[j] = r
                    THEN [IdleRun EXCEPT !.pc = "load", !.node = n,
                            !.job = CHOOSE j \in picked : slot[j] = r]
                    ELSE run[r]]
    BY <1>0, Zenon
  <1>a. picked \subseteq Jobs BY <1>0
  <1>2. UNCHANGED <<setting, buffers, bufferLock, jobs, call, offered, accepted, reflushed, lapsed, outlived>>
    BY DEF Poll, bufferVars, histories
  <1>3. ASSUME NEW r \in Runs, \E j \in picked : slot[j] = r
        PROVE  /\ run'[r] \in RunType /\ run'[r].pc = "load" /\ run'[r].hung = FALSE
               /\ run'[r].job \in picked /\ slot[run'[r].job] = r
    <2>1. PICK j \in picked : j = CHOOSE k \in picked : slot[k] = r
      BY <1>3
    <2>2. slot[j] = r BY <1>3, <2>1
    <2>3. run'[r] = [IdleRun EXCEPT !.pc = "load", !.node = n, !.job = j]
      BY <1>1, <1>3, <2>1
    <2>4. run'[r] = [pc |-> "load", node |-> n, job |-> j, rec |-> NoRecord,
                     outcome |-> "none", hung |-> FALSE]
      BY <2>3 DEF IdleRun
    <2> QED BY <1>a, <2>2, <2>4, NoBufferIsBuffer DEF RunType, RunPcs, Outcomes
  <1>4. ASSUME NEW r \in Runs, ~\E j \in picked : slot[j] = r PROVE run'[r] = run[r]
    BY <1>1, <1>4
  <1>5. run' \in [Runs -> RunType \cup {IdleRun}]
    <2>1. run \in [Runs -> RunType \cup {IdleRun}] BY DEF OutcomeInv, BatchInv, Typed, RunsTyped
    <2>2. \A r \in Runs : run'[r] \in RunType \cup {IdleRun} BY <1>3, <1>4, <2>1
    <2>3. run' = [r \in Runs |-> run'[r]] BY <1>1
    <2> QED BY <2>2, <2>3
  <1>6. BatchInv'
    <2>1. Typed' BY <1>2, <1>5 DEF OutcomeInv, BatchInv, Typed, StoresTyped, CallsTyped, RunsTyped
    <2>2. RunCopies'
      <3> SUFFICES ASSUME NEW q \in Runs
                   PROVE  /\ run'[q].pc \in Unopened => ~run'[q].hung
                          /\ run'[q].pc \notin Unopened =>
                               /\ run'[q].rec.items = jobs'[run'[q].job].items
                               /\ run'[q].rec.status # "absent" /\ jobs'[run'[q].job].status # "absent"
        BY DEF RunCopies
      <3>1. CASE \E j \in picked : slot[j] = q
        <4>1. run'[q].pc = "load" /\ run'[q].hung = FALSE BY <1>3, <3>1
        <4> QED BY <4>1 DEF Unopened
      <3>2. CASE ~\E j \in picked : slot[j] = q
        <4>1. run'[q] = run[q] BY <1>4, <3>2
        <4> QED BY <1>2, <4>1 DEF OutcomeInv, BatchInv, RunCopies
      <3> QED BY <3>1, <3>2
    <2>3. WorkerStep BY <1>2 DEF WorkerStep, SameOptions
    <2> QED BY <2>1, <2>2, <2>3, WorkerInv DEF OutcomeInv
  <1>7. HeldOnce'
    <2> SUFFICES ASSUME NEW q \in Runs, NEW r \in Runs, q # r, run'[q].job = run'[r].job,
                        run'[r].job # NoJob
                 PROVE  run'[r].job \in shared'
      BY DEF HeldOnce
    <2>1. ASSUME NEW s \in Runs, NEW t \in Runs, \E j \in picked : slot[j] = s,
                 ~\E j \in picked : slot[j] = t, run'[s].job = run'[t].job
          PROVE  run'[t].job \in shared'
      <3>1. run'[s].job \in picked /\ run[t].job = run'[s].job BY <1>3, <1>4, <2>1
      <3>2. t \in HeldBy(run'[s].job) BY <3>1 DEF HeldBy
      <3> QED BY <1>0, <2>1, <3>1, <3>2
    <2>2. CASE \E j \in picked : slot[j] = q
      <3>1. CASE \E j \in picked : slot[j] = r
        <4>1. slot[run'[q].job] = q BY <1>3, <2>2
        <4>2. slot[run'[r].job] = r BY <1>3, <3>1
        <4> QED BY <4>1, <4>2
      <3>2. CASE ~\E j \in picked : slot[j] = r BY <2>1, <2>2, <3>2
      <3> QED BY <3>1, <3>2
    <2>3. CASE ~\E j \in picked : slot[j] = q
      <3>1. CASE \E j \in picked : slot[j] = r BY <2>1, <2>3, <3>1
      <3>2. CASE ~\E j \in picked : slot[j] = r
        BY <1>0, <1>4, <2>3, <3>2 DEF OutcomeInv, HeldOnce
      <3> QED BY <3>1, <3>2
    <2> QED BY <2>2, <2>3
  <1>8. ASSUME NEW r \in Runs PROVE OpenAt(r)'
    <2>1. CASE \E j \in picked : slot[j] = r BY <1>3, <2>1 DEF OpenAt, Opening
    <2>2. CASE ~\E j \in picked : slot[j] = r
      <3>1. run'[r] = run[r] /\ shared \subseteq shared' BY <1>0, <1>4, <2>2
      <3> QED BY <1>2, <3>1 DEF OutcomeInv, OpenAt
    <2> QED BY <2>1, <2>2
  <1>9. Stands BY <1>2 DEF Stands
  <1> QED BY <1>6, <1>7, <1>8, <1>9 DEF OutcomeInv

(* Steps that no run takes.                                                 *)
LEMMA QuietSteps ==
  ASSUME OutcomeInv, UNCHANGED <<buffers, bufferLock, jobs, call, offered, accepted, reflushed, lapsed,
                                 run, outlived>>,
         shared \subseteq shared', setting' \in SettingType, SameOptions
  PROVE  OutcomeInv' /\ Stands
  <1>1. BatchInv' BY QuietInv DEF OutcomeInv
  <1> QED BY <1>1, RunsStay

(* Every step of a call of the buffer.                                      *)
LEMMA CallSteps ==
  ASSUME OutcomeInv, NEW c \in Calls, CallStep(c), UNCHANGED workerVars
  PROVE  OutcomeInv' /\ Stands
  <1>0. BatchInv /\ UNCHANGED <<run, shared, outlived>> BY DEF OutcomeInv, workerVars
  <1>1. CASE CreateJob(c)
    <2>1. BatchInv' BY <1>0, <1>1, CreateSteps
    <2>2. PICK k : k = call[c].job OBVIOUS
    <2>3. jobs[k].status = "absent" /\ \A j \in Jobs \ {k} : jobs'[j] = jobs[j]
      <3>1. jobs[k] = NoRecord BY <1>0, <1>1, <2>2 DEF BatchInv, Reserved, CreateJob, At
      <3>2. jobs \in [Jobs -> BatchJob] BY <1>0 DEF BatchInv, Typed, StoresTyped
      <3> QED BY <1>1, <2>2, <3>1, <3>2 DEF CreateJob, SaveJob, NoRecord
    <2>4. HeldOnce' BY <1>0 DEF OutcomeInv, HeldOnce
    <2>5. ASSUME NEW r \in Runs PROVE OpenAt(r)'
      <3>1. run[r].pc \in Opening => run[r].job \in Jobs /\ jobs[run[r].job].status # "absent"
        BY BusyRun DEF Opening, Unopened
      <3>2. run[r].pc \in Opening => jobs'[run[r].job] = jobs[run[r].job] BY <2>3, <3>1
      <3> QED BY <1>0, <3>2 DEF OutcomeInv, OpenAt
    <2>6. Stands BY <2>3 DEF Stands, Terminal
    <2> QED BY <2>1, <2>4, <2>5, <2>6 DEF OutcomeInv
  <1>2. CASE ~CreateJob(c)
    <2>1. UNCHANGED jobs
      BY <1>2 DEF CallStep, ReadBuffer, Lookup, Republish, Drop, Unmark, Write, CountWaiting,
                  CountActive, Clear, Mark, PublishJob, DeleteBuffer, Unlock, storeVars
    <2>2. BatchInv'
      BY <1>0, <1>2, ReadSteps, LookupSteps, RepublishSteps, DropSteps, UnmarkSteps, WriteSteps,
         CountWaitingSteps, CountActiveSteps, ClearSteps, MarkSteps, PublishSteps, DeleteSteps,
         UnlockSteps
      DEF CallStep
    <2> QED BY <1>0, <2>1, <2>2, RunsStay
  <1> QED BY <1>1, <1>2

(* Everything clients, timers, locks and the clock do.                      *)
LEMMA CallActionSteps ==
  ASSUME OutcomeInv, CallActions, UNCHANGED workerVars
  PROVE  OutcomeInv' /\ Stands
  <1>0. /\ BatchInv /\ UNCHANGED <<run, shared, outlived>> /\ setting \in SettingType
    BY DEF OutcomeInv, workerVars, BatchInv, Typed, StoresTyped
  <1>1. ASSUME NEW c \in Calls, CallStep(c) PROVE OutcomeInv' /\ Stands
    BY <1>1, CallSteps
  <1>2. ASSUME BatchInv', UNCHANGED jobs PROVE OutcomeInv' /\ Stands
    BY <1>0, <1>2, RunsStay
  <1>3. ASSUME NEW c \in Calls, TakeLock(c) PROVE OutcomeInv' /\ Stands
    BY <1>0, <1>2, <1>3, TakeLockSteps DEF TakeLock
  <1>4. ASSUME NEW c \in Calls, LockTimeout(c) PROVE OutcomeInv' /\ Stands
    BY <1>0, <1>2, <1>4, TimeoutSteps DEF LockTimeout
  <1>5. ASSUME NEW c \in Calls, NEW n \in Nodes, NEW i \in Items, Add(n, c, i)
        PROVE  OutcomeInv' /\ Stands
    BY <1>0, <1>2, <1>5, AddSteps DEF Add, storeVars
  <1>6. ASSUME NEW c \in Calls, NEW n \in Nodes, NEW g \in Groups, Flush(n, c, g)
        PROVE  OutcomeInv' /\ Stands
    BY <1>0, <1>2, <1>6, FlushSteps DEF Flush
  <1>7. ASSUME NEW g \in Groups, MaxWaitPasses(g) PROVE OutcomeInv' /\ Stands
    BY <1>0, <1>2, <1>7, MaxWaitSteps DEF MaxWaitPasses
  <1>8. ASSUME NEW g \in Groups, BufferLockExpires(g) PROVE OutcomeInv' /\ Stands
    BY <1>0, <1>2, <1>8, LapseSteps DEF BufferLockExpires
  <1>9. ASSUME NEW n \in Nodes, WindowSlides(n) PROVE OutcomeInv' /\ Stands
    <2>1. UNCHANGED <<buffers, bufferLock, jobs, call, offered, accepted, reflushed, lapsed, setting>>
      BY <1>9 DEF WindowSlides, storeVars, histories
    <2> QED BY <1>0, <2>1, QuietSteps DEF SameOptions
  <1> QED BY <1>1, <1>3, <1>4, <1>5, <1>6, <1>7, <1>8, <1>9 DEF CallActions, Timers

(* Everything workers, heartbeats and leases do.                            *)
LEMMA WorkerActionSteps ==
  ASSUME OutcomeInv, WorkerActions
  PROVE  OutcomeInv' /\ Stands
  <1>0. setting \in SettingType BY DEF OutcomeInv, BatchInv, Typed, StoresTyped
  <1>1. ASSUME NEW n \in Nodes, Pause(n) PROVE OutcomeInv' /\ Stands
    <2>1. UNCHANGED <<buffers, bufferLock, jobs, call, offered, accepted, reflushed, lapsed, run, shared, outlived>>
      BY <1>1 DEF Pause, bufferVars
    <2>2. setting' \in SettingType /\ SameOptions BY <1>0, <1>1, SpendKeeps DEF Pause, Budgets
    <2> QED BY <2>1, <2>2, QuietSteps
  <1>2. ASSUME NEW n \in Nodes, Resume(n) PROVE OutcomeInv' /\ Stands
    <2>1. /\ UNCHANGED <<buffers, bufferLock, jobs, call, offered, accepted, reflushed, lapsed, run, shared, outlived>>
          /\ UNCHANGED setting
      BY <1>2 DEF Resume, bufferVars, storeVars
    <2> QED BY <1>0, <2>1, QuietSteps DEF SameOptions
  <1>3. ASSUME NEW j \in Jobs, DelayOver(j) PROVE OutcomeInv' /\ Stands
    <2>1. /\ UNCHANGED <<buffers, bufferLock, jobs, call, offered, accepted, reflushed, lapsed, run, shared, outlived>>
          /\ UNCHANGED setting
      BY <1>3 DEF DelayOver, bufferVars, workerVars
    <2> QED BY <1>0, <2>1, QuietSteps DEF SameOptions
  <1>4. ASSUME NEW j \in Jobs, JobLockExpires(j) PROVE OutcomeInv' /\ Stands
    <2>1. UNCHANGED <<buffers, bufferLock, jobs, call, offered, accepted, reflushed, lapsed, run, outlived>>
      BY <1>4 DEF JobLockExpires, bufferVars
    <2>2. UNCHANGED <<setting, shared>> \/ (Spend("lapse") /\ shared' = shared \cup {j})
      BY <1>4 DEF JobLockExpires
    <2>3. setting' \in SettingType /\ SameOptions /\ shared \subseteq shared'
      BY <1>0, <2>2, SpendKeeps DEF SameOptions, Budgets
    <2> QED BY <2>1, <2>3, QuietSteps
  <1> QED BY <1>1, <1>2, <1>3, <1>4, PollSteps, RunSteps, ProgressSteps, HangSteps DEF WorkerActions

(* The invariant is kept by every step, and no step opens a batch again that*)
(* is done.                                                                 *)
LEMMA OutcomeInductive ==
  ASSUME OutcomeInv, [Next]_vars
  PROVE  OutcomeInv' /\ Stands
  <1>0. /\ BatchInv /\ setting \in SettingType
    BY DEF OutcomeInv, BatchInv, Typed, StoresTyped
  <1>1. CASE CallActions /\ UNCHANGED <<workerVars, leaderVars>> BY <1>1, CallActionSteps
  <1>2. CASE WorkerActions BY <1>2, WorkerActionSteps
  <1>3. ASSUME UNCHANGED <<buffers, bufferLock, jobs, call, offered, accepted, reflushed, lapsed,
                           run, shared, outlived>>,
               setting' = setting \/ \E kind \in Budgets : Spend(kind)
        PROVE  OutcomeInv' /\ Stands
    <2>1. setting' \in SettingType /\ SameOptions BY <1>0, <1>3, SpendKeeps DEF SameOptions
    <2> QED BY <1>3, <2>1, QuietSteps
  <1>4. ASSUME NEW n \in Nodes, Campaign(n) \/ Start(n) \/ Stopped(n) PROVE OutcomeInv' /\ Stands
    <2>1. UNCHANGED <<buffers, bufferLock, jobs, call, offered, accepted, reflushed, lapsed,
                      run, shared, outlived, setting>>
      BY <1>4 DEF Campaign, Start, Stopped, storeVars, bufferVars, workerVars, histories
    <2> QED BY <1>3, <2>1
  <1>5. ASSUME NEW n \in Nodes, Crash(n) PROVE OutcomeInv' /\ Stands
    <2>1. BatchInv' BY <1>0, <1>5, CrashSteps
    <2>2. /\ UNCHANGED <<jobs, shared, outlived>>
          /\ run' = [r \in Runs |-> IF run[r].node = n THEN IdleRun ELSE run[r]]
      BY <1>5 DEF Crash
    <2> QED BY <2>1, <2>2, RunsStay
  <1>6. ASSUME NEW n \in Nodes, NEW c \in Calls, NEW kind \in EngineKinds,
               NEW groups \in SUBSET Groups, StartFlushing(n, c, kind, groups),
               setting' = setting \/ \E k \in Budgets : Spend(k),
               UNCHANGED <<buffers, bufferLock, jobs, offered, accepted, reflushed, lapsed,
                           run, shared, outlived>>
        PROVE  OutcomeInv' /\ Stands
    <2>1. setting' \in SettingType /\ SameOptions BY <1>0, <1>6, SpendKeeps DEF SameOptions
    <2>2. BatchInv' BY <1>0, <1>6, <2>1, StartSteps
    <2> QED BY <1>6, <2>2, RunsStay
  <1>7. ASSUME NEW n \in Nodes, NEW c \in Calls, Tick(n, c) PROVE OutcomeInv' /\ Stands
    <2>1. /\ StartFlushing(n, c, "tick", Ripe) /\ UNCHANGED setting
          /\ UNCHANGED <<buffers, bufferLock, jobs, offered, accepted, reflushed, lapsed,
                         run, shared, outlived>>
      BY <1>7 DEF Tick, storeVars, histories, workerVars
    <2>2. Ripe \in SUBSET Groups /\ "tick" \in EngineKinds BY DEF Ripe, EngineKinds
    <2> QED BY <1>6, <2>1, <2>2
  <1>8. ASSUME NEW n \in Nodes, NEW c \in Calls, FlushBatch(n, c) PROVE OutcomeInv' /\ Stands
    <2>1. PICK groups \in {Groups} \cup {{g} : g \in Groups} :
            StartFlushing(n, c, "admin", NonEmpty(groups))
      BY <1>8 DEF FlushBatch
    <2>2. /\ Spend("flush")
          /\ UNCHANGED <<buffers, bufferLock, jobs, offered, accepted, reflushed, lapsed,
                         run, shared, outlived>>
      BY <1>8 DEF FlushBatch, histories, workerVars
    <2>3. NonEmpty(groups) \in SUBSET Groups /\ "admin" \in EngineKinds /\ "flush" \in Budgets
      BY DEF NonEmpty, EngineKinds, Budgets
    <2> QED BY <1>6, <2>1, <2>2, <2>3
  <1>9. ASSUME NEW n \in Nodes, NEW c \in Calls, Stop(n, c) PROVE OutcomeInv' /\ Stands
    <2>1. /\ Spend("stop") /\ "stop" \in Budgets /\ "stop" \in EngineKinds
          /\ UNCHANGED <<buffers, bufferLock, jobs, offered, accepted, reflushed, lapsed,
                         run, shared, outlived>>
      BY <1>9 DEF Stop, histories, workerVars, Budgets, EngineKinds
    <2>2. CASE UNCHANGED call BY <1>3, <2>1, <2>2
    <2>3. CASE StartFlushing(n, c, "stop", NonEmpty(Groups))
      <3>1. NonEmpty(Groups) \in SUBSET Groups BY DEF NonEmpty
      <3> QED BY <1>6, <2>1, <2>3, <3>1
    <2> QED BY <1>9, <2>2, <2>3 DEF Stop
  <1>10. CASE LeaderLockExpires
    <2>1. /\ UNCHANGED <<buffers, bufferLock, jobs, call, offered, accepted, reflushed, lapsed,
                         run, shared, outlived>>
          /\ setting' = setting \/ Spend("lapse")
      BY <1>10 DEF LeaderLockExpires, bufferVars, workerVars
    <2> QED BY <1>3, <2>1 DEF Budgets
  <1>11. CASE UNCHANGED vars
    <2>1. UNCHANGED <<buffers, bufferLock, jobs, call, offered, accepted, reflushed, lapsed,
                      run, shared, outlived, setting>>
      BY <1>11 DEF vars, storeVars, bufferVars, workerVars
    <2> QED BY <1>3, <2>1
  <1> QED BY <1>1, <1>2, <1>4, <1>5, <1>7, <1>8, <1>9, <1>10, <1>11 DEF Next

(* The invariant holds in the initial states.                               *)
LEMMA OutcomeInitially ==
  ASSUME Init
  PROVE  OutcomeInv
  <1>1. /\ setting \in SettingType /\ buffers = [g \in Groups |-> NoBuffer]
        /\ bufferLock = [g \in Groups |-> NoCall] /\ jobs = [j \in Jobs |-> NoRecord]
        /\ call = [c \in Calls |-> IdleCall] /\ run = [r \in Runs |-> IdleRun]
        /\ offered = {} /\ accepted = {} /\ reflushed = {} /\ lapsed = {}
    BY BatchAssumption
    DEF Init, StoreInit, BufferInit, WorkersInit, BatchAssumption, SettingType
  <1>2. /\ NoBuffer.items = {} /\ NoBuffer.job = NoJob /\ NoRecord.items = {}
        /\ NoRecord.status = "absent" /\ IdleRun.pc = "idle" /\ IdleRun.job = NoJob
        /\ IdleRun.hung = FALSE
    BY DEF NoBuffer, NoRecord, IdleRun
  <1>3. Typed BY <1>1, NoBufferIsBuffer DEF Typed, StoresTyped, CallsTyped, RunsTyped
  <1>4. LockHeld BY <1>1, IdleCallIs DEF LockHeld, Orderly, Inside
  <1>5. Grouped BY <1>1, <1>2, IdleCallIs DEF Grouped
  <1>6. Reserved BY <1>1, <1>2, IdleCallIs DEF Reserved, Reserving
  <1>7. Staged BY <1>1, IdleCallIs DEF Staged, Deciding, Unreserved, Reserving
  <1>8. CopyTrue BY <1>1, IdleCallIs DEF CopyTrue, Orderly, Inside
  <1>9. Backed /\ Taken BY <1>1, <1>2 DEF Backed, Taken
  <1>10. Fresh
    <2>1. InBuffer = {} /\ InJobs = {} BY <1>1, <1>2 DEF InBuffer, InJobs
    <2>2. \A c \in Calls : /\ call[c].buf.items = {} /\ \A g \in Groups : call[c].listed[g].items = {}
                           /\ call[c].kind = "none"
      BY <1>1, <1>2, IdleCallIs
    <2>3. Seen = {} BY <2>1, <2>2 DEF Seen
    <2> QED BY <2>2, <2>3 DEF Fresh, Adding
  <1>11. RunCopies BY <1>1, <1>2 DEF RunCopies, Unopened
  <1>12. Landed BY <1>1, IdleCallIs DEF Landed, LandedAt
  <1>13. NothingLost /\ FlushedOnce BY <1>1, <1>2 DEF NothingLost, FlushedOnce
  <1>14. HeldOnce /\ \A r \in Runs : OpenAt(r)
    BY <1>1, <1>2 DEF HeldOnce, OpenAt, Opening
  <1> QED BY <1>3, <1>4, <1>5, <1>6, <1>7, <1>8, <1>9, <1>10, <1>11, <1>12, <1>13, <1>14
          DEF OutcomeInv, BatchInv

-----------------------------------------------------------------------------
(* An item whose add() has returned is in its buffer or in a saved batch,   *)
(* whatever calls interleave and wherever a process dies, unless a live     *)
(* call lost the lock of the group to its TTL.                              *)
THEOREM NoItemIsLost == Spec => []NothingLost
  <1>1. OutcomeInv => NothingLost BY DEF OutcomeInv, BatchInv
  <1> QED BY <1>1, OutcomeInitially, OutcomeInductive, PTL DEF Spec

(* An item is in two batches only if a flush brought it back from a copy it *)
(* listed earlier or from a reservation whose batch was done and removed,   *)
(* or if the lock lapsed under a call: recoverMarkedFlush repeats nothing.  *)
THEOREM ItemsAreFlushedOnce == Spec => []FlushedOnce
  <1>1. OutcomeInv => FlushedOnce BY DEF OutcomeInv, BatchInv
  <1> QED BY <1>1, OutcomeInitially, OutcomeInductive, PTL DEF Spec

(* A batch that has come to an end is not opened again, however often its   *)
(* id is published, unless two runs had it, a live run lost its lease or    *)
(* its handler outlived the timeout.                                        *)
THEOREM OutcomesStand == Spec => OutcomeStands
  <1>1. ASSUME OutcomeInv, [Next]_vars
        PROVE  [\A j \in Jobs \ (shared \cup outlived) :
                  jobs[j].status \in Terminal => jobs'[j].status \in {jobs[j].status, "removed"}]_vars
    BY <1>1, OutcomeInductive DEF Stands
  <1> QED BY <1>1, OutcomeInitially, OutcomeInductive, PTL DEF Spec, OutcomeStands
=============================================================================

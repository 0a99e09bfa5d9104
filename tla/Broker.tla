-------------------------------- MODULE Broker --------------------------------
(***************************************************************************)
(* MemoryBroker, RedisBroker and PostgresBroker on one broker name:        *)
(* publish, claim, claimBlocking, ack, nack, remove, pause and locks that  *)
(* run out, each in the atomic pieces its store gives it.  A priority is   *)
(* a flag: which of several priced ids comes first is left open.           *)
(***************************************************************************)
EXTENDS Naturals, SequencesExt

CONSTANTS
  Ids,      \* what is published
  Callers,  \* callers of the broker
  Settings  \* brokers, strategies and calls to explore

Nobody == "nobody"
NoId == "no id"
Calls == {"publish", "later", "claim", "block", "nack", "defer", "remove", "pause", "resume", "lapse"}

Assumption ==
  /\ Nobody \notin Callers /\ NoId \notin Ids
  /\ Settings \subseteq
       [kind : {"memory", "redis", "postgres"},
        strategy : {"fifo", "lifo", "priority"},
        priced : BOOLEAN, \* publishes and deferrals carry a priority
        callers : SUBSET Callers, offers : [Calls -> Nat]]

VARIABLES
  setting,  \* the member of Settings in force, offers counting down
  queue,    \* waitLists, the list of Redis, or the rows that are due
  ranked,   \* priorityLists, the sorted set of Redis
  delayed,  \* ids whose delay is counted
  due,      \* those of them whose delay is over and that wait for a claim to promote them
  lock,     \* owner of each id's lock
  lapsed,   \* Postgres: locks past locked_until, still in their row
  paused,
  caller,   \* the claim, publish or blocking wait each caller is in
  holds,    \* ids each caller was handed and has not settled
  owed,     \* history: ids published and neither acknowledged, removed nor lost to a lapse
  gone,     \* history: ids acknowledged or removed, and not put back since
  sole      \* history: the caller an id was last handed to, while it is that caller's alone

vars == <<setting, queue, ranked, delayed, due, lock, lapsed, paused, caller, holds, owed, gone, sole>>

Idle == [pc |-> "idle", id |-> NoId, listed |-> {}, later |-> FALSE, blocks |-> FALSE,
         taken |-> <<>>, settled |-> FALSE]

TypeOK ==
  /\ ToSet(queue) \subseteq Ids /\ ranked \subseteq Ids /\ due \subseteq delayed /\ delayed \subseteq Ids
  /\ lock \in [Ids -> Callers \cup {Nobody}] /\ sole \in [Ids -> Callers \cup {Nobody}]
  /\ lapsed \subseteq {i \in Ids : lock[i] # Nobody} /\ paused \in BOOLEAN
  /\ holds \in [Callers -> SUBSET Ids] /\ owed \subseteq Ids /\ gone \subseteq Ids
  /\ \A c \in Callers : caller[c].id \in Ids \cup {NoId} /\ caller[c].listed \subseteq Ids

InitWith(settings) ==
  /\ setting \in settings
  /\ queue = <<>> /\ ranked = {} /\ delayed = {} /\ due = {}
  /\ lock = [i \in Ids |-> Nobody] /\ lapsed = {} /\ paused = FALSE
  /\ caller = [c \in Callers |-> Idle] /\ holds = [c \in Callers |-> {}]
  /\ owed = {} /\ gone = {} /\ sole = [i \in Ids |-> Nobody]
Init == InitWith(Settings)

Kind == setting.kind
Priority == setting.strategy = "priority"
lists == <<queue, ranked, delayed, due>>
histories == <<owed, gone, sole>>
Offered(call) ==
  /\ setting.offers[call] > 0
  /\ setting' = [setting EXCEPT !.offers[call] = @ - 1]
(* What a queue holds other than i, in its order.                           *)
Without(q, i) ==
  LET kept == {k \in DOMAIN q : q[k] # i}
  IN [n \in 1 .. Cardinality(kept) |->
        q[CHOOSE k \in kept : Cardinality({m \in kept : m <= k}) = n]]
Release(i) == sole' = [sole EXCEPT ![i] = Nobody]
Unlock(i) == lock' = [lock EXCEPT ![i] = Nobody] /\ lapsed' = lapsed \ {i}

(* removeQueuedId, then the list the call's delay and priority select; a    *)
(* row of Postgres has one place.                                           *)
Undelayed(i) == delayed' = delayed \ {i} /\ due' = due \ {i}
Delayed(i) == delayed' = delayed \cup {i} /\ due' = due \ {i}
Place(i, later) ==
  IF later
  THEN queue' = Without(queue, i) /\ ranked' = ranked \ {i} /\ Delayed(i)
  ELSE /\ Undelayed(i)
       /\ IF setting.priced /\ Kind # "postgres"
          THEN queue' = Without(queue, i) /\ ranked' = ranked \cup {i}
          ELSE queue' = Append(Without(queue, i), i) /\ ranked' = ranked \ {i}
GiveBack(i, later) ==
  IF Kind = "postgres"
  THEN IF i \in ToSet(queue) \cup delayed
       THEN IF later THEN queue' = Without(queue, i) /\ Delayed(i) /\ UNCHANGED ranked
            ELSE queue' = Append(Without(queue, i), i) /\ Undelayed(i) /\ UNCHANGED ranked
       ELSE UNCHANGED lists
  ELSE IF later THEN queue' = Without(queue, i) /\ ranked' = ranked \ {i} /\ Delayed(i)
       ELSE queue' = <<i>> \o Without(queue, i) /\ ranked' = ranked \ {i} /\ Undelayed(i)
Purge(i) == queue' = Without(queue, i) /\ ranked' = ranked \ {i} /\ Undelayed(i)

-----------------------------------------------------------------------------
(* publish: one step, except that RedisBroker removes in one round trip and *)
(* inserts in the next.  Only a publish to Postgres takes the lock away.    *)
Published(i) ==
  /\ owed' = owed \cup {i} /\ gone' = gone \ {i}
  /\ IF Kind = "redis" THEN UNCHANGED sole ELSE Release(i)
Publish(c, i, call) ==
  /\ caller[c] = Idle /\ Offered(call)
  /\ IF Kind = "redis"
     THEN /\ Purge(i) /\ gone' = gone \ {i}
          /\ caller' = [caller EXCEPT ![c] = [Idle EXCEPT !.pc = "put", !.id = i, !.later = call = "later"]]
          /\ UNCHANGED <<owed, sole, lock, lapsed>>
     ELSE /\ Place(i, call = "later") /\ Published(i)
          /\ IF Kind = "postgres" THEN Unlock(i) ELSE UNCHANGED <<lock, lapsed>>
          /\ UNCHANGED caller
  /\ UNCHANGED <<paused, holds>>
Put(c) ==
  /\ caller[c].pc = "put"
  /\ Place(caller[c].id, caller[c].later) /\ Published(caller[c].id)
  /\ caller' = [caller EXCEPT ![c] = Idle]
  /\ UNCHANGED <<setting, lock, lapsed, paused, holds>>

(* claim and claimBlocking look at the pause flag first.                    *)
Start(c, call) ==
  /\ caller[c] = Idle /\ ~paused /\ Offered(call)
  /\ caller' = [caller EXCEPT ![c] = [Idle EXCEPT !.pc = IF Kind = "redis" THEN "list" ELSE "take",
                                                 !.blocks = call = "block"]]
  /\ UNCHANGED <<lists, lock, lapsed, paused, holds, histories>>
Handed(c, i) ==
  /\ lock' = [lock EXCEPT ![i] = c] /\ lapsed' = lapsed \ {i}
  /\ sole' = [sole EXCEPT ![i] = c] /\ UNCHANGED <<owed, gone>>
Keeps(c, i) == holds' = [holds EXCEPT ![c] = @ \cup {i}]
Ends(c) == caller' = [caller EXCEPT ![c] = Idle]

(* MemoryBroker.claim: promotion, choice and lock without an await; locks   *)
(* are not looked at.                                                       *)
Waiting == IF Priority THEN queue ELSE queue \o SetToSeq(due)
Ranked == IF Priority THEN ranked \cup due ELSE ranked
Takable(q, r) ==
  IF Priority THEN r
  ELSE IF q = <<>> THEN {} ELSE {IF setting.strategy = "fifo" THEN Head(q) ELSE Last(q)}
Pop(q, i) == IF Priority THEN q ELSE IF setting.strategy = "fifo" THEN Tail(q) ELSE Front(q)
Promote(q, r) == queue' = q /\ ranked' = r /\ delayed' = delayed \ due /\ due' = {}
MemoryTake(c, i) ==
  /\ i \in Takable(Waiting, Ranked) /\ ~paused
  /\ Promote(Pop(Waiting, i), IF Priority THEN Ranked \ {i} ELSE Ranked) /\ Handed(c, i)
Take(c) ==
  /\ caller[c].pc = "take" /\ Kind = "memory"
  /\ \/ \E i \in Ids : MemoryTake(c, i) /\ Keeps(c, i) /\ Ends(c)
     \/ /\ Takable(Waiting, Ranked) = {} \/ paused
        /\ caller' = [caller EXCEPT ![c] = IF @.blocks THEN [@ EXCEPT !.pc = "wait"] ELSE Idle]
        /\ UNCHANGED <<lists, lock, lapsed, holds, histories>>
  /\ UNCHANGED <<setting, paused>>
(* Every event starts a claim of its own; the first to be back settles the  *)
(* wait, and the others hand their id back.                                 *)
Ready(c) ==
  /\ caller[c].pc = "wait" /\ ~caller[c].settled
  /\ \E i \in Ids : /\ MemoryTake(c, i)
                    /\ caller' = [caller EXCEPT ![c].taken = Append(@, i)]
  /\ UNCHANGED <<setting, paused, holds>>
ResolveDrops(c) == \* Mutant: an id too many is not put back.
  /\ caller[c].pc = "wait" /\ caller[c].taken # <<>>
  /\ caller' = [caller EXCEPT ![c].settled = TRUE, ![c].taken = Tail(@)]
  /\ IF caller[c].settled THEN Unlock(Head(caller[c].taken)) /\ UNCHANGED holds
     ELSE Keeps(c, Head(caller[c].taken)) /\ UNCHANGED <<lock, lapsed>>
  /\ UNCHANGED <<setting, lists, paused, histories>>
Resolve(c) ==
  LET i == Head(caller[c].taken)
  IN /\ caller[c].pc = "wait" /\ caller[c].taken # <<>>
     /\ caller' = [caller EXCEPT ![c].settled = TRUE, ![c].taken = Tail(@)]
     /\ IF caller[c].settled
        THEN GiveBack(i, FALSE) /\ Unlock(i) /\ Release(i) /\ UNCHANGED <<holds, owed, gone>>
        ELSE Keeps(c, i) /\ UNCHANGED <<lists, lock, lapsed, histories>>
     /\ UNCHANGED <<setting, paused>>
(* The timer does not run while a claim is on its way back.                 *)
Timeout(c) ==
  /\ caller[c].pc = "wait" /\ caller[c].taken = <<>> /\ Ends(c)
  /\ UNCHANGED <<setting, lists, lock, lapsed, paused, holds, histories>>

(* RedisBroker: the due ids are listed, moved in a second round trip, and a *)
(* script pops an id and sets its lock; a locked one is put back.           *)
ListDue(c) ==
  /\ caller[c].pc = "list"
  /\ caller' = [caller EXCEPT ![c].pc = IF due = {} THEN "pop" ELSE "promote", ![c].listed = due]
  /\ UNCHANGED <<setting, lists, lock, lapsed, paused, holds, histories>>
PromoteDue(c) ==
  LET listed == caller[c].listed
  IN /\ caller[c].pc = "promote"
     /\ queue' = IF Priority THEN queue ELSE queue \o SetToSeq(listed)
     /\ ranked' = IF Priority THEN ranked \cup listed ELSE ranked
     /\ delayed' = delayed \ (listed \cap due) /\ due' = due \ listed
     /\ caller' = [caller EXCEPT ![c].pc = "pop", ![c].listed = {}]
     /\ UNCHANGED <<setting, lock, lapsed, paused, holds, histories>>
(* A blocking call that waited in vain turns to claim.                      *)
Claims(c) ==
  /\ caller[c].blocks /\ ~paused
  /\ caller' = [caller EXCEPT ![c].pc = "list", ![c].blocks = FALSE]
PopAndLock(c) ==
  /\ caller[c].pc = "pop" /\ ~(caller[c].blocks /\ ~Priority)
  /\ \/ \E i \in Takable(queue, ranked) :
          /\ lock[i] = Nobody /\ Handed(c, i) /\ Keeps(c, i)
          /\ queue' = Pop(queue, i) /\ ranked' = IF Priority THEN ranked \ {i} ELSE ranked
     \/ /\ Takable(queue, ranked) = {} \/ \E i \in Takable(queue, ranked) : lock[i] # Nobody
        /\ UNCHANGED <<queue, ranked, lock, lapsed, holds, histories>>
  /\ Ends(c) \/ (holds' = holds /\ Claims(c))
  /\ UNCHANGED <<setting, delayed, due, paused>>
(* BLPOP or BRPOP, the pause flag again, then the lock.                     *)
BlockingPop(c) ==
  /\ caller[c].pc = "pop" /\ caller[c].blocks /\ ~Priority
  /\ \/ \E i \in Takable(queue, ranked) :
          queue' = Pop(queue, i) /\ caller' = [caller EXCEPT ![c].pc = "popped", ![c].id = i]
     \/ queue = <<>> /\ UNCHANGED queue /\ (Claims(c) \/ (paused /\ Ends(c)))
  /\ UNCHANGED <<setting, ranked, delayed, due, lock, lapsed, paused, holds, histories>>
Push(i) == queue' = IF setting.strategy = "lifo" THEN Append(queue, i) ELSE <<i>> \o queue
Recheck(c) ==
  /\ caller[c].pc = "popped"
  /\ IF paused THEN Push(caller[c].id) /\ Ends(c)
     ELSE caller' = [caller EXCEPT ![c].pc = "set"] /\ UNCHANGED queue
  /\ UNCHANGED <<setting, ranked, delayed, due, lock, lapsed, paused, holds, histories>>
SetLock(c) ==
  LET i == caller[c].id
  IN /\ caller[c].pc = "set"
     /\ IF lock[i] = Nobody THEN Handed(c, i) /\ Keeps(c, i) /\ UNCHANGED queue
        ELSE Push(i) /\ UNCHANGED <<lock, lapsed, holds, histories>>
     /\ Ends(c)
     /\ UNCHANGED <<setting, ranked, delayed, due, paused>>

(* PostgresBroker.claim: one statement over the rows that are due, a lock   *)
(* past its time being no lock.                                             *)
ClaimRow(c) ==
  /\ caller[c].pc = "take" /\ Kind = "postgres"
  /\ LET free == {i \in ToSet(queue) : lock[i] = Nobody \/ i \in lapsed}
     IN IF free = {} THEN UNCHANGED <<lock, lapsed, holds, histories>>
        ELSE \E i \in free : Handed(c, i) /\ Keeps(c, i)
  /\ Ends(c)
  /\ UNCHANGED <<setting, lists, paused>>
(* A claim an event of MemoryBroker started is back within the turn: no     *)
(* handler settles its id and no timer runs before.                         *)
Quiet == \A c \in Callers : caller[c].taken = <<>>
(* extendLock there renews a lock that is past its time.                    *)
Extend(c, i) ==
  /\ i \in holds[c] \cap lapsed /\ lock[i] = c
  /\ lapsed' = lapsed \ {i} /\ sole' = [sole EXCEPT ![i] = c]
  /\ UNCHANGED <<setting, lists, lock, paused, caller, holds, owed, gone>>

-----------------------------------------------------------------------------
(* ack and remove, nack, pause and resume.                                  *)
Forget(i) == owed' = owed \ {i} /\ gone' = gone \cup {i} /\ Release(i)
Ack(c, i) ==
  /\ i \in holds[c] /\ Quiet
  /\ holds' = [holds EXCEPT ![c] = @ \ {i}] /\ Purge(i) /\ Unlock(i) /\ Forget(i)
  /\ UNCHANGED <<setting, paused, caller>>
RemoveId(i) ==
  /\ i \in owed /\ Offered("remove") /\ Quiet
  /\ Purge(i) /\ Unlock(i) /\ Forget(i)
  /\ UNCHANGED <<paused, caller, holds>>
Nack(c, i, call) ==
  LET lost == Kind = "postgres" /\ i \notin ToSet(queue) \cup delayed
  IN /\ i \in holds[c] /\ Offered(call) /\ Quiet
     /\ holds' = [holds EXCEPT ![c] = @ \ {i}]
     /\ GiveBack(i, call = "defer") /\ Unlock(i) /\ Release(i)
     /\ IF lost THEN UNCHANGED <<owed, gone>> ELSE owed' = owed \cup {i} /\ gone' = gone \ {i}
     /\ UNCHANGED <<paused, caller>>
Pause ==
  /\ ~paused /\ Offered("pause") /\ paused' = TRUE
  /\ UNCHANGED <<lists, lock, lapsed, caller, holds, histories>>
Resume ==
  /\ paused /\ Offered("resume") /\ paused' = FALSE
  /\ UNCHANGED <<lists, lock, lapsed, caller, holds, histories>>

(* Delays and locks run out.  In memory and in Redis a claim has taken the  *)
(* id out of its list, and the lock was all that was left of it.            *)
ComesDue(i) ==
  /\ i \in delayed \ due /\ Quiet
  /\ IF Kind = "postgres" THEN Undelayed(i) /\ queue' = Append(queue, i)
     ELSE due' = due \cup {i} /\ UNCHANGED <<delayed, queue>>
  /\ UNCHANGED <<setting, ranked, lock, lapsed, paused, caller, holds, histories>>
Lapse(i) ==
  /\ lock[i] # Nobody /\ i \notin lapsed /\ Offered("lapse") /\ Quiet /\ Release(i)
  /\ IF Kind = "postgres" THEN lapsed' = lapsed \cup {i} /\ UNCHANGED <<lock, owed>>
     ELSE /\ Unlock(i)
          /\ owed' = IF i \in ToSet(queue) \cup ranked \cup delayed THEN owed ELSE owed \ {i}
  /\ UNCHANGED <<lists, paused, caller, holds, gone>>

Step(c) ==
  \/ Put(c) \/ Take(c) \/ Ready(c) \/ Resolve(c) \/ Timeout(c) \/ ListDue(c) \/ PromoteDue(c)
  \/ PopAndLock(c) \/ BlockingPop(c) \/ Recheck(c) \/ SetLock(c) \/ ClaimRow(c)
Next ==
  \/ \E c \in setting.callers :
       \/ Step(c) \/ \E call \in {"claim", "block"} : Start(c, call)
       \/ \E i \in Ids : \/ Extend(c, i) \/ Ack(c, i)
                         \/ \E call \in {"publish", "later"} : Publish(c, i, call)
                         \/ \E call \in {"nack", "defer"} : Nack(c, i, call)
  \/ \E i \in Ids : RemoveId(i) \/ ComesDue(i) \/ Lapse(i)
  \/ Pause \/ Resume

Spec == Init /\ [][Next]_vars

-----------------------------------------------------------------------------
(* Settings whose ids all go to the lists their claims read: no priority    *)
(* without the strategy, and under it no id that goes back without one.     *)
Fits(s) ==
  s.kind # "postgres" =>
    /\ s.priced <=> s.strategy = "priority"
    /\ s.strategy = "priority" => s.offers["nack"] = 0 /\ (s.kind = "memory" => s.offers["block"] = 0)

(* An id that was published and not settled is in the list the strategy's   *)
(* claims read, delayed, locked, or in the hands of a call under way.       *)
Readable(i) == IF Priority /\ Kind # "postgres" THEN i \in ranked ELSE i \in ToSet(queue)
InHand(i) ==
  \E c \in Callers : \/ caller[c].pc \in {"put", "popped", "set"} /\ caller[c].id = i
                     \/ i \in ToSet(caller[c].taken)
EveryIdIsSomewhere ==
  \A i \in owed : Readable(i) \/ i \in delayed \/ lock[i] # Nobody \/ InHand(i)

(* An id is handed to one caller at a time, until it is settled, its lock   *)
(* runs out or (not in Redis) it is published again; and an id that was     *)
(* acknowledged or removed is not handed out again ("Pops the entity out of *)
(* the active broker locking list permanently"), except in Redis, where a   *)
(* promotion that listed it while it was delayed can bring it back.         *)
Returns == \E i \in gone : sole'[i] # Nobody
OneHolder ==
  [][/\ \A i \in Ids : sole[i] # Nobody => sole'[i] \in {sole[i], Nobody}
     /\ Kind = "redis" \/ ~Returns]_vars
=============================================================================

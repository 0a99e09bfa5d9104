-------------------------------- MODULE Stores --------------------------------
(***************************************************************************)
(* The three storage engines under one namespace: MemoryStore, RedisStore  *)
(* and PostgresStore.  Redis keeps a record under its own key and its id in *)
(* a sorted set that list, count and prune go by; some of its operations,  *)
(* and the prune of Postgres, are more than one round trip, and other      *)
(* processes act in between.                                               *)
(***************************************************************************)
EXTENDS Naturals, FiniteSets, SequencesExt

CONSTANTS
  Ids,     \* of the namespace
  Slots,   \* calls of several round trips that may be under way
  MaxTime, \* the clock stops there (a bound)
  Settings \* adapter, calls offered and faults to explore

NoTime == MaxTime + 2
Adapters == {"memory", "redis", "postgres"}
Ops == {"save", "insert", "update", "increment", "set", "delete", "bulkSave",
        "bulkDelete", "prune"}

Assumption ==
  /\ MaxTime \in Nat /\ IsFiniteSet(Ids)
  /\ Settings \subseteq [adapter : Adapters, offers : [Ops -> Nat], crashes : Nat]

VARIABLES
  setting, \* the member of Settings in force, offers and crashes counting down
  clock,
  blob,    \* the record under each id
  score,   \* Redis: score in the index; Postgres: created_at of the row
  call,    \* calls under way
  winners, \* history: saveIfAbsent calls told true since the id was last removed
  torn     \* history: ids a crash or another call met between two round trips

vars == <<setting, clock, blob, score, call, winners, torn>>

Times == 0 .. MaxTime + 1
Records == [made : Times \cup {NoTime}, \* createdAt
            ends : Times \cup {NoTime}, \* expiresAt
            value : Nat]                \* a status, or a counter
NoRecord == [made |-> NoTime, ends |-> NoTime, value |-> 0]
NoCall == [op |-> "idle", ids |-> <<>>, before |-> 0, written |-> {}]

TypeOK ==
  /\ clock \in 0 .. MaxTime
  /\ blob \in [Ids -> Records \cup {NoRecord}] /\ score \in [Ids -> Times \cup {NoTime}]
  /\ \A s \in Slots : /\ call[s].op \in {"idle", "insert", "save", "prune"}
                      /\ ToSet(call[s].ids) \subseteq Ids
  /\ winners \in [Ids -> Nat] /\ torn \subseteq Ids

InitWith(settings) ==
  /\ setting \in settings /\ clock = 0
  /\ blob = [id \in Ids |-> NoRecord] /\ score = [id \in Ids |-> NoTime]
  /\ call = [s \in Slots |-> NoCall]
  /\ winners = [id \in Ids |-> 0] /\ torn = {}
Init == InitWith(Settings)

Offered(op) ==
  setting.offers[op] > 0 /\ setting' = [setting EXCEPT !.offers[op] = @ - 1]
Idle(s) == call[s].op = "idle"
Redis == setting.adapter = "redis"
Stored(id) == blob[id] # NoRecord
InOrder(ids) == SetToSeq(ids)

-----------------------------------------------------------------------------
(* What the adapters file a record under, and what prune compares.          *)
RedisScoreOfSaving(rec) == clock \* Mutant: the index tells when a record was saved.
RedisScore(rec) ==
  IF rec.made # NoTime THEN rec.made ELSE IF rec.ends # NoTime THEN rec.ends ELSE clock
PostgresTime(id) ==
  IF blob[id].made # NoTime THEN blob[id].made
  ELSE IF blob[id].ends # NoTime THEN blob[id].ends ELSE score[id]
Filed(id, rec) ==
  IF Redis THEN RedisScore(rec)
  ELSE IF setting.adapter = "memory" THEN NoTime
  ELSE IF Stored(id) THEN score[id] ELSE clock

MemoryOld(id, before) == Stored(id) /\ blob[id].made # NoTime /\ blob[id].made < before
RedisOld(id, before) == score[id] # NoTime /\ score[id] <= before
PostgresOld(id, before) == Stored(id) /\ PostgresTime(id) < before
Old(before) ==
  {id \in Ids : IF Redis THEN RedisOld(id, before)
                ELSE IF setting.adapter = "memory" THEN MemoryOld(id, before)
                ELSE PostgresOld(id, before)}

(* Every write of a record ends here; a prune under way notes it.           *)
Written(ids) ==
  [s \in Slots |-> IF call[s].op = "prune" THEN [call[s] EXCEPT !.written = @ \cup ids] ELSE call[s]]
Put(id, rec) ==
  /\ blob' = [blob EXCEPT ![id] = rec]
  /\ score' = [score EXCEPT ![id] = Filed(id, rec)]
(* A saveIfAbsent between SET and ZADD is overtaken by whoever files the id *)
(* or takes it away.                                                        *)
Inserting(id) == \E s \in Slots : call[s].op = "insert" /\ call[s].ids[1] = id
Overtaken(ids) == {id \in ids : Inserting(id)}
(* MULTI DEL, ZREM in Redis.                                                *)
Deleted(ids) ==
  /\ blob' = [id \in Ids |-> IF id \in ids THEN NoRecord ELSE blob[id]]
  /\ score' = [id \in Ids |-> IF id \in ids THEN NoTime ELSE score[id]]
  /\ winners' = [id \in Ids |-> IF id \in ids THEN 0 ELSE winners[id]]
  /\ torn' = torn \cup Overtaken(ids)

-----------------------------------------------------------------------------
(* save of a new record or of one that was read before.                     *)
New == {[made |-> clock, ends |-> NoTime, value |-> 0],       \* a job, a message
        [made |-> clock + 1, ends |-> NoTime, value |-> 0],   \* createdAt as a deadline
        [made |-> NoTime, ends |-> clock + 1, value |-> 0]}   \* expiresAt only
Save(id, rec) ==
  /\ ~Stored(id) /\ Offered("save") /\ Put(id, rec)
  /\ call' = Written({id}) /\ UNCHANGED <<clock, winners, torn>>
Update(id) ==
  /\ Stored(id) /\ Offered("update") /\ Put(id, [blob[id] EXCEPT !.value = 1])
  /\ call' = Written({id}) /\ UNCHANGED <<clock, winners, torn>>
Renew(id, rec) ==
  /\ Stored(id) /\ Offered("save") /\ Put(id, rec)
  /\ call' = Written({id}) /\ torn' = torn \cup Overtaken({id}) /\ UNCHANGED <<clock, winners>>

(* saveIfAbsent: one statement, or SET NX and then ZADD.                    *)
Taken(id) == Stored(id)
Insert(s, id, rec) ==
  /\ Idle(s) /\ ~Taken(id) /\ Offered("insert")
  /\ winners' = [winners EXCEPT ![id] = @ + 1]
  /\ IF Redis
     THEN /\ blob' = [blob EXCEPT ![id] = rec]
          /\ call' = [Written({id}) EXCEPT ![s] = [NoCall EXCEPT !.op = "insert", !.ids = <<id>>,
                                                     !.before = RedisScore(rec)]]
          /\ UNCHANGED score
     ELSE Put(id, rec) /\ call' = Written({id})
  /\ UNCHANGED <<clock, torn>>
AddToIndex(s) ==
  /\ call[s].op = "insert"
  /\ score' = [score EXCEPT ![call[s].ids[1]] = call[s].before]
  /\ call' = [call EXCEPT ![s] = NoCall]
  /\ UNCHANGED <<setting, clock, blob, winners, torn>>

(* increment (it creates the record; its caller keeps counters) and         *)
(* compareAndSet (it leaves the index alone), each a script or statement.   *)
Counter(id) == blob[id].made = NoTime /\ blob[id].ends = NoTime
Counted(id) == [NoRecord EXCEPT !.value = IF Stored(id) THEN blob[id].value + 1 ELSE 1]
Increment(id) ==
  /\ Counter(id) /\ Offered("increment")
  /\ blob' = [blob EXCEPT ![id] = Counted(id)]
  /\ score' = [score EXCEPT ![id] =
       IF Redis \/ (setting.adapter = "postgres" /\ ~Stored(id)) THEN clock ELSE @]
  /\ call' = Written({id}) /\ UNCHANGED <<clock, winners, torn>>
CompareAndSet(id, from, to) ==
  /\ Stored(id) /\ blob[id].value = from /\ Offered("set")
  /\ blob' = [blob EXCEPT ![id].value = to]
  /\ call' = Written({id}) /\ UNCHANGED <<clock, score, winners, torn>>

Delete(id) ==
  /\ Offered("delete") /\ Deleted({id}) /\ UNCHANGED <<clock, call>>
BulkDelete(ids) ==
  /\ ids # {} /\ Offered("bulkDelete") /\ Deleted(ids) /\ UNCHANGED <<clock, call>>

(* bulkSave: one transaction, or one save after the other.                  *)
Job(time) == [made |-> time, ends |-> NoTime, value |-> 0]
BulkSave(s, ids) ==
  /\ Idle(s) /\ ids # {} /\ Offered("bulkSave")
  /\ IF Redis
     THEN /\ call' = [call EXCEPT ![s] = [NoCall EXCEPT !.op = "save", !.ids = InOrder(ids),
                                                        !.before = clock]]
          /\ UNCHANGED <<blob, score>>
     ELSE /\ blob' = [id \in Ids |-> IF id \in ids THEN Job(clock) ELSE blob[id]]
          /\ score' = [id \in Ids |-> IF id \in ids THEN Filed(id, Job(clock)) ELSE score[id]]
          /\ call' = Written(ids)
  /\ UNCHANGED <<clock, winners, torn>>
Rest(c) == IF Len(c.ids) = 1 THEN NoCall ELSE [c EXCEPT !.ids = Tail(c.ids)]
SaveNext(s) ==
  LET id == Head(call[s].ids)
  IN /\ call[s].op = "save" /\ Put(id, Job(call[s].before))
     /\ call' = [Written({id}) EXCEPT ![s] = Rest(@)]
     /\ torn' = torn \cup Overtaken({id})
     /\ UNCHANGED <<setting, clock, winners>>

-----------------------------------------------------------------------------
(* prune: memory in one go; Redis reads the index, then deletes those keys  *)
(* and whatever the index then holds up to the limit; Postgres reads the    *)
(* rows, then deletes the old ones one by one.                              *)
Prune(s, before) ==
  /\ Idle(s) /\ Offered("prune")
  /\ IF setting.adapter = "memory" THEN Deleted(Old(before)) /\ UNCHANGED call
     ELSE /\ Old(before) # {}
          /\ call' = [call EXCEPT ![s] = [NoCall EXCEPT !.op = "prune", !.ids = InOrder(Old(before)),
                                                        !.before = before]]
          /\ UNCHANGED <<blob, score, winners, torn>>
  /\ UNCHANGED clock
Sweep(s) ==
  LET ids == ToSet(call[s].ids)
      filed == {id \in Ids : RedisOld(id, call[s].before)}
  IN /\ call[s].op = "prune" /\ Redis
     /\ blob' = [id \in Ids |-> IF id \in ids THEN NoRecord ELSE blob[id]]
     /\ score' = [id \in Ids |-> IF id \in filed THEN NoTime ELSE score[id]]
     /\ winners' = [id \in Ids |-> IF id \in ids THEN 0 ELSE winners[id]]
     /\ torn' = torn \cup (call[s].written \cap (ids \cup filed)) \cup Overtaken(ids)
                     \cup {id \in filed \ ids : Stored(id)} \* filed since it looked: the key stays
     /\ call' = [call EXCEPT ![s] = NoCall]
     /\ UNCHANGED <<setting, clock>>
PruneNext(s) ==
  /\ call[s].op = "prune" /\ ~Redis /\ UNCHANGED <<setting, clock>>
  /\ Deleted({Head(call[s].ids)})
  /\ call' = [call EXCEPT ![s] = Rest(@)]

Tick ==
  /\ clock < MaxTime /\ clock' = clock + 1
  /\ UNCHANGED <<setting, blob, score, call, winners, torn>>
(* The process dies between two round trips.                                *)
Crash(s) ==
  /\ ~Idle(s) /\ setting.crashes > 0
  /\ setting' = [setting EXCEPT !.crashes = @ - 1]
  /\ torn' = IF call[s].op = "insert" THEN torn \cup {call[s].ids[1]} ELSE torn
  /\ call' = [call EXCEPT ![s] = NoCall]
  /\ UNCHANGED <<clock, blob, score, winners>>

Next ==
  \/ \E id \in Ids :
       \/ \E rec \in New : Save(id, rec) \/ Renew(id, rec) \/ \E s \in Slots : Insert(s, id, rec)
       \/ Update(id) \/ Increment(id) \/ CompareAndSet(id, 0, 1) \/ Delete(id)
  \/ \E ids \in SUBSET Ids : BulkDelete(ids) \/ \E s \in Slots : BulkSave(s, ids)
  \/ \E s \in Slots :
       AddToIndex(s) \/ SaveNext(s) \/ Prune(s, clock) \/ Sweep(s) \/ PruneNext(s) \/ Crash(s)
  \/ Tick

Spec == Init /\ [][Next]_vars

-----------------------------------------------------------------------------
(* list(): exact filter or comparison (a field that is absent never         *)
(* matches), order, offset and limit. count() is the length of the answer,  *)
(* or of the index.                                                         *)
Filters == {"all", "value 1", "made before now"}
Matches(id, filter) ==
  /\ Stored(id)
  /\ filter = "value 1" => blob[id].value = 1
  /\ filter = "made before now" => blob[id].made # NoTime /\ blob[id].made < clock
ByValue(a, b) == blob[a].value < blob[b].value
NewestFirst(a, b) == score[a] > score[b]
MemoryNewest(a, b) == blob[a].made # NoTime /\ (blob[b].made = NoTime \/ blob[a].made > blob[b].made)
Slice(seq, offset, limit) ==
  SubSeq(seq, offset + 1, IF offset + limit > Len(seq) THEN Len(seq) ELSE offset + limit)

MemoryPage(filter, ordered, offset, limit) ==
  LET found == {id \in Ids : Matches(id, filter)}
  IN Slice(IF ordered THEN SetToSortSeq(found, ByValue) ELSE SetToSortSeq(found, MemoryNewest),
           offset, limit)
RedisPageSlicedTwice(filter, ordered, offset, limit) == \* Mutant: the range is always limited.
  LET index == SetToSortSeq({id \in Ids : score[id] # NoTime}, NewestFirst)
      found == SelectSeq(Slice(index, offset, limit), LAMBDA id : Matches(id, filter))
  IN IF ordered THEN SortSeq(found, ByValue) ELSE found
RedisPage(filter, ordered, offset, limit) ==
  LET index == SetToSortSeq({id \in Ids : score[id] # NoTime}, NewestFirst)
      inMemory == filter # "all"
      ids == IF inMemory THEN index ELSE Slice(index, offset, limit)
      found == SelectSeq(ids, LAMBDA id : Matches(id, filter))
      entities == IF ordered THEN SortSeq(found, ByValue) ELSE found
  IN IF inMemory \/ ordered THEN Slice(entities, offset, limit) ELSE entities
PostgresPage(filter, ordered, offset, limit) ==
  LET rows == {id \in Ids : Matches(id, filter)}
  IN Slice(IF ordered THEN SetToSortSeq(rows, ByValue) ELSE SetToSortSeq(rows, NewestFirst),
           offset, limit)
Page(filter, ordered, offset, limit) ==
  CASE setting.adapter = "memory" -> MemoryPage(filter, ordered, offset, limit)
    [] setting.adapter = "redis" -> RedisPage(filter, ordered, offset, limit)
    [] setting.adapter = "postgres" -> PostgresPage(filter, ordered, offset, limit)
Count(filter) ==
  IF Redis /\ filter = "all" THEN Cardinality({id \in Ids : score[id] # NoTime})
  ELSE Len(Page(filter, FALSE, 0, Cardinality(Ids)))

-----------------------------------------------------------------------------
Quiet == \A s \in Slots : Idle(s)

(* Of the calls of saveIfAbsent for an id, in whatever processes, one is    *)
(* told it inserted the record until that record is removed: what keeps a   *)
(* message or a delivery from being stored twice.                           *)
InsertedOnce == \A id \in Ids : winners[id] <= 1

(* What the index, and so list, count and prune, know of is what is stored: *)
(* whoever walks the pages with the end of one as the offset of the next    *)
(* meets every matching record once, in the order asked for, and count      *)
(* agrees - but for ids met half way by a crash or another call, and for an *)
(* ordered walk of Redis without a filter (see the README).                 *)
Walk(filter, ordered, limit) ==
  FlattenSeq([k \in 1 .. Cardinality(Ids) |-> Page(filter, ordered, (k - 1) * limit, limit)])
PagesTile ==
  Quiet /\ torn = {} =>
    \A filter \in Filters, ordered \in BOOLEAN, limit \in 1 .. 2 :
      LET walk == Walk(filter, ordered, limit)
          due == {id \in Ids : Matches(id, filter)}
      IN (ordered /\ Redis => filter # "all")
         => /\ Len(walk) = Cardinality(due) /\ ToSet(walk) = due /\ Count(filter) = Len(walk)
            /\ ordered => \A i \in 1 .. Len(walk) - 1 : blob[walk[i]].value <= blob[walk[i + 1]].value

(* "Atomic bulk cleanup": a prune removes no record whose time, as it is    *)
(* stored at that moment, is not past - but for one written since the prune *)
(* looked.                                                                  *)
Past(id, before) ==
  LET rec == blob[id]
  IN \/ rec.made # NoTime /\ rec.made <= before
     \/ rec.made = NoTime /\ rec.ends # NoTime /\ rec.ends <= before
     \/ rec.made = NoTime /\ rec.ends = NoTime /\ score[id] <= before
Removes(s, ids) ==
  call[s].op = "prune" /\ call'[s] # call[s] /\ \A id \in ids : Stored(id) /\ blob'[id] = NoRecord
PruneSparesFresh ==
  [][\A s \in Slots, id \in Ids :
       Removes(s, {id}) /\ id \notin torn \cup call[s].written => Past(id, call[s].before)]_vars
PruneIsAtomic ==
  [][\A s \in Slots, id \in Ids : Removes(s, {id}) => Past(id, call[s].before)]_vars

(* One saveIfAbsent wins, and the lists show what is stored.                *)
StoreIsConsistent == InsertedOnce /\ PagesTile
=============================================================================

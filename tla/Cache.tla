-------------------------------- MODULE Cache --------------------------------
(***************************************************************************)
(* CacheEngine with its two tiers: a local LRU map per process (L1) and    *)
(* the shared storage (L2) with an index of keys per tag.  A value is the  *)
(* version of the source it was read from.  Every await on the storage,    *)
(* the lock, the fetcher or the broker separates two steps.  One tag,      *)
(* given to every entry when the configuration has tags.                   *)
(***************************************************************************)
EXTENDS Naturals, FiniteSets

CONSTANTS
  Nodes,             \* processes
  Slots,             \* asynchronous calls that may be under way at once (a bound)
  Keys,              \* cache keys
  MaxVersion,        \* updates of the source per key (a bound)
  FailuresThreshold, \* l2.circuitBreaker.failuresThreshold
  Settings           \* configurations, calls offered and faults to explore

NoNode == "no node"
NoSlot == "no slot"
Kinds == {"get", "fetch", "refresh", "set", "delete", "tags", "all", "clean"}
Faults == {"fail", "fetchError", "age", "lapse", "crash", "stop"}
Invalidations == {"delete", "tags", "all"}

Assumption ==
  /\ NoNode \notin Nodes /\ NoSlot \notin Slots
  /\ MaxVersion \in Nat /\ FailuresThreshold \in Nat \ {0}
  /\ Settings \subseteq
       [fleet : SUBSET Nodes, keys : SUBSET Keys, maxItems : Nat,
        tagged : BOOLEAN,        \* config.tags names the tag
        clusterLock : BOOLEAN,   \* stampedeProtection.clusterLock
        followerFetch : BOOLEAN, \* allowFollowerFetchOnTimeout
        offers : [Kinds -> Nat], budget : [Faults -> Nat]]

VARIABLES
  setting, \* the member of Settings in force, budgets counting down
  source,       \* the data behind the cache: a version per key
  l1,           \* LruCache of each process
  l2,           \* namespace "cache_entries"
  tagIndex,     \* keys of the CacheTagRecord; no keys is no record
  inflight,     \* inflight of each process: the call others join
  fetchLock,    \* owner of "cache:fetch:<entry>"
  circuit,      \* l2Failures and l2CircuitOpenUntil of each process
  listening,    \* processes subscribed to CHANNEL_INVALIDATION
  inbox,        \* broadcasts on their way to each process: the keys to evict
  call,         \* calls under way
  floor,        \* history: version of the source at the last invalidation
  tainted,      \* history: keys whose last invalidation met another call
  lapsed        \* history: keys whose fetch lock expired under its holder

vars == <<setting, source, l1, l2, tagIndex, inflight, fetchLock,
               circuit, listening, inbox, call, floor, tainted, lapsed>>

Ages == {"fresh", "stale", "dead"}
Copy == [ver : 0 .. MaxVersion, age : Ages]
NoCopy == [ver |-> 0, age |-> "none"]
MaybeCopy == Copy \cup {NoCopy}
Live(copy) == copy.age \in {"fresh", "stale"}

Pcs == {"idle", "read", "l2", "fill", "flight", "lock", "follow", "fetch", "store",
             "save", "tagRead", "tagSave", "release", "drop", "remove", "untagRead",
             "untagSave", "dropTag", "tell"}
NoCall == [pc |-> "idle", kind |-> "none", node |-> NoNode, key |-> "none",
           copy |-> NoCopy, miss |-> "end", held |-> FALSE, index |-> {},
           todo |-> {}, scope |-> {}, seen |-> [k \in Keys |-> 0]]
CallRecord == [pc : Pcs, kind : Kinds, node : Nodes, key : Keys,
              copy : MaybeCopy,
              miss : {"end", "flight", "follow"}, \* what a miss leads to
              held : BOOLEAN,        \* it took the cluster lock
              index : SUBSET Keys,   \* the tag record as it was read
              todo : SUBSET Keys,    \* keys deleteKeyEverywhere is due for
              scope : SUBSET Keys,   \* keys of an invalidation
              seen : [Keys -> 0 .. MaxVersion]] \cup {NoCall}

TypeOK ==
  /\ source \in [Keys -> 0 .. MaxVersion] /\ floor \in [Keys -> 0 .. MaxVersion]
  /\ l1 \in [Nodes -> [Keys -> MaybeCopy]] /\ l2 \in [Keys -> MaybeCopy]
  /\ tagIndex \subseteq Keys /\ tainted \subseteq Keys /\ lapsed \subseteq Keys
  /\ inflight \in [Nodes -> [Keys -> Slots \cup {NoSlot}]]
  /\ fetchLock \in [Keys -> Nodes \cup {NoNode}]
  /\ circuit \in [Nodes -> [failures : 0 .. FailuresThreshold, open : BOOLEAN]]
  /\ listening \subseteq Nodes
  /\ inbox \in [Nodes -> SUBSET (SUBSET Keys)]
  /\ call \in [Slots -> CallRecord]

InitWith(settings) ==
  /\ setting \in settings
  /\ source = [k \in Keys |-> 0] /\ floor = [k \in Keys |-> 0]
  /\ l1 = [n \in Nodes |-> [k \in Keys |-> NoCopy]]
  /\ l2 = [k \in Keys |-> NoCopy]
  /\ tagIndex = {} /\ tainted = {} /\ lapsed = {}
  /\ inflight = [n \in Nodes |-> [k \in Keys |-> NoSlot]]
  /\ fetchLock = [k \in Keys |-> NoNode]
  /\ circuit = [n \in Nodes |-> [failures |-> 0, open |-> FALSE]]
  /\ listening = setting.fleet
  /\ inbox = [n \in Nodes |-> {}]
  /\ call = [c \in Slots |-> NoCall]
Init == InitWith(Settings)

histories == <<floor, tainted, lapsed>>
Spend(fault) ==
  /\ setting.budget[fault] > 0
  /\ setting' = [setting EXCEPT !.budget[fault] = @ - 1]

At(c, pc) == call[c].pc = pc
Go(c, pc) == call' = [call EXCEPT ![c].pc = pc]
IdleSlots == {c \in Slots : At(c, "idle")}
Pending(k) == \E n \in Nodes : \E message \in inbox[n] : k \in message
Touches(c, k) == ~At(c, "idle") /\ (call[c].key = k \/ k \in call[c].scope)

(* LruCache.set: the oldest entry goes when the map is full; which one that *)
(* is depends on the order of use, which is not kept.                       *)
PutL1(n, k, copy) ==
  LET others == {o \in Keys \ {k} : l1[n][o] # NoCopy}
      put == [l1[n] EXCEPT ![k] = copy]
  IN IF Cardinality(others) < setting.maxItems
     THEN l1' = [l1 EXCEPT ![n] = put]
     ELSE \E o \in others : l1' = [l1 EXCEPT ![n] = [put EXCEPT ![o] = NoCopy]]
EvictL1(n, keys) ==
  l1' = [l1 EXCEPT ![n] = [k \in Keys |-> IF k \in keys THEN NoCopy ELSE @[k]]]

-----------------------------------------------------------------------------
(* The calls.  An invalidation is clean when nothing else deals with its    *)
(* keys from its start to the delivery of its broadcast.                    *)
Scope(kind, k) ==
  CASE kind = "delete" -> {k}
    [] kind = "tags" -> tagIndex
    [] kind = "all" -> Keys
    [] OTHER -> {}
Disturbed(kind, k) ==
  IF kind \in Invalidations
  THEN {o \in Scope(kind, k) : Pending(o) \/ \E d \in Slots : Touches(d, o)}
  ELSE {o \in Keys : /\ o = k \/ kind = "clean"
                     /\ Pending(o) \/ \E d \in Slots : Touches(d, o)}
Present == {k \in Keys : l2[k] # NoCopy}
Dead == {k \in Keys : l2[k].age = "dead"}

FirstPc(kind) ==
  CASE kind \in {"get", "fetch"} -> "read"
    [] kind = "refresh" -> "flight"
    [] kind = "set" -> "store"
    [] kind = "tags" -> "dropTag"
    [] OTHER -> "drop"
Due(kind, k) ==
  CASE kind = "delete" -> {k}
    [] kind = "tags" -> tagIndex
    [] kind = "all" -> Present
    [] kind = "clean" -> Dead
    [] OTHER -> {}

Begin(c, n, k, kind) ==
  /\ IdleSlots # {} /\ c = CHOOSE d \in IdleSlots : TRUE
  /\ n \in setting.fleet \cap listening /\ k \in setting.keys
  /\ setting.offers[kind] > 0
  /\ setting' = [setting EXCEPT !.offers[kind] = @ - 1]
  /\ call' = [call EXCEPT ![c] =
       [NoCall EXCEPT !.pc = FirstPc(kind), !.kind = kind, !.node = n, !.key = k,
                      !.copy = [ver |-> source[k], age |-> "fresh"],
                      !.miss = IF kind = "fetch" THEN "flight" ELSE "end",
                      !.todo = Due(kind, k), !.scope = Scope(kind, k),
                      !.seen = source]]
  /\ tainted' = (tainted \ Scope(kind, k)) \cup Disturbed(kind, k)
  /\ floor' = [o \in Keys |-> IF o \in Scope(kind, k) THEN 0 ELSE floor[o]]
  /\ IF kind = "clean" THEN EvictL1(n, {o \in Keys : l1[n][o].age = "dead"})
     ELSE UNCHANGED l1
  /\ UNCHANGED <<source, l2, tagIndex, inflight, fetchLock, circuit, listening,
                 inbox, lapsed>>

(* The application changes its data; what it does about the cache is up to  *)
(* the calls it makes afterwards.                                           *)
Update(k) ==
  /\ k \in setting.keys /\ source[k] < MaxVersion
  /\ setting.offers["delete"] + setting.offers["tags"]
       + setting.offers["all"] + setting.offers["set"] > 0
  /\ source' = [source EXCEPT ![k] = @ + 1]
  /\ UNCHANGED <<setting, l1, l2, tagIndex, inflight, fetchLock, circuit,
                 listening, inbox, call, histories>>

(* The promise settles: joiners are answered and the key is free again.     *)
End(c) ==
  LET n == call[c].node
      k == call[c].key
  IN /\ call' = [call EXCEPT ![c] = NoCall]
     /\ inflight' = IF inflight[n][k] = c
                    THEN [inflight EXCEPT ![n][k] = NoSlot] ELSE inflight
Finish(c) == IF call[c].held THEN Go(c, "release") /\ UNCHANGED inflight ELSE End(c)

-----------------------------------------------------------------------------
(* get, readForFetch: L1, then L2.                                          *)
Miss(c) == IF call[c].miss = "end" THEN Finish(c) ELSE Go(c, call[c].miss) /\ UNCHANGED inflight

(* A hit answers the caller; getOrFetch goes on in the background as a      *)
(* forced refresh when the copy is stale.                                   *)
Hit(c, copy) ==
  IF call[c].miss = "flight" /\ copy.age = "stale"
  THEN /\ call' = [call EXCEPT ![c].kind = "refresh", ![c].pc = "flight"]
       /\ UNCHANGED inflight
  ELSE Finish(c)

ReadL1(c) ==
  LET n == call[c].node
      k == call[c].key
      copy == l1[n][k]
  IN /\ At(c, "read")
     /\ IF Live(copy) THEN Hit(c, copy) /\ UNCHANGED l1
        ELSE EvictL1(n, {k}) /\ Go(c, "l2") /\ UNCHANGED inflight
     /\ UNCHANGED <<setting, source, l2, tagIndex, fetchLock, circuit,
                    listening, inbox, histories>>

ReadL2(c) ==
  LET k == call[c].key
      copy == l2[k]
  IN /\ At(c, "l2")
     /\ IF circuit[call[c].node].open \/ copy = NoCopy THEN Miss(c)
        ELSE IF copy.age = "dead"
        THEN /\ call' = [call EXCEPT ![c].pc = "drop", ![c].todo = {k}]
             /\ UNCHANGED inflight
        ELSE /\ call' = [call EXCEPT ![c].pc = "fill", ![c].copy = copy]
             /\ UNCHANGED inflight
     /\ UNCHANGED <<setting, source, l1, l2, tagIndex, fetchLock, circuit,
                    listening, inbox, histories>>

(* decodeValue is awaited between the read and the entry in L1.             *)
Fill(c) ==
  /\ At(c, "fill")
  /\ PutL1(call[c].node, call[c].key, call[c].copy)
  /\ Hit(c, call[c].copy)
  /\ UNCHANGED <<setting, source, l2, tagIndex, fetchLock, circuit,
                 listening, inbox, histories>>

-----------------------------------------------------------------------------
(* getOrFetch after a miss: single flight, cluster lock, fetch, write.      *)
FlyUnregistered(c) == \* Mutant: the call does not register itself.
  /\ At(c, "flight")
  /\ Go(c, IF setting.clusterLock THEN "lock" ELSE "fetch")
  /\ UNCHANGED <<setting, source, l1, l2, tagIndex, inflight, fetchLock, circuit,
                 listening, inbox, histories>>
Fly(c) ==
  LET n == call[c].node
      k == call[c].key
  IN /\ At(c, "flight")
     /\ IF inflight[n][k] # NoSlot THEN End(c)
        ELSE /\ inflight' = [inflight EXCEPT ![n][k] = c]
             /\ Go(c, IF setting.clusterLock THEN "lock" ELSE "fetch")
     /\ UNCHANGED <<setting, source, l1, l2, tagIndex, fetchLock, circuit,
                    listening, inbox, histories>>

Lock(c) ==
  LET k == call[c].key
      got == fetchLock[k] \in {NoNode, call[c].node}
  IN /\ At(c, "lock")
     /\ fetchLock' = IF got THEN [fetchLock EXCEPT ![k] = call[c].node] ELSE fetchLock
     /\ call' = [call EXCEPT ![c].pc = IF got THEN "fetch" ELSE "follow",
                             ![c].held = got]
     /\ UNCHANGED <<setting, source, l1, l2, tagIndex, inflight, circuit,
                    listening, inbox, histories>>

Poll(c) ==
  /\ At(c, "follow")
  /\ call' = [call EXCEPT ![c].pc = "read", ![c].miss = "follow"]
  /\ UNCHANGED <<setting, source, l1, l2, tagIndex, inflight, fetchLock,
                 circuit, listening, inbox, histories>>

(* The deadline: fetch all the same, or look once more and throw.           *)
StopFollowingNever(c) == \* Mutant: a follower has no deadline.
  /\ At(c, "follow")
  /\ call' = [call EXCEPT ![c].pc = "read", ![c].miss = "follow"]
  /\ UNCHANGED <<setting, source, l1, l2, tagIndex, inflight, fetchLock,
                 circuit, listening, inbox, histories>>
StopFollowing(c) ==
  /\ At(c, "follow")
  /\ call' = [call EXCEPT ![c].pc = IF setting.followerFetch THEN "fetch" ELSE "read",
                          ![c].miss = "end"]
  /\ UNCHANGED <<setting, source, l1, l2, tagIndex, inflight, fetchLock,
                 circuit, listening, inbox, histories>>

Fetch(c) ==
  /\ At(c, "fetch")
  /\ call' = [call EXCEPT ![c].pc = "store",
                          ![c].copy = [ver |-> source[call[c].key], age |-> "fresh"]]
  /\ UNCHANGED <<setting, source, l1, l2, tagIndex, inflight, fetchLock,
                 circuit, listening, inbox, histories>>

(* The fetcher throws: what is there is read once more, then the call ends. *)
FetchFails(c) ==
  /\ At(c, "fetch") /\ Spend("fetchError")
  /\ call' = [call EXCEPT ![c].pc = "read", ![c].miss = "end"]
  /\ UNCHANGED <<source, l1, l2, tagIndex, inflight, fetchLock, circuit,
                 listening, inbox, histories>>

Release(c) ==
  LET k == call[c].key
  IN /\ At(c, "release")
     /\ fetchLock' = IF fetchLock[k] = call[c].node
                     THEN [fetchLock EXCEPT ![k] = NoNode] ELSE fetchLock
     /\ End(c)
     /\ UNCHANGED <<setting, source, l1, l2, tagIndex, circuit, listening,
                    inbox, histories>>

-----------------------------------------------------------------------------
(* writeEntry: L1 at once, then L2 and the index of the tag.                *)
Store(c) ==
  LET n == call[c].node
  IN /\ At(c, "store")
     /\ PutL1(n, call[c].key, call[c].copy)
     /\ IF circuit[n].open THEN Finish(c) ELSE Go(c, "save") /\ UNCHANGED inflight
     /\ UNCHANGED <<setting, source, l2, tagIndex, fetchLock, circuit,
                    listening, inbox, histories>>

Written(c) == circuit' = [circuit EXCEPT ![call[c].node].failures = 0]
Save(c) ==
  /\ At(c, "save")
  /\ l2' = [l2 EXCEPT ![call[c].key] = call[c].copy]
  /\ IF setting.tagged THEN Go(c, "tagRead") /\ UNCHANGED <<inflight, circuit>>
     ELSE Finish(c) /\ Written(c)
  /\ UNCHANGED <<setting, source, l1, tagIndex, fetchLock, listening, inbox,
                 histories>>

TagRead(c) ==
  /\ At(c, "tagRead")
  /\ call' = [call EXCEPT ![c].pc = "tagSave", ![c].index = tagIndex]
  /\ UNCHANGED <<setting, source, l1, l2, tagIndex, inflight, fetchLock,
                 circuit, listening, inbox, histories>>

TagSave(c) ==
  /\ At(c, "tagSave")
  /\ tagIndex' = call[c].index \cup {call[c].key}
  /\ Finish(c) /\ Written(c)
  /\ UNCHANGED <<setting, source, l1, l2, fetchLock, listening, inbox,
                 histories>>

-----------------------------------------------------------------------------
(* deleteKeyEverywhere for the keys that are due, then what comes next.     *)
AfterDrops(c) ==
  CASE call[c].kind \in {"delete", "tags"} -> Go(c, "tell") /\ UNCHANGED inflight
    [] call[c].kind = "all" -> Go(c, "dropTag") /\ UNCHANGED inflight
    [] call[c].kind = "clean" -> End(c)
    [] OTHER -> Miss(c)

NothingToDrop(c) ==
  /\ At(c, "drop") /\ call[c].todo = {}
  /\ AfterDrops(c)
  /\ UNCHANGED <<setting, source, l1, l2, tagIndex, fetchLock, circuit,
                 listening, inbox, histories>>

(* The key leaves L1 before the storage is asked for it.                    *)
DropShared(c, k) == \* Mutant: only what the storage holds leaves L1.
  /\ At(c, "drop") /\ k \in call[c].todo
  /\ call' = [call EXCEPT ![c].todo = IF l2[k] = NoCopy THEN @ \ {k} ELSE @,
                          ![c].copy = NoCopy,
                          ![c].index = IF l2[k] = NoCopy THEN {} ELSE {k},
                          ![c].pc = IF l2[k] = NoCopy THEN "drop" ELSE "remove"]
  /\ UNCHANGED <<setting, source, l1, l2, tagIndex, inflight, fetchLock, circuit,
                 listening, inbox, histories>>
Drop(c, k) ==
  /\ At(c, "drop") /\ k \in call[c].todo
  /\ EvictL1(call[c].node, {k})
  /\ call' = [call EXCEPT ![c].todo = IF l2[k] = NoCopy THEN @ \ {k} ELSE @,
                          ![c].copy = NoCopy,
                          ![c].index = IF l2[k] = NoCopy THEN {} ELSE {k},
                          ![c].pc = IF l2[k] = NoCopy THEN "drop" ELSE "remove"]
  /\ UNCHANGED <<setting, source, l2, tagIndex, inflight, fetchLock, circuit,
                 listening, inbox, histories>>

Remove(c) ==
  /\ At(c, "remove")
  /\ l2' = [k \in Keys |-> IF k \in call[c].index THEN NoCopy ELSE l2[k]]
  /\ call' = [call EXCEPT ![c].todo = @ \ call[c].index,
                          ![c].pc = IF setting.tagged THEN "untagRead" ELSE "drop"]
  /\ UNCHANGED <<setting, source, l1, tagIndex, inflight, fetchLock, circuit,
                 listening, inbox, histories>>

UntagRead(c) ==
  /\ At(c, "untagRead")
  /\ call' = [call EXCEPT ![c].index = tagIndex \ @,
                          ![c].pc = IF tagIndex = {} THEN "drop" ELSE "untagSave"]
  /\ UNCHANGED <<setting, source, l1, l2, tagIndex, inflight, fetchLock,
                 circuit, listening, inbox, histories>>

UntagSave(c) ==
  /\ At(c, "untagSave")
  /\ tagIndex' = call[c].index
  /\ Go(c, "drop")
  /\ UNCHANGED <<setting, source, l1, l2, inflight, fetchLock, circuit,
                 listening, inbox, histories>>

(* invalidateTags deletes the record before the entries, invalidateAll      *)
(* after them.                                                              *)
DropTag(c) ==
  /\ At(c, "dropTag")
  /\ tagIndex' = {}
  /\ Go(c, IF call[c].kind = "tags" THEN "drop" ELSE "tell")
  /\ UNCHANGED <<setting, source, l1, l2, inflight, fetchLock, circuit,
                 listening, inbox, histories>>

(* The local eviction and the broadcast.  A process without subscription    *)
(* misses it.                                                               *)
Tell(c) ==
  LET n == call[c].node
      keys == call[c].scope
      others == setting.fleet \ {n}
  IN /\ At(c, "tell")
     /\ EvictL1(n, IF call[c].kind = "delete" THEN {} ELSE keys)
     /\ inbox' = [m \in Nodes |-> IF m \in others \cap listening
                                  THEN inbox[m] \cup {keys} ELSE inbox[m]]
     /\ floor' = [k \in Keys |-> IF k \in keys THEN call[c].seen[k] ELSE floor[k]]
     /\ tainted' = IF others \subseteq listening THEN tainted ELSE tainted \cup keys
     /\ End(c)
     /\ UNCHANGED <<setting, source, l2, tagIndex, fetchLock, circuit,
                    listening, lapsed>>

Deliver(n, keys) ==
  /\ keys \in inbox[n]
  /\ inbox' = [inbox EXCEPT ![n] = @ \ {keys}]
  /\ EvictL1(n, keys)
  /\ UNCHANGED <<setting, source, l2, tagIndex, inflight, fetchLock, circuit,
                 listening, call, histories>>

-----------------------------------------------------------------------------
(* Failures, time and processes.                                            *)
(* noteL2Failure; the counter is only reset by a write that succeeds.       *)
NoteFailure(n) ==
  LET failures == IF circuit[n].failures = FailuresThreshold
                  THEN FailuresThreshold ELSE circuit[n].failures + 1
  IN circuit' = [circuit EXCEPT ![n] =
       [failures |-> failures,
        open |-> circuit[n].open \/ failures = FailuresThreshold]]

(* A storage call throws: reads count as a miss, writes are given up, both  *)
(* are noted; a deletion throws to its caller.                              *)
StorageFails(c) ==
  /\ Spend("fail")
  /\ \/ /\ At(c, "l2") /\ ~circuit[call[c].node].open
        /\ NoteFailure(call[c].node) /\ Miss(c)
     \/ /\ call[c].pc \in {"save", "tagRead", "tagSave"}
        /\ NoteFailure(call[c].node) /\ Finish(c)
     \/ /\ call[c].pc \in {"remove", "untagRead", "untagSave", "dropTag"}
        /\ IF call[c].kind \in Invalidations \cup {"clean"}
           THEN End(c) /\ UNCHANGED circuit
           ELSE Miss(c) /\ NoteFailure(call[c].node)
  /\ UNCHANGED <<source, l1, l2, tagIndex, fetchLock, listening, inbox, histories>>

CircuitCloses(n) ==
  /\ circuit[n].open
  /\ circuit' = [circuit EXCEPT ![n].open = FALSE]
  /\ UNCHANGED <<setting, source, l1, l2, tagIndex, inflight, fetchLock,
                 listening, inbox, call, histories>>

(* expiresAt or staleUntil of an entry passes, by the clock of its reader.  *)
Older(copy) == IF copy.age = "fresh" THEN {"stale", "dead"} ELSE {"dead"}
AgeL1(n, k) ==
  /\ Live(l1[n][k]) /\ Spend("age")
  /\ \E age \in Older(l1[n][k]) : l1' = [l1 EXCEPT ![n][k].age = age]
  /\ UNCHANGED <<source, l2, tagIndex, inflight, fetchLock, circuit, listening,
                 inbox, call, histories>>
AgeL2(k) ==
  /\ Live(l2[k]) /\ Spend("age")
  /\ \E age \in Older(l2[k]) : l2' = [l2 EXCEPT ![k].age = age]
  /\ UNCHANGED <<source, l1, tagIndex, inflight, fetchLock, circuit, listening,
                 inbox, call, histories>>

FetchLockExpires(k) ==
  /\ fetchLock[k] # NoNode
  /\ \/ /\ \A c \in Slots : ~(call[c].held /\ call[c].node = fetchLock[k] /\ call[c].key = k)
        /\ UNCHANGED <<setting, lapsed>>
     \/ Spend("lapse") /\ lapsed' = lapsed \cup {k}
  /\ fetchLock' = [fetchLock EXCEPT ![k] = NoNode]
  /\ UNCHANGED <<source, l1, l2, tagIndex, inflight, circuit, listening, inbox,
                 call, floor, tainted>>

(* A process dies: its map, its promises and its mail go; a restarted one   *)
(* has none of them.                                                        *)
Crash(n) ==
  /\ n \in setting.fleet /\ Spend("crash")
  /\ l1' = [l1 EXCEPT ![n] = [k \in Keys |-> NoCopy]]
  /\ inflight' = [inflight EXCEPT ![n] = [k \in Keys |-> NoSlot]]
  /\ circuit' = [circuit EXCEPT ![n] = [failures |-> 0, open |-> FALSE]]
  /\ inbox' = [inbox EXCEPT ![n] = {}]
  /\ listening' = listening \cup {n}
  /\ call' = [c \in Slots |-> IF call[c].node = n THEN NoCall ELSE call[c]]
  /\ UNCHANGED <<source, l2, tagIndex, fetchLock, histories>>

(* CacheModule.disable() and enable(): the map of the process stays.        *)
StopListening(n) ==
  /\ n \in listening /\ Spend("stop")
  /\ listening' = listening \ {n}
  /\ inbox' = [inbox EXCEPT ![n] = {}]
  /\ tainted' = tainted \cup UNION inbox[n]
  /\ UNCHANGED <<source, l1, l2, tagIndex, inflight, fetchLock, circuit, call,
                 floor, lapsed>>
StartListening(n) ==
  /\ n \in setting.fleet \ listening
  /\ listening' = listening \cup {n}
  /\ UNCHANGED <<setting, source, l1, l2, tagIndex, inflight, fetchLock,
                 circuit, inbox, call, histories>>

-----------------------------------------------------------------------------
Step(c) ==
  \/ ReadL1(c) \/ ReadL2(c) \/ Fill(c) \/ Fly(c) \/ Lock(c) \/ Poll(c)
  \/ StopFollowing(c) \/ Fetch(c) \/ Release(c) \/ Store(c) \/ Save(c)
  \/ TagRead(c) \/ TagSave(c) \/ NothingToDrop(c) \/ (\E k \in Keys : Drop(c, k))
  \/ Remove(c) \/ UntagRead(c) \/ UntagSave(c) \/ DropTag(c) \/ Tell(c)
FaultStep ==
  \/ \E c \in Slots : FetchFails(c) \/ StorageFails(c)
  \/ \E n \in Nodes : \/ CircuitCloses(n) \/ Crash(n)
                      \/ StopListening(n) \/ StartListening(n)
  \/ \E n \in Nodes, k \in Keys : AgeL1(n, k)
  \/ \E k \in Keys : AgeL2(k) \/ FetchLockExpires(k)
Next ==
  \/ \E c \in Slots, n \in Nodes, k \in Keys, kind \in Kinds : Begin(c, n, k, kind)
  \/ \E k \in Keys : Update(k)
  \/ \E c \in Slots : Step(c)
  \/ \E n \in Nodes : \E keys \in inbox[n] : Deliver(n, keys)
  \/ FaultStep

Spec == Init /\ [][Next]_vars

(* The event loop goes on with every settled await; the loop of a follower  *)
(* compares its age with the deadline at every poll.                        *)
Fairness ==
  \A c \in Slots : WF_vars(Step(c)) /\ SF_vars(StopFollowing(c))

-----------------------------------------------------------------------------
(* One fetcher runs per key and process, whatever calls getOrFetch and with *)
(* or without force; with the cluster lock one in the cluster, unless the   *)
(* lock expired under a slow fetcher or a follower is allowed past its      *)
(* deadline.                                                                *)
Fetching(n, k) == {c \in Slots : At(c, "fetch") /\ call[c].node = n /\ call[c].key = k}
FetchOnce ==
  \A k \in Keys :
    /\ \A n \in Nodes : Cardinality(Fetching(n, k)) <= 1
    /\ setting.clusterLock /\ ~setting.followerFetch /\ k \notin lapsed
         => Cardinality(UNION {Fetching(n, k) : n \in Nodes}) <= 1

(* Once an invalidation of a key is over and its broadcast delivered, no    *)
(* tier of no process holds what was read from the source before it - for   *)
(* an invalidation no other call on the key overlapped.                     *)
InvalidatedStaysGone ==
  \A k \in Keys : k \notin tainted /\ ~Pending(k) =>
    /\ l2[k] # NoCopy => l2[k].ver >= floor[k]
    /\ \A n \in listening : l1[n][k] # NoCopy => l1[n][k].ver >= floor[k]

(* invalidateTags finds the keys of a tag in its index: when no call is     *)
(* under way, every entry that carries the tag is in the index.             *)
TaggedAreIndexed ==
  setting.tagged /\ (\A c \in Slots : At(c, "idle")) => Present \subseteq tagIndex

(* Every call returns or throws, also the follower of a fetch whose process *)
(* died with the lock.                                                      *)
CallsAreAnswered == \A c \in Slots : []<>At(c, "idle")
=============================================================================

---------------------------- MODULE Parts_proofs ----------------------------
(***************************************************************************)
(* Four parts of the services and what is proved of each: the broker       *)
(* adapters, start and stop, the storage adapters and the monitoring API.  *)
(* Each is instantiated here under the names it has in Services, which     *)
(* extends this module, and each theorem holds for every value of the      *)
(* constants of its part.                                                  *)
(***************************************************************************)
EXTENDS Naturals, Sequences, TLAPS, SequenceTheorems, FiniteSetTheorems

CONSTANTS
  BrokerIds, BrokerCallers, BrokerSettings,
  KitNames, KitCallers, KitMaxBoots, KitSettings,
  StoreIds, StoreSlots, StoreMaxTime, StoreSettings,
  ApiNames, ApiJobs, ApiCallers, NoOne, ApiSettings

-----------------------------------------------------------------------------
(* Broker adapters. A list that loses an id keeps the others, each once     *)
(* (Without), so what has to be shown of a call is only what it does to the *)
(* id it is about.                                                          *)
VARIABLES brokerSetting, brokerQueue, brokerRanked, brokerDelayed,
  brokerDue, brokerLock, brokerLapsed, brokerPaused, brokerCaller,
  brokerHolds, brokerOwed, brokerGone, brokerSole
brokerVars == <<brokerSetting, brokerQueue, brokerRanked, brokerDelayed,
  brokerDue, brokerLock, brokerLapsed, brokerPaused, brokerCaller,
  brokerHolds, brokerOwed, brokerGone, brokerSole>>
B == INSTANCE Broker WITH
  Settings <- BrokerSettings, Ids <- BrokerIds, Callers <- BrokerCallers,
  setting <- brokerSetting, queue <- brokerQueue, ranked <- brokerRanked,
  delayed <- brokerDelayed, due <- brokerDue, lock <- brokerLock,
  lapsed <- brokerLapsed, paused <- brokerPaused, caller <- brokerCaller,
  holds <- brokerHolds, owed <- brokerOwed, gone <- brokerGone,
  sole <- brokerSole

(* A part's copies of what the libraries define are what they define.       *)
LEMMA BrokerCounts ==
  /\ \A T : B!Cardinality(T) = Cardinality(T)
  /\ \A f : B!IsInjective(f) = IsInjective(f)
  <1>1. \A T : B!Cardinality(T) = Cardinality(T) BY Zenon DEF B!Cardinality, Cardinality
  <1>2. \A f : B!IsInjective(f) = IsInjective(f) BY Zenon DEF B!IsInjective, IsInjective
  <1> QED BY <1>1, <1>2

NoDup(q) == \A a, b \in 1 .. Len(q) : q[a] = q[b] => a = b

LEMMA Members ==
  ASSUME NEW T, NEW q \in Seq(T)
  PROVE  /\ B!ToSet(q) \subseteq T /\ DOMAIN q = 1 .. Len(q)
         /\ \A x : x \in B!ToSet(q) <=> \E k \in 1 .. Len(q) : q[k] = x
  BY DEF B!ToSet

(* The n-th member of a finite set of numbers is there.                     *)
LEMMA NthIsThere ==
  ASSUME NEW kept \in SUBSET Nat, IsFiniteSet(kept)
  PROVE  /\ Cardinality(kept) \in Nat
         /\ \A k \in kept : Cardinality({m \in kept : m <= k}) \in 1 .. Cardinality(kept)
         /\ \A k, l \in kept : Cardinality({m \in kept : m <= k}) = Cardinality({m \in kept : m <= l}) => k = l
         /\ \A n \in 1 .. Cardinality(kept) : \E k \in kept : Cardinality({m \in kept : m <= k}) = n
  <1> DEFINE Upto(k) == {m \in kept : m <= k}
             rank == [k \in kept |-> Cardinality(Upto(k))]
             c == Cardinality(kept)
  <1>1. c \in Nat BY FS_CardinalityType
  <1>2. ASSUME NEW k \in kept PROVE Cardinality(Upto(k)) \in 1 .. c /\ IsFiniteSet(Upto(k))
    <2>1. Upto(k) \in SUBSET kept OBVIOUS
    <2>2. IsFiniteSet(Upto(k)) /\ Cardinality(Upto(k)) <= c BY <2>1, FS_Subset
    <2>3. Cardinality(Upto(k)) \in Nat BY <2>2, FS_CardinalityType
    <2>4. k \in Upto(k) OBVIOUS
    <2>5. Cardinality(Upto(k)) # 0 BY <2>2, <2>4, FS_EmptySet
    <2> QED BY <1>1, <2>2, <2>3, <2>5
  <1>3. ASSUME NEW k \in kept, NEW l \in kept, k < l PROVE Cardinality(Upto(k)) # Cardinality(Upto(l))
    <2>a. \A m \in kept : m \in Nat OBVIOUS
    <2>b. k \in Nat /\ l \in Nat BY <2>a
    <2>c. ~(l <= k) /\ l <= l BY <2>b, <1>3
    <2>d. \A m \in kept : m <= k => m <= l BY <2>a, <2>b, <1>3
    <2>1. Upto(k) \in SUBSET Upto(l) /\ l \in Upto(l) /\ l \notin Upto(k) BY <2>c, <2>d
    <2> QED BY <1>2, <2>1, FS_Subset
  <1>4. ASSUME NEW k \in kept, NEW l \in kept, Cardinality(Upto(k)) = Cardinality(Upto(l)) PROVE k = l
    <2>1. k \in Nat /\ l \in Nat OBVIOUS
    <2>2. k < l \/ l < k \/ k = l BY <2>1
    <2> QED BY <1>3, <1>4, <2>2
  <1>5. rank \in Injection(kept, 1 .. c)
    <2>1. rank \in [kept -> 1 .. c] BY <1>2
    <2>2. \A k, l \in kept : rank[k] = rank[l] => k = l BY <1>4
    <2> HIDE DEF rank
    <2> QED BY <2>1, <2>2 DEF Injection, IsInjective
  <1>6. IsFiniteSet(1 .. c) /\ Cardinality(1 .. c) = c
    <2>1. 1 \in Int /\ c \in Int BY <1>1
    <2>2. IsFiniteSet(1 .. c) /\ Cardinality(1 .. c) = IF 1 > c THEN 0 ELSE c - 1 + 1 BY <2>1, FS_Interval
    <2> QED BY <1>1, <2>2
  <1>7. rank \in Surjection(kept, 1 .. c) BY <1>5, <1>6, FS_Injection
  <1>8. \A n \in 1 .. c : \E k \in kept : rank[k] = n BY <1>7 DEF Surjection
  <1> QED BY <1>1, <1>2, <1>4, <1>8

LEMMA WithoutLists ==
  ASSUME NEW q \in Seq(BrokerIds), NEW i
  PROVE  /\ B!Without(q, i) \in Seq(BrokerIds) /\ B!ToSet(B!Without(q, i)) = B!ToSet(q) \ {i}
         /\ NoDup(q) => NoDup(B!Without(q, i))
  <1> DEFINE kept == {k \in DOMAIN q : q[k] # i}
             at(n) == CHOOSE k \in kept : Cardinality({m \in kept : m <= k}) = n
             c == Cardinality(kept)
             w == B!Without(q, i)
  <1>1. DOMAIN q = 1 .. Len(q) /\ Len(q) \in Nat OBVIOUS
  <1>2. kept \in SUBSET Nat /\ IsFiniteSet(kept)
    <2>1. 1 \in Int /\ Len(q) \in Int BY <1>1
    <2>2. IsFiniteSet(1 .. Len(q)) BY <2>1, FS_Interval
    <2>3. kept \in SUBSET (1 .. Len(q)) BY <1>1
    <2> QED BY <2>2, <2>3, FS_Subset
  <1>3. /\ c \in Nat
        /\ \A k \in kept : Cardinality({m \in kept : m <= k}) \in 1 .. c
        /\ \A k, l \in kept : Cardinality({m \in kept : m <= k}) = Cardinality({m \in kept : m <= l}) => k = l
        /\ \A n \in 1 .. c : \E k \in kept : Cardinality({m \in kept : m <= k}) = n
    BY <1>2, NthIsThere
  <1>4. \A n \in 1 .. c : at(n) \in kept /\ Cardinality({m \in kept : m <= at(n)}) = n BY <1>3
  <1>5. w = [n \in 1 .. c |-> q[at(n)]] BY Zenon DEF B!Without, B!Cardinality, Cardinality
  <1>6. \A k \in kept : \E n \in 1 .. c : at(n) = k
    <2> SUFFICES ASSUME NEW k \in kept PROVE \E n \in 1 .. c : at(n) = k OBVIOUS
    <2> DEFINE n == Cardinality({m \in kept : m <= k})
    <2>1. n \in 1 .. c BY <1>3
    <2>2. at(n) \in kept /\ Cardinality({m \in kept : m <= at(n)}) = n BY <1>4, <2>1
    <2>3. at(n) = k BY <1>3, <2>2
    <2> QED BY <2>1, <2>3
  <1> DEFINE card(k) == Cardinality({m \in kept : m <= k})
  <1>7. \A n, m \in 1 .. c : at(n) = at(m) => n = m
    <2>1. \A n \in 1 .. c : card(at(n)) = n BY <1>4
    <2> SUFFICES ASSUME NEW n \in 1 .. c, NEW m \in 1 .. c, at(n) = at(m) PROVE n = m OBVIOUS
    <2> HIDE DEF card, at
    <2>2. card(at(n)) = card(at(m)) OBVIOUS
    <2> QED BY <2>1, <2>2
  <1> HIDE DEF at, c, w
  <1>8. \A n \in 1 .. c : at(n) \in 1 .. Len(q) /\ q[at(n)] # i BY <1>1, <1>4
  <1>9. \A k \in 1 .. Len(q) : q[k] # i => k \in kept BY <1>1
  <1> HIDE DEF kept
  <1>10. w \in Seq(BrokerIds) /\ Len(w) = c
    <2>1. \A n \in 1 .. c : q[at(n)] \in BrokerIds BY <1>8
    <2> QED BY <1>3, <1>5, <2>1, IsASeq
  <1>11. \A x : x \in B!ToSet(w) <=> x \in B!ToSet(q) /\ x # i
    <2>1. \A x : x \in B!ToSet(w) <=> \E n \in 1 .. c : w[n] = x BY <1>10, Members
    <2>2. \A x : x \in B!ToSet(q) <=> \E k \in 1 .. Len(q) : q[k] = x BY Members
    <2>3. \A n \in 1 .. c : w[n] = q[at(n)] BY <1>5
    <2> QED BY <1>6, <1>8, <1>9, <2>1, <2>2, <2>3
  <1>12. NoDup(q) => NoDup(w)
    <2>1. \A n \in 1 .. c : w[n] = q[at(n)] BY <1>5
    <2> QED BY <1>7, <1>8, <1>10, <2>1 DEF NoDup
  <1> QED BY <1>10, <1>11, <1>12 DEF w

LEMMA SetToSeqLists ==
  ASSUME NEW T, IsFiniteSet(T)
  PROVE  B!SetToSeq(T) \in Seq(T) /\ B!ToSet(B!SetToSeq(T)) = T /\ NoDup(B!SetToSeq(T))
  <1> DEFINE c == Cardinality(T)
             q == B!SetToSeq(T)
  <1>1. c \in Nat /\ ExistsBijection(1 .. c, T) BY FS_CardinalityType
  <1>2. \E f \in [1 .. c -> T] : IsInjective(f)
    BY <1>1 DEF ExistsBijection, Bijection, Injection
  <1>3. q \in [1 .. c -> T] /\ IsInjective(q) BY <1>2, BrokerCounts DEF B!SetToSeq
  <1> HIDE DEF q
  <1>4. q \in Injection(1 .. c, T) BY <1>3 DEF Injection
  <1>5. IsFiniteSet(1 .. c) /\ Cardinality(1 .. c) = c
    <2>1. 1 \in Int /\ c \in Int BY <1>1
    <2>2. IsFiniteSet(1 .. c) /\ Cardinality(1 .. c) = IF 1 > c THEN 0 ELSE c - 1 + 1 BY <2>1, FS_Interval
    <2> QED BY <1>1, <2>2
  <1>6. q \in Surjection(1 .. c, T) BY <1>4, <1>5, FS_Injection
  <1>7. q \in Seq(T) /\ Len(q) = c BY <1>1, <1>3
  <1>8. \A x : x \in B!ToSet(q) <=> x \in T
    <2>1. \A x \in T : \E n \in 1 .. c : q[n] = x BY <1>6 DEF Surjection
    <2> QED BY <1>3, <1>7, <2>1, Members
  <1>9. NoDup(q) BY <1>3, <1>7 DEF NoDup, IsInjective
  <1> QED BY <1>7, <1>8, <1>9 DEF q

LEMMA JoinLists ==
  ASSUME NEW q \in Seq(BrokerIds), NEW r \in Seq(BrokerIds)
  PROVE  /\ q \o r \in Seq(BrokerIds) /\ B!ToSet(q \o r) = B!ToSet(q) \cup B!ToSet(r)
         /\ NoDup(q) /\ NoDup(r) /\ B!ToSet(q) \cap B!ToSet(r) = {} => NoDup(q \o r)
  <1> DEFINE s == q \o r
  <1>1. /\ s \in Seq(BrokerIds) /\ Len(s) = Len(q) + Len(r) /\ Len(q) \in Nat /\ Len(r) \in Nat
        /\ \A n \in 1 .. Len(q) : s[n] = q[n]
        /\ \A n \in 1 .. Len(s) : n > Len(q) => n - Len(q) \in 1 .. Len(r) /\ s[n] = r[n - Len(q)]
    OBVIOUS
  <1>2. \A n \in 1 .. Len(r) : Len(q) + n \in 1 .. Len(s) /\ s[Len(q) + n] = r[n] OBVIOUS
  <1> HIDE DEF s
  <1>3. \A n \in 1 .. Len(s) : n \in 1 .. Len(q) \/ n > Len(q) BY <1>1
  <1>4. \A n \in 1 .. Len(q) : n \in 1 .. Len(s) BY <1>1
  <1>5. \A x : x \in B!ToSet(s) <=> x \in B!ToSet(q) \/ x \in B!ToSet(r)
    <2>1. \A x : x \in B!ToSet(q) <=> \E k \in 1 .. Len(q) : q[k] = x BY Members
    <2>2. \A x : x \in B!ToSet(r) <=> \E k \in 1 .. Len(r) : r[k] = x BY Members
    <2>3. \A x : x \in B!ToSet(s) <=> \E k \in 1 .. Len(s) : s[k] = x BY <1>1, Members
    <2> QED BY <1>1, <1>2, <1>3, <1>4, <2>1, <2>2, <2>3
  <1>6. ASSUME NoDup(q), NoDup(r), B!ToSet(q) \cap B!ToSet(r) = {} PROVE NoDup(s)
    <2> SUFFICES ASSUME NEW a \in 1 .. Len(s), NEW b \in 1 .. Len(s), s[a] = s[b] PROVE a = b BY DEF NoDup
    <2>1. CASE a <= Len(q) /\ b <= Len(q) BY <1>1, <1>6, <2>1 DEF NoDup
    <2>p. a \in Nat /\ b \in Nat /\ a >= 1 /\ b >= 1 BY <1>1
    <2>i. a <= Len(q) => a \in 1 .. Len(q) /\ s[a] = q[a] BY <1>1, <2>p
    <2>j. b <= Len(q) => b \in 1 .. Len(q) /\ s[b] = q[b] BY <1>1, <2>p
    <2>k. a > Len(q) => a - Len(q) \in 1 .. Len(r) /\ s[a] = r[a - Len(q)] BY <1>1
    <2>l. b > Len(q) => b - Len(q) \in 1 .. Len(r) /\ s[b] = r[b - Len(q)] BY <1>1
    <2>x. \A x : x \in B!ToSet(q) <=> \E k \in 1 .. Len(q) : q[k] = x BY Members
    <2>y. \A x : x \in B!ToSet(r) <=> \E k \in 1 .. Len(r) : r[k] = x BY Members
    <2>2. CASE a > Len(q) /\ b > Len(q)
      <3>1. \A x, y \in 1 .. Len(r) : r[x] = r[y] => x = y BY <1>6 DEF NoDup
      <3>2. r[a - Len(q)] = r[b - Len(q)] BY <2>2, <2>k, <2>l
      <3>3. a - Len(q) = b - Len(q) BY <2>2, <2>k, <2>l, <3>1, <3>2
      <3> QED BY <1>1, <2>p, <3>3
    <2>3. CASE a <= Len(q) /\ b > Len(q)
      <3>1. s[a] \in B!ToSet(q) /\ s[b] \in B!ToSet(r) BY <2>3, <2>i, <2>l, <2>x, <2>y
      <3> QED BY <1>6, <3>1
    <2>4. CASE a > Len(q) /\ b <= Len(q)
      <3>1. s[b] \in B!ToSet(q) /\ s[a] \in B!ToSet(r) BY <2>4, <2>j, <2>k, <2>x, <2>y
      <3> QED BY <1>6, <3>1
    <2> QED BY <1>1, <2>p, <2>1, <2>2, <2>3, <2>4
  <1> QED BY <1>1, <1>5, <1>6 DEF s

LEMMA OneList ==
  ASSUME NEW i \in BrokerIds
  PROVE  <<i>> \in Seq(BrokerIds) /\ B!ToSet(<<i>>) = {i} /\ NoDup(<<i>>)
  <1>1. <<i>> \in Seq(BrokerIds) /\ Len(<<i>>) = 1 /\ <<i>>[1] = i OBVIOUS
  <1>3. \A x : x \in B!ToSet(<<i>>) <=> \E k \in 1 .. 1 : <<i>>[k] = x BY <1>1, Members
  <1>4. \A k \in 1 .. 1 : k = 1 OBVIOUS
  <1>2. \A x : x \in B!ToSet(<<i>>) <=> x = i BY <1>1, <1>3, <1>4
  <1> QED BY <1>1, <1>2 DEF NoDup

LEMMA AppendLists ==
  ASSUME NEW q \in Seq(BrokerIds), NEW i \in BrokerIds
  PROVE  /\ Append(q, i) \in Seq(BrokerIds) /\ B!ToSet(Append(q, i)) = B!ToSet(q) \cup {i}
         /\ NoDup(q) /\ i \notin B!ToSet(q) => NoDup(Append(q, i))
  <1>1. Append(q, i) = q \o <<i>> OBVIOUS
  <1>2. <<i>> \in Seq(BrokerIds) /\ B!ToSet(<<i>>) = {i} /\ NoDup(<<i>>) BY OneList
  <1>3. /\ q \o <<i>> \in Seq(BrokerIds) /\ B!ToSet(q \o <<i>>) = B!ToSet(q) \cup B!ToSet(<<i>>)
        /\ NoDup(q) /\ NoDup(<<i>>) /\ B!ToSet(q) \cap B!ToSet(<<i>>) = {} => NoDup(q \o <<i>>)
    BY <1>2, JoinLists
  <1>4. i \notin B!ToSet(q) => B!ToSet(q) \cap {i} = {} OBVIOUS
  <1> QED BY <1>1, <1>2, <1>3, <1>4

LEMMA PopFirst ==
  ASSUME NEW q \in Seq(BrokerIds), q # <<>>
  PROVE  /\ Tail(q) \in Seq(BrokerIds) /\ Head(q) \in BrokerIds /\ B!ToSet(q) = B!ToSet(Tail(q)) \cup {Head(q)}
         /\ NoDup(q) => NoDup(Tail(q)) /\ Head(q) \notin B!ToSet(Tail(q))
  <1> DEFINE t == Tail(q)
  <1>1. /\ t \in Seq(BrokerIds) /\ Len(q) \in Nat /\ Len(q) >= 1 /\ Len(t) = Len(q) - 1 /\ Head(q) = q[1]
        /\ \A n \in 1 .. Len(t) : n + 1 \in 1 .. Len(q) /\ t[n] = q[n + 1]
    OBVIOUS
  <1>2. \A n \in 1 .. Len(q) : n = 1 \/ (n - 1 \in 1 .. Len(t) /\ t[n - 1] = q[n]) OBVIOUS
  <1> HIDE DEF t
  <1>3. \A x : x \in B!ToSet(q) <=> \E k \in 1 .. Len(q) : q[k] = x BY Members
  <1>4. \A x : x \in B!ToSet(t) <=> \E k \in 1 .. Len(t) : t[k] = x BY <1>1, Members
  <1>5. Head(q) \in BrokerIds /\ 1 \in 1 .. Len(q) BY <1>1
  <1>6. \A x : x \in B!ToSet(q) <=> x \in B!ToSet(t) \/ x = Head(q) BY <1>1, <1>2, <1>3, <1>4, <1>5
  <1>7. ASSUME NoDup(q) PROVE NoDup(t) /\ Head(q) \notin B!ToSet(t)
    <2>1. \A a, b \in 1 .. Len(t) : t[a] = t[b] => a + 1 = b + 1 BY <1>1, <1>7 DEF NoDup
    <2>2. NoDup(t) BY <1>1, <2>1 DEF NoDup
    <2>3. \A n \in 1 .. Len(t) : t[n] # q[1]
      <3> SUFFICES ASSUME NEW n \in 1 .. Len(t), t[n] = q[1] PROVE FALSE OBVIOUS
      <3>1. n + 1 = 1 BY <1>1, <1>5, <1>7 DEF NoDup
      <3> QED BY <3>1
    <2> QED BY <1>1, <1>4, <2>2, <2>3
  <1> QED BY <1>1, <1>5, <1>6, <1>7 DEF t

LEMMA PopLast ==
  ASSUME NEW q \in Seq(BrokerIds), q # <<>>
  PROVE  /\ B!Front(q) \in Seq(BrokerIds) /\ B!Last(q) \in BrokerIds /\ B!ToSet(q) = B!ToSet(B!Front(q)) \cup {B!Last(q)}
         /\ NoDup(q) => NoDup(B!Front(q)) /\ B!Last(q) \notin B!ToSet(B!Front(q))
  <1> DEFINE t == B!Front(q)
  <1>1. /\ t \in Seq(BrokerIds) /\ Len(q) \in Nat /\ Len(q) >= 1 /\ Len(t) = Len(q) - 1 /\ B!Last(q) = q[Len(q)]
        /\ \A n \in 1 .. Len(t) : n \in 1 .. Len(q) /\ t[n] = q[n]
    <2>0. Len(q) \in Nat /\ Len(q) >= 1 OBVIOUS
    <2>1. t = SubSeq(q, 1, Len(q) - 1) /\ B!Last(q) = q[Len(q)] BY DEF B!Front, B!Last
    <2>2. 1 \in 1 .. Len(q) + 1 /\ Len(q) - 1 \in 0 .. Len(q) BY <2>0
    <2>3. /\ SubSeq(q, 1, Len(q) - 1) \in Seq(BrokerIds) /\ Len(SubSeq(q, 1, Len(q) - 1)) = Len(q) - 1
          /\ \A n \in 1 .. Len(q) - 1 : SubSeq(q, 1, Len(q) - 1)[n] = q[n]
      <3> DEFINE m == Len(q) - 1
      <3>0. m \in 0 .. Len(q) BY <2>2
      <3>a. /\ SubSeq(q, 1, m) \in Seq(BrokerIds)
            /\ Len(SubSeq(q, 1, m)) = IF 1 <= m THEN m - 1 + 1 ELSE 0
            /\ \A n \in 1 .. m - 1 + 1 : SubSeq(q, 1, m)[n] = q[1 + n - 1]
        <4> HIDE DEF m
        <4> QED BY <2>2, <3>0, SubSeqProperties
      <3>e. \A l \in Nat : l >= 1 => l - 1 \in Nat OBVIOUS
      <3>f. m \in Nat BY <2>0, <3>e
      <3>c. m \in Nat /\ m - 1 + 1 = m /\ (1 <= m \/ m = 0)
        <4> HIDE DEF m
        <4> QED BY <3>f
      <3>d. \A n \in 1 .. m : 1 + n - 1 = n BY <3>c
      <3>b. \A n \in 1 .. m : SubSeq(q, 1, m)[n] = q[n]
        <4> HIDE DEF m
        <4> QED BY <3>a, <3>c, <3>d
      <3> QED BY <3>a, <3>b, <3>c
    <2> QED BY <2>0, <2>1, <2>3
  <1> HIDE DEF t
  <1>2. \A n \in 1 .. Len(q) : n = Len(q) \/ (n \in 1 .. Len(t) /\ t[n] = q[n]) BY <1>1
  <1>3. \A x : x \in B!ToSet(q) <=> \E k \in 1 .. Len(q) : q[k] = x BY Members
  <1>4. \A x : x \in B!ToSet(t) <=> \E k \in 1 .. Len(t) : t[k] = x BY <1>1, Members
  <1>5. B!Last(q) \in BrokerIds /\ Len(q) \in 1 .. Len(q) BY <1>1
  <1>6. \A x : x \in B!ToSet(q) <=> x \in B!ToSet(t) \/ x = B!Last(q) BY <1>1, <1>2, <1>3, <1>4, <1>5
  <1>7. ASSUME NoDup(q) PROVE NoDup(t) /\ B!Last(q) \notin B!ToSet(t)
    <2>1. NoDup(t) BY <1>1, <1>7 DEF NoDup
    <2>2. \A n \in 1 .. Len(t) : t[n] # q[Len(q)] BY <1>1, <1>5, <1>7 DEF NoDup
    <2> QED BY <1>1, <1>4, <2>1, <2>2
  <1> QED BY <1>1, <1>5, <1>6, <1>7 DEF t

BrokerPcs == {"idle", "put", "take", "wait", "list", "promote", "pop", "popped", "set"}
CallerShape(r, kind) ==
  /\ r \in [pc : BrokerPcs, id : BrokerIds \cup {B!NoId}, listed : SUBSET BrokerIds, later : BOOLEAN, blocks : BOOLEAN,
            taken : Seq(BrokerIds), settled : BOOLEAN]
  /\ IsFiniteSet(r.listed)
  /\ r.pc \in {"put", "popped", "set"} => r.id \in BrokerIds
  /\ r.pc \in {"put", "list", "promote", "pop", "popped", "set"} => kind = "redis"
  /\ r.pc = "wait" => kind = "memory" /\ r.blocks
BrokerSettingTyped ==
  brokerSetting \in [kind : {"memory", "redis", "postgres"}, strategy : {"fifo", "lifo", "priority"},
                     priced : BOOLEAN, callers : SUBSET BrokerCallers, offers : [B!Calls -> Nat]]
BrokerListsTyped ==
  brokerQueue \in Seq(BrokerIds) /\ brokerRanked \subseteq BrokerIds /\ brokerDelayed \subseteq BrokerIds /\ brokerDue \subseteq brokerDelayed /\ IsFiniteSet(brokerDue)
BrokerLocksTyped ==
  /\ brokerLock \in [BrokerIds -> BrokerCallers \cup {B!Nobody}] /\ brokerSole \in [BrokerIds -> BrokerCallers \cup {B!Nobody}]
  /\ brokerLapsed \subseteq {i \in BrokerIds : brokerLock[i] # B!Nobody} /\ brokerPaused \in BOOLEAN
  /\ brokerHolds \in [BrokerCallers -> SUBSET BrokerIds] /\ brokerOwed \subseteq BrokerIds /\ brokerGone \subseteq BrokerIds
BrokerCallersTyped ==
  /\ DOMAIN brokerCaller = BrokerCallers /\ brokerCaller = [c \in BrokerCallers |-> brokerCaller[c]]
  /\ \A c \in BrokerCallers : CallerShape(brokerCaller[c], brokerSetting.kind)
BrokerTyped == BrokerSettingTyped /\ BrokerListsTyped /\ BrokerLocksTyped /\ BrokerCallersTyped

(* Lists other than i's entries are as they were.                           *)
SameButFor(i) ==
  \A x \in BrokerIds : x # i => /\ x \in B!ToSet(brokerQueue') <=> x \in B!ToSet(brokerQueue)
                                /\ x \in brokerRanked' <=> x \in brokerRanked
                                /\ x \in brokerDelayed' <=> x \in brokerDelayed
OnlyIn(i, where) ==
  /\ i \in B!ToSet(brokerQueue') <=> where = "queue"
  /\ i \in brokerRanked' <=> where = "ranked"
  /\ i \in brokerDelayed' <=> where = "delayed"

LEMMA DelaysDo ==
  ASSUME BrokerListsTyped, NEW i \in BrokerIds
  PROVE  /\ B!Undelayed(i) => /\ brokerDelayed' \subseteq BrokerIds /\ brokerDue' \subseteq brokerDelayed' /\ IsFiniteSet(brokerDue')
                              /\ i \notin brokerDelayed' /\ \A x \in BrokerIds : x # i => (x \in brokerDelayed' <=> x \in brokerDelayed)
         /\ B!Delayed(i) => /\ brokerDelayed' \subseteq BrokerIds /\ brokerDue' \subseteq brokerDelayed' /\ IsFiniteSet(brokerDue')
                            /\ i \in brokerDelayed' /\ \A x \in BrokerIds : x # i => (x \in brokerDelayed' <=> x \in brokerDelayed)
  <1>1. brokerDue \ {i} \in SUBSET brokerDue BY DEF BrokerListsTyped
  <1>2. IsFiniteSet(brokerDue \ {i}) BY <1>1, FS_Subset DEF BrokerListsTyped
  <1> QED BY <1>2 DEF BrokerListsTyped, B!Undelayed, B!Delayed

LEMMA PlaceDoes ==
  ASSUME BrokerListsTyped, NEW i \in BrokerIds, NEW later \in BOOLEAN, B!Place(i, later)
  PROVE  /\ BrokerListsTyped' /\ SameButFor(i) /\ (NoDup(brokerQueue) => NoDup(brokerQueue'))
         /\ OnlyIn(i, IF later THEN "delayed" ELSE IF brokerSetting.priced /\ B!Kind # "postgres" THEN "ranked" ELSE "queue")
  <1> DEFINE w == B!Without(brokerQueue, i)
             a == Append(w, i)
  <1>0. brokerQueue \in Seq(BrokerIds) BY DEF BrokerListsTyped
  <1>1. w \in Seq(BrokerIds) /\ B!ToSet(w) = B!ToSet(brokerQueue) \ {i} /\ (NoDup(brokerQueue) => NoDup(w)) BY <1>0, WithoutLists
  <1>2. a \in Seq(BrokerIds) /\ B!ToSet(a) = B!ToSet(w) \cup {i} /\ (NoDup(w) /\ i \notin B!ToSet(w) => NoDup(a))
    <2> HIDE DEF w
    <2> QED BY <1>1, AppendLists
  <1>3. \/ later /\ brokerQueue' = w /\ brokerRanked' = brokerRanked \ {i} /\ B!Delayed(i)
        \/ ~later /\ B!Undelayed(i) /\ brokerSetting.priced /\ B!Kind # "postgres" /\ brokerQueue' = w /\ brokerRanked' = brokerRanked \cup {i}
        \/ ~later /\ B!Undelayed(i) /\ ~(brokerSetting.priced /\ B!Kind # "postgres") /\ brokerQueue' = a /\ brokerRanked' = brokerRanked \ {i}
    BY Zenon DEF B!Place
  <1> HIDE DEF w, a
  <1>4. BrokerListsTyped' BY <1>1, <1>2, <1>3, DelaysDo DEF BrokerListsTyped
  <1>5. SameButFor(i) BY <1>1, <1>2, <1>3, DelaysDo DEF SameButFor
  <1>6. NoDup(brokerQueue) => NoDup(brokerQueue')
    <2>1. brokerQueue' = w \/ brokerQueue' = a BY <1>3
    <2> QED BY <1>1, <1>2, <2>1
  <1>7. OnlyIn(i, IF later THEN "delayed" ELSE IF brokerSetting.priced /\ B!Kind # "postgres" THEN "ranked" ELSE "queue")
    BY <1>1, <1>2, <1>3, DelaysDo DEF OnlyIn
  <1> QED BY <1>4, <1>5, <1>6, <1>7

LEMMA GiveBackDoes ==
  ASSUME BrokerListsTyped, NEW i \in BrokerIds, NEW later \in BOOLEAN, B!GiveBack(i, later)
  PROVE  /\ BrokerListsTyped' /\ SameButFor(i) /\ (NoDup(brokerQueue) => NoDup(brokerQueue'))
         /\ B!Kind # "postgres" => OnlyIn(i, IF later THEN "delayed" ELSE "queue")
         /\ B!Kind = "postgres" =>
              /\ brokerRanked' = brokerRanked
              /\ i \in B!ToSet(brokerQueue) \cup brokerDelayed => i \in B!ToSet(brokerQueue') \cup brokerDelayed'
              /\ i \notin B!ToSet(brokerQueue) \cup brokerDelayed => UNCHANGED B!lists
  <1> DEFINE w == B!Without(brokerQueue, i)
             a == Append(w, i)
             f == <<i>> \o w
  <1>0. brokerQueue \in Seq(BrokerIds) BY DEF BrokerListsTyped
  <1>1. w \in Seq(BrokerIds) /\ B!ToSet(w) = B!ToSet(brokerQueue) \ {i} /\ (NoDup(brokerQueue) => NoDup(w)) BY <1>0, WithoutLists
  <1>2. a \in Seq(BrokerIds) /\ B!ToSet(a) = B!ToSet(w) \cup {i} /\ (NoDup(w) /\ i \notin B!ToSet(w) => NoDup(a))
    <2> HIDE DEF w
    <2> QED BY <1>1, AppendLists
  <1>3. f \in Seq(BrokerIds) /\ B!ToSet(f) = B!ToSet(w) \cup {i} /\ (NoDup(w) /\ i \notin B!ToSet(w) => NoDup(f))
    <2> HIDE DEF w
    <2>1. <<i>> \in Seq(BrokerIds) /\ B!ToSet(<<i>>) = {i} /\ NoDup(<<i>>) BY OneList
    <2> DEFINE o == <<i>>
    <2> HIDE DEF o
    <2>2. /\ o \o w \in Seq(BrokerIds) /\ B!ToSet(o \o w) = B!ToSet(o) \cup B!ToSet(w)
          /\ NoDup(o) /\ NoDup(w) /\ B!ToSet(o) \cap B!ToSet(w) = {} => NoDup(o \o w)
      BY <1>1, <2>1, JoinLists DEF o
    <2>3. i \notin B!ToSet(w) => {i} \cap B!ToSet(w) = {} OBVIOUS
    <2> QED BY <2>1, <2>2, <2>3 DEF o
  <1>4. \/ B!Kind = "postgres" /\ i \in B!ToSet(brokerQueue) \cup brokerDelayed /\ brokerQueue' = w /\ B!Delayed(i) /\ brokerRanked' = brokerRanked
        \/ B!Kind = "postgres" /\ i \in B!ToSet(brokerQueue) \cup brokerDelayed /\ brokerQueue' = a /\ B!Undelayed(i) /\ brokerRanked' = brokerRanked
        \/ B!Kind = "postgres" /\ i \notin B!ToSet(brokerQueue) \cup brokerDelayed /\ UNCHANGED B!lists
        \/ B!Kind # "postgres" /\ later /\ brokerQueue' = w /\ brokerRanked' = brokerRanked \ {i} /\ B!Delayed(i)
        \/ B!Kind # "postgres" /\ ~later /\ brokerQueue' = f /\ brokerRanked' = brokerRanked \ {i} /\ B!Undelayed(i)
    BY Zenon DEF B!GiveBack
  <1> HIDE DEF w, a, f
  <1>5. UNCHANGED B!lists => UNCHANGED <<brokerQueue, brokerRanked, brokerDelayed, brokerDue>> BY DEF B!lists
  <1>6. BrokerListsTyped' BY <1>1, <1>2, <1>3, <1>4, <1>5, DelaysDo DEF BrokerListsTyped
  <1>7. SameButFor(i) BY <1>1, <1>2, <1>3, <1>4, <1>5, DelaysDo DEF SameButFor
  <1>8. NoDup(brokerQueue) => NoDup(brokerQueue')
    <2>1. brokerQueue' = w \/ brokerQueue' = a \/ brokerQueue' = f \/ brokerQueue' = brokerQueue BY <1>4, <1>5
    <2> QED BY <1>1, <1>2, <1>3, <2>1
  <1>9. B!Kind # "postgres" => OnlyIn(i, IF later THEN "delayed" ELSE "queue")
    BY <1>1, <1>2, <1>3, <1>4, DelaysDo DEF OnlyIn
  <1>10. B!Kind = "postgres" =>
                /\ brokerRanked' = brokerRanked
                /\ i \in B!ToSet(brokerQueue) \cup brokerDelayed => i \in B!ToSet(brokerQueue') \cup brokerDelayed'
                /\ i \notin B!ToSet(brokerQueue) \cup brokerDelayed => UNCHANGED B!lists
    BY <1>1, <1>2, <1>4, <1>5, DelaysDo
  <1> QED BY <1>6, <1>7, <1>8, <1>9, <1>10

LEMMA PurgeDoes ==
  ASSUME BrokerListsTyped, NEW i \in BrokerIds, B!Purge(i)
  PROVE  BrokerListsTyped' /\ SameButFor(i) /\ (NoDup(brokerQueue) => NoDup(brokerQueue')) /\ OnlyIn(i, "nowhere")
  <1> DEFINE w == B!Without(brokerQueue, i)
  <1>0. brokerQueue \in Seq(BrokerIds) BY DEF BrokerListsTyped
  <1>1. w \in Seq(BrokerIds) /\ B!ToSet(w) = B!ToSet(brokerQueue) \ {i} /\ (NoDup(brokerQueue) => NoDup(w)) BY <1>0, WithoutLists
  <1>2. brokerQueue' = w /\ brokerRanked' = brokerRanked \ {i} /\ B!Undelayed(i) BY DEF B!Purge
  <1> HIDE DEF w
  <1>3. BrokerListsTyped' BY <1>1, <1>2, DelaysDo DEF BrokerListsTyped
  <1>4. SameButFor(i) BY <1>1, <1>2, DelaysDo DEF SameButFor
  <1>5. OnlyIn(i, "nowhere") BY <1>1, <1>2, DelaysDo DEF OnlyIn
  <1> QED BY <1>1, <1>2, <1>3, <1>4, <1>5

(* Taking an id off a list.                                                 *)
LEMMA PopDoes ==
  ASSUME ~B!Priority, NEW q \in Seq(BrokerIds), NEW r, NEW i \in B!Takable(q, r)
  PROVE  /\ B!Pop(q, i) \in Seq(BrokerIds) /\ i \in BrokerIds /\ B!ToSet(q) = B!ToSet(B!Pop(q, i)) \cup {i}
         /\ NoDup(q) => NoDup(B!Pop(q, i)) /\ i \notin B!ToSet(B!Pop(q, i))
  <1>1. q # <<>> /\ i = IF brokerSetting.strategy = "fifo" THEN Head(q) ELSE B!Last(q) BY DEF B!Takable
  <1>2. B!Pop(q, i) = IF brokerSetting.strategy = "fifo" THEN Tail(q) ELSE B!Front(q) BY DEF B!Pop
  <1>3. CASE brokerSetting.strategy = "fifo"
    <2>1. i = Head(q) /\ B!Pop(q, i) = Tail(q) BY <1>1, <1>2, <1>3
    <2> QED BY <1>1, <2>1, PopFirst, Zenon
  <1>4. CASE brokerSetting.strategy # "fifo"
    <2>1. i = B!Last(q) /\ B!Pop(q, i) = B!Front(q) BY <1>1, <1>2, <1>4
    <2> QED BY <1>1, <2>1, PopLast, Zenon
  <1> QED BY <1>3, <1>4

LEMMA TakeDoes ==
  ASSUME BrokerListsTyped, NEW c, NEW i \in BrokerIds, B!MemoryTake(c, i)
  PROVE  /\ BrokerListsTyped' /\ brokerDue' = {} /\ brokerDelayed' = brokerDelayed \ brokerDue /\ B!Handed(c, i) /\ ~brokerPaused
         /\ B!Priority => B!ToSet(brokerQueue') = B!ToSet(brokerQueue) /\ (NoDup(brokerQueue) => NoDup(brokerQueue'))
                          /\ i \in brokerRanked \cup brokerDue /\ brokerRanked' = (brokerRanked \cup brokerDue) \ {i}
         /\ ~B!Priority => /\ brokerRanked' = brokerRanked /\ B!ToSet(brokerQueue) \cup brokerDue = B!ToSet(brokerQueue') \cup {i}
                           /\ NoDup(brokerQueue) /\ B!ToSet(brokerQueue) \cap brokerDue = {} => NoDup(brokerQueue') /\ i \notin B!ToSet(brokerQueue')
  <1>0. brokerQueue \in Seq(BrokerIds) /\ brokerDue \subseteq BrokerIds /\ IsFiniteSet(brokerDue) BY DEF BrokerListsTyped
  <1>e. IsFiniteSet({}) BY FS_EmptySet
  <1>1. /\ i \in B!Takable(B!Waiting, B!Ranked) /\ ~brokerPaused /\ B!Handed(c, i)
        /\ brokerQueue' = B!Pop(B!Waiting, i) /\ brokerRanked' = IF B!Priority THEN B!Ranked \ {i} ELSE B!Ranked
        /\ brokerDelayed' = brokerDelayed \ brokerDue /\ brokerDue' = {}
    BY Zenon DEF B!MemoryTake, B!Promote
  <1>2. CASE B!Priority
    <2>1. i \in brokerRanked \cup brokerDue /\ brokerQueue' = brokerQueue /\ brokerRanked' = (brokerRanked \cup brokerDue) \ {i}
      BY <1>1, <1>2 DEF B!Takable, B!Pop, B!Ranked, B!Waiting
    <2> QED BY <1>0, <1>e, <1>1, <1>2, <2>1 DEF BrokerListsTyped
  <1>3. CASE ~B!Priority
    <2> DEFINE d == B!SetToSeq(brokerDue)
               w == brokerQueue \o d
    <2>1. d \in Seq(brokerDue) /\ B!ToSet(d) = brokerDue /\ NoDup(d) BY <1>0, SetToSeqLists
    <2>2. d \in Seq(BrokerIds)
      <3> HIDE DEF d
      <3> QED BY <1>0, <2>1
    <2>3. /\ w \in Seq(BrokerIds) /\ B!ToSet(w) = B!ToSet(brokerQueue) \cup brokerDue
          /\ NoDup(brokerQueue) /\ B!ToSet(brokerQueue) \cap brokerDue = {} => NoDup(w)
      <3> HIDE DEF d
      <3> QED BY <1>0, <2>1, <2>2, JoinLists
    <2>4. B!Waiting = w /\ brokerRanked' = brokerRanked BY <1>1, <1>3 DEF B!Waiting, B!Ranked
    <2> HIDE DEF w
    <2>5. /\ B!Pop(w, i) \in Seq(BrokerIds) /\ B!ToSet(w) = B!ToSet(B!Pop(w, i)) \cup {i}
          /\ NoDup(w) => NoDup(B!Pop(w, i)) /\ i \notin B!ToSet(B!Pop(w, i))
      BY <1>1, <1>3, <2>3, <2>4, PopDoes
    <2>6. brokerQueue' = B!Pop(w, i) BY <1>1, <2>4
    <2> HIDE DEF d
    <2>7. BrokerListsTyped' BY <1>0, <1>e, <1>1, <2>4, <2>5, <2>6 DEF BrokerListsTyped
    <2> QED BY <1>1, <1>3, <2>3, <2>4, <2>5, <2>6, <2>7
  <1> QED BY <1>2, <1>3

LEMMA PromoteDueDoes ==
  ASSUME BrokerListsTyped, BrokerCallersTyped, NEW c \in BrokerCallers, B!PromoteDue(c)
  PROVE  /\ BrokerListsTyped' /\ brokerRanked \subseteq brokerRanked' /\ B!ToSet(brokerQueue) \subseteq B!ToSet(brokerQueue') /\ brokerDue' \subseteq brokerDelayed'
         /\ brokerDelayed' = brokerDelayed \ (brokerCaller[c].listed \cap brokerDue)
         /\ B!Priority => brokerQueue' = brokerQueue /\ brokerCaller[c].listed \subseteq brokerRanked'
         /\ ~B!Priority => brokerRanked' = brokerRanked /\ brokerCaller[c].listed \subseteq B!ToSet(brokerQueue')
  <1> DEFINE l == brokerCaller[c].listed
             d == B!SetToSeq(l)
             w == brokerQueue \o d
  <1>0. brokerQueue \in Seq(BrokerIds) /\ l \subseteq BrokerIds /\ IsFiniteSet(l) BY DEF BrokerListsTyped, BrokerCallersTyped, CallerShape
  <1>1. /\ brokerQueue' = IF B!Priority THEN brokerQueue ELSE w
        /\ brokerRanked' = IF B!Priority THEN brokerRanked \cup l ELSE brokerRanked
        /\ brokerDelayed' = brokerDelayed \ (l \cap brokerDue) /\ brokerDue' = brokerDue \ l
    BY Zenon DEF B!PromoteDue
  <1>2. d \in Seq(l) /\ B!ToSet(d) = l
    <2> HIDE DEF l
    <2> QED BY <1>0, SetToSeqLists
  <1> HIDE DEF d, l
  <1>3. d \in Seq(BrokerIds) BY <1>0, <1>2
  <1>4. w \in Seq(BrokerIds) /\ B!ToSet(w) = B!ToSet(brokerQueue) \cup l BY <1>0, <1>2, <1>3, JoinLists
  <1> HIDE DEF w
  <1>5. IsFiniteSet(brokerDue \ l)
    <2>1. brokerDue \ l \in SUBSET brokerDue OBVIOUS
    <2> QED BY <2>1, FS_Subset DEF BrokerListsTyped
  <1>6. brokerQueue' \in Seq(BrokerIds) /\ brokerRanked' \subseteq BrokerIds /\ brokerDelayed' \subseteq BrokerIds /\ brokerDue' \subseteq brokerDelayed' /\ IsFiniteSet(brokerDue')
    BY <1>0, <1>1, <1>4, <1>5 DEF BrokerListsTyped
  <1>7. BrokerListsTyped' BY <1>6 DEF BrokerListsTyped
  <1> QED BY <1>1, <1>4, <1>6, <1>7 DEF l

LEMMA PushDoes ==
  ASSUME brokerQueue \in Seq(BrokerIds), NEW i \in BrokerIds, B!Push(i)
  PROVE  brokerQueue' \in Seq(BrokerIds) /\ B!ToSet(brokerQueue') = B!ToSet(brokerQueue) \cup {i}
  <1> DEFINE o == <<i>>
  <1>1. o \in Seq(BrokerIds) /\ B!ToSet(o) = {i} BY OneList
  <1>2. brokerQueue' = Append(brokerQueue, i) \/ brokerQueue' = o \o brokerQueue BY DEF B!Push
  <1>3. Append(brokerQueue, i) \in Seq(BrokerIds) /\ B!ToSet(Append(brokerQueue, i)) = B!ToSet(brokerQueue) \cup {i} BY AppendLists
  <1> HIDE DEF o
  <1>4. o \o brokerQueue \in Seq(BrokerIds) /\ B!ToSet(o \o brokerQueue) = B!ToSet(o) \cup B!ToSet(brokerQueue) BY <1>1, JoinLists
  <1> QED BY <1>1, <1>2, <1>3, <1>4

-----------------------------------------------------------------------------
LEMMA BrokerSettingStays ==
  ASSUME BrokerSettingTyped, \/ UNCHANGED brokerSetting
                             \/ \E call \in B!Calls : B!Offered(call)
  PROVE  /\ BrokerSettingTyped' /\ brokerSetting'.kind = brokerSetting.kind /\ brokerSetting'.strategy = brokerSetting.strategy
         /\ brokerSetting'.priced = brokerSetting.priced /\ brokerSetting'.callers = brokerSetting.callers
         /\ \A k \in B!Calls : brokerSetting.offers[k] = 0 => brokerSetting'.offers[k] = 0
  <1>1. CASE UNCHANGED brokerSetting BY <1>1 DEF BrokerSettingTyped
  <1>2. ASSUME NEW call \in B!Calls, B!Offered(call)
        PROVE  /\ BrokerSettingTyped' /\ brokerSetting'.kind = brokerSetting.kind /\ brokerSetting'.strategy = brokerSetting.strategy
               /\ brokerSetting'.priced = brokerSetting.priced /\ brokerSetting'.callers = brokerSetting.callers
               /\ \A k \in B!Calls : brokerSetting.offers[k] = 0 => brokerSetting'.offers[k] = 0
    <2> DEFINE o == [brokerSetting.offers EXCEPT ![call] = @ - 1]
    <2>1. brokerSetting' = [brokerSetting EXCEPT !.offers = o] /\ brokerSetting.offers[call] > 0 BY <1>2 DEF B!Offered
    <2>2. brokerSetting.offers \in [B!Calls -> Nat] BY DEF BrokerSettingTyped
    <2>3. o \in [B!Calls -> Nat] /\ \A k \in B!Calls : brokerSetting.offers[k] = 0 => o[k] = 0 BY <2>1, <2>2
    <2> HIDE DEF o
    <2>4. brokerSetting'.offers = o BY <2>1 DEF BrokerSettingTyped
    <2> QED BY <2>1, <2>3, <2>4 DEF BrokerSettingTyped
  <1> QED BY <1>1, <1>2

LEMMA BrokerOneCallerTyped ==
  ASSUME BrokerCallersTyped, NEW c \in BrokerCallers, brokerCaller' = [brokerCaller EXCEPT ![c] = brokerCaller'[c]],
         CallerShape(brokerCaller'[c], brokerSetting.kind), brokerSetting'.kind = brokerSetting.kind
  PROVE  BrokerCallersTyped'
  <1>1. DOMAIN brokerCaller' = BrokerCallers /\ brokerCaller' = [d \in BrokerCallers |-> brokerCaller'[d]] BY DEF BrokerCallersTyped
  <1>2. \A d \in BrokerCallers : d # c => brokerCaller'[d] = brokerCaller[d] BY DEF BrokerCallersTyped
  <1>3. \A d \in BrokerCallers : CallerShape(brokerCaller'[d], brokerSetting'.kind) BY <1>2 DEF BrokerCallersTyped
  <1> QED BY <1>1, <1>3 DEF BrokerCallersTyped

LEMMA BrokerIdleShape ==
  ASSUME NEW kind
  PROVE  CallerShape(B!Idle, kind)
  <1>1. IsFiniteSet({}) BY FS_EmptySet
  <1>2. B!Idle.pc = "idle" /\ B!Idle.listed = {} BY DEF B!Idle
  <1>3. B!Idle \in [pc : BrokerPcs, id : BrokerIds \cup {B!NoId}, listed : SUBSET BrokerIds, later : BOOLEAN, blocks : BOOLEAN,
            taken : Seq(BrokerIds), settled : BOOLEAN] BY DEF B!Idle, BrokerPcs
  <1> QED BY <1>1, <1>2, <1>3 DEF CallerShape

LEMMA BrokerEndsTyped ==
  ASSUME BrokerCallersTyped, NEW c \in BrokerCallers, B!Ends(c), brokerSetting'.kind = brokerSetting.kind
  PROVE  BrokerCallersTyped' /\ brokerCaller'[c] = B!Idle /\ \A d \in BrokerCallers : d # c => brokerCaller'[d] = brokerCaller[d]
  <1>1. brokerCaller' = [brokerCaller EXCEPT ![c] = B!Idle] BY DEF B!Ends
  <1>2. brokerCaller'[c] = B!Idle BY <1>1 DEF BrokerCallersTyped
  <1>3. \A d \in BrokerCallers : d # c => brokerCaller'[d] = brokerCaller[d] BY <1>1 DEF BrokerCallersTyped
  <1> QED BY <1>1, <1>2, <1>3, BrokerIdleShape, BrokerOneCallerTyped

LEMMA BrokerPublishTyped ==
  ASSUME BrokerTyped, B!Assumption, NEW c \in BrokerCallers, NEW i \in BrokerIds, NEW call \in {"publish", "later"}, B!Publish(c, i, call)
  PROVE  /\ BrokerTyped'
         /\ B!Kind = "redis" => /\ brokerCaller'[c].pc = "put" /\ brokerCaller'[c].id = i
                                /\ \A d \in BrokerCallers : d # c => brokerCaller'[d] = brokerCaller[d]
  <1> DEFINE b == call = "later"
             r == [B!Idle EXCEPT !.pc = "put", !.id = i, !.later = b]
  <1>a. B!Offered(call) /\ call \in B!Calls BY DEF B!Publish, B!Calls
  <1>1. BrokerSettingTyped' /\ brokerSetting'.kind = brokerSetting.kind BY <1>a, BrokerSettingStays DEF BrokerTyped
  <1>2. CASE B!Kind = "redis"
    <2>1. /\ B!Purge(i) /\ brokerGone' = brokerGone \ {i} /\ brokerCaller' = [brokerCaller EXCEPT ![c] = r]
          /\ UNCHANGED <<brokerOwed, brokerSole, brokerLock, brokerLapsed, brokerPaused, brokerHolds>>
      BY <1>2 DEF B!Publish
    <2>2. BrokerListsTyped' BY <2>1, PurgeDoes DEF BrokerTyped
    <2>3. BrokerLocksTyped' BY <2>1 DEF BrokerTyped, BrokerLocksTyped
    <2>4. r.pc = "put" /\ r.id = i /\ CallerShape(r, brokerSetting.kind)
      <3>1. IsFiniteSet({}) BY FS_EmptySet
      <3>3. b \in BOOLEAN OBVIOUS
      <3> HIDE DEF b
      <3>a. B!Idle \in [pc : BrokerPcs, id : BrokerIds \cup {B!NoId}, listed : SUBSET BrokerIds, later : BOOLEAN, blocks : BOOLEAN,
            taken : Seq(BrokerIds), settled : BOOLEAN] /\ B!Idle.listed = {} BY BrokerIdleShape DEF CallerShape, B!Idle
      <3>2. r.pc = "put" /\ r.id = i /\ r.listed = {} BY <3>a
      <3>4. r \in [pc : BrokerPcs, id : BrokerIds \cup {B!NoId}, listed : SUBSET BrokerIds, later : BOOLEAN, blocks : BOOLEAN,
            taken : Seq(BrokerIds), settled : BOOLEAN] BY <3>a, <3>3 DEF BrokerPcs
      <3> QED BY <1>2, <3>1, <3>2, <3>4 DEF CallerShape, B!Kind
    <2> HIDE DEF r
    <2>5. brokerCaller'[c] = r /\ \A d \in BrokerCallers : d # c => brokerCaller'[d] = brokerCaller[d] BY <2>1 DEF BrokerTyped, BrokerCallersTyped
    <2>6. BrokerCallersTyped' BY <1>1, <2>1, <2>4, <2>5, BrokerOneCallerTyped DEF BrokerTyped
    <2> QED BY <1>1, <2>2, <2>3, <2>4, <2>5, <2>6 DEF BrokerTyped
  <1>3. CASE B!Kind # "redis"
    <2>1. /\ B!Place(i, call = "later") /\ B!Published(i) /\ UNCHANGED <<brokerCaller, brokerPaused, brokerHolds>>
          /\ B!Unlock(i) \/ UNCHANGED <<brokerLock, brokerLapsed>>
      BY <1>3 DEF B!Publish
    <2>2. (call = "later") \in BOOLEAN OBVIOUS
    <2>3. BrokerListsTyped' BY <2>1, <2>2, PlaceDoes DEF BrokerTyped
    <2>4. brokerOwed' = brokerOwed \cup {i} /\ brokerGone' = brokerGone \ {i} /\ B!Release(i) BY <1>3, <2>1 DEF B!Published
    <2>5. BrokerLocksTyped' BY <2>1, <2>4 DEF BrokerTyped, BrokerLocksTyped, B!Release, B!Unlock
    <2>6. BrokerCallersTyped' BY <1>1, <2>1 DEF BrokerTyped, BrokerCallersTyped
    <2> QED BY <1>1, <1>3, <2>3, <2>5, <2>6 DEF BrokerTyped
  <1> QED BY <1>2, <1>3

LEMMA BrokerPutTyped ==
  ASSUME BrokerTyped, B!Assumption, NEW c \in BrokerCallers, B!Put(c)
  PROVE  BrokerTyped' /\ B!Ends(c) /\ brokerCaller[c].id \in BrokerIds /\ B!Kind = "redis" /\ brokerCaller[c].later \in BOOLEAN
  <1>1. brokerCaller[c].id \in BrokerIds /\ B!Kind = "redis" /\ brokerCaller[c].later \in BOOLEAN BY DEF B!Put, BrokerTyped, BrokerCallersTyped, CallerShape, B!Kind
  <1>2. /\ B!Place(brokerCaller[c].id, brokerCaller[c].later) /\ B!Published(brokerCaller[c].id) /\ B!Ends(c)
        /\ UNCHANGED <<brokerSetting, brokerLock, brokerLapsed, brokerPaused, brokerHolds>>
    BY DEF B!Put, B!Ends
  <1>3. BrokerListsTyped' BY <1>1, <1>2, PlaceDoes DEF BrokerTyped
  <1>4. BrokerLocksTyped' BY <1>1, <1>2 DEF BrokerTyped, BrokerLocksTyped, B!Published
  <1>5. BrokerCallersTyped' BY <1>2, BrokerEndsTyped DEF BrokerTyped
  <1> QED BY <1>1, <1>2, <1>3, <1>4, <1>5, BrokerSettingStays DEF BrokerTyped

LEMMA BrokerHandedTyped ==
  ASSUME BrokerLocksTyped, NEW c \in BrokerCallers, NEW i \in BrokerIds, B!Handed(c, i), UNCHANGED brokerPaused,
         B!Keeps(c, i) \/ UNCHANGED brokerHolds
  PROVE  BrokerLocksTyped'
  BY DEF BrokerLocksTyped, B!Handed, B!Keeps

LEMMA BrokerStartTyped ==
  ASSUME BrokerTyped, B!Assumption, NEW c \in BrokerCallers, NEW call \in {"claim", "block"}, B!Start(c, call)
  PROVE  /\ BrokerTyped' /\ brokerCaller'[c].pc \in {"list", "take"} /\ (brokerCaller'[c].blocks => call = "block")
         /\ \A d \in BrokerCallers : d # c => brokerCaller'[d] = brokerCaller[d]
  <1> DEFINE b == call = "block"
             p == IF B!Kind = "redis" THEN "list" ELSE "take"
             r == [B!Idle EXCEPT !.pc = p, !.blocks = b]
  <1>a. B!Offered(call) /\ call \in B!Calls BY DEF B!Start, B!Calls
  <1>1. BrokerSettingTyped' /\ brokerSetting'.kind = brokerSetting.kind BY <1>a, BrokerSettingStays DEF BrokerTyped
  <1>2. brokerCaller' = [brokerCaller EXCEPT ![c] = r] /\ UNCHANGED <<B!lists, brokerLock, brokerLapsed, brokerPaused, brokerHolds, B!histories>>
    BY DEF B!Start
  <1>3. r.pc \in {"list", "take"} /\ (r.blocks => call = "block") /\ CallerShape(r, brokerSetting.kind)
    <2>1. IsFiniteSet({}) BY FS_EmptySet
    <2>3. b \in BOOLEAN /\ (b => call = "block") /\ p \in {"list", "take"} /\ (p = "list" => B!Kind = "redis") OBVIOUS
    <2> HIDE DEF b, p
    <2>a. B!Idle \in [pc : BrokerPcs, id : BrokerIds \cup {B!NoId}, listed : SUBSET BrokerIds, later : BOOLEAN, blocks : BOOLEAN,
            taken : Seq(BrokerIds), settled : BOOLEAN] /\ B!Idle.listed = {} BY BrokerIdleShape DEF CallerShape, B!Idle
    <2>2. r.pc = p /\ r.blocks = b /\ r.listed = {} BY <2>a
    <2>4. r \in [pc : BrokerPcs, id : BrokerIds \cup {B!NoId}, listed : SUBSET BrokerIds, later : BOOLEAN, blocks : BOOLEAN,
            taken : Seq(BrokerIds), settled : BOOLEAN] BY <2>a, <2>3 DEF BrokerPcs
    <2> QED BY <2>1, <2>2, <2>3, <2>4 DEF CallerShape, B!Kind
  <1> HIDE DEF r
  <1>4. brokerCaller'[c] = r /\ \A d \in BrokerCallers : d # c => brokerCaller'[d] = brokerCaller[d] BY <1>2 DEF BrokerTyped, BrokerCallersTyped
  <1>5. BrokerCallersTyped' BY <1>1, <1>2, <1>3, <1>4, BrokerOneCallerTyped DEF BrokerTyped
  <1>6. BrokerListsTyped' BY <1>2 DEF BrokerTyped, BrokerListsTyped, B!lists
  <1>7. BrokerLocksTyped' BY <1>2 DEF BrokerTyped, BrokerLocksTyped, B!histories
  <1> QED BY <1>1, <1>3, <1>4, <1>5, <1>6, <1>7 DEF BrokerTyped

LEMMA BrokerTakeTyped ==
  ASSUME BrokerTyped, B!Assumption, NEW c \in BrokerCallers, B!Take(c)
  PROVE  /\ BrokerTyped' /\ B!Kind = "memory" /\ brokerCaller'[c].pc \in {"idle", "wait"}
         /\ brokerCaller'[c].pc = "wait" => brokerCaller[c].blocks
         /\ brokerCaller[c].pc = "take" /\ \A d \in BrokerCallers : d # c => brokerCaller'[d] = brokerCaller[d]
  <1>0. /\ brokerCaller[c].pc = "take" /\ B!Kind = "memory" /\ UNCHANGED <<brokerSetting, brokerPaused>> BY DEF B!Take
  <1>1. BrokerSettingTyped' BY <1>0, BrokerSettingStays DEF BrokerTyped
  <1>2. CASE \E i \in BrokerIds : B!MemoryTake(c, i) /\ B!Keeps(c, i) /\ B!Ends(c)
    <2> PICK i \in BrokerIds : B!MemoryTake(c, i) /\ B!Keeps(c, i) /\ B!Ends(c) BY <1>2
    <2>1. BrokerListsTyped' /\ B!Handed(c, i) BY TakeDoes DEF BrokerTyped
    <2>2. BrokerLocksTyped' BY <1>0, <2>1, BrokerHandedTyped DEF BrokerTyped
    <2>3. BrokerCallersTyped' /\ brokerCaller'[c] = B!Idle /\ \A d \in BrokerCallers : d # c => brokerCaller'[d] = brokerCaller[d]
      BY <1>0, BrokerEndsTyped DEF BrokerTyped
    <2> QED BY <1>0, <1>1, <2>1, <2>2, <2>3 DEF BrokerTyped, B!Idle
  <1>3. CASE ~ \E i \in BrokerIds : B!MemoryTake(c, i) /\ B!Keeps(c, i) /\ B!Ends(c)
    <2>1. /\ brokerCaller' = [brokerCaller EXCEPT ![c] = IF @.blocks THEN [@ EXCEPT !.pc = "wait"] ELSE B!Idle]
          /\ UNCHANGED <<B!lists, brokerLock, brokerLapsed, brokerHolds, B!histories>>
      BY <1>3 DEF B!Take
    <2> DEFINE r == IF brokerCaller[c].blocks THEN [brokerCaller[c] EXCEPT !.pc = "wait"] ELSE B!Idle
    <2>2. brokerCaller' = [brokerCaller EXCEPT ![c] = r] BY <2>1
    <2>3. brokerCaller'[c] = r /\ \A d \in BrokerCallers : d # c => brokerCaller'[d] = brokerCaller[d] BY <2>2 DEF BrokerTyped, BrokerCallersTyped
    <2>4. CallerShape(brokerCaller[c], brokerSetting.kind) BY DEF BrokerTyped, BrokerCallersTyped
    <2>5. CallerShape(r, brokerSetting.kind) /\ r.pc \in {"idle", "wait"} /\ (r.pc = "wait" => brokerCaller[c].blocks)
      <3>1. CASE brokerCaller[c].blocks
        <4>1. r = [brokerCaller[c] EXCEPT !.pc = "wait"] BY <3>1
        <4>2. /\ r.pc = "wait" /\ r.blocks = brokerCaller[c].blocks /\ r.listed = brokerCaller[c].listed
              /\ r \in [pc : BrokerPcs, id : BrokerIds \cup {B!NoId}, listed : SUBSET BrokerIds, later : BOOLEAN, blocks : BOOLEAN,
                        taken : Seq(BrokerIds), settled : BOOLEAN]
          BY <2>4, <4>1 DEF CallerShape, BrokerPcs
        <4> QED BY <1>0, <2>4, <3>1, <4>2 DEF CallerShape, B!Kind
      <3>2. CASE ~brokerCaller[c].blocks BY <3>2, BrokerIdleShape DEF B!Idle
      <3> QED BY <3>1, <3>2
    <2> HIDE DEF r
    <2>6. BrokerCallersTyped' BY <1>0, <2>2, <2>3, <2>5, BrokerOneCallerTyped DEF BrokerTyped
    <2>7. BrokerListsTyped' BY <2>1 DEF BrokerTyped, BrokerListsTyped, B!lists
    <2>8. BrokerLocksTyped' BY <1>0, <2>1 DEF BrokerTyped, BrokerLocksTyped, B!histories
    <2> QED BY <1>0, <1>1, <2>3, <2>5, <2>6, <2>7, <2>8 DEF BrokerTyped
  <1> QED BY <1>2, <1>3

(* A wait whose taken ids change.                                           *)
LEMMA BrokerWaitTyped ==
  ASSUME BrokerTyped, NEW c \in BrokerCallers, NEW s \in BOOLEAN, NEW t \in Seq(BrokerIds), brokerCaller[c].pc = "wait",
         brokerCaller' = [brokerCaller EXCEPT ![c] = [brokerCaller[c] EXCEPT !.settled = s, !.taken = t]], UNCHANGED brokerSetting
  PROVE  /\ BrokerCallersTyped' /\ brokerCaller'[c].pc = "wait" /\ brokerCaller'[c].taken = t /\ B!Kind = "memory"
         /\ \A d \in BrokerCallers : d # c => brokerCaller'[d] = brokerCaller[d]
  <1> DEFINE r == [brokerCaller[c] EXCEPT !.settled = s, !.taken = t]
  <1>1. CallerShape(brokerCaller[c], brokerSetting.kind) BY DEF BrokerTyped, BrokerCallersTyped
  <1>2. /\ r.pc = brokerCaller[c].pc /\ r.taken = t /\ r.blocks = brokerCaller[c].blocks /\ r.listed = brokerCaller[c].listed /\ r.id = brokerCaller[c].id
        /\ r \in [pc : BrokerPcs, id : BrokerIds \cup {B!NoId}, listed : SUBSET BrokerIds, later : BOOLEAN, blocks : BOOLEAN,
                  taken : Seq(BrokerIds), settled : BOOLEAN]
    BY <1>1 DEF CallerShape
  <1>3. brokerCaller' = [brokerCaller EXCEPT ![c] = r] OBVIOUS
  <1> HIDE DEF r
  <1>4. brokerCaller'[c] = r /\ \A d \in BrokerCallers : d # c => brokerCaller'[d] = brokerCaller[d] BY <1>3 DEF BrokerTyped, BrokerCallersTyped
  <1>5. CallerShape(r, brokerSetting.kind) BY <1>1, <1>2 DEF CallerShape
  <1>6. BrokerCallersTyped' BY <1>3, <1>4, <1>5, BrokerOneCallerTyped DEF BrokerTyped
  <1>7. B!Kind = "memory" BY <1>1 DEF CallerShape, B!Kind
  <1> QED BY <1>2, <1>4, <1>6, <1>7

LEMMA BrokerReadyTyped ==
  ASSUME BrokerTyped, B!Assumption, NEW c \in BrokerCallers, B!Ready(c)
  PROVE  /\ BrokerTyped' /\ B!Kind = "memory" /\ brokerCaller[c].pc = "wait" /\ brokerCaller'[c].pc = "wait"
         /\ \A d \in BrokerCallers : d # c => brokerCaller'[d] = brokerCaller[d]
         /\ \E i \in BrokerIds : B!MemoryTake(c, i) /\ brokerCaller[c].taken \in Seq(BrokerIds) /\ brokerCaller'[c].taken = Append(brokerCaller[c].taken, i)
  <1> PICK i \in BrokerIds : B!MemoryTake(c, i) /\ brokerCaller' = [brokerCaller EXCEPT ![c].taken = Append(@, i)] BY DEF B!Ready
  <1>0. brokerCaller[c].pc = "wait" /\ ~brokerCaller[c].settled /\ UNCHANGED <<brokerSetting, brokerPaused, brokerHolds>> BY DEF B!Ready
  <1>1. BrokerListsTyped' /\ B!Handed(c, i) BY TakeDoes DEF BrokerTyped
  <1>2. BrokerLocksTyped' BY <1>0, <1>1, BrokerHandedTyped DEF BrokerTyped
  <1>3. brokerCaller[c] \in [pc : BrokerPcs, id : BrokerIds \cup {B!NoId}, listed : SUBSET BrokerIds, later : BOOLEAN, blocks : BOOLEAN,
                        taken : Seq(BrokerIds), settled : BOOLEAN] BY DEF BrokerTyped, BrokerCallersTyped, CallerShape
  <1> DEFINE t == Append(brokerCaller[c].taken, i)
  <1>4. t \in Seq(BrokerIds) /\ brokerCaller[c].settled \in BOOLEAN /\ brokerCaller[c].taken \in Seq(BrokerIds) BY <1>3, AppendLists
  <1>5. brokerCaller' = [brokerCaller EXCEPT ![c] = [brokerCaller[c] EXCEPT !.taken = t]] BY DEF BrokerTyped, BrokerCallersTyped
  <1>6. [brokerCaller[c] EXCEPT !.taken = t] = [brokerCaller[c] EXCEPT !.settled = brokerCaller[c].settled, !.taken = t]
    <2> HIDE DEF t
    <2> QED BY <1>3
  <1>7. brokerCaller' = [brokerCaller EXCEPT ![c] = [brokerCaller[c] EXCEPT !.settled = brokerCaller[c].settled, !.taken = t]] BY <1>5, <1>6
  <1> HIDE DEF t
  <1>8. BrokerCallersTyped' /\ brokerCaller'[c].pc = "wait" /\ brokerCaller'[c].taken = t /\ B!Kind = "memory"
        /\ \A d \in BrokerCallers : d # c => brokerCaller'[d] = brokerCaller[d]
    BY <1>0, <1>4, <1>7, BrokerWaitTyped
  <1>9. BrokerSettingTyped' BY <1>0, BrokerSettingStays DEF BrokerTyped
  <1> QED BY <1>0, <1>1, <1>2, <1>4, <1>8, <1>9 DEF BrokerTyped, t

LEMMA BrokerResolveTyped ==
  ASSUME BrokerTyped, B!Assumption, NEW c \in BrokerCallers, B!Resolve(c)
  PROVE  /\ BrokerTyped' /\ B!Kind = "memory" /\ brokerCaller[c].pc = "wait" /\ brokerCaller'[c].pc = "wait"
         /\ \A d \in BrokerCallers : d # c => brokerCaller'[d] = brokerCaller[d]
         /\ Head(brokerCaller[c].taken) \in BrokerIds /\ brokerCaller[c].taken \in Seq(BrokerIds)
         /\ B!ToSet(brokerCaller[c].taken) = B!ToSet(brokerCaller'[c].taken) \cup {Head(brokerCaller[c].taken)}
  <1> DEFINE i == Head(brokerCaller[c].taken)
             t == Tail(brokerCaller[c].taken)
  <1>0. /\ brokerCaller[c].pc = "wait" /\ brokerCaller[c].taken # <<>> /\ UNCHANGED <<brokerSetting, brokerPaused>>
        /\ brokerCaller' = [brokerCaller EXCEPT ![c].settled = TRUE, ![c].taken = Tail(@)]
        /\ \/ B!GiveBack(i, FALSE) /\ B!Unlock(i) /\ B!Release(i) /\ UNCHANGED <<brokerHolds, brokerOwed, brokerGone>>
           \/ B!Keeps(c, i) /\ UNCHANGED <<B!lists, brokerLock, brokerLapsed, B!histories>>
    BY Zenon DEF B!Resolve
  <1>1. brokerCaller[c] \in [pc : BrokerPcs, id : BrokerIds \cup {B!NoId}, listed : SUBSET BrokerIds, later : BOOLEAN, blocks : BOOLEAN,
                        taken : Seq(BrokerIds), settled : BOOLEAN] BY DEF BrokerTyped, BrokerCallersTyped, CallerShape
  <1>2. brokerCaller[c].taken \in Seq(BrokerIds) BY <1>1
  <1>3. i \in BrokerIds /\ t \in Seq(BrokerIds) /\ B!ToSet(brokerCaller[c].taken) = B!ToSet(t) \cup {i} BY <1>0, <1>2, PopFirst
  <1>4. brokerCaller' = [brokerCaller EXCEPT ![c] = [brokerCaller[c] EXCEPT !.settled = TRUE, !.taken = t]]
    BY <1>0, <1>1 DEF BrokerTyped, BrokerCallersTyped
  <1> HIDE DEF i, t
  <1>5. BrokerCallersTyped' /\ brokerCaller'[c].pc = "wait" /\ brokerCaller'[c].taken = t /\ B!Kind = "memory"
        /\ \A d \in BrokerCallers : d # c => brokerCaller'[d] = brokerCaller[d]
    BY <1>0, <1>3, <1>4, BrokerWaitTyped
  <1>6. CASE B!GiveBack(i, FALSE) /\ B!Unlock(i) /\ B!Release(i) /\ UNCHANGED <<brokerHolds, brokerOwed, brokerGone>>
    <2>1. BrokerListsTyped' BY <1>3, <1>6, GiveBackDoes DEF BrokerTyped
    <2>2. BrokerLocksTyped' BY <1>0, <1>3, <1>6 DEF BrokerTyped, BrokerLocksTyped, B!Unlock, B!Release
    <2> QED BY <2>1, <2>2, <1>0, <1>2, <1>3, <1>5, BrokerSettingStays DEF BrokerTyped, i
  <1>7. CASE B!Keeps(c, i) /\ UNCHANGED <<B!lists, brokerLock, brokerLapsed, B!histories>>
    <2>1. BrokerListsTyped' BY <1>7 DEF BrokerTyped, BrokerListsTyped, B!lists
    <2>2. BrokerLocksTyped' BY <1>0, <1>3, <1>7 DEF BrokerTyped, BrokerLocksTyped, B!histories, B!Keeps
    <2> QED BY <2>1, <2>2, <1>0, <1>2, <1>3, <1>5, BrokerSettingStays DEF BrokerTyped, i
  <1> QED BY <1>0, <1>6, <1>7

LEMMA BrokerTimeoutTyped ==
  ASSUME BrokerTyped, B!Assumption, NEW c \in BrokerCallers, B!Timeout(c)
  PROVE  BrokerTyped' /\ B!Ends(c) /\ brokerCaller[c].pc = "wait"
  <1>1. brokerCaller[c].pc = "wait" /\ B!Ends(c) /\ UNCHANGED <<brokerSetting, B!lists, brokerLock, brokerLapsed, brokerPaused, brokerHolds, B!histories>>
    BY DEF B!Timeout
  <1>2. BrokerCallersTyped' BY <1>1, BrokerEndsTyped DEF BrokerTyped
  <1>3. BrokerListsTyped' BY <1>1 DEF BrokerTyped, BrokerListsTyped, B!lists
  <1>4. BrokerLocksTyped' BY <1>1 DEF BrokerTyped, BrokerLocksTyped, B!histories
  <1> QED BY <1>1, <1>2, <1>3, <1>4, BrokerSettingStays DEF BrokerTyped

(* A caller of Redis goes on to another step of its claim.                  *)
LEMMA BrokerCallerMoves ==
  ASSUME BrokerTyped, NEW c \in BrokerCallers, NEW r \in [pc : BrokerPcs, id : BrokerIds \cup {B!NoId}, listed : SUBSET BrokerIds, later : BOOLEAN, blocks : BOOLEAN,
                  taken : Seq(BrokerIds), settled : BOOLEAN],
         r.pc \in {"list", "promote", "pop", "popped", "set"}, r.pc \in {"popped", "set"} => r.id \in BrokerIds,
         IsFiniteSet(r.listed), B!Kind = "redis", brokerSetting'.kind = brokerSetting.kind, brokerCaller' = [brokerCaller EXCEPT ![c] = r]
  PROVE  BrokerCallersTyped' /\ brokerCaller'[c] = r /\ \A d \in BrokerCallers : d # c => brokerCaller'[d] = brokerCaller[d]
  <1>1. brokerCaller'[c] = r /\ \A d \in BrokerCallers : d # c => brokerCaller'[d] = brokerCaller[d] BY DEF BrokerTyped, BrokerCallersTyped
  <1>2. CallerShape(r, brokerSetting.kind) BY DEF CallerShape, B!Kind
  <1> QED BY <1>1, <1>2, BrokerOneCallerTyped DEF BrokerTyped

LEMMA BrokerListDueTyped ==
  ASSUME BrokerTyped, B!Assumption, NEW c \in BrokerCallers, B!ListDue(c)
  PROVE  /\ BrokerTyped' /\ brokerCaller[c].pc = "list" /\ brokerCaller'[c].pc \in {"pop", "promote"}
         /\ \A d \in BrokerCallers : d # c => brokerCaller'[d] = brokerCaller[d]
  <1> DEFINE p == IF brokerDue = {} THEN "pop" ELSE "promote"
  <1>0. /\ brokerCaller[c].pc = "list" /\ UNCHANGED <<brokerSetting, B!lists, brokerLock, brokerLapsed, brokerPaused, brokerHolds, B!histories>>
        /\ brokerCaller' = [brokerCaller EXCEPT ![c].pc = p, ![c].listed = brokerDue]
    BY DEF B!ListDue
  <1>1. brokerCaller[c] \in [pc : BrokerPcs, id : BrokerIds \cup {B!NoId}, listed : SUBSET BrokerIds, later : BOOLEAN, blocks : BOOLEAN,
                        taken : Seq(BrokerIds), settled : BOOLEAN] /\ B!Kind = "redis" BY <1>0 DEF BrokerTyped, BrokerCallersTyped, CallerShape, B!Kind
  <1>2. brokerCaller' = [brokerCaller EXCEPT ![c] = [brokerCaller[c] EXCEPT !.pc = p, !.listed = brokerDue]]
    BY <1>0 DEF BrokerTyped, BrokerCallersTyped
  <1>3. p \in {"list", "promote", "pop", "popped", "set"} /\ p \in {"pop", "promote"} /\ p \notin {"popped", "set"} OBVIOUS
  <1> HIDE DEF p
  <1> DEFINE r == [brokerCaller[c] EXCEPT !.pc = p, !.listed = brokerDue]
  <1>5. brokerDue \in SUBSET BrokerIds /\ IsFiniteSet(brokerDue) BY DEF BrokerTyped, BrokerListsTyped
  <1>6. r \in [pc : BrokerPcs, id : BrokerIds \cup {B!NoId}, listed : SUBSET BrokerIds, later : BOOLEAN, blocks : BOOLEAN,
                  taken : Seq(BrokerIds), settled : BOOLEAN] /\ r.pc = p /\ r.listed = brokerDue BY <1>1, <1>3, <1>5 DEF BrokerPcs
  <1> HIDE DEF r
  <1>7. BrokerCallersTyped' /\ brokerCaller'[c].pc = p /\ \A d \in BrokerCallers : d # c => brokerCaller'[d] = brokerCaller[d]
    <2>1. brokerSetting'.kind = brokerSetting.kind /\ r.pc \in {"pop", "promote"} /\ IsFiniteSet(r.listed) BY <1>0, <1>3, <1>5, <1>6
    <2>2. brokerCaller' = [brokerCaller EXCEPT ![c] = r] BY <1>2 DEF r
    <2> QED BY <1>1, <1>6, <2>1, <2>2, BrokerCallerMoves
  <1>8. BrokerListsTyped' BY <1>0 DEF BrokerTyped, BrokerListsTyped, B!lists
  <1>9. BrokerLocksTyped' BY <1>0 DEF BrokerTyped, BrokerLocksTyped, B!histories
  <1> QED BY <1>0, <1>3, <1>7, <1>8, <1>9, BrokerSettingStays DEF BrokerTyped

LEMMA BrokerPromoteDueTyped ==
  ASSUME BrokerTyped, B!Assumption, NEW c \in BrokerCallers, B!PromoteDue(c)
  PROVE  /\ BrokerTyped' /\ brokerCaller[c].pc = "promote" /\ brokerCaller'[c].pc = "pop" /\ B!Kind = "redis"
         /\ \A d \in BrokerCallers : d # c => brokerCaller'[d] = brokerCaller[d]
  <1>0. /\ brokerCaller[c].pc = "promote" /\ UNCHANGED <<brokerSetting, brokerLock, brokerLapsed, brokerPaused, brokerHolds, B!histories>>
        /\ brokerCaller' = [brokerCaller EXCEPT ![c].pc = "pop", ![c].listed = {}]
    BY DEF B!PromoteDue
  <1>1. brokerCaller[c] \in [pc : BrokerPcs, id : BrokerIds \cup {B!NoId}, listed : SUBSET BrokerIds, later : BOOLEAN, blocks : BOOLEAN,
                        taken : Seq(BrokerIds), settled : BOOLEAN] /\ B!Kind = "redis" BY <1>0 DEF BrokerTyped, BrokerCallersTyped, CallerShape, B!Kind
  <1>2. brokerCaller' = [brokerCaller EXCEPT ![c] = [brokerCaller[c] EXCEPT !.pc = "pop", !.listed = {}]]
    BY <1>0 DEF BrokerTyped, BrokerCallersTyped
  <1> DEFINE r == [brokerCaller[c] EXCEPT !.pc = "pop", !.listed = {}]
  <1>5. {} \in SUBSET BrokerIds /\ IsFiniteSet({}) BY FS_EmptySet
  <1>6. r \in [pc : BrokerPcs, id : BrokerIds \cup {B!NoId}, listed : SUBSET BrokerIds, later : BOOLEAN, blocks : BOOLEAN,
                  taken : Seq(BrokerIds), settled : BOOLEAN] /\ r.pc = "pop" /\ r.listed = {} BY <1>1, <1>5 DEF BrokerPcs
  <1>3. brokerCaller' = [brokerCaller EXCEPT ![c] = r] BY <1>2
  <1> HIDE DEF r
  <1>7. BrokerCallersTyped' /\ brokerCaller'[c].pc = "pop" /\ \A d \in BrokerCallers : d # c => brokerCaller'[d] = brokerCaller[d]
    <2>1. brokerSetting'.kind = brokerSetting.kind /\ IsFiniteSet(r.listed) BY <1>0, <1>5, <1>6
    <2> QED BY <1>1, <1>3, <1>6, <2>1, BrokerCallerMoves
  <1>8. BrokerListsTyped' BY PromoteDueDoes DEF BrokerTyped
  <1>9. BrokerLocksTyped' BY <1>0 DEF BrokerTyped, BrokerLocksTyped, B!histories
  <1> QED BY <1>0, <1>1, <1>7, <1>8, <1>9, BrokerSettingStays DEF BrokerTyped

LEMMA BrokerClaimsTyped ==
  ASSUME BrokerTyped, NEW c \in BrokerCallers, B!Claims(c), B!Kind = "redis", brokerSetting'.kind = brokerSetting.kind
  PROVE  BrokerCallersTyped' /\ brokerCaller'[c].pc = "list" /\ \A d \in BrokerCallers : d # c => brokerCaller'[d] = brokerCaller[d]
  <1>0. brokerCaller' = [brokerCaller EXCEPT ![c].pc = "list", ![c].blocks = FALSE] BY DEF B!Claims
  <1>1. brokerCaller[c] \in [pc : BrokerPcs, id : BrokerIds \cup {B!NoId}, listed : SUBSET BrokerIds, later : BOOLEAN, blocks : BOOLEAN,
                        taken : Seq(BrokerIds), settled : BOOLEAN] BY <1>0 DEF BrokerTyped, BrokerCallersTyped, CallerShape
  <1>2. brokerCaller' = [brokerCaller EXCEPT ![c] = [brokerCaller[c] EXCEPT !.pc = "list", !.blocks = FALSE]]
    BY <1>0 DEF BrokerTyped, BrokerCallersTyped
  <1> DEFINE r == [brokerCaller[c] EXCEPT !.pc = "list", !.blocks = FALSE]
  <1>5. IsFiniteSet(brokerCaller[c].listed) BY DEF BrokerTyped, BrokerCallersTyped, CallerShape
  <1>6. r \in [pc : BrokerPcs, id : BrokerIds \cup {B!NoId}, listed : SUBSET BrokerIds, later : BOOLEAN, blocks : BOOLEAN,
                  taken : Seq(BrokerIds), settled : BOOLEAN] /\ r.pc = "list" /\ r.listed = brokerCaller[c].listed BY <1>1 DEF BrokerPcs
  <1>3. brokerCaller' = [brokerCaller EXCEPT ![c] = r] BY <1>2
  <1> HIDE DEF r
  <1> QED BY <1>1, <1>3, <1>5, <1>6, BrokerCallerMoves

LEMMA BrokerPopAndLockTyped ==
  ASSUME BrokerTyped, B!Assumption, NEW c \in BrokerCallers, B!PopAndLock(c)
  PROVE  /\ BrokerTyped' /\ brokerCaller[c].pc = "pop" /\ brokerCaller'[c].pc \in {"idle", "list"} /\ B!Kind = "redis"
         /\ \A d \in BrokerCallers : d # c => brokerCaller'[d] = brokerCaller[d]
         /\ UNCHANGED <<brokerSetting, brokerDelayed, brokerDue, brokerPaused>>
         /\ \/ \E i \in BrokerIds : /\ brokerLock[i] = B!Nobody /\ B!Handed(c, i)
                                    /\ B!Priority => brokerQueue' = brokerQueue /\ brokerRanked' = brokerRanked \ {i}
                                    /\ ~B!Priority => brokerRanked' = brokerRanked /\ B!ToSet(brokerQueue) = B!ToSet(brokerQueue') \cup {i}
            \/ UNCHANGED <<brokerQueue, brokerRanked, brokerLock, brokerLapsed, brokerHolds, B!histories>>
  <1>0. /\ brokerCaller[c].pc = "pop" /\ UNCHANGED <<brokerSetting, brokerDelayed, brokerDue, brokerPaused>>
        /\ B!Ends(c) \/ B!Claims(c)
    BY DEF B!PopAndLock
  <1>1. B!Kind = "redis" /\ brokerQueue \in Seq(BrokerIds) BY <1>0 DEF BrokerTyped, BrokerCallersTyped, CallerShape, B!Kind, BrokerListsTyped
  <1>2. BrokerCallersTyped' /\ brokerCaller'[c].pc \in {"idle", "list"} /\ \A d \in BrokerCallers : d # c => brokerCaller'[d] = brokerCaller[d]
    <2>1. B!Idle.pc = "idle" BY DEF B!Idle
    <2> QED BY <1>0, <1>1, <2>1, BrokerEndsTyped, BrokerClaimsTyped DEF BrokerTyped
  <1>3. CASE UNCHANGED <<brokerQueue, brokerRanked, brokerLock, brokerLapsed, brokerHolds, B!histories>>
    <2>1. BrokerListsTyped' BY <1>0, <1>3 DEF BrokerTyped, BrokerListsTyped
    <2>2. BrokerLocksTyped' BY <1>0, <1>3 DEF BrokerTyped, BrokerLocksTyped, B!histories
    <2> QED BY <1>0, <1>1, <1>2, <1>3, <2>1, <2>2, BrokerSettingStays DEF BrokerTyped
  <1>4. CASE ~UNCHANGED <<brokerQueue, brokerRanked, brokerLock, brokerLapsed, brokerHolds, B!histories>>
    <2> PICK i \in B!Takable(brokerQueue, brokerRanked) :
          /\ brokerLock[i] = B!Nobody /\ B!Handed(c, i) /\ B!Keeps(c, i)
          /\ brokerQueue' = B!Pop(brokerQueue, i) /\ brokerRanked' = IF B!Priority THEN brokerRanked \ {i} ELSE brokerRanked
      BY <1>4 DEF B!PopAndLock
    <2>1. /\ i \in BrokerIds /\ brokerQueue' \in Seq(BrokerIds)
          /\ B!Priority => brokerQueue' = brokerQueue /\ brokerRanked' = brokerRanked \ {i}
          /\ ~B!Priority => brokerRanked' = brokerRanked /\ B!ToSet(brokerQueue) = B!ToSet(brokerQueue') \cup {i}
      <3>1. CASE B!Priority BY <1>1, <3>1 DEF B!Takable, B!Pop, BrokerTyped, BrokerListsTyped
      <3>2. CASE ~B!Priority BY <1>1, <3>2, PopDoes
      <3> QED BY <3>1, <3>2
    <2>2. BrokerListsTyped' BY <1>0, <2>1 DEF BrokerTyped, BrokerListsTyped
    <2>3. BrokerLocksTyped' BY <1>0, <2>1, BrokerHandedTyped DEF BrokerTyped
    <2> QED BY <1>0, <1>1, <1>2, <2>1, <2>2, <2>3, BrokerSettingStays DEF BrokerTyped
  <1> QED BY <1>3, <1>4

LEMMA BrokerBlockingPopTyped ==
  ASSUME BrokerTyped, B!Assumption, NEW c \in BrokerCallers, B!BlockingPop(c)
  PROVE  /\ BrokerTyped' /\ brokerCaller[c].pc = "pop" /\ B!Kind = "redis" /\ ~B!Priority
         /\ \A d \in BrokerCallers : d # c => brokerCaller'[d] = brokerCaller[d]
         /\ UNCHANGED <<brokerSetting, brokerRanked, brokerDelayed, brokerDue, brokerLock, brokerLapsed, brokerPaused, brokerHolds, B!histories>>
         /\ \/ brokerCaller'[c].pc = "popped" /\ brokerCaller'[c].id \in BrokerIds /\ B!ToSet(brokerQueue) = B!ToSet(brokerQueue') \cup {brokerCaller'[c].id}
            \/ brokerCaller'[c].pc \in {"idle", "list"} /\ UNCHANGED brokerQueue
  <1>0. /\ brokerCaller[c].pc = "pop" /\ ~B!Priority
        /\ UNCHANGED <<brokerSetting, brokerRanked, brokerDelayed, brokerDue, brokerLock, brokerLapsed, brokerPaused, brokerHolds, B!histories>>
    BY DEF B!BlockingPop
  <1>1. B!Kind = "redis" /\ brokerQueue \in Seq(BrokerIds) /\ brokerCaller[c] \in [pc : BrokerPcs, id : BrokerIds \cup {B!NoId}, listed : SUBSET BrokerIds, later : BOOLEAN, blocks : BOOLEAN,
                  taken : Seq(BrokerIds), settled : BOOLEAN] BY <1>0 DEF BrokerTyped, BrokerCallersTyped, CallerShape, B!Kind, BrokerListsTyped
  <1>2. BrokerLocksTyped' BY <1>0 DEF BrokerTyped, BrokerLocksTyped, B!histories
  <1>3. CASE UNCHANGED brokerQueue /\ (B!Claims(c) \/ B!Ends(c))
    <2>1. BrokerListsTyped' BY <1>0, <1>3 DEF BrokerTyped, BrokerListsTyped
    <2>2. B!Idle.pc = "idle" BY DEF B!Idle
    <2>3. BrokerCallersTyped' /\ brokerCaller'[c].pc \in {"idle", "list"} /\ \A d \in BrokerCallers : d # c => brokerCaller'[d] = brokerCaller[d]
      BY <1>0, <1>1, <1>3, <2>2, BrokerEndsTyped, BrokerClaimsTyped DEF BrokerTyped
    <2> QED BY <1>0, <1>1, <1>2, <1>3, <2>1, <2>3, BrokerSettingStays DEF BrokerTyped
  <1>4. CASE ~(UNCHANGED brokerQueue /\ (B!Claims(c) \/ B!Ends(c)))
    <2> PICK i \in B!Takable(brokerQueue, brokerRanked) :
          brokerQueue' = B!Pop(brokerQueue, i) /\ brokerCaller' = [brokerCaller EXCEPT ![c].pc = "popped", ![c].id = i]
      BY <1>4 DEF B!BlockingPop
    <2>1. i \in BrokerIds /\ brokerQueue' \in Seq(BrokerIds) /\ B!ToSet(brokerQueue) = B!ToSet(brokerQueue') \cup {i}
      BY <1>0, <1>1, PopDoes
    <2>2. BrokerListsTyped' BY <1>0, <2>1 DEF BrokerTyped, BrokerListsTyped
    <2>3. brokerCaller' = [brokerCaller EXCEPT ![c] = [brokerCaller[c] EXCEPT !.pc = "popped", !.id = i]]
      BY DEF BrokerTyped, BrokerCallersTyped
    <2> DEFINE r == [brokerCaller[c] EXCEPT !.pc = "popped", !.id = i]
    <2>5. IsFiniteSet(brokerCaller[c].listed) BY DEF BrokerTyped, BrokerCallersTyped, CallerShape
    <2>4. r \in [pc : BrokerPcs, id : BrokerIds \cup {B!NoId}, listed : SUBSET BrokerIds, later : BOOLEAN, blocks : BOOLEAN,
                  taken : Seq(BrokerIds), settled : BOOLEAN] /\ r.pc = "popped" /\ r.id = i /\ r.listed = brokerCaller[c].listed BY <1>1, <2>1 DEF BrokerPcs
    <2>7. brokerCaller' = [brokerCaller EXCEPT ![c] = r] BY <2>3
    <2> HIDE DEF r
    <2>6. BrokerCallersTyped' /\ brokerCaller'[c].pc = "popped" /\ brokerCaller'[c].id = i /\ \A d \in BrokerCallers : d # c => brokerCaller'[d] = brokerCaller[d]
      BY <1>0, <1>1, <2>1, <2>7, <2>4, <2>5, BrokerCallerMoves
    <2> QED BY <1>0, <1>1, <1>2, <2>1, <2>2, <2>6, BrokerSettingStays DEF BrokerTyped
  <1> QED BY <1>3, <1>4

LEMMA BrokerRecheckTyped ==
  ASSUME BrokerTyped, B!Assumption, NEW c \in BrokerCallers, B!Recheck(c)
  PROVE  /\ BrokerTyped' /\ brokerCaller[c].pc = "popped" /\ B!Kind = "redis" /\ brokerCaller[c].id \in BrokerIds
         /\ \A d \in BrokerCallers : d # c => brokerCaller'[d] = brokerCaller[d]
         /\ UNCHANGED <<brokerSetting, brokerRanked, brokerDelayed, brokerDue, brokerLock, brokerLapsed, brokerPaused, brokerHolds, B!histories>>
         /\ \/ brokerCaller'[c].pc = "idle" /\ B!ToSet(brokerQueue') = B!ToSet(brokerQueue) \cup {brokerCaller[c].id}
            \/ brokerCaller'[c].pc = "set" /\ brokerCaller'[c].id = brokerCaller[c].id /\ UNCHANGED brokerQueue
  <1>0. /\ brokerCaller[c].pc = "popped"
        /\ UNCHANGED <<brokerSetting, brokerRanked, brokerDelayed, brokerDue, brokerLock, brokerLapsed, brokerPaused, brokerHolds, B!histories>>
    BY DEF B!Recheck
  <1>1. B!Kind = "redis" /\ brokerQueue \in Seq(BrokerIds) /\ brokerCaller[c] \in [pc : BrokerPcs, id : BrokerIds \cup {B!NoId}, listed : SUBSET BrokerIds, later : BOOLEAN, blocks : BOOLEAN,
                  taken : Seq(BrokerIds), settled : BOOLEAN] /\ brokerCaller[c].id \in BrokerIds
    BY <1>0 DEF BrokerTyped, BrokerCallersTyped, CallerShape, B!Kind, BrokerListsTyped
  <1>2. BrokerLocksTyped' BY <1>0 DEF BrokerTyped, BrokerLocksTyped, B!histories
  <1>3. CASE brokerPaused
    <2>1. B!Push(brokerCaller[c].id) /\ B!Ends(c) BY <1>3 DEF B!Recheck
    <2>2. brokerQueue' \in Seq(BrokerIds) /\ B!ToSet(brokerQueue') = B!ToSet(brokerQueue) \cup {brokerCaller[c].id} BY <1>1, <2>1, PushDoes
    <2>3. BrokerListsTyped' BY <1>0, <2>2 DEF BrokerTyped, BrokerListsTyped
    <2>4. BrokerCallersTyped' /\ brokerCaller'[c] = B!Idle /\ \A d \in BrokerCallers : d # c => brokerCaller'[d] = brokerCaller[d]
      BY <1>0, <2>1, BrokerEndsTyped DEF BrokerTyped
    <2> QED BY <1>0, <1>1, <1>2, <2>2, <2>3, <2>4, BrokerSettingStays DEF BrokerTyped, B!Idle
  <1>4. CASE ~brokerPaused
    <2>1. brokerCaller' = [brokerCaller EXCEPT ![c].pc = "set"] /\ UNCHANGED brokerQueue BY <1>4 DEF B!Recheck
    <2>2. BrokerListsTyped' BY <1>0, <2>1 DEF BrokerTyped, BrokerListsTyped
    <2>3. brokerCaller' = [brokerCaller EXCEPT ![c] = [brokerCaller[c] EXCEPT !.pc = "set"]] BY <2>1 DEF BrokerTyped, BrokerCallersTyped
    <2> DEFINE r == [brokerCaller[c] EXCEPT !.pc = "set"]
    <2>5. IsFiniteSet(brokerCaller[c].listed) BY DEF BrokerTyped, BrokerCallersTyped, CallerShape
    <2>4. r \in [pc : BrokerPcs, id : BrokerIds \cup {B!NoId}, listed : SUBSET BrokerIds, later : BOOLEAN, blocks : BOOLEAN,
                  taken : Seq(BrokerIds), settled : BOOLEAN] /\ r.pc = "set" /\ r.id = brokerCaller[c].id /\ r.listed = brokerCaller[c].listed BY <1>1 DEF BrokerPcs
    <2>7. brokerCaller' = [brokerCaller EXCEPT ![c] = r] BY <2>3
    <2> HIDE DEF r
    <2>6. BrokerCallersTyped' /\ brokerCaller'[c].pc = "set" /\ brokerCaller'[c].id = brokerCaller[c].id /\ \A d \in BrokerCallers : d # c => brokerCaller'[d] = brokerCaller[d]
      BY <1>0, <1>1, <2>7, <2>4, <2>5, BrokerCallerMoves
    <2> QED BY <1>0, <1>1, <1>2, <2>1, <2>2, <2>6, BrokerSettingStays DEF BrokerTyped
  <1> QED BY <1>3, <1>4

LEMMA BrokerSetLockTyped ==
  ASSUME BrokerTyped, B!Assumption, NEW c \in BrokerCallers, B!SetLock(c)
  PROVE  /\ BrokerTyped' /\ brokerCaller[c].pc = "set" /\ B!Kind = "redis" /\ brokerCaller[c].id \in BrokerIds /\ brokerCaller'[c].pc = "idle"
         /\ \A d \in BrokerCallers : d # c => brokerCaller'[d] = brokerCaller[d]
         /\ UNCHANGED <<brokerSetting, brokerRanked, brokerDelayed, brokerDue, brokerPaused>>
         /\ \/ brokerLock[brokerCaller[c].id] = B!Nobody /\ B!Handed(c, brokerCaller[c].id) /\ UNCHANGED brokerQueue
            \/ UNCHANGED <<brokerLock, brokerLapsed, brokerHolds, B!histories>> /\ B!ToSet(brokerQueue') = B!ToSet(brokerQueue) \cup {brokerCaller[c].id}
  <1> DEFINE i == brokerCaller[c].id
  <1>0. /\ brokerCaller[c].pc = "set" /\ UNCHANGED <<brokerSetting, brokerRanked, brokerDelayed, brokerDue, brokerPaused>> /\ B!Ends(c)
        /\ \/ brokerLock[i] = B!Nobody /\ B!Handed(c, i) /\ B!Keeps(c, i) /\ UNCHANGED brokerQueue
           \/ B!Push(i) /\ UNCHANGED <<brokerLock, brokerLapsed, brokerHolds, B!histories>>
    BY Zenon DEF B!SetLock
  <1>1. B!Kind = "redis" /\ brokerQueue \in Seq(BrokerIds) /\ i \in BrokerIds
    BY <1>0 DEF BrokerTyped, BrokerCallersTyped, CallerShape, B!Kind, BrokerListsTyped
  <1>2. BrokerCallersTyped' /\ brokerCaller'[c] = B!Idle /\ \A d \in BrokerCallers : d # c => brokerCaller'[d] = brokerCaller[d]
    BY <1>0, BrokerEndsTyped DEF BrokerTyped
  <1>3. CASE brokerLock[i] = B!Nobody /\ B!Handed(c, i) /\ B!Keeps(c, i) /\ UNCHANGED brokerQueue
    <2>1. BrokerListsTyped' BY <1>0, <1>3 DEF BrokerTyped, BrokerListsTyped
    <2>2. BrokerLocksTyped' BY <1>0, <1>1, <1>3, BrokerHandedTyped DEF BrokerTyped
    <2> QED BY <1>0, <1>1, <1>2, <1>3, <2>1, <2>2, BrokerSettingStays DEF BrokerTyped, B!Idle
  <1>4. CASE B!Push(i) /\ UNCHANGED <<brokerLock, brokerLapsed, brokerHolds, B!histories>>
    <2>1. brokerQueue' \in Seq(BrokerIds) /\ B!ToSet(brokerQueue') = B!ToSet(brokerQueue) \cup {i} BY <1>1, <1>4, PushDoes
    <2>2. BrokerListsTyped' BY <1>0, <2>1 DEF BrokerTyped, BrokerListsTyped
    <2>3. BrokerLocksTyped' BY <1>0, <1>4 DEF BrokerTyped, BrokerLocksTyped, B!histories
    <2> QED BY <1>0, <1>1, <1>2, <1>4, <2>1, <2>2, <2>3, BrokerSettingStays DEF BrokerTyped, B!Idle
  <1> QED BY <1>0, <1>3, <1>4

LEMMA BrokerClaimRowTyped ==
  ASSUME BrokerTyped, B!Assumption, NEW c \in BrokerCallers, B!ClaimRow(c)
  PROVE  /\ BrokerTyped' /\ B!Ends(c) /\ UNCHANGED <<brokerSetting, B!lists, brokerPaused>> /\ B!Kind = "postgres" /\ brokerCaller[c].pc = "take"
         /\ \/ UNCHANGED <<brokerLock, brokerLapsed, brokerHolds, B!histories>>
            \/ \E i \in B!ToSet(brokerQueue) : (brokerLock[i] = B!Nobody \/ i \in brokerLapsed) /\ i \in BrokerIds /\ B!Handed(c, i)
  <1>0. /\ brokerCaller[c].pc = "take" /\ B!Kind = "postgres" /\ B!Ends(c) /\ UNCHANGED <<brokerSetting, B!lists, brokerPaused>>
        /\ \/ UNCHANGED <<brokerLock, brokerLapsed, brokerHolds, B!histories>>
           \/ \E i \in B!ToSet(brokerQueue) : (brokerLock[i] = B!Nobody \/ i \in brokerLapsed) /\ B!Handed(c, i) /\ B!Keeps(c, i)
    BY DEF B!ClaimRow
  <1>1. B!ToSet(brokerQueue) \subseteq BrokerIds BY Members DEF BrokerTyped, BrokerListsTyped
  <1>2. BrokerListsTyped' BY <1>0 DEF BrokerTyped, BrokerListsTyped, B!lists
  <1>3. BrokerCallersTyped' BY <1>0, BrokerEndsTyped DEF BrokerTyped
  <1>4. CASE UNCHANGED <<brokerLock, brokerLapsed, brokerHolds, B!histories>>
    <2>1. BrokerLocksTyped' BY <1>0, <1>4 DEF BrokerTyped, BrokerLocksTyped, B!histories
    <2> QED BY <1>0, <1>2, <1>3, <1>4, <2>1, BrokerSettingStays DEF BrokerTyped
  <1>5. CASE \E i \in B!ToSet(brokerQueue) : (brokerLock[i] = B!Nobody \/ i \in brokerLapsed) /\ B!Handed(c, i) /\ B!Keeps(c, i)
    <2> PICK i \in B!ToSet(brokerQueue) : (brokerLock[i] = B!Nobody \/ i \in brokerLapsed) /\ B!Handed(c, i) /\ B!Keeps(c, i) BY <1>5
    <2>0. i \in BrokerIds BY <1>1
    <2>1. BrokerLocksTyped' BY <1>0, <2>0, BrokerHandedTyped DEF BrokerTyped
    <2> QED BY <1>0, <1>2, <1>3, <2>0, <2>1, BrokerSettingStays DEF BrokerTyped
  <1> QED BY <1>0, <1>4, <1>5

LEMMA BrokerExtendTyped ==
  ASSUME BrokerTyped, B!Assumption, NEW c \in BrokerCallers, NEW i \in BrokerIds, B!Extend(c, i)
  PROVE  BrokerTyped'
  <1>0. /\ brokerLapsed' = brokerLapsed \ {i} /\ brokerSole' = [brokerSole EXCEPT ![i] = c]
        /\ UNCHANGED <<brokerSetting, B!lists, brokerLock, brokerPaused, brokerCaller, brokerHolds, brokerOwed, brokerGone>>
    BY DEF B!Extend
  <1>1. BrokerListsTyped' BY <1>0 DEF BrokerTyped, BrokerListsTyped, B!lists
  <1>2. BrokerLocksTyped' BY <1>0 DEF BrokerTyped, BrokerLocksTyped
  <1>3. BrokerCallersTyped' BY <1>0 DEF BrokerTyped, BrokerCallersTyped
  <1> QED BY <1>0, <1>1, <1>2, <1>3, BrokerSettingStays DEF BrokerTyped

LEMMA BrokerSettleTyped ==
  ASSUME BrokerTyped, B!Assumption, NEW i \in BrokerIds, B!Purge(i), B!Unlock(i), B!Forget(i), brokerHolds' \in [BrokerCallers -> SUBSET BrokerIds],
         UNCHANGED <<brokerPaused, brokerCaller>>, BrokerSettingTyped', brokerSetting'.kind = brokerSetting.kind
  PROVE  BrokerTyped'
  <1>1. BrokerListsTyped' BY PurgeDoes DEF BrokerTyped
  <1>2. BrokerLocksTyped' BY DEF BrokerTyped, BrokerLocksTyped, B!Unlock, B!Forget, B!Release
  <1>3. BrokerCallersTyped' BY DEF BrokerTyped, BrokerCallersTyped
  <1> QED BY <1>1, <1>2, <1>3 DEF BrokerTyped

LEMMA BrokerAckTyped ==
  ASSUME BrokerTyped, B!Assumption, NEW c \in BrokerCallers, NEW i \in BrokerIds, B!Ack(c, i)
  PROVE  BrokerTyped'
  <1>1. /\ B!Purge(i) /\ B!Unlock(i) /\ B!Forget(i) /\ UNCHANGED <<brokerSetting, brokerPaused, brokerCaller>>
        /\ brokerHolds' = [brokerHolds EXCEPT ![c] = @ \ {i}]
    BY DEF B!Ack
  <1>2. brokerHolds' \in [BrokerCallers -> SUBSET BrokerIds] BY <1>1 DEF BrokerTyped, BrokerLocksTyped
  <1> QED BY <1>1, <1>2, BrokerSettleTyped, BrokerSettingStays DEF BrokerTyped

LEMMA BrokerRemoveTyped ==
  ASSUME BrokerTyped, B!Assumption, NEW i \in BrokerIds, B!RemoveId(i)
  PROVE  BrokerTyped'
  <1>1. /\ B!Purge(i) /\ B!Unlock(i) /\ B!Forget(i) /\ UNCHANGED <<brokerPaused, brokerCaller>>
        /\ brokerHolds' = brokerHolds /\ \E call \in B!Calls : B!Offered(call)
    BY DEF B!RemoveId, B!Calls
  <1>2. brokerHolds' \in [BrokerCallers -> SUBSET BrokerIds] BY <1>1 DEF BrokerTyped, BrokerLocksTyped
  <1> QED BY <1>1, <1>2, BrokerSettleTyped, BrokerSettingStays DEF BrokerTyped

LEMMA BrokerNackTyped ==
  ASSUME BrokerTyped, B!Assumption, NEW c \in BrokerCallers, NEW i \in BrokerIds, NEW call \in {"nack", "defer"}, B!Nack(c, i, call)
  PROVE  BrokerTyped'
  <1>1. /\ B!GiveBack(i, call = "defer") /\ B!Unlock(i) /\ B!Release(i) /\ UNCHANGED <<brokerPaused, brokerCaller>>
        /\ UNCHANGED <<brokerOwed, brokerGone>> \/ (brokerOwed' = brokerOwed \cup {i} /\ brokerGone' = brokerGone \ {i})
        /\ brokerHolds' = [brokerHolds EXCEPT ![c] = @ \ {i}] /\ B!Offered(call) /\ call \in B!Calls
    BY Zenon DEF B!Nack, B!Calls
  <1>2. (call = "defer") \in BOOLEAN OBVIOUS
  <1>3. BrokerListsTyped' BY <1>1, <1>2, GiveBackDoes DEF BrokerTyped
  <1>4. BrokerLocksTyped' BY <1>1 DEF BrokerTyped, BrokerLocksTyped, B!Unlock, B!Release
  <1>5. BrokerSettingTyped' /\ brokerSetting'.kind = brokerSetting.kind BY <1>1, BrokerSettingStays DEF BrokerTyped
  <1>6. BrokerCallersTyped' BY <1>1, <1>5 DEF BrokerTyped, BrokerCallersTyped
  <1> QED BY <1>3, <1>4, <1>5, <1>6 DEF BrokerTyped

LEMMA BrokerPauseTyped ==
  ASSUME BrokerTyped, B!Assumption, B!Pause \/ B!Resume
  PROVE  BrokerTyped'
  <1>1. /\ brokerPaused' \in BOOLEAN /\ UNCHANGED <<B!lists, brokerLock, brokerLapsed, brokerCaller, brokerHolds, B!histories>>
        /\ \E call \in B!Calls : B!Offered(call)
    BY DEF B!Pause, B!Resume, B!Calls
  <1>2. BrokerSettingTyped' /\ brokerSetting'.kind = brokerSetting.kind BY <1>1, BrokerSettingStays DEF BrokerTyped
  <1>3. BrokerListsTyped' BY <1>1 DEF BrokerTyped, BrokerListsTyped, B!lists
  <1>4. BrokerLocksTyped' BY <1>1 DEF BrokerTyped, BrokerLocksTyped, B!histories
  <1>5. BrokerCallersTyped' BY <1>1, <1>2 DEF BrokerTyped, BrokerCallersTyped
  <1> QED BY <1>2, <1>3, <1>4, <1>5 DEF BrokerTyped

LEMMA ComesDueDoes ==
  ASSUME BrokerTyped, B!Assumption, NEW i \in BrokerIds, B!ComesDue(i)
  PROVE  /\ BrokerTyped' /\ i \in brokerDelayed /\ UNCHANGED <<brokerSetting, brokerRanked, brokerLock, brokerLapsed, brokerCaller, B!histories>>
         /\ \/ B!Kind = "postgres" /\ B!ToSet(brokerQueue') = B!ToSet(brokerQueue) \cup {i} /\ brokerDelayed' = brokerDelayed \ {i}
            \/ B!Kind # "postgres" /\ UNCHANGED <<brokerDelayed, brokerQueue>>
  <1>0. /\ i \in brokerDelayed \ brokerDue /\ UNCHANGED <<brokerSetting, brokerRanked, brokerLock, brokerLapsed, brokerPaused, brokerCaller, brokerHolds, B!histories>>
        /\ \/ B!Kind = "postgres" /\ B!Undelayed(i) /\ brokerQueue' = Append(brokerQueue, i)
           \/ B!Kind # "postgres" /\ brokerDue' = brokerDue \cup {i} /\ UNCHANGED <<brokerDelayed, brokerQueue>>
    BY DEF B!ComesDue
  <1>1. brokerQueue \in Seq(BrokerIds) BY DEF BrokerTyped, BrokerListsTyped
  <1>2. Append(brokerQueue, i) \in Seq(BrokerIds) /\ B!ToSet(Append(brokerQueue, i)) = B!ToSet(brokerQueue) \cup {i} BY <1>1, AppendLists
  <1>3. IsFiniteSet(brokerDue \cup {i}) BY FS_AddElement DEF BrokerTyped, BrokerListsTyped
  <1>4. BrokerListsTyped'
    <2>1. CASE B!Kind = "postgres"
      <3>1. brokerDue' \subseteq brokerDelayed' /\ IsFiniteSet(brokerDue') /\ brokerDelayed' \subseteq BrokerIds BY <1>0, <2>1, DelaysDo DEF BrokerTyped
      <3> QED BY <1>0, <1>2, <2>1, <3>1 DEF BrokerTyped, BrokerListsTyped
    <2>2. CASE B!Kind # "postgres" BY <1>0, <1>3, <2>2 DEF BrokerTyped, BrokerListsTyped
    <2> QED BY <2>1, <2>2
  <1>5. BrokerLocksTyped' BY <1>0 DEF BrokerTyped, BrokerLocksTyped, B!histories
  <1>6. BrokerCallersTyped' BY <1>0 DEF BrokerTyped, BrokerCallersTyped
  <1> QED BY <1>0, <1>2, <1>4, <1>5, <1>6, BrokerSettingStays DEF BrokerTyped, B!Undelayed

LEMMA BrokerLapseTyped ==
  ASSUME BrokerTyped, B!Assumption, NEW i \in BrokerIds, B!Lapse(i)
  PROVE  BrokerTyped'
  <1>0. /\ brokerLock[i] # B!Nobody /\ B!Release(i) /\ UNCHANGED <<B!lists, brokerPaused, brokerCaller, brokerHolds, brokerGone>>
        /\ \/ brokerLapsed' = brokerLapsed \cup {i} /\ UNCHANGED <<brokerLock, brokerOwed>>
           \/ B!Unlock(i) /\ (brokerOwed' = brokerOwed \/ brokerOwed' = brokerOwed \ {i})
        /\ \E call \in B!Calls : B!Offered(call)
    BY DEF B!Lapse, B!Calls
  <1>1. BrokerSettingTyped' /\ brokerSetting'.kind = brokerSetting.kind BY <1>0, BrokerSettingStays DEF BrokerTyped
  <1>2. BrokerListsTyped' BY <1>0 DEF BrokerTyped, BrokerListsTyped, B!lists
  <1>3. BrokerLocksTyped' BY <1>0 DEF BrokerTyped, BrokerLocksTyped, B!Unlock, B!Release
  <1>4. BrokerCallersTyped' BY <1>0, <1>1 DEF BrokerTyped, BrokerCallersTyped
  <1> QED BY <1>1, <1>2, <1>3, <1>4 DEF BrokerTyped

-----------------------------------------------------------------------------
Carries(c, i) == brokerCaller[c].pc \in {"put", "popped", "set"} /\ brokerCaller[c].id = i
Somewhere(i) ==
  B!Readable(i) \/ i \in brokerDelayed \/ brokerLock[i] # B!Nobody \/ \E c \in BrokerCallers : Carries(c, i)
BrokerKept ==
  /\ B!Fits(brokerSetting)
  /\ B!Kind # "postgres" /\ B!Priority => B!ToSet(brokerQueue) = {}
  /\ B!Kind = "postgres" \/ ~B!Priority => brokerRanked = {}
  /\ \A i \in brokerOwed : Somewhere(i)
  /\ B!Kind = "postgres" => \A i \in brokerOwed : i \in B!ToSet(brokerQueue) \cup brokerDelayed
  /\ B!Priority => \A c \in BrokerCallers : /\ brokerCaller[c].pc \notin {"popped", "set", "wait"}
                                            /\ B!Kind = "memory" => ~brokerCaller[c].blocks

NowhereListed(i) == i \notin B!ToSet(brokerQueue) /\ i \notin brokerRanked /\ i \notin brokerDelayed
BrokerHeld ==
  /\ B!Kind # "postgres" => brokerLapsed = {}
  /\ \A i \in BrokerIds : brokerSole[i] # B!Nobody => brokerLock[i] = brokerSole[i] /\ i \notin brokerLapsed
  /\ B!Kind = "memory" =>
       /\ NoDup(brokerQueue) /\ B!ToSet(brokerQueue) \cap brokerRanked = {} /\ B!ToSet(brokerQueue) \cap brokerDelayed = {} /\ brokerRanked \cap brokerDelayed = {}
       /\ \A i \in BrokerIds : brokerSole[i] # B!Nobody => NowhereListed(i)
  /\ B!Kind # "redis" =>
       \A i \in brokerGone : /\ brokerLock[i] = B!Nobody /\ NowhereListed(i)
                             /\ \A c \in BrokerCallers : i \notin B!ToSet(brokerCaller[c].taken)

LEMMA BrokerFitsStay ==
  ASSUME BrokerTyped, B!Fits(brokerSetting), UNCHANGED brokerSetting \/ \E call \in B!Calls : B!Offered(call)
  PROVE  /\ B!Fits(brokerSetting') /\ BrokerSettingTyped' /\ B!Kind' = B!Kind /\ B!Priority' = B!Priority /\ brokerSetting'.priced = brokerSetting.priced
         /\ brokerSetting'.kind = brokerSetting.kind
  <1>1. /\ BrokerSettingTyped' /\ brokerSetting'.kind = brokerSetting.kind /\ brokerSetting'.strategy = brokerSetting.strategy
        /\ brokerSetting'.priced = brokerSetting.priced
        /\ \A k \in B!Calls : brokerSetting.offers[k] = 0 => brokerSetting'.offers[k] = 0
    BY BrokerSettingStays DEF BrokerTyped
  <1>2. "nack" \in B!Calls /\ "block" \in B!Calls BY DEF B!Calls
  <1>3. B!Priority' = B!Priority BY <1>1 DEF B!Priority
  <1>4. brokerSetting.offers["nack"] = 0 => brokerSetting'.offers["nack"] = 0 BY <1>1, <1>2
  <1>5. brokerSetting.offers["block"] = 0 => brokerSetting'.offers["block"] = 0 BY <1>1, <1>2
  <1>6. B!Fits(brokerSetting') BY <1>1, <1>4, <1>5 DEF B!Fits
  <1> QED BY <1>1, <1>3, <1>6 DEF B!Kind

LEMMA OthersSomewhere ==
  ASSUME B!Kind' = B!Kind, B!Priority' = B!Priority, NEW i \in BrokerIds, SameButFor(i),
         \A x \in BrokerIds : x # i => brokerLock'[x] = brokerLock[x],
         \A x \in BrokerIds, c \in BrokerCallers : x # i /\ Carries(c, x) => Carries(c, x)'
  PROVE  \A x \in BrokerIds : x # i /\ Somewhere(x) => Somewhere(x)'
  BY DEF SameButFor, Somewhere, B!Readable

(* One id moves, and every other one is as it was.                          *)
LEMMA OneMoves ==
  ASSUME BrokerTyped, BrokerKept, NEW i \in BrokerIds, B!Fits(brokerSetting'), B!Kind' = B!Kind, B!Priority' = B!Priority,
         BrokerListsTyped, BrokerListsTyped', SameButFor(i), \A x \in BrokerIds : x # i => brokerLock'[x] = brokerLock[x],
         \A x \in BrokerIds, c \in BrokerCallers : x # i /\ Carries(c, x) => Carries(c, x)',
         brokerOwed' \subseteq brokerOwed \cup {i}, i \in brokerOwed' => Somewhere(i)',
         B!Kind # "postgres" /\ B!Priority => i \notin B!ToSet(brokerQueue'),
         B!Kind = "postgres" \/ ~B!Priority => i \notin brokerRanked',
         B!Kind = "postgres" /\ i \in brokerOwed' => i \in B!ToSet(brokerQueue') \cup brokerDelayed',
         \A c \in BrokerCallers : B!Priority /\ brokerCaller[c].pc \notin {"popped", "set", "wait"} => brokerCaller'[c].pc \notin {"popped", "set", "wait"},
         \A c \in BrokerCallers : B!Priority /\ B!Kind = "memory" /\ ~brokerCaller[c].blocks => ~brokerCaller'[c].blocks
  PROVE  BrokerKept'
  <1>1. \A x \in BrokerIds : x # i /\ Somewhere(x) => Somewhere(x)' BY OthersSomewhere
  <1>2. brokerOwed \subseteq BrokerIds /\ brokerOwed' \subseteq BrokerIds BY DEF BrokerTyped, BrokerLocksTyped
  <1>3. \A x \in brokerOwed' : Somewhere(x)' BY <1>1, <1>2 DEF BrokerKept
  <1>4. B!ToSet(brokerQueue) \subseteq BrokerIds /\ B!ToSet(brokerQueue') \subseteq BrokerIds BY Members DEF BrokerListsTyped
  <1>5. B!Kind # "postgres" /\ B!Priority => B!ToSet(brokerQueue') = {}
    BY <1>4 DEF BrokerKept, SameButFor
  <1>6. B!Kind = "postgres" \/ ~B!Priority => brokerRanked' = {}
    BY DEF BrokerKept, SameButFor, BrokerListsTyped
  <1>7. B!Kind = "postgres" => \A x \in brokerOwed' : x \in B!ToSet(brokerQueue') \cup brokerDelayed'
    BY <1>2 DEF BrokerKept, SameButFor
  <1>8. B!Priority => \A c \in BrokerCallers : /\ brokerCaller'[c].pc \notin {"popped", "set", "wait"}
                                               /\ B!Kind = "memory" => ~brokerCaller'[c].blocks
    BY DEF BrokerKept
  <1> HIDE DEF SameButFor, Somewhere
  <1> QED BY <1>3, <1>5, <1>6, <1>7, <1>8 DEF BrokerKept

LEMMA BrokerPublishKeeps ==
  ASSUME BrokerTyped, B!Assumption, BrokerKept, NEW c \in BrokerCallers, NEW i \in BrokerIds, NEW call \in {"publish", "later"}, B!Publish(c, i, call)
  PROVE  BrokerKept'
  <1>a. B!Offered(call) /\ call \in B!Calls /\ brokerCaller[c] = B!Idle BY DEF B!Publish, B!Calls
  <1>1. B!Fits(brokerSetting') /\ B!Kind' = B!Kind /\ B!Priority' = B!Priority BY <1>a, BrokerFitsStay DEF BrokerKept
  <1>2. BrokerTyped' BY BrokerPublishTyped
  <1>3. CASE B!Kind = "redis"
    <2>1. B!Purge(i) /\ UNCHANGED <<brokerOwed, brokerLock>> BY <1>3 DEF B!Publish
    <2>2. SameButFor(i) /\ OnlyIn(i, "nowhere") BY <2>1, PurgeDoes DEF BrokerTyped
    <2>3. brokerCaller'[c].pc = "put" /\ brokerCaller'[c].id = i /\ \A d \in BrokerCallers : d # c => brokerCaller'[d] = brokerCaller[d]
      BY <1>3, BrokerPublishTyped
    <2>4. \A x \in BrokerIds, d \in BrokerCallers : x # i /\ Carries(d, x) => Carries(d, x)'
      BY <1>a, <2>3 DEF Carries, B!Idle
    <2>5. Somewhere(i)' BY <2>3 DEF Somewhere, Carries
    <2>6. \A d \in BrokerCallers : B!Priority /\ brokerCaller[d].pc \notin {"popped", "set", "wait"} => brokerCaller'[d].pc \notin {"popped", "set", "wait"}
      BY <2>3
    <2> QED BY <1>1, <1>2, <1>3, <2>1, <2>2, <2>4, <2>5, <2>6, OneMoves DEF BrokerTyped, OnlyIn
  <1>4. CASE B!Kind # "redis"
    <2>1. /\ B!Place(i, call = "later") /\ brokerOwed' = brokerOwed \cup {i} /\ UNCHANGED brokerCaller
          /\ B!Unlock(i) \/ UNCHANGED brokerLock
      BY <1>4 DEF B!Publish, B!Published
    <2>2. (call = "later") \in BOOLEAN OBVIOUS
    <2> DEFINE where == IF call = "later" THEN "delayed" ELSE IF brokerSetting.priced /\ B!Kind # "postgres" THEN "ranked" ELSE "queue"
    <2>3. SameButFor(i) /\ OnlyIn(i, where) BY <2>1, <2>2, PlaceDoes DEF BrokerTyped
    <2>4. B!Kind # "postgres" => (brokerSetting.priced <=> B!Priority) BY DEF BrokerKept, B!Fits, B!Kind, B!Priority
    <2>5. where \in {"delayed", "ranked", "queue"} /\ (where = "ranked" => B!Priority /\ B!Kind # "postgres")
          /\ (where = "queue" => ~(B!Priority /\ B!Kind # "postgres"))
      BY <2>4
    <2> HIDE DEF where
    <2>6. Somewhere(i)' BY <1>1, <2>3, <2>5 DEF Somewhere, OnlyIn, B!Readable
    <2>7. \A x \in BrokerIds : x # i => brokerLock'[x] = brokerLock[x] BY <2>1 DEF B!Unlock, BrokerTyped, BrokerLocksTyped
    <2>8. \A x \in BrokerIds, d \in BrokerCallers : x # i /\ Carries(d, x) => Carries(d, x)' BY <2>1 DEF Carries
    <2>9. /\ B!Kind # "postgres" /\ B!Priority => i \notin B!ToSet(brokerQueue')
          /\ B!Kind = "postgres" \/ ~B!Priority => i \notin brokerRanked'
          /\ B!Kind = "postgres" => i \in B!ToSet(brokerQueue') \cup brokerDelayed'
      BY <2>3, <2>5 DEF OnlyIn
    <2> QED BY <1>1, <1>2, <2>1, <2>3, <2>6, <2>7, <2>8, <2>9, OneMoves DEF BrokerTyped
  <1> QED BY <1>3, <1>4

LEMMA BrokerPutKeeps ==
  ASSUME BrokerTyped, B!Assumption, BrokerKept, NEW c \in BrokerCallers, B!Put(c)
  PROVE  BrokerKept'
  <1>0. BrokerTyped' /\ B!Ends(c) /\ brokerCaller[c].id \in BrokerIds /\ B!Kind = "redis" /\ brokerCaller[c].later \in BOOLEAN BY BrokerPutTyped
  <1> PICK i \in BrokerIds, later \in BOOLEAN : i = brokerCaller[c].id /\ later = brokerCaller[c].later BY <1>0
  <1> DEFINE where == IF later THEN "delayed" ELSE IF brokerSetting.priced /\ B!Kind # "postgres" THEN "ranked" ELSE "queue"
  <1>1. BrokerTyped' /\ B!Ends(c) /\ i \in BrokerIds /\ B!Kind = "redis" /\ later \in BOOLEAN BY <1>0
  <1>2. B!Place(i, later) /\ brokerOwed' = brokerOwed \cup {i} /\ UNCHANGED <<brokerSetting, brokerLock>> BY DEF B!Put, B!Published
  <1>3. SameButFor(i) /\ OnlyIn(i, where) BY <1>1, <1>2, PlaceDoes DEF BrokerTyped
  <1>4. B!Fits(brokerSetting') /\ B!Kind' = B!Kind /\ B!Priority' = B!Priority BY <1>2, BrokerFitsStay DEF BrokerKept
  <1>5. brokerSetting.priced <=> B!Priority BY <1>1 DEF BrokerKept, B!Fits, B!Kind, B!Priority
  <1>6. /\ where = "ranked" => B!Priority
        /\ where = "queue" => ~B!Priority
        /\ where \in {"delayed", "ranked", "queue"}
    BY <1>1, <1>5
  <1>c. brokerCaller'[c] = B!Idle /\ \A d \in BrokerCallers : d # c => brokerCaller'[d] = brokerCaller[d] BY <1>1, <1>2, BrokerEndsTyped DEF BrokerTyped
  <1>7. \A x \in BrokerIds, d \in BrokerCallers : x # i /\ Carries(d, x) => Carries(d, x)' BY <1>c DEF Carries
  <1> HIDE DEF where
  <1>8. Somewhere(i)' BY <1>1, <1>3, <1>4, <1>6 DEF Somewhere, OnlyIn, B!Readable
  <1>9. \A d \in BrokerCallers : B!Priority /\ brokerCaller[d].pc \notin {"popped", "set", "wait"} => brokerCaller'[d].pc \notin {"popped", "set", "wait"}
    BY <1>c DEF B!Idle
  <1> QED BY <1>1, <1>2, <1>3, <1>4, <1>6, <1>7, <1>8, <1>9, OneMoves DEF BrokerTyped, OnlyIn

(* A step that leaves lists, locks and what is owed as they are.            *)
LEMMA BrokerCallersMove ==
  ASSUME BrokerTyped, BrokerKept, B!Fits(brokerSetting'), B!Kind' = B!Kind, B!Priority' = B!Priority, UNCHANGED B!lists,
         brokerOwed' \subseteq brokerOwed, \A x \in BrokerIds : brokerLock[x] # B!Nobody => brokerLock'[x] # B!Nobody,
         \A x \in brokerOwed', c \in BrokerCallers : Carries(c, x) => Carries(c, x)',
         \A c \in BrokerCallers : B!Priority /\ brokerCaller[c].pc \notin {"popped", "set", "wait"} => brokerCaller'[c].pc \notin {"popped", "set", "wait"},
         \A c \in BrokerCallers : B!Priority /\ B!Kind = "memory" /\ ~brokerCaller[c].blocks => ~brokerCaller'[c].blocks
  PROVE  BrokerKept'
  <1>1. UNCHANGED <<brokerQueue, brokerRanked, brokerDelayed, brokerDue>> BY DEF B!lists
  <1>2. \A x \in brokerOwed' : Somewhere(x)'
    <2> SUFFICES ASSUME NEW x \in brokerOwed' PROVE Somewhere(x)' OBVIOUS
    <2>1. Somewhere(x) /\ x \in BrokerIds BY DEF BrokerKept, BrokerTyped, BrokerLocksTyped
    <2> QED BY <1>1, <2>1 DEF Somewhere, B!Readable
  <1> QED BY <1>1, <1>2 DEF BrokerKept

LEMMA BrokerStartKeeps ==
  ASSUME BrokerTyped, B!Assumption, BrokerKept, NEW c \in BrokerCallers, NEW call \in {"claim", "block"}, B!Start(c, call)
  PROVE  BrokerKept'
  <1>a. B!Offered(call) /\ call \in B!Calls /\ brokerCaller[c] = B!Idle /\ UNCHANGED <<B!lists, brokerLock, B!histories>> BY DEF B!Start, B!Calls
  <1>1. B!Fits(brokerSetting') /\ B!Kind' = B!Kind /\ B!Priority' = B!Priority BY <1>a, BrokerFitsStay DEF BrokerKept
  <1>2. BrokerTyped' /\ brokerCaller'[c].pc \in {"list", "take"} /\ (brokerCaller'[c].blocks => call = "block")
        /\ \A d \in BrokerCallers : d # c => brokerCaller'[d] = brokerCaller[d]
    BY BrokerStartTyped
  <1>3. \A x \in brokerOwed', d \in BrokerCallers : Carries(d, x) => Carries(d, x)' BY <1>a, <1>2 DEF Carries, B!Idle
  <1>4. ASSUME B!Priority, B!Kind = "memory" PROVE ~brokerCaller'[c].blocks
    <2>1. brokerSetting.offers["block"] = 0 BY <1>4 DEF BrokerKept, B!Fits, B!Priority, B!Kind
    <2>2. call # "block" BY <1>a, <2>1 DEF B!Offered
    <2> QED BY <1>2, <2>2
  <1>5. UNCHANGED <<brokerOwed, brokerGone, brokerSole>> BY <1>a DEF B!histories
  <1> QED BY <1>a, <1>1, <1>2, <1>3, <1>4, <1>5, BrokerCallersMove

(* An id is handed out: it is locked.                                       *)
LEMMA TakeMoves ==
  ASSUME BrokerTyped, B!Assumption, BrokerKept, BrokerTyped', NEW c \in BrokerCallers, NEW i \in BrokerIds, B!MemoryTake(c, i), B!Kind = "memory", UNCHANGED brokerSetting,
         \A x \in BrokerIds, d \in BrokerCallers : Carries(d, x) => Carries(d, x)',
         \A d \in BrokerCallers : B!Priority /\ brokerCaller[d].pc \notin {"popped", "set", "wait"} => brokerCaller'[d].pc \notin {"popped", "set", "wait"},
         \A d \in BrokerCallers : B!Priority /\ B!Kind = "memory" /\ ~brokerCaller[d].blocks => ~brokerCaller'[d].blocks
  PROVE  BrokerKept'
  <1>1. B!Fits(brokerSetting') /\ B!Kind' = B!Kind /\ B!Priority' = B!Priority BY BrokerFitsStay DEF BrokerKept
  <1>2. /\ brokerDue' = {} /\ brokerDelayed' = brokerDelayed \ brokerDue /\ B!Handed(c, i)
        /\ B!Priority => B!ToSet(brokerQueue') = B!ToSet(brokerQueue) /\ brokerRanked' = (brokerRanked \cup brokerDue) \ {i}
        /\ ~B!Priority => brokerRanked' = brokerRanked /\ B!ToSet(brokerQueue) \cup brokerDue = B!ToSet(brokerQueue') \cup {i}
    BY TakeDoes DEF BrokerTyped
  <1>3. brokerLock' = [brokerLock EXCEPT ![i] = c] /\ brokerOwed' = brokerOwed BY <1>2 DEF B!Handed
  <1>n. c # B!Nobody BY DEF B!Assumption
  <1>4. brokerLock'[i] # B!Nobody /\ \A x \in BrokerIds : brokerLock[x] # B!Nobody => brokerLock'[x] # B!Nobody
    BY <1>3, <1>n DEF BrokerTyped, BrokerLocksTyped
  <1>5. \A x \in brokerOwed : Somewhere(x)'
    <2> SUFFICES ASSUME NEW x \in brokerOwed PROVE Somewhere(x)' OBVIOUS
    <2>1. Somewhere(x) /\ x \in BrokerIds BY DEF BrokerKept, BrokerTyped, BrokerLocksTyped
    <2>2. CASE x = i BY <1>4, <2>2 DEF Somewhere
    <2>3. CASE x # i
      <3>1. CASE B!Priority BY <1>1, <1>2, <1>4, <2>1, <2>3, <3>1 DEF Somewhere, B!Readable
      <3>2. CASE ~B!Priority BY <1>1, <1>2, <1>4, <2>1, <2>3, <3>2 DEF Somewhere, B!Readable
      <3> QED BY <3>1, <3>2
    <2> QED BY <2>2, <2>3
  <1> QED BY <1>1, <1>2, <1>3, <1>5 DEF BrokerKept

LEMMA BrokerTakeKeeps ==
  ASSUME BrokerTyped, B!Assumption, BrokerKept, NEW c \in BrokerCallers, B!Take(c)
  PROVE  BrokerKept'
  <1>1. /\ BrokerTyped' /\ B!Kind = "memory" /\ brokerCaller'[c].pc \in {"idle", "wait"}
        /\ brokerCaller'[c].pc = "wait" => brokerCaller[c].blocks
        /\ brokerCaller[c].pc = "take" /\ \A d \in BrokerCallers : d # c => brokerCaller'[d] = brokerCaller[d]
    BY BrokerTakeTyped
  <1>2. UNCHANGED brokerSetting BY DEF B!Take
  <1>3. \A x \in BrokerIds, d \in BrokerCallers : Carries(d, x) => Carries(d, x)' BY <1>1 DEF Carries
  <1>4. B!Priority => ~brokerCaller[c].blocks BY <1>1 DEF BrokerKept
  <1>5. \A d \in BrokerCallers : B!Priority /\ brokerCaller[d].pc \notin {"popped", "set", "wait"} => brokerCaller'[d].pc \notin {"popped", "set", "wait"}
    BY <1>1, <1>4
  <1>6. CASE \E i \in BrokerIds : B!MemoryTake(c, i) /\ B!Ends(c)
    <2> PICK i \in BrokerIds : B!MemoryTake(c, i) /\ B!Ends(c) BY <1>6
    <2>1. brokerCaller'[c] = B!Idle BY <1>2, BrokerEndsTyped DEF BrokerTyped
    <2>2. \A d \in BrokerCallers : B!Priority /\ B!Kind = "memory" /\ ~brokerCaller[d].blocks => ~brokerCaller'[d].blocks
      BY <1>1, <2>1 DEF B!Idle
    <2> QED BY <1>1, <1>2, <1>3, <1>5, <2>2, TakeMoves
  <1>7. CASE ~ \E i \in BrokerIds : B!MemoryTake(c, i) /\ B!Ends(c)
    <2>1. /\ brokerCaller' = [brokerCaller EXCEPT ![c] = IF @.blocks THEN [@ EXCEPT !.pc = "wait"] ELSE B!Idle]
          /\ UNCHANGED <<B!lists, brokerLock, B!histories>>
      BY <1>7 DEF B!Take
    <2>2. B!Priority => brokerCaller'[c] = B!Idle BY <1>4, <2>1 DEF BrokerTyped, BrokerCallersTyped
    <2>3. \A d \in BrokerCallers : B!Priority /\ B!Kind = "memory" /\ ~brokerCaller[d].blocks => ~brokerCaller'[d].blocks
      BY <1>1, <2>2 DEF B!Idle
    <2>4. UNCHANGED <<brokerOwed, brokerGone, brokerSole>> BY <2>1 DEF B!histories
    <2>5. B!Fits(brokerSetting') /\ B!Kind' = B!Kind /\ B!Priority' = B!Priority BY <1>2, BrokerFitsStay DEF BrokerKept
    <2>6. brokerOwed' \subseteq BrokerIds BY <2>4 DEF BrokerTyped, BrokerLocksTyped
    <2> QED BY <1>3, <1>5, <2>1, <2>3, <2>4, <2>5, <2>6, BrokerCallersMove
  <1> QED BY <1>6, <1>7

LEMMA BrokerReadyKeeps ==
  ASSUME BrokerTyped, B!Assumption, BrokerKept, NEW c \in BrokerCallers, B!Ready(c)
  PROVE  BrokerKept'
  <1>1. /\ BrokerTyped' /\ B!Kind = "memory" /\ brokerCaller[c].pc = "wait" /\ brokerCaller'[c].pc = "wait"
        /\ \A d \in BrokerCallers : d # c => brokerCaller'[d] = brokerCaller[d]
    BY BrokerReadyTyped
  <1>2. UNCHANGED brokerSetting BY DEF B!Ready
  <1>3. \A x \in BrokerIds, d \in BrokerCallers : Carries(d, x) => Carries(d, x)' BY <1>1 DEF Carries
  <1>4. ~B!Priority BY <1>1 DEF BrokerKept
  <1> PICK i \in BrokerIds : B!MemoryTake(c, i) BY DEF B!Ready
  <1> QED BY <1>1, <1>2, <1>3, <1>4, TakeMoves

LEMMA BrokerResolveKeeps ==
  ASSUME BrokerTyped, B!Assumption, BrokerKept, NEW c \in BrokerCallers, B!Resolve(c)
  PROVE  BrokerKept'
  <1>0. Head(brokerCaller[c].taken) \in BrokerIds BY BrokerResolveTyped
  <1> PICK i \in BrokerIds : i = Head(brokerCaller[c].taken) BY <1>0
  <1>1. /\ BrokerTyped' /\ B!Kind = "memory" /\ brokerCaller[c].pc = "wait" /\ brokerCaller'[c].pc = "wait" /\ i \in BrokerIds
        /\ \A d \in BrokerCallers : d # c => brokerCaller'[d] = brokerCaller[d]
    BY BrokerResolveTyped
  <1>2. /\ UNCHANGED brokerSetting
        /\ \/ B!GiveBack(i, FALSE) /\ B!Unlock(i) /\ UNCHANGED brokerOwed
           \/ UNCHANGED <<B!lists, brokerLock, B!histories>>
    BY Zenon DEF B!Resolve
  <1>3. \A x \in BrokerIds, d \in BrokerCallers : Carries(d, x) => Carries(d, x)' BY <1>1 DEF Carries
  <1>4. ~B!Priority BY <1>1 DEF BrokerKept
  <1>5. B!Fits(brokerSetting') /\ B!Kind' = B!Kind /\ B!Priority' = B!Priority BY <1>2, BrokerFitsStay DEF BrokerKept
  <1>6. CASE B!GiveBack(i, FALSE) /\ B!Unlock(i) /\ UNCHANGED brokerOwed
    <2>1. SameButFor(i) /\ OnlyIn(i, "queue") BY <1>1, <1>6, GiveBackDoes DEF BrokerTyped
    <2>2. Somewhere(i)' BY <1>1, <1>4, <1>5, <2>1 DEF Somewhere, OnlyIn, B!Readable
    <2>3. \A x \in BrokerIds : x # i => brokerLock'[x] = brokerLock[x] BY <1>6 DEF B!Unlock, BrokerTyped, BrokerLocksTyped
    <2> QED BY <1>1, <1>3, <1>4, <1>5, <1>6, <2>1, <2>2, <2>3, OneMoves DEF BrokerTyped, OnlyIn
  <1>7. CASE UNCHANGED <<B!lists, brokerLock, B!histories>>
    <2>1. UNCHANGED <<brokerOwed, brokerGone, brokerSole>> BY <1>7 DEF B!histories
    <2>2. brokerOwed' \subseteq BrokerIds BY <2>1 DEF BrokerTyped, BrokerLocksTyped
    <2> QED BY <1>3, <1>4, <1>5, <1>7, <2>1, <2>2, BrokerCallersMove
  <1> QED BY <1>2, <1>6, <1>7

LEMMA BrokerTimeoutKeeps ==
  ASSUME BrokerTyped, B!Assumption, BrokerKept, NEW c \in BrokerCallers, B!Timeout(c)
  PROVE  BrokerKept'
  <1>1. UNCHANGED <<brokerSetting, B!lists, brokerLock, B!histories>> /\ brokerCaller[c].pc = "wait" BY DEF B!Timeout
  <1>2. BrokerTyped' /\ B!Ends(c) BY BrokerTimeoutTyped
  <1>3. brokerCaller'[c] = B!Idle /\ \A d \in BrokerCallers : d # c => brokerCaller'[d] = brokerCaller[d] BY <1>1, <1>2, BrokerEndsTyped DEF BrokerTyped
  <1>4. UNCHANGED <<brokerOwed, brokerGone, brokerSole>> BY <1>1 DEF B!histories
  <1>5. \A x \in brokerOwed', d \in BrokerCallers : Carries(d, x) => Carries(d, x)' BY <1>1, <1>3 DEF Carries
  <1>6. B!Fits(brokerSetting') /\ B!Kind' = B!Kind /\ B!Priority' = B!Priority BY <1>1, BrokerFitsStay DEF BrokerKept
  <1>7. \A d \in BrokerCallers : /\ B!Priority /\ brokerCaller[d].pc \notin {"popped", "set", "wait"} => brokerCaller'[d].pc \notin {"popped", "set", "wait"}
                                 /\ B!Priority /\ B!Kind = "memory" /\ ~brokerCaller[d].blocks => ~brokerCaller'[d].blocks
    BY <1>3 DEF B!Idle
  <1> QED BY <1>1, <1>4, <1>5, <1>6, <1>7, BrokerCallersMove

LEMMA BrokerListDueKeeps ==
  ASSUME BrokerTyped, B!Assumption, BrokerKept, NEW c \in BrokerCallers, B!ListDue(c)
  PROVE  BrokerKept'
  <1>1. UNCHANGED <<brokerSetting, B!lists, brokerLock, B!histories>> BY DEF B!ListDue
  <1>2. /\ BrokerTyped' /\ brokerCaller[c].pc = "list" /\ brokerCaller'[c].pc \in {"pop", "promote"}
        /\ \A d \in BrokerCallers : d # c => brokerCaller'[d] = brokerCaller[d]
    BY BrokerListDueTyped
  <1>3. B!Kind = "redis" BY <1>2 DEF BrokerTyped, BrokerCallersTyped, CallerShape, B!Kind
  <1>4. UNCHANGED <<brokerOwed, brokerGone, brokerSole>> BY <1>1 DEF B!histories
  <1>5. \A x \in brokerOwed', d \in BrokerCallers : Carries(d, x) => Carries(d, x)' BY <1>1, <1>2 DEF Carries
  <1>6. B!Fits(brokerSetting') /\ B!Kind' = B!Kind /\ B!Priority' = B!Priority BY <1>1, BrokerFitsStay DEF BrokerKept
  <1>7. \A d \in BrokerCallers : B!Priority /\ brokerCaller[d].pc \notin {"popped", "set", "wait"} => brokerCaller'[d].pc \notin {"popped", "set", "wait"}
    BY <1>2
  <1> QED BY <1>1, <1>3, <1>4, <1>5, <1>6, <1>7, BrokerCallersMove

LEMMA BrokerPromoteDueKeeps ==
  ASSUME BrokerTyped, B!Assumption, BrokerKept, NEW c \in BrokerCallers, B!PromoteDue(c)
  PROVE  BrokerKept'
  <1> DEFINE l == brokerCaller[c].listed
  <1>1. /\ BrokerTyped' /\ brokerCaller[c].pc = "promote" /\ brokerCaller'[c].pc = "pop" /\ B!Kind = "redis"
        /\ \A d \in BrokerCallers : d # c => brokerCaller'[d] = brokerCaller[d]
    BY BrokerPromoteDueTyped
  <1>2. UNCHANGED <<brokerSetting, brokerLock, B!histories>> BY DEF B!PromoteDue
  <1>3. /\ brokerRanked \subseteq brokerRanked' /\ B!ToSet(brokerQueue) \subseteq B!ToSet(brokerQueue') /\ brokerDelayed' = brokerDelayed \ (l \cap brokerDue)
        /\ B!Priority => brokerQueue' = brokerQueue /\ l \subseteq brokerRanked'
        /\ ~B!Priority => brokerRanked' = brokerRanked /\ l \subseteq B!ToSet(brokerQueue')
    BY PromoteDueDoes DEF BrokerTyped
  <1>4. UNCHANGED <<brokerOwed, brokerGone, brokerSole>> BY <1>2 DEF B!histories
  <1>5. B!Fits(brokerSetting') /\ B!Kind' = B!Kind /\ B!Priority' = B!Priority BY <1>2, BrokerFitsStay DEF BrokerKept
  <1>6. \A x \in BrokerIds, d \in BrokerCallers : Carries(d, x) => Carries(d, x)' BY <1>1 DEF Carries
  <1> HIDE DEF l
  <1>7. \A x \in brokerOwed : Somewhere(x)'
    <2> SUFFICES ASSUME NEW x \in brokerOwed PROVE Somewhere(x)' OBVIOUS
    <2>1. Somewhere(x) /\ x \in BrokerIds BY DEF BrokerKept, BrokerTyped, BrokerLocksTyped
    <2>2. CASE B!Readable(x)
      <3>1. B!Readable(x)' BY <1>1, <1>3, <1>5, <2>2 DEF B!Readable
      <3> QED BY <3>1 DEF Somewhere
    <2>3. CASE x \in brokerDelayed
      <3>1. x \in brokerDelayed' \/ B!Readable(x)' BY <1>1, <1>3, <1>5, <2>3 DEF B!Readable
      <3> QED BY <3>1 DEF Somewhere
    <2>4. CASE brokerLock[x] # B!Nobody \/ \E d \in BrokerCallers : Carries(d, x) BY <1>2, <1>6, <2>1, <2>4 DEF Somewhere
    <2> QED BY <2>1, <2>2, <2>3, <2>4 DEF Somewhere
  <1>8. /\ B!Priority => B!ToSet(brokerQueue') = {}
        /\ ~B!Priority => brokerRanked' = {}
    BY <1>1, <1>3 DEF BrokerKept
  <1>9. B!Priority => \A d \in BrokerCallers : brokerCaller'[d].pc \notin {"popped", "set", "wait"} BY <1>1 DEF BrokerKept
  <1> HIDE DEF Somewhere
  <1> QED BY <1>1, <1>4, <1>5, <1>7, <1>8, <1>9 DEF BrokerKept

LEMMA BrokerPopAndLockKeeps ==
  ASSUME BrokerTyped, B!Assumption, BrokerKept, NEW c \in BrokerCallers, B!PopAndLock(c)
  PROVE  BrokerKept'
  <1>1. /\ BrokerTyped' /\ brokerCaller[c].pc = "pop" /\ brokerCaller'[c].pc \in {"idle", "list"} /\ B!Kind = "redis"
        /\ \A d \in BrokerCallers : d # c => brokerCaller'[d] = brokerCaller[d]
        /\ UNCHANGED <<brokerSetting, brokerDelayed, brokerDue, brokerPaused>>
        /\ \/ \E i \in BrokerIds : /\ brokerLock[i] = B!Nobody /\ B!Handed(c, i)
                                   /\ B!Priority => brokerQueue' = brokerQueue /\ brokerRanked' = brokerRanked \ {i}
                                   /\ ~B!Priority => brokerRanked' = brokerRanked /\ B!ToSet(brokerQueue) = B!ToSet(brokerQueue') \cup {i}
           \/ UNCHANGED <<brokerQueue, brokerRanked, brokerLock, brokerLapsed, brokerHolds, B!histories>>
    BY BrokerPopAndLockTyped
  <1>2. B!Fits(brokerSetting') /\ B!Kind' = B!Kind /\ B!Priority' = B!Priority BY <1>1, BrokerFitsStay DEF BrokerKept
  <1>3. \A x \in BrokerIds, d \in BrokerCallers : Carries(d, x) => Carries(d, x)' BY <1>1 DEF Carries
  <1>4. \A d \in BrokerCallers : B!Priority /\ brokerCaller[d].pc \notin {"popped", "set", "wait"} => brokerCaller'[d].pc \notin {"popped", "set", "wait"}
    BY <1>1
  <1>5. CASE UNCHANGED <<brokerQueue, brokerRanked, brokerLock, brokerLapsed, brokerHolds, B!histories>>
    <2>1. UNCHANGED <<brokerOwed, brokerGone, brokerSole>> /\ UNCHANGED B!lists BY <1>1, <1>5 DEF B!histories, B!lists
    <2>2. brokerOwed' \subseteq BrokerIds BY <2>1 DEF BrokerTyped, BrokerLocksTyped
    <2> QED BY <1>1, <1>2, <1>3, <1>4, <1>5, <2>1, <2>2, BrokerCallersMove
  <1>6. ASSUME NEW i \in BrokerIds, B!Handed(c, i),
               B!Priority => brokerQueue' = brokerQueue /\ brokerRanked' = brokerRanked \ {i},
               ~B!Priority => brokerRanked' = brokerRanked /\ B!ToSet(brokerQueue) = B!ToSet(brokerQueue') \cup {i}
        PROVE  BrokerKept'
    <2>1. SameButFor(i) BY <1>1, <1>6 DEF SameButFor
    <2>2. brokerOwed' = brokerOwed /\ brokerLock' = [brokerLock EXCEPT ![i] = c] BY <1>6 DEF B!Handed
    <2>3. c # B!Nobody BY DEF B!Assumption
    <2>4. brokerLock'[i] # B!Nobody /\ \A x \in BrokerIds : x # i => brokerLock'[x] = brokerLock[x] BY <2>2, <2>3 DEF BrokerTyped, BrokerLocksTyped
    <2>5. Somewhere(i)' BY <2>4 DEF Somewhere
    <2>6. (B!Priority => i \notin B!ToSet(brokerQueue')) /\ (~B!Priority => i \notin brokerRanked')
      BY <1>1, <1>6 DEF BrokerKept
    <2> QED BY <1>1, <1>2, <1>3, <1>4, <2>1, <2>2, <2>4, <2>5, <2>6, OneMoves DEF BrokerTyped
  <1>7. CASE ~UNCHANGED <<brokerQueue, brokerRanked, brokerLock, brokerLapsed, brokerHolds, B!histories>>
    <2> PICK i \in BrokerIds : /\ B!Handed(c, i)
                               /\ B!Priority => brokerQueue' = brokerQueue /\ brokerRanked' = brokerRanked \ {i}
                               /\ ~B!Priority => brokerRanked' = brokerRanked /\ B!ToSet(brokerQueue) = B!ToSet(brokerQueue') \cup {i}
      BY <1>1, <1>7, Zenon
    <2> QED BY <1>6
  <1> QED BY <1>5, <1>7

LEMMA BrokerBlockingPopKeeps ==
  ASSUME BrokerTyped, B!Assumption, BrokerKept, NEW c \in BrokerCallers, B!BlockingPop(c)
  PROVE  BrokerKept'
  <1>1. /\ BrokerTyped' /\ brokerCaller[c].pc = "pop" /\ B!Kind = "redis" /\ ~B!Priority
        /\ \A d \in BrokerCallers : d # c => brokerCaller'[d] = brokerCaller[d]
        /\ UNCHANGED <<brokerSetting, brokerRanked, brokerDelayed, brokerDue, brokerLock, brokerLapsed, brokerPaused, brokerHolds, B!histories>>
        /\ \/ brokerCaller'[c].pc = "popped" /\ brokerCaller'[c].id \in BrokerIds /\ B!ToSet(brokerQueue) = B!ToSet(brokerQueue') \cup {brokerCaller'[c].id}
           \/ brokerCaller'[c].pc \in {"idle", "list"} /\ UNCHANGED brokerQueue
    BY BrokerBlockingPopTyped
  <1>2. B!Fits(brokerSetting') /\ B!Kind' = B!Kind /\ B!Priority' = B!Priority BY <1>1, BrokerFitsStay DEF BrokerKept
  <1>3. \A x \in BrokerIds, d \in BrokerCallers : Carries(d, x) => Carries(d, x)' BY <1>1 DEF Carries
  <1>4. UNCHANGED <<brokerOwed, brokerGone, brokerSole>> BY <1>1 DEF B!histories
  <1>5. CASE UNCHANGED brokerQueue
    <2>1. UNCHANGED B!lists BY <1>1, <1>5 DEF B!lists
    <2>2. brokerOwed' \subseteq BrokerIds BY <1>4 DEF BrokerTyped, BrokerLocksTyped
    <2> QED BY <1>1, <1>2, <1>3, <1>4, <2>1, <2>2, BrokerCallersMove
  <1>6. ASSUME NEW i \in BrokerIds, brokerCaller'[c].pc = "popped", brokerCaller'[c].id = i, B!ToSet(brokerQueue) = B!ToSet(brokerQueue') \cup {i}
        PROVE  BrokerKept'
    <2>1. SameButFor(i) BY <1>1, <1>6 DEF SameButFor
    <2>2. Somewhere(i)' BY <1>6 DEF Somewhere, Carries
    <2>3. i \notin brokerRanked' BY <1>1 DEF BrokerKept
    <2> QED BY <1>1, <1>2, <1>3, <1>4, <2>1, <2>2, <2>3, OneMoves DEF BrokerTyped
  <1> QED BY <1>1, <1>5, <1>6

LEMMA BrokerRecheckKeeps ==
  ASSUME BrokerTyped, B!Assumption, BrokerKept, NEW c \in BrokerCallers, B!Recheck(c)
  PROVE  BrokerKept'
  <1>1. /\ BrokerTyped' /\ brokerCaller[c].pc = "popped" /\ B!Kind = "redis" /\ brokerCaller[c].id \in BrokerIds
        /\ \A d \in BrokerCallers : d # c => brokerCaller'[d] = brokerCaller[d]
        /\ UNCHANGED <<brokerSetting, brokerRanked, brokerDelayed, brokerDue, brokerLock, brokerLapsed, brokerPaused, brokerHolds, B!histories>>
        /\ \/ brokerCaller'[c].pc = "idle" /\ B!ToSet(brokerQueue') = B!ToSet(brokerQueue) \cup {brokerCaller[c].id}
           \/ brokerCaller'[c].pc = "set" /\ brokerCaller'[c].id = brokerCaller[c].id /\ UNCHANGED brokerQueue
    BY BrokerRecheckTyped
  <1> PICK i \in BrokerIds : i = brokerCaller[c].id BY <1>1
  <1>2. B!Fits(brokerSetting') /\ B!Kind' = B!Kind /\ B!Priority' = B!Priority BY <1>1, BrokerFitsStay DEF BrokerKept
  <1>3. UNCHANGED <<brokerOwed, brokerGone, brokerSole>> BY <1>1 DEF B!histories
  <1>4. ~B!Priority BY <1>1 DEF BrokerKept
  <1>5. SameButFor(i) BY <1>1 DEF SameButFor
  <1>6. \A x \in BrokerIds, d \in BrokerCallers : x # i /\ Carries(d, x) => Carries(d, x)' BY <1>1 DEF Carries
  <1>7. Somewhere(i)'
    <2>1. CASE B!ToSet(brokerQueue') = B!ToSet(brokerQueue) \cup {i} BY <1>2, <1>4, <2>1 DEF Somewhere, B!Readable
    <2>2. CASE brokerCaller'[c].pc = "set" /\ brokerCaller'[c].id = i BY <2>2 DEF Somewhere, Carries
    <2> QED BY <1>1, <2>1, <2>2
  <1>8. i \notin brokerRanked' BY <1>1, <1>4 DEF BrokerKept
  <1> QED BY <1>1, <1>2, <1>3, <1>4, <1>5, <1>6, <1>7, <1>8, OneMoves DEF BrokerTyped

LEMMA BrokerSetLockKeeps ==
  ASSUME BrokerTyped, B!Assumption, BrokerKept, NEW c \in BrokerCallers, B!SetLock(c)
  PROVE  BrokerKept'
  <1>1. /\ BrokerTyped' /\ brokerCaller[c].pc = "set" /\ B!Kind = "redis" /\ brokerCaller[c].id \in BrokerIds /\ brokerCaller'[c].pc = "idle"
        /\ \A d \in BrokerCallers : d # c => brokerCaller'[d] = brokerCaller[d]
        /\ UNCHANGED <<brokerSetting, brokerRanked, brokerDelayed, brokerDue, brokerPaused>>
        /\ \/ brokerLock[brokerCaller[c].id] = B!Nobody /\ B!Handed(c, brokerCaller[c].id) /\ UNCHANGED brokerQueue
           \/ UNCHANGED <<brokerLock, brokerLapsed, brokerHolds, B!histories>> /\ B!ToSet(brokerQueue') = B!ToSet(brokerQueue) \cup {brokerCaller[c].id}
    BY BrokerSetLockTyped
  <1> PICK i \in BrokerIds : i = brokerCaller[c].id BY <1>1
  <1>2. B!Fits(brokerSetting') /\ B!Kind' = B!Kind /\ B!Priority' = B!Priority BY <1>1, BrokerFitsStay DEF BrokerKept
  <1>4. ~B!Priority BY <1>1 DEF BrokerKept
  <1>5. SameButFor(i) BY <1>1 DEF SameButFor
  <1>6. \A x \in BrokerIds, d \in BrokerCallers : x # i /\ Carries(d, x) => Carries(d, x)' BY <1>1 DEF Carries
  <1>8. i \notin brokerRanked' BY <1>1, <1>4 DEF BrokerKept
  <1>9. CASE brokerLock[i] = B!Nobody /\ B!Handed(c, i) /\ UNCHANGED brokerQueue
    <2>1. brokerOwed' = brokerOwed /\ brokerLock' = [brokerLock EXCEPT ![i] = c] BY <1>9 DEF B!Handed
    <2>2. c # B!Nobody BY DEF B!Assumption
    <2>3. brokerLock'[i] # B!Nobody /\ \A x \in BrokerIds : x # i => brokerLock'[x] = brokerLock[x] BY <2>1, <2>2 DEF BrokerTyped, BrokerLocksTyped
    <2>4. Somewhere(i)' BY <2>3 DEF Somewhere
    <2> QED BY <1>1, <1>2, <1>4, <1>5, <1>6, <1>8, <2>1, <2>3, <2>4, OneMoves DEF BrokerTyped
  <1>10. CASE UNCHANGED <<brokerLock, brokerLapsed, brokerHolds, B!histories>> /\ B!ToSet(brokerQueue') = B!ToSet(brokerQueue) \cup {i}
    <2>1. UNCHANGED <<brokerOwed, brokerGone, brokerSole>> BY <1>10 DEF B!histories
    <2>2. Somewhere(i)' BY <1>2, <1>4, <1>10 DEF Somewhere, B!Readable
    <2> QED BY <1>1, <1>2, <1>4, <1>5, <1>6, <1>8, <1>10, <2>1, <2>2, OneMoves DEF BrokerTyped
  <1> QED BY <1>1, <1>9, <1>10

LEMMA BrokerClaimRowKeeps ==
  ASSUME BrokerTyped, B!Assumption, BrokerKept, NEW c \in BrokerCallers, B!ClaimRow(c)
  PROVE  BrokerKept'
  <1>1. /\ BrokerTyped' /\ B!Ends(c) /\ UNCHANGED <<brokerSetting, B!lists, brokerPaused>> /\ B!Kind = "postgres" /\ brokerCaller[c].pc = "take"
        /\ \/ UNCHANGED <<brokerLock, brokerLapsed, brokerHolds, B!histories>>
           \/ \E i \in B!ToSet(brokerQueue) : i \in BrokerIds /\ B!Handed(c, i)
    BY BrokerClaimRowTyped
  <1>2. brokerCaller'[c] = B!Idle /\ \A d \in BrokerCallers : d # c => brokerCaller'[d] = brokerCaller[d] BY <1>1, BrokerEndsTyped DEF BrokerTyped
  <1>3. B!Fits(brokerSetting') /\ B!Kind' = B!Kind /\ B!Priority' = B!Priority BY <1>1, BrokerFitsStay DEF BrokerKept
  <1>n. c # B!Nobody BY DEF B!Assumption
  <1>4. brokerOwed' = brokerOwed /\ \A x \in BrokerIds : brokerLock[x] # B!Nobody => brokerLock'[x] # B!Nobody
    BY <1>1, <1>n DEF B!Handed, B!histories, BrokerTyped, BrokerLocksTyped
  <1>5. \A x \in brokerOwed', d \in BrokerCallers : Carries(d, x) => Carries(d, x)' BY <1>1, <1>2 DEF Carries
  <1>6. \A d \in BrokerCallers : B!Priority /\ brokerCaller[d].pc \notin {"popped", "set", "wait"} => brokerCaller'[d].pc \notin {"popped", "set", "wait"}
    BY <1>2 DEF B!Idle
  <1> QED BY <1>1, <1>3, <1>4, <1>5, <1>6, BrokerCallersMove

LEMMA BrokerExtendKeeps ==
  ASSUME BrokerTyped, B!Assumption, BrokerKept, NEW c \in BrokerCallers, NEW i \in BrokerIds, B!Extend(c, i)
  PROVE  BrokerKept'
  <1>1. UNCHANGED <<brokerSetting, B!lists, brokerLock, brokerCaller, brokerOwed>> BY DEF B!Extend
  <1>2. B!Fits(brokerSetting') /\ B!Kind' = B!Kind /\ B!Priority' = B!Priority BY <1>1, BrokerFitsStay DEF BrokerKept
  <1>3. \A x \in brokerOwed', d \in BrokerCallers : Carries(d, x) => Carries(d, x)' BY <1>1 DEF Carries
  <1> QED BY <1>1, <1>2, <1>3, BrokerCallersMove

(* What is settled is owed no more.                                         *)
LEMMA BrokerSettlingKeeps ==
  ASSUME BrokerTyped, B!Assumption, BrokerKept, NEW i \in BrokerIds, B!Purge(i), B!Unlock(i), B!Forget(i), UNCHANGED brokerCaller,
         UNCHANGED brokerSetting \/ \E call \in B!Calls : B!Offered(call), BrokerTyped'
  PROVE  BrokerKept'
  <1>1. B!Fits(brokerSetting') /\ B!Kind' = B!Kind /\ B!Priority' = B!Priority BY BrokerFitsStay DEF BrokerKept
  <1>2. SameButFor(i) /\ OnlyIn(i, "nowhere") BY PurgeDoes DEF BrokerTyped
  <1>3. brokerOwed' = brokerOwed \ {i} /\ \A x \in BrokerIds : x # i => brokerLock'[x] = brokerLock[x] BY DEF B!Forget, B!Unlock, BrokerTyped, BrokerLocksTyped
  <1>4. \A x \in BrokerIds, d \in BrokerCallers : x # i /\ Carries(d, x) => Carries(d, x)' BY DEF Carries
  <1>5. i \notin brokerOwed' /\ i \notin B!ToSet(brokerQueue') /\ i \notin brokerRanked' BY <1>2, <1>3 DEF OnlyIn
  <1> QED BY <1>1, <1>2, <1>3, <1>4, <1>5, OneMoves DEF BrokerTyped

LEMMA BrokerAckKeeps ==
  ASSUME BrokerTyped, B!Assumption, BrokerKept, NEW c \in BrokerCallers, NEW i \in BrokerIds, B!Ack(c, i)
  PROVE  BrokerKept'
  <1>1. B!Purge(i) /\ B!Unlock(i) /\ B!Forget(i) /\ UNCHANGED <<brokerSetting, brokerCaller>> BY DEF B!Ack
  <1>2. BrokerTyped' BY BrokerAckTyped
  <1> QED BY <1>1, <1>2, BrokerSettlingKeeps

LEMMA BrokerRemoveKeeps ==
  ASSUME BrokerTyped, B!Assumption, BrokerKept, NEW i \in BrokerIds, B!RemoveId(i)
  PROVE  BrokerKept'
  <1>1. B!Purge(i) /\ B!Unlock(i) /\ B!Forget(i) /\ UNCHANGED brokerCaller /\ \E call \in B!Calls : B!Offered(call)
    BY DEF B!RemoveId, B!Calls
  <1>2. BrokerTyped' BY BrokerRemoveTyped
  <1> QED BY <1>1, <1>2, BrokerSettlingKeeps

LEMMA BrokerNackKeeps ==
  ASSUME BrokerTyped, B!Assumption, BrokerKept, NEW c \in BrokerCallers, NEW i \in BrokerIds, NEW call \in {"nack", "defer"}, B!Nack(c, i, call)
  PROVE  BrokerKept'
  <1>1. /\ B!GiveBack(i, call = "defer") /\ B!Unlock(i) /\ UNCHANGED brokerCaller /\ B!Offered(call) /\ call \in B!Calls
        /\ IF B!Kind = "postgres" /\ i \notin B!ToSet(brokerQueue) \cup brokerDelayed THEN UNCHANGED brokerOwed ELSE brokerOwed' = brokerOwed \cup {i}
    BY Zenon DEF B!Nack, B!Calls
  <1>2. (call = "defer") \in BOOLEAN OBVIOUS
  <1>3. BrokerTyped' BY BrokerNackTyped
  <1>4. B!Fits(brokerSetting') /\ B!Kind' = B!Kind /\ B!Priority' = B!Priority BY <1>1, BrokerFitsStay DEF BrokerKept
  <1>5. \A x \in BrokerIds : x # i => brokerLock'[x] = brokerLock[x] BY <1>1 DEF B!Unlock, BrokerTyped, BrokerLocksTyped
  <1>6. \A x \in BrokerIds, d \in BrokerCallers : x # i /\ Carries(d, x) => Carries(d, x)' BY <1>1 DEF Carries
  <1>7. SameButFor(i) BY <1>1, <1>2, GiveBackDoes DEF BrokerTyped
  <1>8. CASE B!Kind # "postgres"
    <2>1. OnlyIn(i, IF call = "defer" THEN "delayed" ELSE "queue") BY <1>1, <1>2, <1>8, GiveBackDoes DEF BrokerTyped
    <2>2. B!Priority => call = "defer"
      <3>1. B!Priority => brokerSetting.offers["nack"] = 0 BY <1>8 DEF BrokerKept, B!Fits, B!Priority, B!Kind
      <3>2. call = "nack" => brokerSetting.offers["nack"] > 0 BY <1>1 DEF B!Offered
      <3> QED BY <3>1, <3>2
    <2>3. /\ B!Priority => i \notin B!ToSet(brokerQueue')
          /\ i \notin brokerRanked'
      BY <2>1, <2>2 DEF OnlyIn
    <2>4. Somewhere(i)' BY <1>4, <1>8, <2>1, <2>2 DEF Somewhere, OnlyIn, B!Readable
    <2> QED BY <1>1, <1>3, <1>4, <1>5, <1>6, <1>7, <1>8, <2>3, <2>4, OneMoves DEF BrokerTyped
  <1>9. CASE B!Kind = "postgres" /\ i \in B!ToSet(brokerQueue) \cup brokerDelayed
    <2>1. brokerRanked' = brokerRanked /\ i \in B!ToSet(brokerQueue') \cup brokerDelayed' BY <1>1, <1>2, <1>9, GiveBackDoes DEF BrokerTyped
    <2>2. Somewhere(i)' BY <1>4, <1>9, <2>1 DEF Somewhere, B!Readable
    <2>3. i \notin brokerRanked' BY <1>9, <2>1 DEF BrokerKept
    <2> QED BY <1>1, <1>3, <1>4, <1>5, <1>6, <1>7, <1>9, <2>1, <2>2, <2>3, OneMoves DEF BrokerTyped
  <1>10. CASE B!Kind = "postgres" /\ i \notin B!ToSet(brokerQueue) \cup brokerDelayed
    <2>1. brokerRanked' = brokerRanked /\ brokerOwed' = brokerOwed BY <1>1, <1>2, <1>10, GiveBackDoes DEF BrokerTyped
    <2>2. i \notin brokerOwed' /\ i \notin brokerRanked' BY <1>10, <2>1 DEF BrokerKept
    <2> QED BY <1>1, <1>3, <1>4, <1>5, <1>6, <1>7, <1>10, <2>1, <2>2, OneMoves DEF BrokerTyped
  <1> QED BY <1>8, <1>9, <1>10

LEMMA BrokerPauseKeeps ==
  ASSUME BrokerTyped, B!Assumption, BrokerKept, B!Pause \/ B!Resume
  PROVE  BrokerKept'
  <1>1. UNCHANGED <<B!lists, brokerLock, brokerCaller, B!histories>> /\ \E call \in B!Calls : B!Offered(call)
    BY DEF B!Pause, B!Resume, B!Calls
  <1>2. B!Fits(brokerSetting') /\ B!Kind' = B!Kind /\ B!Priority' = B!Priority BY <1>1, BrokerFitsStay DEF BrokerKept
  <1>3. \A x \in brokerOwed', d \in BrokerCallers : Carries(d, x) => Carries(d, x)' BY <1>1 DEF Carries
  <1>4. UNCHANGED <<brokerOwed, brokerGone, brokerSole>> BY <1>1 DEF B!histories
  <1> QED BY <1>1, <1>2, <1>3, <1>4, BrokerCallersMove

LEMMA BrokerComesDueKeeps ==
  ASSUME BrokerTyped, B!Assumption, BrokerKept, NEW i \in BrokerIds, B!ComesDue(i)
  PROVE  BrokerKept'
  <1>1. /\ BrokerTyped' /\ i \in brokerDelayed /\ UNCHANGED <<brokerSetting, brokerRanked, brokerLock, brokerLapsed, brokerCaller, B!histories>>
        /\ \/ B!Kind = "postgres" /\ B!ToSet(brokerQueue') = B!ToSet(brokerQueue) \cup {i} /\ brokerDelayed' = brokerDelayed \ {i}
           \/ B!Kind # "postgres" /\ UNCHANGED <<brokerDelayed, brokerQueue>>
    BY ComesDueDoes
  <1>2. B!Fits(brokerSetting') /\ B!Kind' = B!Kind /\ B!Priority' = B!Priority BY <1>1, BrokerFitsStay DEF BrokerKept
  <1>3. SameButFor(i) BY <1>1 DEF SameButFor
  <1>4. \A x \in BrokerIds, d \in BrokerCallers : x # i /\ Carries(d, x) => Carries(d, x)' BY <1>1 DEF Carries
  <1>5. UNCHANGED <<brokerOwed, brokerGone, brokerSole>> BY <1>1 DEF B!histories
  <1>6. Somewhere(i)' BY <1>1, <1>2 DEF Somewhere, B!Readable
  <1>7. /\ B!Kind # "postgres" /\ B!Priority => i \notin B!ToSet(brokerQueue')
        /\ B!Kind = "postgres" \/ ~B!Priority => i \notin brokerRanked'
        /\ B!Kind = "postgres" => i \in B!ToSet(brokerQueue') \cup brokerDelayed'
    BY <1>1 DEF BrokerKept
  <1> QED BY <1>1, <1>2, <1>3, <1>4, <1>5, <1>6, <1>7, OneMoves DEF BrokerTyped

LEMMA BrokerLapseKeeps ==
  ASSUME BrokerTyped, B!Assumption, BrokerKept, NEW i \in BrokerIds, B!Lapse(i)
  PROVE  BrokerKept'
  <1>0. BrokerTyped' BY BrokerLapseTyped
  <1>1. UNCHANGED <<B!lists, brokerCaller>> /\ \E call \in B!Calls : B!Offered(call) BY DEF B!Lapse, B!Calls
  <1>2. B!Fits(brokerSetting') /\ B!Kind' = B!Kind /\ B!Priority' = B!Priority BY <1>1, BrokerFitsStay DEF BrokerKept
  <1>3. CASE B!Kind = "postgres"
    <2>1. UNCHANGED <<brokerLock, brokerOwed>> BY <1>3 DEF B!Lapse
    <2>2. \A x \in brokerOwed', d \in BrokerCallers : Carries(d, x) => Carries(d, x)' BY <1>1 DEF Carries
    <2> QED BY <1>1, <1>2, <2>1, <2>2, BrokerCallersMove
  <1>4. CASE B!Kind # "postgres"
    <2>1. B!Unlock(i) /\ brokerOwed' = IF i \in B!ToSet(brokerQueue) \cup brokerRanked \cup brokerDelayed THEN brokerOwed ELSE brokerOwed \ {i}
      BY <1>4 DEF B!Lapse
    <2>2. UNCHANGED <<brokerQueue, brokerRanked, brokerDelayed, brokerDue>> BY <1>1 DEF B!lists
    <2>3. SameButFor(i) BY <2>2 DEF SameButFor
    <2>4. \A x \in BrokerIds : x # i => brokerLock'[x] = brokerLock[x] BY <2>1 DEF B!Unlock, BrokerTyped, BrokerLocksTyped
    <2>5. \A x \in BrokerIds, d \in BrokerCallers : x # i /\ Carries(d, x) => Carries(d, x)' BY <1>1 DEF Carries
    <2>6. brokerOwed' \subseteq brokerOwed /\ (i \in brokerOwed' => i \in B!ToSet(brokerQueue) \cup brokerRanked \cup brokerDelayed) BY <2>1
    <2>7. i \in brokerOwed' => Somewhere(i)' BY <1>2, <1>4, <2>2, <2>6 DEF BrokerKept, Somewhere, B!Readable
    <2>8. /\ B!Priority => i \notin B!ToSet(brokerQueue')
          /\ ~B!Priority => i \notin brokerRanked'
      BY <1>4, <2>2 DEF BrokerKept
    <2> QED BY <1>0, <1>1, <1>2, <1>4, <2>3, <2>4, <2>5, <2>6, <2>7, <2>8, OneMoves DEF BrokerTyped
  <1> QED BY <1>3, <1>4

-----------------------------------------------------------------------------
(* No id goes to a second caller, and none that is gone comes back.         *)
HandsOnce ==
  /\ \A i \in BrokerIds : brokerSole[i] # B!Nobody => brokerSole'[i] \in {brokerSole[i], B!Nobody}
  /\ B!Kind = "redis" \/ ~B!Returns
TakensShrink == \A c \in BrokerCallers : B!ToSet(brokerCaller'[c].taken) \subseteq B!ToSet(brokerCaller[c].taken)

(* One id is released, and lies in at most one list afterwards.             *)
LEMMA OneReleased ==
  ASSUME BrokerTyped, BrokerHeld, NEW i \in BrokerIds, B!Kind' = B!Kind, B!Release(i), SameButFor(i), NoDup(brokerQueue) => NoDup(brokerQueue'),
         BrokerListsTyped', B!Kind = "memory" => \E where : OnlyIn(i, where),
         \A x \in BrokerIds : x # i => brokerLock'[x] = brokerLock[x],
         brokerLapsed' \subseteq brokerLapsed, brokerGone' \subseteq brokerGone \cup {i}, TakensShrink,
         B!Kind # "redis" /\ i \in brokerGone' =>
           /\ brokerLock'[i] = B!Nobody /\ i \notin B!ToSet(brokerQueue') /\ i \notin brokerRanked' /\ i \notin brokerDelayed'
           /\ \A c \in BrokerCallers : i \notin B!ToSet(brokerCaller'[c].taken)
  PROVE  BrokerHeld' /\ HandsOnce
  <1>1. brokerSole'[i] = B!Nobody /\ \A x \in BrokerIds : x # i => brokerSole'[x] = brokerSole[x] BY DEF B!Release, BrokerTyped, BrokerLocksTyped
  <1>2. HandsOnce
    <2>1. \A x \in BrokerIds : brokerSole[x] # B!Nobody => brokerSole'[x] \in {brokerSole[x], B!Nobody} BY <1>1
    <2>2. B!Kind # "redis" => \A x \in brokerGone : brokerSole[x] = B!Nobody
      <3> SUFFICES ASSUME B!Kind # "redis", NEW x \in brokerGone PROVE brokerSole[x] = B!Nobody OBVIOUS
      <3>1. x \in BrokerIds /\ brokerLock[x] = B!Nobody BY DEF BrokerHeld, BrokerTyped, BrokerLocksTyped
      <3> QED BY <3>1 DEF BrokerHeld
    <2>3. B!Kind # "redis" => ~B!Returns BY <1>1, <2>2 DEF B!Returns, BrokerTyped, BrokerLocksTyped
    <2> QED BY <2>1, <2>3 DEF HandsOnce
  <1>3. B!Kind' # "postgres" => brokerLapsed' = {} BY DEF BrokerHeld
  <1>4. \A x \in BrokerIds : brokerSole'[x] # B!Nobody => brokerLock'[x] = brokerSole'[x] /\ x \notin brokerLapsed' BY <1>1 DEF BrokerHeld
  <1>5. B!ToSet(brokerQueue) \subseteq BrokerIds /\ B!ToSet(brokerQueue') \subseteq BrokerIds BY Members DEF BrokerTyped, BrokerListsTyped
  <1>6. ASSUME B!Kind = "memory"
        PROVE  /\ NoDup(brokerQueue') /\ B!ToSet(brokerQueue') \cap brokerRanked' = {} /\ B!ToSet(brokerQueue') \cap brokerDelayed' = {} /\ brokerRanked' \cap brokerDelayed' = {}
               /\ \A x \in BrokerIds : brokerSole'[x] # B!Nobody => x \notin B!ToSet(brokerQueue') /\ x \notin brokerRanked' /\ x \notin brokerDelayed'
    <2>1. NoDup(brokerQueue') BY <1>6 DEF BrokerHeld
    <2> PICK where : OnlyIn(i, where) BY <1>6
    <2>2. \A x \in BrokerIds : /\ ~(x \in B!ToSet(brokerQueue') /\ x \in brokerRanked')
                               /\ ~(x \in B!ToSet(brokerQueue') /\ x \in brokerDelayed')
                               /\ ~(x \in brokerRanked' /\ x \in brokerDelayed')
      <3> SUFFICES ASSUME NEW x \in BrokerIds
                   PROVE  /\ ~(x \in B!ToSet(brokerQueue') /\ x \in brokerRanked')
                          /\ ~(x \in B!ToSet(brokerQueue') /\ x \in brokerDelayed')
                          /\ ~(x \in brokerRanked' /\ x \in brokerDelayed')
        OBVIOUS
      <3>1. CASE x = i BY <3>1 DEF OnlyIn
      <3>2. CASE x # i BY <1>6, <3>2 DEF BrokerHeld, SameButFor
      <3> QED BY <3>1, <3>2
    <2>3. \A x \in BrokerIds : brokerSole'[x] # B!Nobody => x \notin B!ToSet(brokerQueue') /\ x \notin brokerRanked' /\ x \notin brokerDelayed'
      BY <1>1, <1>6 DEF BrokerHeld, NowhereListed, SameButFor
    <2>4. B!ToSet(brokerQueue') \cap brokerRanked' = {} /\ B!ToSet(brokerQueue') \cap brokerDelayed' = {} BY <1>5, <2>2
    <2>5. brokerRanked' \cap brokerDelayed' = {} BY <2>2 DEF BrokerListsTyped
    <2> QED BY <2>1, <2>3, <2>4, <2>5
  <1>7. ASSUME B!Kind # "redis", NEW x \in brokerGone'
        PROVE  /\ brokerLock'[x] = B!Nobody /\ x \notin B!ToSet(brokerQueue') /\ x \notin brokerRanked' /\ x \notin brokerDelayed'
               /\ \A c \in BrokerCallers : x \notin B!ToSet(brokerCaller'[c].taken)
    <2>1. CASE x = i BY <1>7, <2>1
    <2>2. CASE x # i
      <3>1. x \in brokerGone /\ x \in BrokerIds BY <2>2 DEF BrokerTyped, BrokerLocksTyped
      <3>2. brokerLock[x] = B!Nobody /\ NowhereListed(x) /\ \A c \in BrokerCallers : x \notin B!ToSet(brokerCaller[c].taken) BY <1>7, <3>1 DEF BrokerHeld
      <3> QED BY <2>2, <3>1, <3>2 DEF NowhereListed, SameButFor, TakensShrink
    <2> QED BY <2>1, <2>2
  <1> HIDE DEF HandsOnce, TakensShrink, SameButFor
  <1>8. BrokerHeld' BY <1>3, <1>4, <1>6, <1>7 DEF BrokerHeld, NowhereListed
  <1> QED BY <1>2, <1>8

(* A step of Redis that hands nothing out, or what nobody holds.            *)
LEMMA BrokerRedisHands ==
  ASSUME BrokerTyped, BrokerHeld, B!Kind = "redis", B!Kind' = B!Kind,
         \/ UNCHANGED <<brokerLock, brokerLapsed, brokerSole>>
         \/ \E c \in BrokerCallers, i \in BrokerIds : brokerLock[i] = B!Nobody /\ B!Handed(c, i)
  PROVE  BrokerHeld' /\ HandsOnce
  <1>1. CASE UNCHANGED <<brokerLock, brokerLapsed, brokerSole>> BY <1>1 DEF BrokerHeld, HandsOnce
  <1>2. CASE \E c \in BrokerCallers, i \in BrokerIds : brokerLock[i] = B!Nobody /\ B!Handed(c, i)
    <2> PICK c \in BrokerCallers, i \in BrokerIds : brokerLock[i] = B!Nobody /\ B!Handed(c, i) BY <1>2
    <2>1. /\ brokerLock'[i] = c /\ brokerSole'[i] = c /\ i \notin brokerLapsed' /\ brokerLapsed' \subseteq brokerLapsed
          /\ \A x \in BrokerIds : x # i => brokerLock'[x] = brokerLock[x] /\ brokerSole'[x] = brokerSole[x]
      BY DEF B!Handed, BrokerTyped, BrokerLocksTyped
    <2>2. brokerSole[i] = B!Nobody BY DEF BrokerHeld
    <2>3. HandsOnce BY <2>1, <2>2 DEF HandsOnce
    <2>4. \A x \in BrokerIds : brokerSole'[x] # B!Nobody => brokerLock'[x] = brokerSole'[x] /\ x \notin brokerLapsed' BY <2>1 DEF BrokerHeld
    <2>5. brokerLapsed' = {} BY <2>1 DEF BrokerHeld
    <2> QED BY <2>3, <2>4, <2>5 DEF BrokerHeld
  <1> QED BY <1>1, <1>2

(* A step that leaves lists, locks and histories as they are.               *)
LEMMA NothingHanded ==
  ASSUME BrokerTyped, BrokerHeld, B!Kind' = B!Kind, UNCHANGED <<brokerQueue, brokerRanked, brokerDelayed, brokerLock, brokerLapsed, brokerGone, brokerSole>>, TakensShrink
  PROVE  BrokerHeld' /\ HandsOnce
  <1>1. HandsOnce
    <2>1. B!Kind # "redis" => \A x \in brokerGone : brokerSole[x] = B!Nobody
      <3> SUFFICES ASSUME B!Kind # "redis", NEW x \in brokerGone PROVE brokerSole[x] = B!Nobody OBVIOUS
      <3>1. x \in BrokerIds /\ brokerLock[x] = B!Nobody BY DEF BrokerHeld, BrokerTyped, BrokerLocksTyped
      <3> QED BY <3>1 DEF BrokerHeld
    <2> QED BY <2>1 DEF HandsOnce, B!Returns
  <1>2. BrokerHeld' BY DEF BrokerHeld, NowhereListed, TakensShrink
  <1> QED BY <1>1, <1>2

(* A claim of the memory broker.                                            *)
LEMMA BrokerTakeHands ==
  ASSUME BrokerTyped, B!Assumption, BrokerHeld, NEW c \in BrokerCallers, NEW i \in BrokerIds, B!MemoryTake(c, i), B!Kind = "memory", B!Kind' = B!Kind,
         \A d \in BrokerCallers : B!ToSet(brokerCaller'[d].taken) \subseteq B!ToSet(brokerCaller[d].taken) \cup {i}
  PROVE  BrokerHeld' /\ HandsOnce
  <1>1. /\ brokerDue' = {} /\ brokerDelayed' = brokerDelayed \ brokerDue /\ BrokerListsTyped'
        /\ B!Priority => B!ToSet(brokerQueue') = B!ToSet(brokerQueue) /\ (NoDup(brokerQueue) => NoDup(brokerQueue'))
                        /\ i \in brokerRanked \cup brokerDue /\ brokerRanked' = (brokerRanked \cup brokerDue) \ {i}
        /\ ~B!Priority => /\ brokerRanked' = brokerRanked /\ B!ToSet(brokerQueue) \cup brokerDue = B!ToSet(brokerQueue') \cup {i}
                          /\ NoDup(brokerQueue) /\ B!ToSet(brokerQueue) \cap brokerDue = {} => NoDup(brokerQueue') /\ i \notin B!ToSet(brokerQueue')
    BY TakeDoes DEF BrokerTyped
  <1>2. B!Handed(c, i) BY TakeDoes DEF BrokerTyped
  <1>3. /\ brokerLock'[i] = c /\ brokerSole'[i] = c /\ i \notin brokerLapsed' /\ brokerLapsed' \subseteq brokerLapsed /\ brokerGone' = brokerGone
        /\ \A x \in BrokerIds : x # i => brokerLock'[x] = brokerLock[x] /\ brokerSole'[x] = brokerSole[x]
    BY <1>2 DEF B!Handed, BrokerTyped, BrokerLocksTyped
  <1>4. /\ NoDup(brokerQueue) /\ B!ToSet(brokerQueue) \cap brokerRanked = {} /\ B!ToSet(brokerQueue) \cap brokerDelayed = {} /\ brokerRanked \cap brokerDelayed = {}
        /\ brokerLapsed = {} /\ brokerDue \subseteq brokerDelayed
    BY DEF BrokerHeld, BrokerTyped, BrokerListsTyped
  <1>5. NoDup(brokerQueue') /\ B!ToSet(brokerQueue') \cap brokerRanked' = {} /\ B!ToSet(brokerQueue') \cap brokerDelayed' = {} /\ brokerRanked' \cap brokerDelayed' = {}
    <2>1. CASE B!Priority BY <1>1, <1>4, <2>1
    <2>2. CASE ~B!Priority
      <3>1. NoDup(brokerQueue') /\ B!ToSet(brokerQueue') \subseteq B!ToSet(brokerQueue) \cup brokerDue BY <1>1, <1>4, <2>2
      <3> QED BY <1>1, <1>4, <2>2, <3>1
    <2> QED BY <2>1, <2>2
  <1>6. i \notin B!ToSet(brokerQueue') /\ i \notin brokerRanked' /\ i \notin brokerDelayed'
    <2>1. CASE B!Priority BY <1>1, <1>4, <2>1
    <2>2. CASE ~B!Priority
      <3>1. i \notin B!ToSet(brokerQueue') /\ i \in B!ToSet(brokerQueue) \cup brokerDue BY <1>1, <1>4, <2>2
      <3> QED BY <1>1, <1>4, <2>2, <3>1
    <2> QED BY <2>1, <2>2
  <1>7. ~NowhereListed(i) BY <1>1, <1>4 DEF NowhereListed
  <1>8. \A x \in BrokerIds : NowhereListed(x) => x \notin B!ToSet(brokerQueue') /\ x \notin brokerRanked' /\ x \notin brokerDelayed'
    BY <1>1, <1>4 DEF NowhereListed
  <1>9. brokerSole[i] = B!Nobody /\ i \notin brokerGone BY <1>7 DEF BrokerHeld
  <1>10. \A x \in brokerGone : x \in BrokerIds /\ x # i /\ brokerSole[x] = B!Nobody
    BY <1>9 DEF BrokerHeld, BrokerTyped, BrokerLocksTyped
  <1>11. HandsOnce BY <1>3, <1>9, <1>10 DEF HandsOnce, B!Returns
  <1>12. \A x \in BrokerIds : brokerSole'[x] # B!Nobody => brokerLock'[x] = brokerSole'[x] /\ x \notin brokerLapsed' BY <1>3 DEF BrokerHeld
  <1>13. \A x \in BrokerIds : brokerSole'[x] # B!Nobody => x \notin B!ToSet(brokerQueue') /\ x \notin brokerRanked' /\ x \notin brokerDelayed'
    BY <1>3, <1>6, <1>8 DEF BrokerHeld
  <1>14. \A x \in brokerGone' : /\ brokerLock'[x] = B!Nobody /\ x \notin B!ToSet(brokerQueue') /\ x \notin brokerRanked' /\ x \notin brokerDelayed'
                                /\ \A d \in BrokerCallers : x \notin B!ToSet(brokerCaller'[d].taken)
    <2> SUFFICES ASSUME NEW x \in brokerGone
                 PROVE  /\ brokerLock'[x] = B!Nobody /\ x \notin B!ToSet(brokerQueue') /\ x \notin brokerRanked' /\ x \notin brokerDelayed'
                        /\ \A d \in BrokerCallers : x \notin B!ToSet(brokerCaller'[d].taken)
      BY <1>3
    <2>1. brokerLock[x] = B!Nobody /\ NowhereListed(x) /\ \A d \in BrokerCallers : x \notin B!ToSet(brokerCaller[d].taken) BY DEF BrokerHeld
    <2> QED BY <1>3, <1>8, <1>10, <2>1
  <1>15. brokerLapsed' = {} BY <1>3, <1>4
  <1> HIDE DEF HandsOnce
  <1>16. BrokerHeld' BY <1>5, <1>12, <1>13, <1>14, <1>15 DEF BrokerHeld, NowhereListed
  <1> QED BY <1>11, <1>16

LEMMA BrokerReturningHands ==
  ASSUME BrokerTyped, B!Assumption, BrokerHeld, NEW c \in BrokerCallers, B!Resolve(c)
  PROVE  BrokerHeld' /\ HandsOnce
  <1>0. Head(brokerCaller[c].taken) \in BrokerIds BY BrokerResolveTyped
  <1> PICK i \in BrokerIds : i = Head(brokerCaller[c].taken) BY <1>0
  <1>1. /\ BrokerTyped' /\ B!Kind = "memory" /\ \A d \in BrokerCallers : d # c => brokerCaller'[d] = brokerCaller[d]
        /\ B!ToSet(brokerCaller[c].taken) = B!ToSet(brokerCaller'[c].taken) \cup {i}
    BY BrokerResolveTyped
  <1>2. /\ UNCHANGED brokerSetting
        /\ \/ B!GiveBack(i, FALSE) /\ B!Unlock(i) /\ B!Release(i) /\ UNCHANGED <<brokerHolds, brokerOwed, brokerGone>>
           \/ UNCHANGED <<B!lists, brokerLock, brokerLapsed, B!histories>>
    BY Zenon DEF B!Resolve
  <1>3. TakensShrink BY <1>1 DEF TakensShrink
  <1>4. B!Kind' = B!Kind BY <1>2 DEF B!Kind
  <1>5. CASE B!GiveBack(i, FALSE) /\ B!Unlock(i) /\ B!Release(i) /\ UNCHANGED <<brokerHolds, brokerOwed, brokerGone>>
    <2>1. SameButFor(i) /\ OnlyIn(i, "queue") /\ (NoDup(brokerQueue) => NoDup(brokerQueue')) BY <1>1, <1>5, GiveBackDoes DEF BrokerTyped
    <2>2. brokerLapsed' \subseteq brokerLapsed /\ \A x \in BrokerIds : x # i => brokerLock'[x] = brokerLock[x] BY <1>5 DEF B!Unlock, BrokerTyped, BrokerLocksTyped
    <2>3. i \notin brokerGone' BY <1>1, <1>5 DEF BrokerHeld
    <2> QED BY <1>1, <1>3, <1>4, <1>5, <2>1, <2>2, <2>3, OneReleased DEF BrokerTyped
  <1>6. CASE UNCHANGED <<B!lists, brokerLock, brokerLapsed, B!histories>>
    <2>1. UNCHANGED <<brokerQueue, brokerRanked, brokerDelayed, brokerLock, brokerLapsed, brokerGone, brokerSole>> BY <1>6 DEF B!lists, B!histories
    <2> QED BY <1>3, <1>4, <2>1, NothingHanded
  <1> QED BY <1>2, <1>5, <1>6

LEMMA BrokerPublishHands ==
  ASSUME BrokerTyped, B!Assumption, BrokerHeld, NEW c \in BrokerCallers, NEW i \in BrokerIds, NEW call \in {"publish", "later"}, B!Publish(c, i, call)
  PROVE  BrokerHeld' /\ HandsOnce
  <1>a. B!Offered(call) /\ call \in B!Calls BY DEF B!Publish, B!Calls
  <1>1. B!Kind' = B!Kind BY <1>a, BrokerSettingStays DEF BrokerTyped, B!Kind
  <1>2. CASE B!Kind = "redis"
    <2>1. UNCHANGED <<brokerLock, brokerLapsed, brokerSole>> BY <1>2 DEF B!Publish
    <2> QED BY <1>1, <1>2, <2>1, BrokerRedisHands
  <1>3. CASE B!Kind # "redis"
    <2>1. /\ B!Place(i, call = "later") /\ brokerGone' = brokerGone \ {i} /\ B!Release(i) /\ UNCHANGED brokerCaller
          /\ B!Unlock(i) \/ UNCHANGED <<brokerLock, brokerLapsed>>
      BY <1>3 DEF B!Publish, B!Published
    <2>2. (call = "later") \in BOOLEAN OBVIOUS
    <2>3. /\ BrokerListsTyped' /\ SameButFor(i) /\ (NoDup(brokerQueue) => NoDup(brokerQueue'))
          /\ \E where : OnlyIn(i, where)
      BY <2>1, <2>2, PlaceDoes DEF BrokerTyped
    <2>4. brokerLapsed' \subseteq brokerLapsed /\ \A x \in BrokerIds : x # i => brokerLock'[x] = brokerLock[x] BY <2>1 DEF B!Unlock, BrokerTyped, BrokerLocksTyped
    <2>5. TakensShrink BY <2>1 DEF TakensShrink
    <2> QED BY <1>1, <2>1, <2>3, <2>4, <2>5, OneReleased
  <1> QED BY <1>2, <1>3

LEMMA BrokerForgetHands ==
  ASSUME BrokerTyped, B!Assumption, BrokerHeld, NEW i \in BrokerIds, B!Purge(i), B!Unlock(i), B!Forget(i), UNCHANGED brokerCaller, B!Quiet, B!Kind' = B!Kind
  PROVE  BrokerHeld' /\ HandsOnce
  <1>1. BrokerListsTyped' /\ SameButFor(i) /\ (NoDup(brokerQueue) => NoDup(brokerQueue')) /\ OnlyIn(i, "nowhere") BY PurgeDoes DEF BrokerTyped
  <1>2. /\ brokerLapsed' \subseteq brokerLapsed /\ brokerLock'[i] = B!Nobody /\ \A x \in BrokerIds : x # i => brokerLock'[x] = brokerLock[x]
    BY DEF B!Unlock, BrokerTyped, BrokerLocksTyped
  <1>3. brokerGone' \subseteq brokerGone \cup {i} /\ B!Release(i) BY DEF B!Forget
  <1>4. TakensShrink BY DEF TakensShrink
  <1>5. \A d \in BrokerCallers : i \notin B!ToSet(brokerCaller'[d].taken)
    <2> SUFFICES ASSUME NEW d \in BrokerCallers PROVE i \notin B!ToSet(brokerCaller[d].taken) OBVIOUS
    <2>1. brokerCaller[d].taken = <<>> BY DEF B!Quiet
    <2>2. B!ToSet(<<>>) = {} BY DEF B!ToSet
    <2> QED BY <2>1, <2>2
  <1>6. i \notin B!ToSet(brokerQueue') /\ i \notin brokerRanked' /\ i \notin brokerDelayed' BY <1>1 DEF OnlyIn
  <1>7. \E where : OnlyIn(i, where) BY <1>1
  <1> QED BY <1>1, <1>2, <1>3, <1>4, <1>5, <1>6, <1>7, OneReleased

LEMMA BrokerNackHands ==
  ASSUME BrokerTyped, B!Assumption, BrokerHeld, NEW c \in BrokerCallers, NEW i \in BrokerIds, NEW call \in {"nack", "defer"}, B!Nack(c, i, call)
  PROVE  BrokerHeld' /\ HandsOnce
  <1>1. /\ B!GiveBack(i, call = "defer") /\ B!Unlock(i) /\ B!Release(i) /\ UNCHANGED brokerCaller /\ B!Offered(call) /\ call \in B!Calls /\ B!Quiet
        /\ IF B!Kind = "postgres" /\ i \notin B!ToSet(brokerQueue) \cup brokerDelayed THEN UNCHANGED brokerGone ELSE brokerGone' = brokerGone \ {i}
    BY Zenon DEF B!Nack, B!Calls
  <1>2. (call = "defer") \in BOOLEAN OBVIOUS
  <1>3. BrokerListsTyped' /\ SameButFor(i) /\ (NoDup(brokerQueue) => NoDup(brokerQueue')) BY <1>1, <1>2, GiveBackDoes DEF BrokerTyped
  <1>4. B!Kind' = B!Kind BY <1>1, BrokerSettingStays DEF BrokerTyped, B!Kind
  <1>5. /\ brokerLapsed' \subseteq brokerLapsed /\ brokerLock'[i] = B!Nobody /\ \A x \in BrokerIds : x # i => brokerLock'[x] = brokerLock[x]
    BY <1>1 DEF B!Unlock, BrokerTyped, BrokerLocksTyped
  <1>6. TakensShrink BY <1>1 DEF TakensShrink
  <1>7. B!Kind = "memory" => \E where : OnlyIn(i, where) BY <1>1, <1>2, GiveBackDoes DEF BrokerTyped
  <1>8. brokerGone' \subseteq brokerGone BY <1>1
  <1>9. B!Kind # "redis" /\ i \in brokerGone' =>
           /\ brokerLock'[i] = B!Nobody /\ i \notin B!ToSet(brokerQueue') /\ i \notin brokerRanked' /\ i \notin brokerDelayed'
           /\ \A d \in BrokerCallers : i \notin B!ToSet(brokerCaller'[d].taken)
    <2> SUFFICES ASSUME B!Kind # "redis", i \in brokerGone'
                 PROVE  /\ brokerLock'[i] = B!Nobody /\ i \notin B!ToSet(brokerQueue') /\ i \notin brokerRanked' /\ i \notin brokerDelayed'
                        /\ \A d \in BrokerCallers : i \notin B!ToSet(brokerCaller'[d].taken)
      OBVIOUS
    <2>1. B!Kind = "postgres" /\ i \notin B!ToSet(brokerQueue) \cup brokerDelayed /\ i \in brokerGone BY <1>1
    <2>2. UNCHANGED B!lists BY <1>1, <1>2, <2>1, GiveBackDoes DEF BrokerTyped
    <2>3. UNCHANGED <<brokerQueue, brokerRanked, brokerDelayed, brokerDue>> BY <2>2 DEF B!lists
    <2>4. NowhereListed(i) /\ \A d \in BrokerCallers : i \notin B!ToSet(brokerCaller[d].taken) BY <2>1 DEF BrokerHeld
    <2> QED BY <1>1, <1>5, <2>3, <2>4 DEF NowhereListed
  <1> QED BY <1>1, <1>3, <1>4, <1>5, <1>6, <1>7, <1>8, <1>9, OneReleased

LEMMA BrokerClaimRowHands ==
  ASSUME BrokerTyped, B!Assumption, BrokerHeld, NEW c \in BrokerCallers, B!ClaimRow(c)
  PROVE  BrokerHeld' /\ HandsOnce
  <1>1. /\ BrokerTyped' /\ B!Ends(c) /\ UNCHANGED <<brokerSetting, B!lists, brokerPaused>> /\ B!Kind = "postgres" /\ brokerCaller[c].pc = "take"
        /\ \/ UNCHANGED <<brokerLock, brokerLapsed, brokerHolds, B!histories>>
           \/ \E i \in B!ToSet(brokerQueue) : (brokerLock[i] = B!Nobody \/ i \in brokerLapsed) /\ i \in BrokerIds /\ B!Handed(c, i)
    BY BrokerClaimRowTyped
  <1>2. brokerCaller'[c] = B!Idle /\ \A d \in BrokerCallers : d # c => brokerCaller'[d] = brokerCaller[d] BY <1>1, BrokerEndsTyped DEF BrokerTyped
  <1>3. UNCHANGED <<brokerQueue, brokerRanked, brokerDelayed>> /\ B!Kind' = B!Kind BY <1>1 DEF B!lists, B!Kind
  <1>4. TakensShrink
    <2>1. B!ToSet(B!Idle.taken) = {} BY DEF B!ToSet, B!Idle
    <2> QED BY <1>2, <2>1 DEF TakensShrink
  <1>5. CASE UNCHANGED <<brokerLock, brokerLapsed, brokerHolds, B!histories>>
    <2>1. UNCHANGED <<brokerLock, brokerLapsed, brokerGone, brokerSole>> BY <1>5 DEF B!histories
    <2> QED BY <1>3, <1>4, <2>1, NothingHanded
  <1>6. ASSUME NEW i \in BrokerIds, i \in B!ToSet(brokerQueue), brokerLock[i] = B!Nobody \/ i \in brokerLapsed, B!Handed(c, i)
        PROVE  BrokerHeld' /\ HandsOnce
    <2>1. /\ brokerLock'[i] = c /\ brokerSole'[i] = c /\ i \notin brokerLapsed' /\ brokerLapsed' \subseteq brokerLapsed /\ brokerGone' = brokerGone
          /\ \A x \in BrokerIds : x # i => brokerLock'[x] = brokerLock[x] /\ brokerSole'[x] = brokerSole[x]
      BY <1>6 DEF B!Handed, BrokerTyped, BrokerLocksTyped
    <2>2. brokerSole[i] = B!Nobody BY <1>6 DEF BrokerHeld
    <2>3. \A x \in brokerGone : x \in BrokerIds /\ x # i /\ brokerSole[x] = B!Nobody
      BY <1>1, <1>6 DEF BrokerHeld, NowhereListed, BrokerTyped, BrokerLocksTyped
    <2>4. HandsOnce BY <2>1, <2>2, <2>3 DEF HandsOnce, B!Returns
    <2>5. \A x \in BrokerIds : brokerSole'[x] # B!Nobody => brokerLock'[x] = brokerSole'[x] /\ x \notin brokerLapsed' BY <2>1 DEF BrokerHeld
    <2>6. \A x \in brokerGone' : /\ brokerLock'[x] = B!Nobody /\ x \notin B!ToSet(brokerQueue') /\ x \notin brokerRanked' /\ x \notin brokerDelayed'
                                 /\ \A d \in BrokerCallers : x \notin B!ToSet(brokerCaller'[d].taken)
      BY <1>1, <1>3, <1>4, <2>1, <2>3 DEF BrokerHeld, NowhereListed, TakensShrink
    <2> HIDE DEF HandsOnce
    <2>7. BrokerHeld' BY <1>1, <1>3, <2>5, <2>6 DEF BrokerHeld, NowhereListed
    <2> QED BY <2>4, <2>7
  <1>7. CASE ~UNCHANGED <<brokerLock, brokerLapsed, brokerHolds, B!histories>>
    <2> PICK i \in B!ToSet(brokerQueue) : (brokerLock[i] = B!Nobody \/ i \in brokerLapsed) /\ i \in BrokerIds /\ B!Handed(c, i) BY <1>1, <1>7, Zenon
    <2> QED BY <1>6
  <1> QED BY <1>5, <1>7

LEMMA BrokerExtendHands ==
  ASSUME BrokerTyped, B!Assumption, BrokerHeld, NEW c \in BrokerCallers, NEW i \in BrokerIds, B!Extend(c, i)
  PROVE  BrokerHeld' /\ HandsOnce
  <1>1. /\ i \in brokerLapsed /\ brokerLock[i] = c /\ brokerLapsed' = brokerLapsed \ {i} /\ brokerSole' = [brokerSole EXCEPT ![i] = c]
        /\ UNCHANGED <<brokerSetting, B!lists, brokerLock, brokerCaller, brokerGone>>
    BY DEF B!Extend
  <1>2. UNCHANGED <<brokerQueue, brokerRanked, brokerDelayed>> /\ B!Kind' = B!Kind BY <1>1 DEF B!lists, B!Kind
  <1>3. brokerSole'[i] = c /\ \A x \in BrokerIds : x # i => brokerSole'[x] = brokerSole[x] BY <1>1 DEF BrokerTyped, BrokerLocksTyped
  <1>4. B!Kind = "postgres" /\ brokerSole[i] = B!Nobody BY <1>1 DEF BrokerHeld, BrokerTyped, BrokerSettingTyped, B!Kind
  <1>5. c # B!Nobody BY DEF B!Assumption
  <1>6. \A x \in brokerGone : x \in BrokerIds /\ x # i /\ brokerSole[x] = B!Nobody
    BY <1>1, <1>4, <1>5 DEF BrokerHeld, BrokerTyped, BrokerLocksTyped
  <1>7. HandsOnce BY <1>1, <1>3, <1>4, <1>6 DEF HandsOnce, B!Returns
  <1>8. BrokerHeld' BY <1>1, <1>2, <1>3, <1>4 DEF BrokerHeld, NowhereListed
  <1> QED BY <1>7, <1>8

LEMMA BrokerComesDueHands ==
  ASSUME BrokerTyped, B!Assumption, BrokerHeld, NEW i \in BrokerIds, B!ComesDue(i)
  PROVE  BrokerHeld' /\ HandsOnce
  <1>1. /\ BrokerTyped' /\ i \in brokerDelayed /\ UNCHANGED <<brokerSetting, brokerRanked, brokerLock, brokerLapsed, brokerCaller, B!histories>>
        /\ \/ B!Kind = "postgres" /\ B!ToSet(brokerQueue') = B!ToSet(brokerQueue) \cup {i} /\ brokerDelayed' = brokerDelayed \ {i}
           \/ B!Kind # "postgres" /\ UNCHANGED <<brokerDelayed, brokerQueue>>
    BY ComesDueDoes
  <1>2. B!Kind' = B!Kind /\ UNCHANGED <<brokerOwed, brokerGone, brokerSole>> BY <1>1 DEF B!Kind, B!histories
  <1>3. TakensShrink BY <1>1 DEF TakensShrink
  <1>4. CASE B!Kind # "postgres" BY <1>1, <1>2, <1>3, <1>4, NothingHanded
  <1>5. CASE B!Kind = "postgres"
    <2>1. \A x \in brokerGone : x \in BrokerIds /\ x # i /\ brokerSole[x] = B!Nobody
      BY <1>1, <1>5 DEF BrokerHeld, NowhereListed, BrokerTyped, BrokerLocksTyped
    <2>2. HandsOnce BY <1>2, <2>1 DEF HandsOnce, B!Returns
    <2>3. BrokerHeld' BY <1>1, <1>2, <1>5, <2>1 DEF BrokerHeld, NowhereListed
    <2> QED BY <2>2, <2>3
  <1> QED BY <1>4, <1>5

LEMMA BrokerLapseHands ==
  ASSUME BrokerTyped, B!Assumption, BrokerHeld, NEW i \in BrokerIds, B!Lapse(i)
  PROVE  BrokerHeld' /\ HandsOnce
  <1>1. /\ brokerLock[i] # B!Nobody /\ B!Release(i) /\ UNCHANGED <<B!lists, brokerCaller, brokerGone>>
        /\ \/ B!Kind = "postgres" /\ brokerLapsed' = brokerLapsed \cup {i} /\ UNCHANGED brokerLock
           \/ B!Kind # "postgres" /\ B!Unlock(i)
        /\ \E call \in B!Calls : B!Offered(call)
    BY DEF B!Lapse, B!Calls
  <1>2. B!Kind' = B!Kind BY <1>1, BrokerSettingStays DEF BrokerTyped, B!Kind
  <1>3. UNCHANGED <<brokerQueue, brokerRanked, brokerDelayed>> BY <1>1 DEF B!lists
  <1>4. brokerSole'[i] = B!Nobody /\ \A x \in BrokerIds : x # i => brokerSole'[x] = brokerSole[x] BY <1>1 DEF B!Release, BrokerTyped, BrokerLocksTyped
  <1>5. \A x \in BrokerIds : x # i => brokerLock'[x] = brokerLock[x] /\ (x \in brokerLapsed' <=> x \in brokerLapsed)
    BY <1>1 DEF B!Unlock, BrokerTyped, BrokerLocksTyped
  <1>6. B!Kind # "redis" => \A x \in brokerGone : x \in BrokerIds /\ x # i /\ brokerSole[x] = B!Nobody
    <2> SUFFICES ASSUME B!Kind # "redis", NEW x \in brokerGone PROVE x \in BrokerIds /\ x # i /\ brokerSole[x] = B!Nobody OBVIOUS
    <2>1. x \in BrokerIds /\ brokerLock[x] = B!Nobody BY DEF BrokerHeld, BrokerTyped, BrokerLocksTyped
    <2> QED BY <1>1, <2>1 DEF BrokerHeld
  <1>7. HandsOnce BY <1>1, <1>4, <1>6 DEF HandsOnce, B!Returns
  <1>8. B!Kind # "postgres" => brokerLapsed' = {} BY <1>1 DEF BrokerHeld, B!Unlock
  <1>9. \A x \in BrokerIds : brokerSole'[x] # B!Nobody => brokerLock'[x] = brokerSole'[x] /\ x \notin brokerLapsed' BY <1>4, <1>5 DEF BrokerHeld
  <1>10. B!Kind = "memory" => \A x \in BrokerIds : brokerSole'[x] # B!Nobody => NowhereListed(x) BY <1>4 DEF BrokerHeld
  <1>11. B!Kind # "redis" => \A x \in brokerGone : brokerLock'[x] = B!Nobody BY <1>5, <1>6 DEF BrokerHeld
  <1> HIDE DEF HandsOnce
  <1>12. BrokerHeld' BY <1>1, <1>2, <1>3, <1>8, <1>9, <1>10, <1>11 DEF BrokerHeld, NowhereListed
  <1> QED BY <1>7, <1>12

LEMMA BrokerTakingHands ==
  ASSUME BrokerTyped, B!Assumption, BrokerHeld, NEW c \in BrokerCallers, B!Take(c) \/ B!Ready(c)
  PROVE  BrokerHeld' /\ HandsOnce
  <1>1. CASE B!Take(c)
    <2>1. /\ B!Kind = "memory" /\ UNCHANGED brokerSetting /\ \A d \in BrokerCallers : d # c => brokerCaller'[d] = brokerCaller[d]
      BY <1>1, BrokerTakeTyped DEF B!Take
    <2>2. B!Kind' = B!Kind BY <2>1 DEF B!Kind
    <2>3. CASE \E i \in BrokerIds : B!MemoryTake(c, i) /\ B!Ends(c)
      <3> PICK i \in BrokerIds : B!MemoryTake(c, i) /\ B!Ends(c) BY <2>3
      <3>1. brokerCaller'[c] = B!Idle BY <2>1, BrokerEndsTyped DEF BrokerTyped
      <3>2. B!ToSet(B!Idle.taken) = {} BY DEF B!ToSet, B!Idle
      <3>3. \A d \in BrokerCallers : B!ToSet(brokerCaller'[d].taken) \subseteq B!ToSet(brokerCaller[d].taken) \cup {i} BY <2>1, <3>1, <3>2
      <3> QED BY <2>1, <2>2, <3>3, BrokerTakeHands
    <2>4. CASE ~ \E i \in BrokerIds : B!MemoryTake(c, i) /\ B!Ends(c)
      <3>1. /\ brokerCaller' = [brokerCaller EXCEPT ![c] = IF @.blocks THEN [@ EXCEPT !.pc = "wait"] ELSE B!Idle]
            /\ UNCHANGED <<B!lists, brokerLock, brokerLapsed, B!histories>>
        BY <1>1, <2>4 DEF B!Take
      <3>2. UNCHANGED <<brokerQueue, brokerRanked, brokerDelayed, brokerGone, brokerSole>> BY <3>1 DEF B!lists, B!histories
      <3>3. B!ToSet(brokerCaller'[c].taken) \subseteq B!ToSet(brokerCaller[c].taken)
        <4>1. B!ToSet(B!Idle.taken) = {} BY DEF B!ToSet, B!Idle
        <4>2. CASE brokerCaller[c].blocks
          <5>1. brokerCaller'[c] = [brokerCaller[c] EXCEPT !.pc = "wait"] BY <3>1, <4>2 DEF BrokerTyped, BrokerCallersTyped
          <5>2. brokerCaller'[c].taken = brokerCaller[c].taken BY <5>1 DEF BrokerTyped, BrokerCallersTyped, CallerShape
          <5> QED BY <5>2
        <4>3. CASE ~brokerCaller[c].blocks
          <5>1. brokerCaller'[c] = B!Idle BY <3>1, <4>3 DEF BrokerTyped, BrokerCallersTyped
          <5> QED BY <4>1, <5>1
        <4> QED BY <4>2, <4>3
      <3>4. TakensShrink BY <2>1, <3>3 DEF TakensShrink
      <3> QED BY <2>2, <3>1, <3>2, <3>4, NothingHanded
    <2> QED BY <2>3, <2>4
  <1>2. CASE B!Ready(c)
    <2>1. /\ B!Kind = "memory" /\ UNCHANGED brokerSetting /\ \A d \in BrokerCallers : d # c => brokerCaller'[d] = brokerCaller[d]
      BY <1>2, BrokerReadyTyped DEF B!Ready
    <2>2. B!Kind' = B!Kind BY <2>1 DEF B!Kind
    <2> PICK i \in BrokerIds : B!MemoryTake(c, i) /\ brokerCaller[c].taken \in Seq(BrokerIds) /\ brokerCaller'[c].taken = Append(brokerCaller[c].taken, i)
      BY <1>2, BrokerReadyTyped
    <2>3. B!ToSet(brokerCaller'[c].taken) = B!ToSet(brokerCaller[c].taken) \cup {i} BY AppendLists
    <2>4. \A d \in BrokerCallers : B!ToSet(brokerCaller'[d].taken) \subseteq B!ToSet(brokerCaller[d].taken) \cup {i} BY <2>1, <2>3
    <2> QED BY <2>1, <2>2, <2>4, BrokerTakeHands
  <1> QED BY <1>1, <1>2

LEMMA BrokerCallersHand ==
  ASSUME BrokerTyped, B!Assumption, BrokerHeld, NEW c \in BrokerCallers,
         B!Timeout(c) \/ \E call \in {"claim", "block"} : B!Start(c, call)
  PROVE  BrokerHeld' /\ HandsOnce
  <1>e. B!ToSet(<<>>) = {} BY DEF B!ToSet
  <1>1. CASE B!Timeout(c)
    <2>1. UNCHANGED <<brokerSetting, B!lists, brokerLock, brokerLapsed, B!histories>> /\ B!Ends(c) BY <1>1 DEF B!Timeout
    <2>2. UNCHANGED <<brokerQueue, brokerRanked, brokerDelayed, brokerGone, brokerSole>> /\ B!Kind' = B!Kind BY <2>1 DEF B!lists, B!histories, B!Kind
    <2>3. brokerCaller'[c] = B!Idle /\ \A d \in BrokerCallers : d # c => brokerCaller'[d] = brokerCaller[d] BY <2>1, BrokerEndsTyped DEF BrokerTyped
    <2>4. TakensShrink BY <1>e, <2>3 DEF TakensShrink, B!Idle
    <2> QED BY <2>1, <2>2, <2>4, NothingHanded
  <1>2. ASSUME NEW call \in {"claim", "block"}, B!Start(c, call) PROVE BrokerHeld' /\ HandsOnce
    <2>1. UNCHANGED <<B!lists, brokerLock, brokerLapsed, B!histories>> /\ B!Offered(call) /\ call \in B!Calls BY <1>2 DEF B!Start, B!Calls
    <2>2. UNCHANGED <<brokerQueue, brokerRanked, brokerDelayed, brokerGone, brokerSole>> BY <2>1 DEF B!lists, B!histories
    <2>3. B!Kind' = B!Kind BY <2>1, BrokerSettingStays DEF BrokerTyped, B!Kind
    <2>4. brokerCaller' = [brokerCaller EXCEPT ![c] = [B!Idle EXCEPT !.pc = IF B!Kind = "redis" THEN "list" ELSE "take", !.blocks = call = "block"]]
      BY <1>2 DEF B!Start
    <2>5. brokerCaller'[c] = [B!Idle EXCEPT !.pc = IF B!Kind = "redis" THEN "list" ELSE "take", !.blocks = call = "block"]
      BY <2>4 DEF BrokerTyped, BrokerCallersTyped
    <2>6. brokerCaller'[c].taken = <<>> BY <2>5 DEF B!Idle
    <2>7. TakensShrink BY <1>e, <2>4, <2>6 DEF TakensShrink, BrokerTyped, BrokerCallersTyped
    <2> QED BY <2>1, <2>2, <2>3, <2>7, NothingHanded
  <1> QED BY <1>1, <1>2

LEMMA BrokerRedisStepsHand ==
  ASSUME BrokerTyped, B!Assumption, BrokerHeld, NEW c \in BrokerCallers,
         B!Put(c) \/ B!ListDue(c) \/ B!PromoteDue(c) \/ B!PopAndLock(c) \/ B!BlockingPop(c) \/ B!Recheck(c) \/ B!SetLock(c)
  PROVE  BrokerHeld' /\ HandsOnce
  <1>1. B!Kind = "redis"
    BY DEF B!Put, B!ListDue, B!PromoteDue, B!PopAndLock, B!BlockingPop, B!Recheck, B!SetLock, BrokerTyped, BrokerCallersTyped, CallerShape, B!Kind
  <1>2. UNCHANGED brokerSetting
    BY DEF B!Put, B!ListDue, B!PromoteDue, B!PopAndLock, B!BlockingPop, B!Recheck, B!SetLock
  <1>3. \/ UNCHANGED <<brokerLock, brokerLapsed, brokerSole>>
        \/ \E d \in BrokerCallers, i \in BrokerIds : brokerLock[i] = B!Nobody /\ B!Handed(d, i)
    <2>1. CASE B!Put(c) BY <1>1, <2>1 DEF B!Put, B!Published
    <2>2. CASE B!ListDue(c) BY <2>2 DEF B!ListDue, B!histories
    <2>3. CASE B!PromoteDue(c) BY <2>3 DEF B!PromoteDue, B!histories
    <2>4. CASE B!PopAndLock(c)
      <3>1. \/ \E i \in BrokerIds : brokerLock[i] = B!Nobody /\ B!Handed(c, i)
            \/ UNCHANGED <<brokerQueue, brokerRanked, brokerLock, brokerLapsed, brokerHolds, B!histories>>
        BY <2>4, BrokerPopAndLockTyped
      <3> QED BY <3>1 DEF B!histories
    <2>5. CASE B!BlockingPop(c) BY <2>5 DEF B!BlockingPop, B!histories
    <2>6. CASE B!Recheck(c) BY <2>6 DEF B!Recheck, B!histories
    <2>7. CASE B!SetLock(c)
      <3>1. /\ brokerCaller[c].id \in BrokerIds
            /\ \/ brokerLock[brokerCaller[c].id] = B!Nobody /\ B!Handed(c, brokerCaller[c].id)
               \/ UNCHANGED <<brokerLock, brokerLapsed, brokerHolds, B!histories>>
        BY <2>7, BrokerSetLockTyped
      <3> QED BY <3>1 DEF B!histories
    <2> QED BY <2>1, <2>2, <2>3, <2>4, <2>5, <2>6, <2>7
  <1>4. B!Kind' = B!Kind BY <1>2 DEF B!Kind
  <1> QED BY <1>1, <1>3, <1>4, BrokerRedisHands

LEMMA BrokerPauseHands ==
  ASSUME BrokerTyped, B!Assumption, BrokerHeld, B!Pause \/ B!Resume
  PROVE  BrokerHeld' /\ HandsOnce
  <1>1. UNCHANGED <<B!lists, brokerLock, brokerLapsed, brokerCaller, B!histories>> /\ \E call \in B!Calls : B!Offered(call)
    BY DEF B!Pause, B!Resume, B!Calls
  <1>2. UNCHANGED <<brokerQueue, brokerRanked, brokerDelayed, brokerGone, brokerSole>> BY <1>1 DEF B!lists, B!histories
  <1>3. B!Kind' = B!Kind BY <1>1, BrokerSettingStays DEF BrokerTyped, B!Kind
  <1>4. TakensShrink BY <1>1 DEF TakensShrink
  <1> QED BY <1>1, <1>2, <1>3, <1>4, NothingHanded
-----------------------------------------------------------------------------
LEMMA BrokerBeginsTyped ==
  ASSUME B!Assumption, B!Init
  PROVE  BrokerTyped
  <1>1. BrokerSettingTyped BY DEF B!Init, B!InitWith, B!Assumption, BrokerSettingTyped
  <1>2. BrokerListsTyped BY FS_EmptySet DEF B!Init, B!InitWith, BrokerListsTyped
  <1>3. BrokerLocksTyped BY DEF B!Init, B!InitWith, BrokerLocksTyped
  <1>4. BrokerCallersTyped BY BrokerIdleShape DEF B!Init, B!InitWith, BrokerCallersTyped
  <1> QED BY <1>1, <1>2, <1>3, <1>4 DEF BrokerTyped

LEMMA BrokerStepTyped ==
  ASSUME B!Assumption, BrokerTyped, [B!Next]_(B!vars)
  PROVE  BrokerTyped'
  <1>c. brokerSetting.callers \subseteq BrokerCallers BY DEF BrokerTyped, BrokerSettingTyped
  <1>1. CASE UNCHANGED B!vars
    BY <1>1 DEF B!vars, BrokerTyped, BrokerSettingTyped, BrokerListsTyped, BrokerLocksTyped, BrokerCallersTyped
  <1>2. ASSUME NEW c \in BrokerCallers, B!Step(c) PROVE BrokerTyped'
    BY <1>2, BrokerPutTyped, BrokerTakeTyped, BrokerReadyTyped, BrokerResolveTyped, BrokerTimeoutTyped, BrokerListDueTyped, BrokerPromoteDueTyped,
       BrokerPopAndLockTyped, BrokerBlockingPopTyped, BrokerRecheckTyped, BrokerSetLockTyped, BrokerClaimRowTyped DEF B!Step
  <1>3. ASSUME NEW c \in BrokerCallers, NEW call \in {"claim", "block"}, B!Start(c, call) PROVE BrokerTyped' BY <1>3, BrokerStartTyped
  <1>4. ASSUME NEW c \in BrokerCallers, NEW i \in BrokerIds, B!Extend(c, i) \/ B!Ack(c, i) PROVE BrokerTyped' BY <1>4, BrokerExtendTyped, BrokerAckTyped
  <1>5. ASSUME NEW c \in BrokerCallers, NEW i \in BrokerIds, NEW call \in {"publish", "later"}, B!Publish(c, i, call) PROVE BrokerTyped'
    BY <1>5, BrokerPublishTyped
  <1>6. ASSUME NEW c \in BrokerCallers, NEW i \in BrokerIds, NEW call \in {"nack", "defer"}, B!Nack(c, i, call) PROVE BrokerTyped'
    BY <1>6, BrokerNackTyped
  <1>7. ASSUME NEW i \in BrokerIds, B!RemoveId(i) \/ B!ComesDue(i) \/ B!Lapse(i) PROVE BrokerTyped'
    BY <1>7, BrokerRemoveTyped, ComesDueDoes, BrokerLapseTyped
  <1>8. CASE B!Pause \/ B!Resume BY <1>8, BrokerPauseTyped
  <1> QED BY <1>c, <1>1, <1>2, <1>3, <1>4, <1>5, <1>6, <1>7, <1>8 DEF B!Next

LEMMA BrokerStepKeeps ==
  ASSUME B!Assumption, BrokerTyped, BrokerKept, [B!Next]_(B!vars)
  PROVE  BrokerKept'
  <1>c. brokerSetting.callers \subseteq BrokerCallers BY DEF BrokerTyped, BrokerSettingTyped
  <1>1. CASE UNCHANGED B!vars
    BY <1>1 DEF B!vars, BrokerKept, Somewhere, B!Readable, Carries, B!Kind, B!Priority
  <1>2. ASSUME NEW c \in BrokerCallers, B!Step(c) PROVE BrokerKept'
    BY <1>2, BrokerPutKeeps, BrokerTakeKeeps, BrokerReadyKeeps, BrokerResolveKeeps, BrokerTimeoutKeeps, BrokerListDueKeeps, BrokerPromoteDueKeeps,
       BrokerPopAndLockKeeps, BrokerBlockingPopKeeps, BrokerRecheckKeeps, BrokerSetLockKeeps, BrokerClaimRowKeeps DEF B!Step
  <1>3. ASSUME NEW c \in BrokerCallers, NEW call \in {"claim", "block"}, B!Start(c, call) PROVE BrokerKept' BY <1>3, BrokerStartKeeps
  <1>4. ASSUME NEW c \in BrokerCallers, NEW i \in BrokerIds, B!Extend(c, i) \/ B!Ack(c, i) PROVE BrokerKept' BY <1>4, BrokerExtendKeeps, BrokerAckKeeps
  <1>5. ASSUME NEW c \in BrokerCallers, NEW i \in BrokerIds, NEW call \in {"publish", "later"}, B!Publish(c, i, call) PROVE BrokerKept'
    BY <1>5, BrokerPublishKeeps
  <1>6. ASSUME NEW c \in BrokerCallers, NEW i \in BrokerIds, NEW call \in {"nack", "defer"}, B!Nack(c, i, call) PROVE BrokerKept'
    BY <1>6, BrokerNackKeeps
  <1>7. ASSUME NEW i \in BrokerIds, B!RemoveId(i) \/ B!ComesDue(i) \/ B!Lapse(i) PROVE BrokerKept'
    BY <1>7, BrokerRemoveKeeps, BrokerComesDueKeeps, BrokerLapseKeeps
  <1>8. CASE B!Pause \/ B!Resume BY <1>8, BrokerPauseKeeps
  <1> QED BY <1>c, <1>1, <1>2, <1>3, <1>4, <1>5, <1>6, <1>7, <1>8 DEF B!Next

LEMMA BrokerStepHands ==
  ASSUME B!Assumption, BrokerTyped, BrokerHeld, [B!Next]_(B!vars)
  PROVE  BrokerHeld' /\ HandsOnce
  <1>c. brokerSetting.callers \subseteq BrokerCallers BY DEF BrokerTyped, BrokerSettingTyped
  <1>1. CASE UNCHANGED B!vars
    <2>1. UNCHANGED <<brokerQueue, brokerRanked, brokerDelayed, brokerLock, brokerLapsed, brokerGone, brokerSole>> BY <1>1 DEF B!vars
    <2>2. B!Kind' = B!Kind /\ TakensShrink BY <1>1 DEF B!vars, B!Kind, TakensShrink
    <2> QED BY <2>1, <2>2, NothingHanded
  <1>2. ASSUME NEW c \in BrokerCallers, B!Step(c) PROVE BrokerHeld' /\ HandsOnce
    BY <1>2, BrokerRedisStepsHand, BrokerTakingHands, BrokerReturningHands, BrokerCallersHand, BrokerClaimRowHands DEF B!Step
  <1>3. ASSUME NEW c \in BrokerCallers, NEW call \in {"claim", "block"}, B!Start(c, call) PROVE BrokerHeld' /\ HandsOnce BY <1>3, BrokerCallersHand
  <1>4. ASSUME NEW c \in BrokerCallers, NEW i \in BrokerIds, B!Extend(c, i) PROVE BrokerHeld' /\ HandsOnce BY <1>4, BrokerExtendHands
  <1>5. ASSUME NEW c \in BrokerCallers, NEW i \in BrokerIds, NEW call \in {"publish", "later"}, B!Publish(c, i, call) PROVE BrokerHeld' /\ HandsOnce
    BY <1>5, BrokerPublishHands
  <1>6. ASSUME NEW c \in BrokerCallers, NEW i \in BrokerIds, NEW call \in {"nack", "defer"}, B!Nack(c, i, call) PROVE BrokerHeld' /\ HandsOnce
    BY <1>6, BrokerNackHands
  <1>7. ASSUME NEW i \in BrokerIds, B!ComesDue(i) \/ B!Lapse(i) PROVE BrokerHeld' /\ HandsOnce
    BY <1>7, BrokerComesDueHands, BrokerLapseHands
  <1>8. CASE B!Pause \/ B!Resume BY <1>8, BrokerPauseHands
  <1>9. ASSUME NEW c \in BrokerCallers, NEW i \in BrokerIds, B!Ack(c, i) PROVE BrokerHeld' /\ HandsOnce
    <2>1. B!Purge(i) /\ B!Unlock(i) /\ B!Forget(i) /\ UNCHANGED <<brokerSetting, brokerCaller>> /\ B!Quiet BY <1>9 DEF B!Ack
    <2>2. B!Kind' = B!Kind BY <2>1 DEF B!Kind
    <2> QED BY <2>1, <2>2, BrokerForgetHands
  <1>10. ASSUME NEW i \in BrokerIds, B!RemoveId(i) PROVE BrokerHeld' /\ HandsOnce
    <2>1. B!Purge(i) /\ B!Unlock(i) /\ B!Forget(i) /\ UNCHANGED brokerCaller /\ B!Quiet /\ \E call \in B!Calls : B!Offered(call)
      BY <1>10 DEF B!RemoveId, B!Calls
    <2>2. B!Kind' = B!Kind BY <2>1, BrokerSettingStays DEF BrokerTyped, B!Kind
    <2> QED BY <2>1, <2>2, BrokerForgetHands
  <1> QED BY <1>c, <1>1, <1>2, <1>3, <1>4, <1>5, <1>6, <1>7, <1>8, <1>9, <1>10 DEF B!Next

(* Broker adapters (memory-broker.ts, redis-broker.ts, postgres-broker.ts): *)
(* an id that was published and not settled can be claimed, is delayed,     *)
(* locked or in a call's hands, whichever the adapter, if its publisher     *)
(* gives priorities exactly where the claims of the memory broker look at   *)
(* them (Fits). For any ids, callers, settings and faults.                  *)
THEOREM EveryIdIsKept ==
  ASSUME B!Assumption, \A s \in BrokerSettings : B!Fits(s)
  PROVE  B!Spec => []B!EveryIdIsSomewhere
  <1>1. B!Init => BrokerTyped BY BrokerBeginsTyped
  <1>2. B!Init => BrokerKept
    <2> SUFFICES ASSUME B!Init PROVE BrokerKept OBVIOUS
    <2>1. B!ToSet(<<>>) = {} BY DEF B!ToSet
    <2> QED BY <2>1 DEF B!Init, B!InitWith, BrokerKept, B!Idle
  <1>3. BrokerTyped /\ [B!Next]_(B!vars) => BrokerTyped' BY BrokerStepTyped
  <1>4. BrokerTyped /\ BrokerKept /\ [B!Next]_(B!vars) => BrokerKept' BY BrokerStepKeeps
  <1>5. BrokerKept => B!EveryIdIsSomewhere BY DEF BrokerKept, Somewhere, B!EveryIdIsSomewhere, B!InHand, Carries
  <1> QED BY <1>1, <1>2, <1>3, <1>4, <1>5, PTL DEF B!Spec

(* Broker adapters: a claim never hands an id to a second caller while the  *)
(* first holds it unlapsed, and never one that was acknowledged, but for    *)
(* the promotion of the Redis broker that races a removal.                  *)
THEOREM OneHolderAtATime ==
  ASSUME B!Assumption
  PROVE  B!Spec => B!OneHolder
  <1>1. B!Init => BrokerTyped BY BrokerBeginsTyped
  <1>2. B!Init => BrokerHeld
    <2> SUFFICES ASSUME B!Init PROVE BrokerHeld OBVIOUS
    <2>1. B!ToSet(<<>>) = {} BY DEF B!ToSet
    <2> QED BY <2>1 DEF B!Init, B!InitWith, BrokerHeld, NowhereListed, NoDup, B!Idle
  <1>3. BrokerTyped /\ [B!Next]_(B!vars) => BrokerTyped' BY BrokerStepTyped
  <1>4. BrokerTyped /\ BrokerHeld /\ [B!Next]_(B!vars) => BrokerHeld' /\ HandsOnce BY BrokerStepHands
  <1>5. HandsOnce => /\ \A i \in BrokerIds : brokerSole[i] # B!Nobody => brokerSole'[i] \in {brokerSole[i], B!Nobody}
                     /\ B!Kind = "redis" \/ ~B!Returns
    BY DEF HandsOnce
  <1> QED BY <1>1, <1>2, <1>3, <1>4, <1>5, PTL DEF B!Spec, B!OneHolder

-----------------------------------------------------------------------------
(* Start and stop (index.ts, core.ts). That what is left open at the end is *)
(* excused follows from who holds a connection (KitAccounted) and what is   *)
(* closed at each stage of a stop() (KitClosing); that nothing is closed    *)
(* under a job, from the fact that a module at work that nobody excused is  *)
(* registered, and waited for by every stop() under way, none of which has  *)
(* come to the adapters (KitTracked, KitWorking). A boot and a stop()       *)
(* exclude each other.                                                      *)
VARIABLES kitSetting, kitConfig, kitClient, kitOwned, kitPools,
  kitContainer, kitOpen, kitRegistry, kitModule, kitSignals, kitTelemetry,
  kitBoot, kitHalt, kitGaveUp, kitSkipped, kitOrphaned
kitVars == <<kitSetting, kitConfig, kitClient, kitOwned, kitPools,
  kitContainer, kitOpen, kitRegistry, kitModule, kitSignals, kitTelemetry,
  kitBoot, kitHalt, kitGaveUp, kitSkipped, kitOrphaned>>
K == INSTANCE Kit WITH
  Settings <- KitSettings, Names <- KitNames, Callers <- KitCallers, MaxBoots <-
  KitMaxBoots, setting <- kitSetting, config <- kitConfig, client <- kitClient, owned
  <- kitOwned, pools <- kitPools, container <- kitContainer, open <-
  kitOpen, registry <- kitRegistry, module <- kitModule, signals <-
  kitSignals, telemetry <- kitTelemetry, boot <- kitBoot, halt <- kitHalt,
  gaveUp <- kitGaveUp, skipped <- kitSkipped, orphaned <- kitOrphaned

(* Types, with what a boot under way has in hand.                          *)
KitPoolSet == K!Boots \X K!Parts
KitModules == [phase : {"new", "ready", "running", "stopping", "stopped"},
               enabled : BOOLEAN, busy : BOOLEAN, at : 0..KitMaxBoots]
KitHalts == [pc : {"idle", "drain", "pools", "quit"}, waits : SUBSET K!Instances,
             failed : BOOLEAN, left : SUBSET KitPoolSet]
KitSettingOK ==
  /\ kitSetting \in [modules : Seq(KitNames), flagged : SUBSET KitNames,
                     boots : Seq([mode : K!Modes, custom : BOOLEAN, supplied : BOOLEAN]),
                     offers : [K!Calls -> Nat], budget : [K!Faults -> Nat]]
  /\ Len(kitSetting.boots) <= KitMaxBoots
KitBootOK ==
  /\ kitBoot.pc \in {"idle", "adapters", "engine", "register", "init", "start", "wire"}
  /\ kitBoot.k \in 0..Len(kitSetting.boots)
  /\ kitBoot = [pc |-> kitBoot.pc, k |-> kitBoot.k, left |-> kitBoot.left]
  /\ kitBoot.pc \in {"adapters", "engine", "register"} => kitBoot.left \in Seq(KitNames) /\ kitBoot.k # 0
  /\ kitBoot.pc \in {"init", "start"} =>
       kitBoot.left \in Seq(K!Instances) /\ K!ToSet(kitBoot.left) \subseteq K!ToSet(kitRegistry)
KitTypes ==
  /\ KitSettingOK /\ KitBootOK
  /\ kitConfig \in 0..KitMaxBoots
  /\ kitClient \in K!Conns \cup {K!NoConn} /\ kitOwned \in BOOLEAN /\ kitPools \subseteq KitPoolSet
  /\ kitContainer \in 0..Len(kitSetting.boots) /\ kitOpen \subseteq K!Conns /\ kitRegistry \in Seq(K!Instances)
  /\ kitModule \in [K!Instances -> KitModules] /\ kitSignals \in BOOLEAN /\ kitTelemetry \in BOOLEAN
  /\ kitHalt \in [KitCallers -> KitHalts]
  /\ kitGaveUp \subseteq K!Instances /\ kitSkipped \subseteq K!Instances /\ kitOrphaned \subseteq K!Conns

(* Modules a stop() gave up or passed over.                                 *)
KitExcused == kitGaveUp \cup kitSkipped
KitCloses(h) == kitHalt[h].pc \in {"pools", "quit"}

(* A boot and a stop() exclude each other.                                  *)
KitExclusive == kitBoot.pc # "idle" => \A h \in KitCallers : kitHalt[h].pc = "idle"
(* The container is that of a boot; modules are brought up after it is      *)
(* there; the adapters a caller made are open when they are taken over.     *)
KitBooted ==
  /\ kitContainer <= kitBoot.k
  /\ kitBoot.pc \in {"register", "init", "start", "wire"} => kitContainer # 0
  /\ kitBoot.pc = "adapters" => K!Choice(kitBoot.k).custom
  /\ kitBoot.pc = "engine" /\ K!Choice(kitBoot.k).custom => K!Created(kitBoot.k) \subseteq kitOpen
(* Until a stop() comes to the adapters, those in the container are open.   *)
KitConnected ==
  kitContainer # 0 /\ (\A h \in KitCallers : ~KitCloses(h)) => K!Uses(kitContainer) \subseteq kitOpen
(* Without a container the process is as before its first init().           *)
KitEmpty ==
  kitContainer = 0 => /\ kitRegistry = <<>> /\ ~kitTelemetry /\ ~kitSignals /\ kitPools = {}
                      /\ kitClient = K!NoConn /\ ~kitOwned
(* How far a stop() has come.                                               *)
KitClosing ==
  \A h \in KitCallers :
    /\ KitCloses(h) => ~kitTelemetry
    /\ kitHalt[h].pc = "pools" => kitPools \cap kitOpen \subseteq kitHalt[h].left
    /\ kitHalt[h].pc = "quit" => kitPools = {} /\ (kitOwned => kitClient \notin kitOpen)
(* The caller's client is open, and never among what is owned.              *)
KitSupply == <<0, "redis">> \in kitOpen /\ (kitOwned => kitClient \in KitPoolSet)
(* Who is to close an open connection.                                      *)
KitAccounted ==
  \A c \in kitOpen : c[1] = 0 \/ c \in kitOrphaned \/ K!Choice(c[1]).custom \/ c \in K!Held
(* A module at work that nobody excused is registered, and every stop()     *)
(* under way waits for it.                                                  *)
KitTracked ==
  \A i \in K!Instances \ KitExcused : K!Awake(i) =>
    /\ i \in K!ToSet(kitRegistry)
    /\ \A h \in KitCallers : /\ ~KitCloses(h)
                             /\ kitHalt[h].pc = "drain" => i \in kitHalt[h].waits /\ kitModule[i].phase = "stopping"
(* ... and its job is attached to the container it came from.               *)
KitWorking ==
  \A i \in K!Instances \ KitExcused : kitModule[i].busy =>
    K!Awake(i) /\ kitModule[i].at \in 1..kitContainer /\ K!Uses(kitModule[i].at) \subseteq kitOpen

KitInv ==
  /\ KitTypes /\ KitExclusive /\ KitBooted /\ KitConnected /\ KitEmpty /\ KitClosing /\ KitSupply
  /\ KitAccounted /\ KitTracked /\ KitWorking
-----------------------------------------------------------------------------
(* What a boot connects to depends on the settings alone.                   *)
LEMMA Connections ==
  ASSUME K!Assumption, KitSettingOK, NEW k \in 1..Len(kitSetting.boots)
  PROVE  /\ k \in K!Boots /\ K!Choice(k).custom \in BOOLEAN
         /\ K!Created(k) \subseteq KitPoolSet /\ \A c \in K!Created(k) : c[1] = k
         /\ K!Uses(k) \subseteq K!Created(k) \cup {<<0, "redis">>}
         /\ K!Created(k) \subseteq K!Uses(k)
         /\ K!Pooled(k) \subseteq K!Created(k)
         /\ K!Redis(k) \in K!Created(k) \cup {<<0, "redis">>, K!NoConn}
         /\ K!Redis(k) # K!NoConn /\ ~K!Choice(k).supplied => K!Redis(k) \in K!Created(k)
         /\ K!Created(k) \subseteq K!Pooled(k) \cup {K!Redis(k)}
         /\ K!Choice(k).supplied => K!Redis(k) \notin K!Created(k)
  <1>1. /\ k \in K!Boots
        /\ K!Choice(k) \in [mode : K!Modes, custom : BOOLEAN, supplied : BOOLEAN]
    <2>1. kitSetting.boots \in Seq([mode : K!Modes, custom : BOOLEAN, supplied : BOOLEAN])
      BY DEF KitSettingOK
    <2>2. Len(kitSetting.boots) \in Nat /\ Len(kitSetting.boots) <= KitMaxBoots /\ KitMaxBoots \in Nat
      BY <2>1 DEF KitSettingOK, K!Assumption
    <2>3. kitSetting.boots[k] \in [mode : K!Modes, custom : BOOLEAN, supplied : BOOLEAN]
      BY <2>1, ElementOfSeq
    <2> QED BY <2>2, <2>3 DEF K!Choice, K!Boots
  <1>2. K!Pooled(k) \subseteq {k} \X (K!Parts \ {"redis"})
    BY DEF K!Pooled, K!Parts
  <1>3. /\ K!Redis(k) \in {K!NoConn, <<0, "redis">>, <<k, "redis">>}
        /\ K!Redis(k) # K!NoConn => K!Redis(k) = IF K!Choice(k).supplied THEN <<0, "redis">> ELSE <<k, "redis">>
    BY DEF K!Redis
  <1>4. K!NoConn = <<0, "none">> /\ k # 0
    BY <1>1 DEF K!NoConn, K!Boots
  <1> QED
    BY <1>1, <1>2, <1>3, <1>4 DEF K!Created, K!Uses, KitPoolSet, K!Parts

(* The connections of a boot stay what they are.                            *)
LEMMA SameChoices ==
  ASSUME kitSetting'.boots = kitSetting.boots
  PROVE  \A k : /\ K!Choice(k)' = K!Choice(k) /\ K!Uses(k)' = K!Uses(k)
                /\ K!Created(k)' = K!Created(k)
BY DEF K!Choice, K!Uses, K!Created, K!Pooled, K!Redis

(* A call that is made counts down.                                         *)
LEMMA OfferedKeeps ==
  ASSUME KitSettingOK, NEW call \in K!Calls, K!Offered(call)
  PROVE  KitSettingOK' /\ kitSetting'.boots = kitSetting.boots /\ kitSetting'.modules = kitSetting.modules
  <1>1. kitSetting.offers \in [K!Calls -> Nat] /\ kitSetting.offers[call] > 0
    BY DEF KitSettingOK, K!Offered
  <1>2. PICK left : left = [kitSetting.offers EXCEPT ![call] = kitSetting.offers[call] - 1]
    OBVIOUS
  <1>3. left \in [K!Calls -> Nat]
    BY <1>1, <1>2
  <1>4. kitSetting' = [kitSetting EXCEPT !.offers = left]
    BY <1>2 DEF K!Offered
  <1> QED BY <1>3, <1>4 DEF KitSettingOK

(* So does a fault.                                                         *)
LEMMA SufferedKeeps ==
  ASSUME KitSettingOK, NEW fault \in K!Faults, K!Suffered(fault)
  PROVE  KitSettingOK' /\ kitSetting'.boots = kitSetting.boots /\ kitSetting'.modules = kitSetting.modules
  <1>1. kitSetting.budget \in [K!Faults -> Nat] /\ kitSetting.budget[fault] > 0
    BY DEF KitSettingOK, K!Suffered
  <1>2. PICK left : left = [kitSetting.budget EXCEPT ![fault] = kitSetting.budget[fault] - 1]
    OBVIOUS
  <1>3. left \in [K!Faults -> Nat]
    BY <1>1, <1>2
  <1>4. kitSetting' = [kitSetting EXCEPT !.budget = left]
    BY <1>2 DEF K!Suffered
  <1> QED BY <1>3, <1>4 DEF KitSettingOK

(* Pools are connections of a boot, not the caller's client.                *)
LEMMA PoolsAreConns ==
  /\ K!Assumption => KitPoolSet \subseteq K!Conns
  /\ \A c \in KitPoolSet : c[1] # 0
  /\ <<0, "redis">> \notin KitPoolSet
  /\ <<0, "redis">>[1] = 0 /\ K!NoConn[1] = 0
BY DEF KitPoolSet, K!Conns, K!Boots, K!Assumption, K!NoConn

(* The boot under way is one of the setting's.                              *)
LEMMA BootInHand ==
  ASSUME KitTypes, kitBoot.pc \in {"adapters", "engine", "register"}
  PROVE  kitBoot.k \in 1..Len(kitSetting.boots)
  <1>1. Len(kitSetting.boots) \in Nat
    BY DEF KitTypes, KitSettingOK
  <1> QED BY <1>1 DEF KitTypes, KitBootOK

(* The first of a sequence is in it, the rest adds nothing.                 *)
LEMMA HeadAndTail ==
  ASSUME NEW S, NEW s \in Seq(S), s # <<>>
  PROVE  Head(s) \in K!ToSet(s) /\ Tail(s) \in Seq(S) /\ K!ToSet(Tail(s)) \subseteq K!ToSet(s)
  <1>1. 1 \in DOMAIN s /\ Head(s) = s[1]
    OBVIOUS
  <1> QED BY <1>1 DEF K!ToSet

(* A field of a module changes.                                             *)
LEMMA ModuleMoves ==
  ASSUME NEW m \in KitModules
  PROVE  /\ \A phase \in {"new", "ready", "running", "stopping", "stopped"} :
              [m EXCEPT !.phase = phase] \in KitModules
         /\ \A phase \in {"new", "ready", "running", "stopping", "stopped"}, enabled \in BOOLEAN :
              [m EXCEPT !.enabled = enabled, !.phase = phase] \in KitModules
         /\ \A busy \in BOOLEAN, at \in 0..KitMaxBoots : [m EXCEPT !.busy = busy, !.at = at] \in KitModules
BY DEF KitModules

(* A stop() under way and a boot exclude each other; its record moves.      *)
LEMMA NoBootThen ==
  ASSUME KitInv, NEW h \in KitCallers, kitHalt[h].pc # "idle"
  PROVE  kitBoot.pc = "idle"
BY DEF KitInv, KitExclusive

LEMMA HaltMoves ==
  ASSUME NEW r \in KitHalts
  PROVE  /\ \A left \in SUBSET KitPoolSet : [r EXCEPT !.pc = "pools", !.left = left] \in KitHalts
         /\ \A left \in SUBSET KitPoolSet : [r EXCEPT !.left = left] \in KitHalts
         /\ [r EXCEPT !.failed = TRUE] \in KitHalts
         /\ [r EXCEPT !.pc = "quit"] \in KitHalts
BY DEF KitHalts

LEMMA NoHaltTyped ==
  /\ K!NoHalt \in KitHalts
  /\ \A stops \in SUBSET K!Instances :
       [K!NoHalt EXCEPT !.pc = "drain", !.waits = stops] \in KitHalts
BY DEF K!NoHalt, KitHalts

(* init() begins: nothing but the configuration is touched.                 *)
LEMMA BeginKeeps ==
  ASSUME K!Assumption, KitInv, K!Begin
  PROVE  KitInv'
  <1>1. KitSettingOK' /\ kitSetting'.boots = kitSetting.boots /\ kitSetting'.modules = kitSetting.modules
    BY OfferedKeeps DEF KitInv, KitTypes, KitSettingOK, K!Calls, K!Begin, K!Engine, K!Process, K!Histories
  <1>2. \A c : K!Choice(c)' = K!Choice(c) /\ K!Uses(c)' = K!Uses(c) /\ K!Created(c)' = K!Created(c)
    BY <1>1, SameChoices
  <1>3. KitTypes'
    <2>1. kitBoot.k \in 0..Len(kitSetting.boots) /\ Len(kitSetting.boots) \in Nat /\ kitSetting.modules \in Seq(KitNames)
      BY DEF KitInv, KitTypes, KitBootOK, KitSettingOK
    <2>2. /\ kitBoot' = [pc |-> kitBoot'.pc, k |-> kitBoot.k + 1, left |-> kitSetting.modules]
          /\ kitBoot'.pc \in {"adapters", "engine"} /\ kitBoot.k < Len(kitSetting.boots)
      BY DEF K!Begin
    <2>3. kitBoot.k + 1 \in 0..Len(kitSetting'.boots) /\ kitBoot.k + 1 # 0
      BY <1>1, <2>1, <2>2
    <2>4. KitBootOK'
      BY <2>1, <2>2, <2>3 DEF KitBootOK
    <2>5. kitConfig' \in 0..KitMaxBoots
      BY <1>1, <2>3 DEF K!Begin, KitSettingOK, K!Assumption
    <2> QED
      BY <1>1, <2>4, <2>5 DEF KitInv, KitTypes, K!Begin, K!Engine, K!Process, K!Histories
  <1>4. KitBooted'
    <2>1. kitContainer \in Nat /\ kitBoot.k \in Nat /\ kitContainer <= kitBoot.k
      BY DEF KitInv, KitTypes, KitBootOK, KitSettingOK, KitBooted
    <2>2. /\ kitBoot'.k = kitBoot.k + 1 /\ kitContainer' = kitContainer
          /\ kitBoot'.pc = IF K!Choice(kitBoot.k + 1).custom THEN "adapters" ELSE "engine"
      BY DEF K!Begin, K!Engine
    <2> QED BY <1>2, <2>1, <2>2 DEF KitBooted
  <1>5. KitExclusive' /\ KitConnected' /\ KitEmpty' /\ KitClosing' /\ KitSupply' /\ KitAccounted' /\
        KitTracked' /\ KitWorking'
    BY <1>1, <1>2 DEF KitInv, KitTypes, KitBootOK, KitModules, KitHalts, KitExclusive, KitConnected, KitCloses,
       KitEmpty, KitClosing, KitSupply, KitAccounted, K!Held, KitTracked, KitExcused, K!Awake, KitWorking, K!Begin,
       K!Engine, K!Process, K!Histories
  <1> QED BY <1>3, <1>4, <1>5 DEF KitInv

(* The caller makes adapters: their connections are its own to close.       *)
LEMMA CreateAdaptersKeeps ==
  ASSUME K!Assumption, KitInv, K!CreateAdapters
  PROVE  KitInv'
  <1>1. KitSettingOK' /\ kitSetting'.boots = kitSetting.boots
    BY DEF KitInv, KitTypes, KitSettingOK, K!CreateAdapters, K!Engine, K!Process, K!Histories
  <1>2. \A c : K!Choice(c)' = K!Choice(c) /\ K!Uses(c)' = K!Uses(c) /\ K!Created(c)' = K!Created(c)
    BY <1>1, SameChoices
  <1>3. KitTypes'
    <2>1. kitBoot.k \in 1..Len(kitSetting.boots)
      BY BootInHand DEF KitInv, K!CreateAdapters
    <2>2. K!Created(kitBoot.k) \subseteq K!Conns
      BY <2>1, Connections, PoolsAreConns DEF KitInv, KitTypes
    <2>3. KitBootOK'
      BY <1>1 DEF KitInv, KitTypes, KitBootOK, K!CreateAdapters, K!Process
    <2> QED
      BY <1>1, <2>2, <2>3 DEF KitInv, KitTypes, K!CreateAdapters, K!Engine, K!Process, K!Histories
  <1>4. KitClosing'
    BY DEF KitInv, KitExclusive, KitClosing, KitCloses, K!CreateAdapters
  <1>5. KitAccounted'
    <2>1. \A c \in K!Created(kitBoot.k) : c[1] = kitBoot.k /\ K!Choice(c[1]).custom
      BY BootInHand, Connections DEF KitInv, KitTypes, KitBooted, K!CreateAdapters
    <2> QED
      BY <1>2, <2>1 DEF KitInv, KitAccounted, K!Held, K!CreateAdapters, K!Histories
  <1>6. KitExclusive' /\ KitBooted' /\ KitConnected' /\ KitEmpty' /\ KitSupply' /\ KitTracked' /\ KitWorking'
    BY <1>1, <1>2 DEF KitInv, KitTypes, KitBootOK, KitModules, KitHalts, KitExclusive, KitBooted, KitConnected,
       KitCloses, KitEmpty, KitSupply, KitTracked, KitExcused, K!Awake, KitWorking, K!CreateAdapters, K!Engine,
       K!Process, K!Histories
  <1> QED BY <1>3, <1>4, <1>5, <1>6 DEF KitInv

(* ... and closes them, when no container is there.                         *)
LEMMA CloseAdaptersKeeps ==
  ASSUME K!Assumption, KitInv, NEW k \in K!Boots, K!CloseAdapters(k)
  PROVE  KitInv'
  <1>1. KitSettingOK' /\ kitSetting'.boots = kitSetting.boots
    BY DEF KitInv, KitTypes, KitSettingOK, K!CloseAdapters, K!Engine, K!Process, K!Histories
  <1>2. \A c : K!Choice(c)' = K!Choice(c) /\ K!Uses(c)' = K!Uses(c) /\ K!Created(c)' = K!Created(c)
    BY <1>1, SameChoices
  <1>3. KitSupply'
    BY Connections, PoolsAreConns DEF KitInv, KitTypes, KitSupply, K!CloseAdapters
  <1>4. KitTypes' /\ KitExclusive' /\ KitBooted' /\ KitConnected' /\ KitEmpty' /\ KitClosing' /\ KitAccounted'
        /\ KitTracked' /\ KitWorking'
    BY <1>1, <1>2 DEF KitInv, KitTypes, KitBootOK, KitModules, KitHalts, KitExclusive, KitBooted, KitConnected,
       KitCloses, KitEmpty, KitClosing, KitAccounted, K!Held, KitTracked, KitExcused, K!Awake, KitWorking,
       K!CloseAdapters, K!Engine, K!Process, K!Histories
  <1> QED BY <1>3, <1>4 DEF KitInv

(* The engine boots: what is opened is held, what was held is let go.       *)
LEMMA BootEngineKeeps ==
  ASSUME K!Assumption, KitInv, K!BootEngine
  PROVE  KitInv'
  <1>1. KitSettingOK' /\ kitSetting'.boots = kitSetting.boots
    BY DEF KitInv, KitTypes, KitSettingOK, K!BootEngine, K!Engine, K!Process, K!Histories
  <1>2. \A c : K!Choice(c)' = K!Choice(c) /\ K!Uses(c)' = K!Uses(c) /\ K!Created(c)' = K!Created(c)
    BY <1>1, SameChoices
  <1>3. KitTypes'
    <2>1. /\ K!Created(kitBoot.k) \subseteq KitPoolSet /\ K!Redis(kitBoot.k) \in K!Conns \cup {K!NoConn}
          /\ K!Pooled(kitBoot.k) \subseteq KitPoolSet
      <3>1. <<0, "redis">> \in K!Conns
        BY DEF KitInv, KitSupply, KitTypes
      <3> QED BY <3>1, BootInHand, Connections, PoolsAreConns DEF KitInv, KitTypes, K!BootEngine
    <2>2. KitBootOK'
      BY <1>1 DEF KitInv, KitTypes, KitBootOK, K!BootEngine
    <2>3. kitContainer' \in 0..Len(kitSetting'.boots)
      BY <1>1 DEF KitInv, KitTypes, KitBootOK, K!BootEngine
    <2>4. K!Held \subseteq K!Conns \/ K!Held \ {kitClient} \subseteq K!Conns
      BY PoolsAreConns DEF KitInv, KitTypes, K!Held
    <2>5. K!Held \subseteq K!Conns
      BY <2>4, PoolsAreConns DEF KitInv, KitTypes, K!Held, KitSupply
    <2>6. /\ kitClient' \in K!Conns \cup {K!NoConn} /\ kitOwned' \in BOOLEAN /\ kitPools' \subseteq KitPoolSet
          /\ kitOpen' \subseteq K!Conns /\ kitOrphaned' \subseteq K!Conns
      <3>1. CASE K!Choice(kitBoot.k).custom
        BY <3>1 DEF KitInv, KitTypes, K!BootEngine
      <3>2. CASE ~K!Choice(kitBoot.k).custom
        <4>1. kitOwned' = (K!Redis(kitBoot.k) # K!NoConn /\ ~K!Choice(kitBoot.k).supplied)
          BY <3>2 DEF K!BootEngine
        <4>2. kitOwned' \in BOOLEAN
          BY <4>1
        <4> QED BY <3>2, <2>1, <2>5, <4>2, PoolsAreConns DEF KitInv, KitTypes, K!BootEngine
      <3> QED BY <3>1, <3>2
    <2> QED
      BY <1>1, <2>2, <2>3, <2>6 DEF KitInv, KitTypes, K!BootEngine
  <1>4. KitBooted'
    <2>1. kitBoot.k # 0 /\ kitContainer' = kitBoot.k /\ kitBoot'.pc = "register"
      BY BootInHand DEF KitInv, KitTypes, KitBootOK, K!BootEngine
    <2>2. kitBoot'.k = kitBoot.k
      BY DEF KitInv, KitTypes, KitBootOK, K!BootEngine
    <2> QED BY <2>1, <2>2 DEF KitInv, KitTypes, KitBootOK, KitSettingOK, KitBooted
  <1>5. KitConnected'
    <2>1. K!Uses(kitBoot.k) \subseteq K!Created(kitBoot.k) \cup {<<0, "redis">>}
      BY BootInHand, Connections DEF KitInv, KitTypes, K!BootEngine
    <2>2. K!Created(kitBoot.k) \cup {<<0, "redis">>} \subseteq kitOpen'
      BY DEF KitInv, KitBooted, KitSupply, K!BootEngine
    <2> QED BY <1>2, <2>1, <2>2 DEF KitConnected, K!BootEngine
  <1>6. KitEmpty'
    <2>1. kitBoot.k # 0 /\ kitContainer' = kitBoot.k
      BY BootInHand DEF KitInv, KitTypes, KitBootOK, K!BootEngine
    <2> QED BY <2>1 DEF KitEmpty
  <1>7. KitClosing'
    BY DEF KitInv, KitExclusive, KitClosing, KitCloses, K!BootEngine
  <1>8. KitSupply'
    <2>1. K!Redis(kitBoot.k) # K!NoConn /\ ~K!Choice(kitBoot.k).supplied => K!Redis(kitBoot.k) \in KitPoolSet
      BY BootInHand, Connections DEF KitInv, KitTypes, K!BootEngine
    <2> QED BY <2>1 DEF KitInv, KitSupply, K!BootEngine
  <1>9. KitAccounted'
    <2>1. CASE K!Choice(kitBoot.k).custom
      BY <1>2, <2>1 DEF KitInv, KitAccounted, K!Held, K!BootEngine
    <2>2. CASE ~K!Choice(kitBoot.k).custom
      <3>1. K!Created(kitBoot.k) \subseteq K!Held'
        <4>1. /\ K!Created(kitBoot.k) \subseteq K!Pooled(kitBoot.k) \cup {K!Redis(kitBoot.k)}
              /\ K!Choice(kitBoot.k).supplied => K!Redis(kitBoot.k) \notin K!Created(kitBoot.k)
              /\ K!Created(kitBoot.k) \subseteq KitPoolSet
          BY BootInHand, Connections DEF KitInv, KitTypes, K!BootEngine
        <4>2. K!NoConn \notin KitPoolSet
          BY PoolsAreConns
        <4>3. /\ kitPools' = K!Pooled(kitBoot.k) /\ kitClient' = K!Redis(kitBoot.k)
              /\ kitOwned' = (K!Redis(kitBoot.k) # K!NoConn /\ ~K!Choice(kitBoot.k).supplied)
          BY <2>2 DEF K!BootEngine
        <4> QED BY <4>1, <4>2, <4>3 DEF K!Held
      <3>2. kitOpen' = kitOpen \cup K!Created(kitBoot.k) /\ kitOrphaned' = kitOrphaned \cup K!Held
        BY <2>2 DEF K!BootEngine
      <3> QED BY <1>2, <3>1, <3>2 DEF KitInv, KitAccounted
    <2> QED BY <2>1, <2>2
  <1>10. KitWorking'
    <2>1. kitContainer \in Nat /\ kitBoot.k \in Nat /\ kitContainer <= kitBoot.k /\ kitContainer' = kitBoot.k
      BY DEF KitInv, KitTypes, KitBootOK, KitSettingOK, KitBooted, K!BootEngine
    <2>2. \A i \in K!Instances \ KitExcused : kitModule[i].busy => kitModule[i].at \in 1..kitContainer'
      BY <2>1 DEF KitInv, KitWorking
    <2> QED BY <1>2, <2>2 DEF KitInv, KitWorking, KitExcused, K!Awake, K!BootEngine
  <1>11. KitExclusive' /\ KitTracked'
    BY <1>1, <1>2 DEF KitInv, KitTypes, KitBootOK, KitModules, KitHalts, KitExclusive, KitTracked, KitExcused,
       K!Awake, KitCloses, K!BootEngine, K!Engine, K!Process, K!Histories
  <1> QED BY <1>3, <1>4, <1>5, <1>6, <1>7, <1>8, <1>9, <1>10, <1>11 DEF KitInv

(* A boot that fails leaves everything as it is.                            *)
LEMMA BootFailsKeeps ==
  ASSUME K!Assumption, KitInv, K!BootFails
  PROVE  KitInv'
  <1>1. KitSettingOK' /\ kitSetting'.boots = kitSetting.boots
    BY SufferedKeeps DEF KitInv, KitTypes, K!Faults, K!BootFails, K!Engine, K!Process, K!Histories
  <1>2. \A c : K!Choice(c)' = K!Choice(c) /\ K!Uses(c)' = K!Uses(c) /\ K!Created(c)' = K!Created(c)
    BY <1>1, SameChoices
  <1>3. KitTypes' /\ KitExclusive' /\ KitBooted' /\ KitConnected' /\ KitEmpty' /\ KitClosing' /\ KitSupply' /\
        KitAccounted' /\ KitTracked' /\ KitWorking'
    BY <1>1, <1>2 DEF KitInv, KitTypes, KitBootOK, KitModules, KitHalts, KitExclusive, KitBooted, KitConnected,
       KitCloses, KitEmpty, KitClosing, KitSupply, KitAccounted, K!Held, KitTracked, KitExcused, K!Awake, KitWorking,
       K!BootFails, K!Engine, K!Process, K!Histories
  <1> QED BY <1>3 DEF KitInv

(* A module is registered, or the boot ends at a name that is taken.        *)
LEMMA RegisterKeeps ==
  ASSUME K!Assumption, KitInv, K!Register
  PROVE  KitInv'
  <1>1. KitSettingOK' /\ kitSetting'.boots = kitSetting.boots
    BY DEF KitInv, KitTypes, KitSettingOK, K!Register, K!Engine, K!Process, K!Histories
  <1>2. \A c : K!Choice(c)' = K!Choice(c) /\ K!Uses(c)' = K!Uses(c) /\ K!Created(c)' = K!Created(c)
    BY <1>1, SameChoices
  <1>3. KitTypes'
    <2>1. CASE kitBoot.left = <<>>
      <3>1. KitBootOK'
        BY <1>1, <2>1 DEF KitInv, KitTypes, KitBootOK, K!Register
      <3> QED BY <1>1, <2>1, <3>1 DEF KitInv, KitTypes, K!Register, K!Engine, K!Histories
    <2>2. CASE kitBoot.left # <<>> /\ K!Registered(Head(kitBoot.left))
      <3>1. KitBootOK'
        BY <1>1, <2>2 DEF KitInv, KitTypes, KitBootOK, K!Register
      <3> QED BY <1>1, <2>2, <3>1 DEF KitInv, KitTypes, K!Register, K!Engine, K!Histories
    <2>3. CASE kitBoot.left # <<>> /\ ~K!Registered(Head(kitBoot.left))
      <3>1. kitBoot.left \in Seq(KitNames) /\ kitBoot.k \in K!Boots
        BY BootInHand, Connections DEF KitInv, KitTypes, KitBootOK, K!Register
      <3>2. Head(kitBoot.left) \in KitNames /\ Tail(kitBoot.left) \in Seq(KitNames)
        BY <2>3, <3>1
      <3>3. kitRegistry' \in Seq(K!Instances)
        <4>1. <<kitBoot.k, Head(kitBoot.left)>> \in K!Instances /\ kitRegistry \in Seq(K!Instances)
          BY <3>1, <3>2 DEF KitInv, KitTypes, K!Instances
        <4>2. kitRegistry' = Append(kitRegistry, <<kitBoot.k, Head(kitBoot.left)>>)
          BY <2>3 DEF K!Register
        <4> QED BY <4>1, <4>2
      <3>4. KitBootOK'
        BY <1>1, <2>3, <3>2 DEF KitInv, KitTypes, KitBootOK, K!Register
      <3> QED BY <1>1, <2>3, <3>3, <3>4 DEF KitInv, KitTypes, K!Register, K!Engine, K!Histories
    <2> QED BY <2>1, <2>2, <2>3
  <1>4. KitBooted'
    <2>1. kitBoot'.k = kitBoot.k /\ kitContainer' = kitContainer /\ kitContainer # 0 /\ kitBoot'.pc \notin {"adapters", "engine"}
      BY DEF KitInv, KitTypes, KitBootOK, KitBooted, K!Register, K!Engine
    <2> QED BY <2>1 DEF KitInv, KitBooted
  <1>5. KitEmpty'
    BY DEF KitInv, KitBooted, KitEmpty, K!Register, K!Engine
  <1>6. KitTracked'
    <2>1. K!ToSet(kitRegistry) \subseteq K!ToSet(kitRegistry')
      <3>1. kitRegistry \in Seq(K!Instances)
        BY DEF KitInv, KitTypes
      <3>2. CASE kitRegistry' = kitRegistry
        BY <3>2
      <3>3. CASE kitRegistry' = Append(kitRegistry, <<kitBoot.k, Head(kitBoot.left)>>)
        BY <3>1, <3>3 DEF K!ToSet
      <3> QED BY <3>2, <3>3 DEF K!Register
    <2> QED
      BY <2>1 DEF KitInv, KitTracked, KitExcused, K!Awake, KitCloses, K!Register, K!Histories
  <1>7. KitExclusive' /\ KitConnected' /\ KitClosing' /\ KitSupply' /\ KitAccounted' /\ KitWorking'
    BY <1>1, <1>2 DEF KitInv, KitTypes, KitBootOK, KitModules, KitHalts, KitExclusive, KitConnected, KitCloses,
       KitClosing, KitSupply, KitAccounted, K!Held, KitWorking, KitExcused, K!Awake, K!Register, K!Engine,
       K!Process, K!Histories
  <1> QED BY <1>3, <1>4, <1>5, <1>6, <1>7 DEF KitInv

(* A module is initialised: whoever works goes on.                          *)
LEMMA InitModulesKeeps ==
  ASSUME K!Assumption, KitInv, K!InitModules
  PROVE  KitInv'
  <1>1. KitSettingOK' /\ kitSetting'.boots = kitSetting.boots
    BY DEF KitInv, KitTypes, KitSettingOK, K!InitModules, K!Bring, K!Engine, K!Process, K!Histories
  <1>2. \A c : K!Choice(c)' = K!Choice(c) /\ K!Uses(c)' = K!Uses(c) /\ K!Created(c)' = K!Created(c)
    BY <1>1, SameChoices
  <1>3. KitTypes'
    <2>1. CASE kitBoot.left = <<>>
      <3>1. KitBootOK'
        BY <1>1, <2>1 DEF KitInv, KitTypes, KitBootOK, K!InitModules, K!Bring, K!Process
      <3> QED BY <1>1, <2>1, <3>1 DEF KitInv, KitTypes, K!InitModules, K!Bring, K!Engine, K!Process, K!Histories
    <2>2. CASE kitBoot.left # <<>>
      <3>1. kitBoot.left \in Seq(K!Instances) /\ K!ToSet(kitBoot.left) \subseteq K!ToSet(kitRegistry)
        BY DEF KitInv, KitTypes, KitBootOK, K!InitModules, K!Bring
      <3>2. Tail(kitBoot.left) \in Seq(K!Instances) /\ K!ToSet(Tail(kitBoot.left)) \subseteq K!ToSet(kitBoot.left)
        BY <2>2, <3>1, HeadAndTail
      <3>3. KitBootOK'
        BY <1>1, <2>2, <3>1, <3>2 DEF KitInv, KitTypes, KitBootOK, K!InitModules, K!Bring, K!Process
      <3>4. kitModule' \in [K!Instances -> KitModules]
        <4>1. PICK phase \in {"ready", "running"} :
                kitModule' = IF kitModule[Head(kitBoot.left)].enabled /\ K!Moves(Head(kitBoot.left), phase)
                             THEN [kitModule EXCEPT ![Head(kitBoot.left)] =
                                 [kitModule[Head(kitBoot.left)] EXCEPT !.phase = phase]]
                             ELSE kitModule
          BY <2>2 DEF K!InitModules, K!Bring
        <4>2. kitModule \in [K!Instances -> KitModules] /\ Head(kitBoot.left) \in K!Instances
          BY <2>2, <3>1 DEF KitInv, KitTypes
        <4>3. [kitModule[Head(kitBoot.left)] EXCEPT !.phase = phase] \in KitModules
          BY <4>2, ModuleMoves
        <4> QED BY <4>1, <4>2, <4>3
      <3> QED BY <1>1, <2>2, <3>3, <3>4 DEF KitInv, KitTypes, K!InitModules, K!Bring, K!Engine, K!Process, K!Histories
    <2> QED BY <2>1, <2>2
  <1>4. KitBooted'
    <2>1. kitBoot'.k = kitBoot.k /\ kitContainer' = kitContainer /\ kitContainer # 0 /\ kitBoot'.pc \notin {"adapters", "engine"}
      BY DEF KitInv, KitTypes, KitBootOK, KitBooted, K!InitModules, K!Bring, K!Engine
    <2> QED BY <2>1 DEF KitInv, KitBooted
  <1>5. KitTracked'
    <2>1. Head(kitBoot.left) \in K!ToSet(kitRegistry) \/ kitBoot.left = <<>>
      <3>1. kitBoot.left \in Seq(K!Instances) /\ K!ToSet(kitBoot.left) \subseteq K!ToSet(kitRegistry)
        BY DEF KitInv, KitTypes, KitBootOK, K!InitModules, K!Bring
      <3> QED BY <3>1, HeadAndTail
    <2>2. \A h \in KitCallers : kitHalt'[h].pc = "idle"
      BY DEF KitInv, KitExclusive, K!InitModules, K!Bring
    <2>3. \A i \in K!Instances : K!Awake(i)' => K!Awake(i) \/ (kitBoot.left # <<>> /\ i = Head(kitBoot.left))
      BY DEF KitInv, KitTypes, K!Awake, K!InitModules, K!Bring
    <2> QED
      BY <2>1, <2>2, <2>3 DEF KitInv, KitTracked, KitExcused, KitCloses, K!InitModules, K!Bring, K!Process, K!Histories
  <1>6. KitWorking'
    <2>1. \A i \in K!Instances : /\ K!Awake(i) => K!Awake(i)'
                            /\ kitModule'[i].busy = kitModule[i].busy /\ kitModule'[i].at = kitModule[i].at
      <3>1. CASE kitModule' = kitModule BY <3>1 DEF K!Awake
      <3>2. CASE /\ kitModule' = [kitModule EXCEPT ![Head(kitBoot.left)].phase = "ready"]
                 /\ ~K!Awake(Head(kitBoot.left))
        BY <3>2 DEF KitInv, KitTypes, KitModules, K!Awake
      <3> QED BY <3>1, <3>2 DEF K!InitModules, K!Bring, K!Moves
    <2> QED
      BY <1>2, <2>1 DEF KitInv, KitWorking, KitExcused, K!InitModules, K!Bring, K!Engine, K!Histories
  <1>7. KitExclusive' /\ KitConnected' /\ KitEmpty' /\ KitClosing' /\ KitSupply' /\ KitAccounted'
    BY <1>1, <1>2 DEF KitInv, KitTypes, KitBootOK, KitModules, KitHalts, KitExclusive, KitConnected, KitCloses,
       KitEmpty, KitClosing, KitSupply, KitAccounted, K!Held, K!InitModules, K!Bring, K!Engine, K!Process,
       K!Histories
  <1> QED BY <1>3, <1>4, <1>5, <1>6, <1>7 DEF KitInv

(* A module starts to work: it is registered, and no stop() is under way.   *)
LEMMA StartModulesKeeps ==
  ASSUME K!Assumption, KitInv, K!StartModules
  PROVE  KitInv'
  <1>1. KitSettingOK' /\ kitSetting'.boots = kitSetting.boots
    BY DEF KitInv, KitTypes, KitSettingOK, K!StartModules, K!Bring, K!Engine, K!Process, K!Histories
  <1>2. \A c : K!Choice(c)' = K!Choice(c) /\ K!Uses(c)' = K!Uses(c) /\ K!Created(c)' = K!Created(c)
    BY <1>1, SameChoices
  <1>3. KitTypes'
    <2>1. CASE kitBoot.left = <<>>
      <3>1. KitBootOK'
        BY <1>1, <2>1 DEF KitInv, KitTypes, KitBootOK, K!StartModules, K!Bring, K!Process
      <3> QED BY <1>1, <2>1, <3>1 DEF KitInv, KitTypes, K!StartModules, K!Bring, K!Engine, K!Process, K!Histories
    <2>2. CASE kitBoot.left # <<>>
      <3>1. kitBoot.left \in Seq(K!Instances) /\ K!ToSet(kitBoot.left) \subseteq K!ToSet(kitRegistry)
        BY DEF KitInv, KitTypes, KitBootOK, K!StartModules, K!Bring
      <3>2. Tail(kitBoot.left) \in Seq(K!Instances) /\ K!ToSet(Tail(kitBoot.left)) \subseteq K!ToSet(kitBoot.left)
        BY <2>2, <3>1, HeadAndTail
      <3>3. KitBootOK'
        BY <1>1, <2>2, <3>1, <3>2 DEF KitInv, KitTypes, KitBootOK, K!StartModules, K!Bring, K!Process
      <3>4. kitModule' \in [K!Instances -> KitModules]
        <4>1. PICK phase \in {"ready", "running"} :
                kitModule' = IF kitModule[Head(kitBoot.left)].enabled /\ K!Moves(Head(kitBoot.left), phase)
                             THEN [kitModule EXCEPT ![Head(kitBoot.left)] =
                                 [kitModule[Head(kitBoot.left)] EXCEPT !.phase = phase]]
                             ELSE kitModule
          BY <2>2 DEF K!StartModules, K!Bring
        <4>2. kitModule \in [K!Instances -> KitModules] /\ Head(kitBoot.left) \in K!Instances
          BY <2>2, <3>1 DEF KitInv, KitTypes
        <4>3. [kitModule[Head(kitBoot.left)] EXCEPT !.phase = phase] \in KitModules
          BY <4>2, ModuleMoves
        <4> QED BY <4>1, <4>2, <4>3
      <3> QED BY <1>1, <2>2, <3>3, <3>4 DEF KitInv, KitTypes, K!StartModules, K!Bring, K!Engine, K!Process, K!Histories
    <2> QED BY <2>1, <2>2
  <1>4. KitBooted'
    <2>1. kitBoot'.k = kitBoot.k /\ kitContainer' = kitContainer /\ kitContainer # 0 /\ kitBoot'.pc \notin {"adapters", "engine"}
      BY DEF KitInv, KitTypes, KitBootOK, KitBooted, K!StartModules, K!Bring, K!Engine
    <2> QED BY <2>1 DEF KitInv, KitBooted
  <1>5. KitTracked'
    <2>1. Head(kitBoot.left) \in K!ToSet(kitRegistry) \/ kitBoot.left = <<>>
      <3>1. kitBoot.left \in Seq(K!Instances) /\ K!ToSet(kitBoot.left) \subseteq K!ToSet(kitRegistry)
        BY DEF KitInv, KitTypes, KitBootOK, K!StartModules, K!Bring
      <3> QED BY <3>1, HeadAndTail
    <2>2. \A h \in KitCallers : kitHalt'[h].pc = "idle"
      BY DEF KitInv, KitExclusive, K!StartModules, K!Bring
    <2>3. \A i \in K!Instances : K!Awake(i)' => K!Awake(i) \/ (kitBoot.left # <<>> /\ i = Head(kitBoot.left))
      BY DEF KitInv, KitTypes, K!Awake, K!StartModules, K!Bring
    <2> QED
      BY <2>1, <2>2, <2>3 DEF KitInv, KitTracked, KitExcused, KitCloses, K!StartModules, K!Bring, K!Process, K!Histories
  <1>6. KitWorking'
    <2>1. \A i \in K!Instances : /\ K!Awake(i) => K!Awake(i)'
                            /\ kitModule'[i].busy = kitModule[i].busy /\ kitModule'[i].at = kitModule[i].at
      BY DEF KitInv, KitTypes, KitModules, K!Awake, K!Moves, K!StartModules, K!Bring
    <2> QED
      BY <1>2, <2>1 DEF KitInv, KitWorking, KitExcused, K!StartModules, K!Bring, K!Engine, K!Histories
  <1>7. KitExclusive' /\ KitConnected' /\ KitEmpty' /\ KitClosing' /\ KitSupply' /\ KitAccounted'
    BY <1>1, <1>2 DEF KitInv, KitTypes, KitBootOK, KitModules, KitHalts, KitExclusive, KitConnected, KitCloses,
       KitEmpty, KitClosing, KitSupply, KitAccounted, K!Held, K!StartModules, K!Bring, K!Engine, K!Process,
       K!Histories
  <1> QED BY <1>3, <1>4, <1>5, <1>6, <1>7 DEF KitInv

(* A module that fails ends the boot.                                       *)
LEMMA ModuleFailsKeeps ==
  ASSUME K!Assumption, KitInv, K!ModuleFails
  PROVE  KitInv'
  <1>1. KitSettingOK' /\ kitSetting'.boots = kitSetting.boots
    BY SufferedKeeps DEF KitInv, KitTypes, K!Faults, K!ModuleFails, K!Engine, K!Process, K!Histories
  <1>2. \A c : K!Choice(c)' = K!Choice(c) /\ K!Uses(c)' = K!Uses(c) /\ K!Created(c)' = K!Created(c)
    BY <1>1, SameChoices
  <1>3. KitTypes' /\ KitExclusive' /\ KitBooted' /\ KitConnected' /\ KitEmpty' /\ KitClosing' /\ KitSupply' /\
        KitAccounted' /\ KitTracked' /\ KitWorking'
    BY <1>1, <1>2 DEF KitInv, KitTypes, KitBootOK, KitModules, KitHalts, KitExclusive, KitBooted, KitConnected,
       KitCloses, KitEmpty, KitClosing, KitSupply, KitAccounted, K!Held, KitTracked, KitExcused, K!Awake, KitWorking,
       K!ModuleFails, K!Engine, K!Process, K!Histories
  <1> QED BY <1>3 DEF KitInv

(* The last step of a boot.                                                 *)
LEMMA WireKeeps ==
  ASSUME K!Assumption, KitInv, K!Wire
  PROVE  KitInv'
  <1>1. KitSettingOK' /\ kitSetting'.boots = kitSetting.boots
    BY DEF KitInv, KitTypes, KitSettingOK, K!Wire, K!Engine, K!Process, K!Histories
  <1>2. \A c : K!Choice(c)' = K!Choice(c) /\ K!Uses(c)' = K!Uses(c) /\ K!Created(c)' = K!Created(c)
    BY <1>1, SameChoices
  <1>3. KitEmpty'
    BY DEF KitInv, KitBooted, KitEmpty, K!Wire, K!Engine
  <1>4. KitClosing'
    BY DEF KitInv, KitExclusive, KitClosing, KitCloses, K!Wire
  <1>5. KitTypes' /\ KitExclusive' /\ KitBooted' /\ KitConnected' /\ KitSupply' /\ KitAccounted' /\ KitTracked'
        /\ KitWorking'
    BY <1>1, <1>2 DEF KitInv, KitTypes, KitBootOK, KitModules, KitHalts, KitExclusive, KitBooted, KitConnected,
       KitCloses, KitSupply, KitAccounted, K!Held, KitTracked, KitExcused, K!Awake, KitWorking, K!Wire, K!Engine,
       K!Process, K!Histories
  <1> QED BY <1>3, <1>4, <1>5 DEF KitInv

(* A job is taken, from a container whose connections are open.             *)
LEMMA TakeJobKeeps ==
  ASSUME K!Assumption, KitInv, NEW i \in K!Instances, K!TakeJob(i)
  PROVE  KitInv'
  <1>1. KitSettingOK' /\ kitSetting'.boots = kitSetting.boots
    BY SufferedKeeps DEF KitInv, KitTypes, K!Faults, K!TakeJob, K!Engine, K!Process, K!Histories
  <1>2. \A c : K!Choice(c)' = K!Choice(c) /\ K!Uses(c)' = K!Uses(c) /\ K!Created(c)' = K!Created(c)
    BY <1>1, SameChoices
  <1>3. KitTypes'
    <2>1. kitContainer \in 0..KitMaxBoots
      BY DEF KitInv, KitTypes, KitSettingOK, K!Assumption
    <2>2. kitModule' \in [K!Instances -> KitModules]
      BY <2>1 DEF KitInv, KitTypes, KitModules, K!TakeJob
    <2>3. KitBootOK'
      BY <1>1 DEF KitInv, KitTypes, KitBootOK, K!TakeJob, K!Process
    <2> QED BY <1>1, <2>2, <2>3 DEF KitInv, KitTypes, K!TakeJob, K!Engine, K!Process, K!Histories
  <1>4. KitWorking'
    <2>1. i \notin KitExcused => \A h \in KitCallers : ~KitCloses(h)
      BY DEF KitInv, KitTracked, K!Awake, K!TakeJob
    <2>2. i \notin KitExcused => K!Uses(kitContainer) \subseteq kitOpen
      BY <2>1 DEF KitInv, KitConnected, K!TakeJob
    <2>3. kitContainer \in 1..kitContainer
      BY DEF KitInv, KitTypes, KitSettingOK, K!TakeJob
    <2> QED
      BY <1>2, <2>2, <2>3 DEF KitInv, KitTypes, KitModules, KitWorking, KitExcused, K!Awake, K!TakeJob, K!Engine, K!Histories
  <1>5. KitExclusive' /\ KitBooted' /\ KitConnected' /\ KitEmpty' /\ KitClosing' /\ KitSupply' /\ KitAccounted'
        /\ KitTracked'
    BY <1>1, <1>2 DEF KitInv, KitTypes, KitBootOK, KitModules, KitHalts, KitExclusive, KitBooted, KitConnected,
       KitCloses, KitEmpty, KitClosing, KitSupply, KitAccounted, K!Held, KitTracked, KitExcused, K!Awake, K!TakeJob,
       K!Engine, K!Process, K!Histories
  <1> QED BY <1>3, <1>4, <1>5 DEF KitInv

(* A job ends.                                                              *)
LEMMA JobEndsKeeps ==
  ASSUME K!Assumption, KitInv, NEW i \in K!Instances, K!JobEnds(i)
  PROVE  KitInv'
  <1>1. KitSettingOK' /\ kitSetting'.boots = kitSetting.boots
    BY DEF KitInv, KitTypes, KitSettingOK, K!JobEnds, K!Engine, K!Process, K!Histories
  <1>2. \A c : K!Choice(c)' = K!Choice(c) /\ K!Uses(c)' = K!Uses(c) /\ K!Created(c)' = K!Created(c)
    BY <1>1, SameChoices
  <1>3. KitTypes'
    <2>1. kitModule' \in [K!Instances -> KitModules]
      <3>0. 0 \in 0..KitMaxBoots
        BY DEF K!Assumption
      <3>1. kitModule[i] \in KitModules
        BY DEF KitInv, KitTypes
      <3>2. kitModule' = [kitModule EXCEPT ![i] = [kitModule[i] EXCEPT !.busy = FALSE, !.at = 0]]
        BY DEF K!JobEnds
      <3>3. [kitModule[i] EXCEPT !.busy = FALSE, !.at = 0] \in KitModules
        BY <3>0, <3>1, ModuleMoves
      <3> QED BY <3>2, <3>3 DEF KitInv, KitTypes
    <2>2. KitBootOK'
      BY <1>1 DEF KitInv, KitTypes, KitBootOK, K!JobEnds, K!Process
    <2> QED BY <1>1, <2>1, <2>2 DEF KitInv, KitTypes, K!JobEnds, K!Engine, K!Process, K!Histories
  <1>4. KitExclusive' /\ KitBooted' /\ KitConnected' /\ KitEmpty' /\ KitClosing' /\ KitSupply' /\ KitAccounted'
        /\ KitTracked' /\ KitWorking'
    BY <1>1, <1>2 DEF KitInv, KitTypes, KitBootOK, KitModules, KitHalts, KitExclusive, KitBooted, KitConnected,
       KitCloses, KitEmpty, KitClosing, KitSupply, KitAccounted, K!Held, KitTracked, KitExcused, K!Awake, KitWorking,
       K!JobEnds, K!Engine, K!Process, K!Histories
  <1> QED BY <1>3, <1>4 DEF KitInv

(* A module is disabled: it still works, or stops.                          *)
LEMMA DisableKeeps ==
  ASSUME K!Assumption, KitInv, NEW i \in K!Instances, K!Disable(i)
  PROVE  KitInv'
  <1>1. KitSettingOK' /\ kitSetting'.boots = kitSetting.boots
    BY OfferedKeeps DEF KitInv, KitTypes, K!Calls, K!Disable, K!Engine, K!Process, K!Histories
  <1>2. \A c : K!Choice(c)' = K!Choice(c) /\ K!Uses(c)' = K!Uses(c) /\ K!Created(c)' = K!Created(c)
    BY <1>1, SameChoices
  <1>3. KitTypes'
    <2>1. kitModule' \in [K!Instances -> KitModules]
      <3>1. kitModule[i] \in KitModules
        BY DEF KitInv, KitTypes
      <3>2. kitModule' = [kitModule EXCEPT ![i] = [kitModule[i] EXCEPT !.enabled = FALSE,
               !.phase = IF i[2] \notin kitSetting.flagged /\ kitModule[i].phase = "running"
                         THEN "stopping" ELSE kitModule[i].phase]]
        BY DEF K!Disable
      <3>3. [kitModule[i] EXCEPT !.enabled = FALSE,
               !.phase = IF i[2] \notin kitSetting.flagged /\ kitModule[i].phase = "running"
                         THEN "stopping" ELSE kitModule[i].phase] \in KitModules
        BY <3>1, ModuleMoves DEF KitModules
      <3> QED BY <3>2, <3>3 DEF KitInv, KitTypes
    <2>2. KitBootOK'
      BY <1>1 DEF KitInv, KitTypes, KitBootOK, K!Disable, K!Process
    <2> QED BY <1>1, <2>1, <2>2 DEF KitInv, KitTypes, K!Disable, K!Engine, K!Process, K!Histories
  <1>4. KitExclusive' /\ KitBooted' /\ KitConnected' /\ KitEmpty' /\ KitClosing' /\ KitSupply' /\ KitAccounted'
        /\ KitTracked' /\ KitWorking'
    BY <1>1, <1>2 DEF KitInv, KitTypes, KitBootOK, KitModules, KitHalts, KitExclusive, KitBooted, KitConnected,
       KitCloses, KitEmpty, KitClosing, KitSupply, KitAccounted, K!Held, KitTracked, KitExcused, K!Awake, KitWorking,
       K!Disable, K!Engine, K!Process, K!Histories
  <1> QED BY <1>3, <1>4 DEF KitInv

(* A module is enabled; under a stop() it is excused.                       *)
LEMMA EnableKeeps ==
  ASSUME K!Assumption, KitInv, NEW i \in K!Instances, K!Enable(i)
  PROVE  KitInv'
  <1>1. KitSettingOK' /\ kitSetting'.boots = kitSetting.boots
    BY OfferedKeeps DEF KitInv, KitTypes, K!Calls, K!Enable, K!Engine, K!Process, K!Histories
  <1>2. \A c : K!Choice(c)' = K!Choice(c) /\ K!Uses(c)' = K!Uses(c) /\ K!Created(c)' = K!Created(c)
    BY <1>1, SameChoices
  <1>3. KitTypes'
    BY <1>1, <1>2 DEF KitInv, KitTypes, KitBootOK, KitModules, KitHalts, K!Enable, K!Engine, K!Process, K!Histories
  <1>4. KitExclusive' /\ KitBooted' /\ KitConnected' /\ KitEmpty' /\ KitClosing' /\ KitSupply' /\ KitAccounted'
        /\ KitTracked' /\ KitWorking'
    BY <1>1, <1>2 DEF KitInv, KitTypes, KitBootOK, KitModules, KitHalts, KitExclusive, KitBooted, KitConnected,
       KitCloses, KitEmpty, KitClosing, KitSupply, KitAccounted, K!Held, KitTracked, KitExcused, K!Awake, KitWorking,
       K!Enable, K!Engine, K!Process, K!Histories
  <1> QED BY <1>3, <1>4 DEF KitInv

(* stop() waits for every enabled module, and passes over the others.       *)
LEMMA StopKeeps ==
  ASSUME K!Assumption, KitInv, NEW h \in KitCallers, K!Stop(h)
  PROVE  KitInv'
  <1>1. KitSettingOK' /\ kitSetting'.boots = kitSetting.boots
    BY OfferedKeeps DEF KitInv, KitTypes, K!Calls, K!Stop, K!Engine, K!Process, K!Histories
  <1>2. \A c : K!Choice(c)' = K!Choice(c) /\ K!Uses(c)' = K!Uses(c) /\ K!Created(c)' = K!Created(c)
    BY <1>1, SameChoices
  <1>3. KitTypes'
    <2> DEFINE stops == {i \in K!ToSet(kitRegistry) : K!Asked(i) /\ K!Awake(i)}
    <2>1. stops \in SUBSET K!Instances
      <3>1. kitRegistry \in Seq(K!Instances)
        BY DEF KitInv, KitTypes
      <3> QED BY <3>1 DEF K!ToSet
    <2>2. /\ kitModule' = [i \in K!Instances |->
                             IF i \in stops THEN [kitModule[i] EXCEPT !.phase = "stopping"] ELSE kitModule[i]]
          /\ kitHalt' = [kitHalt EXCEPT ![h] = [K!NoHalt EXCEPT !.pc = "drain", !.waits = stops]]
          /\ kitSkipped' = kitSkipped \cup {i \in K!ToSet(kitRegistry) : ~kitModule[i].enabled}
      BY DEF K!Stop
    <2>3. {i \in K!ToSet(kitRegistry) : ~kitModule[i].enabled} \subseteq K!Instances
      <3>1. kitRegistry \in Seq(K!Instances)
        BY DEF KitInv, KitTypes
      <3> QED BY <3>1 DEF K!ToSet
    <2> HIDE DEF stops
    <2>4. kitModule' \in [K!Instances -> KitModules]
      <3>1. \A i \in K!Instances : kitModule[i] \in KitModules /\ [kitModule[i] EXCEPT !.phase = "stopping"] \in KitModules
        BY ModuleMoves DEF KitInv, KitTypes
      <3> QED BY <2>2, <3>1
    <2>5. kitHalt' \in [KitCallers -> KitHalts]
      BY <2>1, <2>2, NoHaltTyped DEF KitInv, KitTypes
    <2>6. KitBootOK'
      BY <1>1 DEF KitInv, KitTypes, KitBootOK, K!Stop, K!Process
    <2> QED
      BY <1>1, <2>2, <2>3, <2>4, <2>5, <2>6 DEF KitInv, KitTypes, K!Stop, K!Engine, K!Process
  <1>4. KitTracked'
    <2>1. ASSUME NEW i \in K!Instances \ KitExcused', K!Awake(i)', NEW g \in KitCallers
          PROVE  /\ i \in K!ToSet(kitRegistry') /\ ~KitCloses(g)'
                 /\ kitHalt'[g].pc = "drain" => i \in kitHalt'[g].waits /\ kitModule'[i].phase = "stopping"
      <3>1. i \notin KitExcused /\ K!Awake(i)
        BY <2>1 DEF KitInv, KitTypes, KitModules, KitExcused, K!Awake, K!Stop
      <3>2. i \in K!ToSet(kitRegistry) /\ kitModule[i].enabled
        BY <2>1, <3>1 DEF KitInv, KitTracked, KitExcused, K!Stop
      <3>3. i \in {j \in K!ToSet(kitRegistry) : K!Asked(j) /\ K!Awake(j)}
        BY <3>1, <3>2 DEF K!Asked
      <3>4. kitModule'[i].phase = "stopping"
        BY <3>3 DEF KitInv, KitTypes, KitModules, K!Stop
      <3>5. CASE g = h
        <4>1. kitHalt'[h] = [K!NoHalt EXCEPT !.pc = "drain",
                                             !.waits = {j \in K!ToSet(kitRegistry) : K!Asked(j) /\ K!Awake(j)}]
          BY DEF KitInv, KitTypes, K!Stop
        <4>2. kitHalt'[h].pc = "drain" /\ kitHalt'[h].waits = {j \in K!ToSet(kitRegistry) : K!Asked(j) /\ K!Awake(j)}
          BY <4>1 DEF K!NoHalt
        <4> QED BY <3>2, <3>3, <3>4, <3>5, <4>2 DEF KitCloses, K!Stop, K!Process
      <3>6. CASE g # h
        <4>1. kitHalt'[g] = kitHalt[g]
          BY <3>6 DEF KitInv, KitTypes, K!Stop
        <4> QED BY <3>1, <3>2, <3>4, <4>1 DEF KitInv, KitTracked, KitCloses, K!Stop, K!Process
      <3> QED BY <3>5, <3>6
    <2>2. ASSUME NEW i \in K!Instances \ KitExcused', K!Awake(i)'
          PROVE  i \in K!ToSet(kitRegistry')
      BY <2>2 DEF KitInv, KitTypes, KitModules, KitTracked, KitExcused, K!Awake, K!Stop, K!Process
    <2> QED BY <2>1, <2>2 DEF KitTracked
  <1>5. KitExclusive' /\ KitBooted' /\ KitConnected' /\ KitEmpty' /\ KitClosing' /\ KitSupply' /\ KitAccounted'
        /\ KitWorking'
    BY <1>1, <1>2 DEF KitInv, KitTypes, KitBootOK, KitModules, KitHalts, KitExclusive, KitBooted, KitConnected,
       KitCloses, KitEmpty, KitClosing, KitSupply, KitAccounted, K!Held, KitWorking, KitExcused, K!Awake, K!Stop,
       K!Engine, K!Process, K!Histories
  <1> QED BY <1>3, <1>4, <1>5 DEF KitInv

(* A module without a job has stopped.                                      *)
LEMMA DrainedKeeps ==
  ASSUME K!Assumption, KitInv, NEW i \in K!Instances, K!Drained(i)
  PROVE  KitInv'
  <1>1. KitSettingOK' /\ kitSetting'.boots = kitSetting.boots
    BY DEF KitInv, KitTypes, KitSettingOK, K!Drained, K!Engine, K!Process, K!Histories
  <1>2. \A c : K!Choice(c)' = K!Choice(c) /\ K!Uses(c)' = K!Uses(c) /\ K!Created(c)' = K!Created(c)
    BY <1>1, SameChoices
  <1>3. KitTypes'
    BY <1>1, <1>2 DEF KitInv, KitTypes, KitBootOK, KitModules, KitHalts, K!Drained, K!Engine, K!Process, K!Histories
  <1>4. KitExclusive' /\ KitBooted' /\ KitConnected' /\ KitEmpty' /\ KitClosing' /\ KitSupply' /\ KitAccounted'
        /\ KitTracked' /\ KitWorking'
    BY <1>1, <1>2 DEF KitInv, KitTypes, KitBootOK, KitModules, KitHalts, KitExclusive, KitBooted, KitConnected,
       KitCloses, KitEmpty, KitClosing, KitSupply, KitAccounted, K!Held, KitTracked, KitExcused, K!Awake, KitWorking,
       K!Drained, K!Engine, K!Process, K!Histories
  <1> QED BY <1>3, <1>4 DEF KitInv

(* One that gives up on its job is excused.                                 *)
LEMMA DrainLapsesKeeps ==
  ASSUME K!Assumption, KitInv, NEW i \in K!Instances, K!DrainLapses(i)
  PROVE  KitInv'
  <1>1. KitSettingOK' /\ kitSetting'.boots = kitSetting.boots
    BY SufferedKeeps DEF KitInv, KitTypes, K!Faults, K!DrainLapses, K!Engine, K!Process, K!Histories
  <1>2. \A c : K!Choice(c)' = K!Choice(c) /\ K!Uses(c)' = K!Uses(c) /\ K!Created(c)' = K!Created(c)
    BY <1>1, SameChoices
  <1>3. KitTypes'
    BY <1>1, <1>2 DEF KitInv, KitTypes, KitBootOK, KitModules, KitHalts, K!DrainLapses, K!Engine, K!Process, K!Histories
  <1>4. KitExclusive' /\ KitBooted' /\ KitConnected' /\ KitEmpty' /\ KitClosing' /\ KitSupply' /\ KitAccounted'
        /\ KitTracked' /\ KitWorking'
    BY <1>1, <1>2 DEF KitInv, KitTypes, KitBootOK, KitModules, KitHalts, KitExclusive, KitBooted, KitConnected,
       KitCloses, KitEmpty, KitClosing, KitSupply, KitAccounted, K!Held, KitTracked, KitExcused, K!Awake, KitWorking,
       K!DrainLapses, K!Engine, K!Process, K!Histories
  <1> QED BY <1>3, <1>4 DEF KitInv

(* So is one whose stop() rejects.                                          *)
LEMMA StopFailsKeeps ==
  ASSUME K!Assumption, KitInv, NEW i \in K!Instances, K!StopFails(i)
  PROVE  KitInv'
  <1>1. KitSettingOK' /\ kitSetting'.boots = kitSetting.boots
    BY SufferedKeeps DEF KitInv, KitTypes, K!Faults, K!StopFails, K!Engine, K!Process, K!Histories
  <1>2. \A c : K!Choice(c)' = K!Choice(c) /\ K!Uses(c)' = K!Uses(c) /\ K!Created(c)' = K!Created(c)
    BY <1>1, SameChoices
  <1>3. KitTypes'
    <2>1. kitModule' \in [K!Instances -> KitModules]
      <3>1. kitModule[i] \in KitModules
        BY DEF KitInv, KitTypes
      <3>2. kitModule' = [kitModule EXCEPT ![i] = [kitModule[i] EXCEPT !.phase = "stopped"]]
        BY DEF K!StopFails
      <3> QED BY <3>1, <3>2, ModuleMoves DEF KitInv, KitTypes
    <2>2. kitHalt' \in [KitCallers -> KitHalts]
      <3>1. \A h \in KitCallers : kitHalt[h] \in KitHalts /\ [kitHalt[h] EXCEPT !.failed = TRUE] \in KitHalts
        BY HaltMoves DEF KitInv, KitTypes
      <3> QED BY <3>1 DEF K!StopFails
    <2>3. KitBootOK'
      BY <1>1 DEF KitInv, KitTypes, KitBootOK, K!StopFails, K!Process
    <2> QED BY <1>1, <2>1, <2>2, <2>3 DEF KitInv, KitTypes, K!StopFails, K!Engine, K!Process
  <1>4. KitExclusive' /\ KitBooted' /\ KitConnected' /\ KitEmpty' /\ KitClosing' /\ KitSupply' /\ KitAccounted'
        /\ KitTracked' /\ KitWorking'
    BY <1>1, <1>2 DEF KitInv, KitTypes, KitBootOK, KitModules, KitHalts, KitExclusive, KitBooted, KitConnected,
       KitCloses, KitEmpty, KitClosing, KitSupply, KitAccounted, K!Held, KitTracked, KitExcused, K!Awake, KitWorking,
       K!StopFails, K!Engine, K!Process, K!Histories
  <1> QED BY <1>3, <1>4 DEF KitInv

(* The wait ends: whoever is not excused has stopped.                       *)
LEMMA ProceedKeeps ==
  ASSUME K!Assumption, KitInv, NEW h \in KitCallers, K!Proceed(h)
  PROVE  KitInv'
  <1>1. KitSettingOK' /\ kitSetting'.boots = kitSetting.boots
    BY DEF KitInv, KitTypes, KitSettingOK, K!Proceed, K!StopEngine, K!Engine, K!Process, K!Histories
  <1>2. \A c : K!Choice(c)' = K!Choice(c) /\ K!Uses(c)' = K!Uses(c) /\ K!Created(c)' = K!Created(c)
    BY <1>1, SameChoices
  <1>3. KitTypes'
    <2>1. kitHalt' \in [KitCallers -> KitHalts]
      <3>1. kitHalt[h] \in KitHalts /\ kitPools \in SUBSET KitPoolSet
        BY DEF KitInv, KitTypes
      <3>2. kitHalt' = [kitHalt EXCEPT ![h] = [kitHalt[h] EXCEPT !.pc = "pools", !.left = kitPools]]
        BY DEF K!Proceed, K!StopEngine
      <3> QED BY <3>1, <3>2, HaltMoves DEF KitInv, KitTypes
    <2>2. kitGaveUp' \subseteq K!Instances
      BY DEF KitInv, KitTypes, KitHalts, K!Undrained, K!Proceed
    <2>3. KitBootOK'
      BY <1>1 DEF KitInv, KitTypes, KitBootOK, K!Proceed, K!StopEngine
    <2> QED BY <1>1, <2>1, <2>2, <2>3 DEF KitInv, KitTypes, K!Proceed, K!StopEngine, K!Engine
  <1>4. KitTracked'
    <2>1. ASSUME NEW i \in K!Instances \ KitExcused', K!Awake(i)'
          PROVE  FALSE
      <3>1. i \notin KitExcused /\ K!Awake(i)
        BY <2>1 DEF KitExcused, K!Awake, K!Proceed, K!StopEngine
      <3>2. i \in kitHalt[h].waits /\ kitModule[i].phase = "stopping"
        BY <2>1, <3>1 DEF KitInv, KitTracked, K!Proceed
      <3>3. i \in kitGaveUp'
        BY <3>2 DEF K!Undrained, K!Waited, K!Proceed
      <3> QED BY <2>1, <3>3 DEF KitExcused
    <2> QED BY <2>1 DEF KitTracked
  <1>5. KitExclusive' /\ KitBooted' /\ KitConnected' /\ KitEmpty' /\ KitClosing' /\ KitSupply' /\ KitAccounted'
        /\ KitWorking'
    BY <1>1, <1>2 DEF KitInv, KitTypes, KitBootOK, KitModules, KitHalts, KitExclusive, KitBooted, KitConnected,
       KitCloses, KitEmpty, KitClosing, KitSupply, KitAccounted, K!Held, KitWorking, KitExcused, K!Awake, K!Proceed,
       K!StopEngine, K!Engine, K!Process, K!Histories
  <1> QED BY <1>3, <1>4, <1>5 DEF KitInv

(* The wait is cut off: whoever has not stopped is excused.                 *)
LEMMA ShutdownTimeoutKeeps ==
  ASSUME K!Assumption, KitInv, NEW h \in KitCallers, K!ShutdownTimeout(h)
  PROVE  KitInv'
  <1>1. KitSettingOK' /\ kitSetting'.boots = kitSetting.boots
    BY SufferedKeeps DEF KitInv, KitTypes, K!Faults, K!ShutdownTimeout, K!StopEngine, K!Engine, K!Process, K!Histories
  <1>2. \A c : K!Choice(c)' = K!Choice(c) /\ K!Uses(c)' = K!Uses(c) /\ K!Created(c)' = K!Created(c)
    BY <1>1, SameChoices
  <1>3. KitTypes'
    <2>1. kitHalt' \in [KitCallers -> KitHalts]
      <3>1. kitHalt[h] \in KitHalts /\ kitPools \in SUBSET KitPoolSet
        BY DEF KitInv, KitTypes
      <3>2. kitHalt' = [kitHalt EXCEPT ![h] = [kitHalt[h] EXCEPT !.pc = "pools", !.left = kitPools]]
        BY DEF K!ShutdownTimeout, K!StopEngine
      <3> QED BY <3>1, <3>2, HaltMoves DEF KitInv, KitTypes
    <2>2. kitGaveUp' \subseteq K!Instances
      BY DEF KitInv, KitTypes, KitHalts, K!Undrained, K!ShutdownTimeout
    <2>3. KitBootOK'
      BY <1>1 DEF KitInv, KitTypes, KitBootOK, K!ShutdownTimeout, K!StopEngine
    <2> QED BY <1>1, <2>1, <2>2, <2>3 DEF KitInv, KitTypes, K!ShutdownTimeout, K!StopEngine, K!Engine
  <1>4. KitTracked'
    <2>1. ASSUME NEW i \in K!Instances \ KitExcused', K!Awake(i)'
          PROVE  FALSE
      <3>1. i \notin KitExcused /\ K!Awake(i)
        BY <2>1 DEF KitExcused, K!Awake, K!ShutdownTimeout, K!StopEngine
      <3>2. i \in kitHalt[h].waits /\ kitModule[i].phase = "stopping"
        BY <2>1, <3>1 DEF KitInv, KitTracked, K!ShutdownTimeout
      <3>3. i \in kitGaveUp'
        BY <3>2 DEF K!Undrained, K!Waited, K!ShutdownTimeout
      <3> QED BY <2>1, <3>3 DEF KitExcused
    <2> QED BY <2>1 DEF KitTracked
  <1>5. KitExclusive' /\ KitBooted' /\ KitConnected' /\ KitEmpty' /\ KitClosing' /\ KitSupply' /\ KitAccounted'
        /\ KitWorking'
    BY <1>1, <1>2 DEF KitInv, KitTypes, KitBootOK, KitModules, KitHalts, KitExclusive, KitBooted, KitConnected,
       KitCloses, KitEmpty, KitClosing, KitSupply, KitAccounted, K!Held, KitWorking, KitExcused, K!Awake,
       K!ShutdownTimeout, K!StopEngine, K!Engine, K!Process, K!Histories
  <1> QED BY <1>3, <1>4, <1>5 DEF KitInv

(* A pool is closed: nobody who is not excused works.                       *)
LEMMA ClosePoolKeeps ==
  ASSUME K!Assumption, KitInv, NEW h \in KitCallers, K!ClosePool(h)
  PROVE  KitInv'
  <1>1. KitSettingOK' /\ kitSetting'.boots = kitSetting.boots
    BY DEF KitInv, KitTypes, KitSettingOK, K!ClosePool, K!Engine, K!Process, K!Histories
  <1>2. \A c : K!Choice(c)' = K!Choice(c) /\ K!Uses(c)' = K!Uses(c) /\ K!Created(c)' = K!Created(c)
    BY <1>1, SameChoices
  <1>3. KitTypes'
    <2>1. kitHalt' \in [KitCallers -> KitHalts]
      <3>1. kitHalt[h] \in KitHalts
        BY DEF KitInv, KitTypes
      <3>2. PICK c \in kitHalt[h].left : kitHalt' = [kitHalt EXCEPT ![h] = [kitHalt[h] EXCEPT !.left = kitHalt[h].left \ {c}]]
        BY DEF K!ClosePool
      <3>3. kitHalt[h].left \ {c} \in SUBSET KitPoolSet
        BY <3>1 DEF KitHalts
      <3> QED BY <3>1, <3>2, <3>3, HaltMoves DEF KitInv, KitTypes
    <2>2. KitBootOK'
      BY <1>1 DEF KitInv, KitTypes, KitBootOK, K!ClosePool, K!Process
    <2> QED BY <1>1, <2>1, <2>2 DEF KitInv, KitTypes, K!ClosePool, K!Process, K!Histories
  <1>4. KitBooted'
    BY NoBootThen DEF KitInv, KitBooted, K!ClosePool
  <1>5. KitSupply'
    <2>1. kitHalt[h].left \subseteq KitPoolSet
      BY DEF KitInv, KitTypes, KitHalts
    <2> QED BY <2>1, PoolsAreConns DEF KitInv, KitSupply, K!ClosePool
  <1>6. KitWorking'
    <2>1. \A i \in K!Instances \ KitExcused : ~kitModule[i].busy
      BY DEF KitInv, KitWorking, KitTracked, KitCloses, K!ClosePool
    <2> QED BY <2>1 DEF KitWorking, KitExcused, K!ClosePool, K!Histories
  <1>7. KitExclusive' /\ KitConnected' /\ KitEmpty' /\ KitClosing' /\ KitAccounted' /\ KitTracked'
    BY <1>1, <1>2 DEF KitInv, KitTypes, KitBootOK, KitModules, KitHalts, KitExclusive, KitConnected, KitCloses,
       KitEmpty, KitClosing, KitAccounted, K!Held, KitTracked, KitExcused, K!Awake, K!ClosePool, K!Engine,
       K!Process, K!Histories
  <1> QED BY <1>3, <1>4, <1>5, <1>6, <1>7 DEF KitInv

(* The client is quit, when it is owned.                                    *)
LEMMA QuitKeeps ==
  ASSUME K!Assumption, KitInv, NEW h \in KitCallers, K!Quit(h)
  PROVE  KitInv'
  <1>1. KitSettingOK' /\ kitSetting'.boots = kitSetting.boots
    BY DEF KitInv, KitTypes, KitSettingOK, K!Quit, K!Engine, K!Process, K!Histories
  <1>2. \A c : K!Choice(c)' = K!Choice(c) /\ K!Uses(c)' = K!Uses(c) /\ K!Created(c)' = K!Created(c)
    BY <1>1, SameChoices
  <1>3. KitBooted'
    BY NoBootThen DEF KitInv, KitBooted, K!Quit
  <1>4. KitSupply'
    BY PoolsAreConns DEF KitInv, KitSupply, K!Quit
  <1>5. KitAccounted'
    <2>1. kitPools \cap kitOpen = {}
      BY DEF KitInv, KitClosing, K!Quit
    <2> QED BY <1>2, <2>1 DEF KitInv, KitAccounted, K!Held, K!Quit, K!Histories
  <1>6. KitWorking'
    <2>1. \A i \in K!Instances \ KitExcused : ~kitModule[i].busy
      BY DEF KitInv, KitWorking, KitTracked, KitCloses, K!Quit
    <2> QED BY <2>1 DEF KitWorking, KitExcused, K!Quit, K!Histories
  <1>7. KitTypes' /\ KitExclusive' /\ KitConnected' /\ KitEmpty' /\ KitClosing' /\ KitTracked'
    BY <1>1, <1>2 DEF KitInv, KitTypes, KitBootOK, KitModules, KitHalts, KitExclusive, KitConnected, KitCloses,
       KitEmpty, KitClosing, KitTracked, KitExcused, K!Awake, K!Quit, K!Engine, K!Process, K!Histories
  <1> QED BY <1>3, <1>4, <1>5, <1>6, <1>7 DEF KitInv

(* Everything is reset: nothing held is open.                               *)
LEMMA FinishKeeps ==
  ASSUME K!Assumption, KitInv, NEW h \in KitCallers, K!Finish(h)
  PROVE  KitInv'
  <1>1. KitSettingOK' /\ kitSetting'.boots = kitSetting.boots
    BY DEF KitInv, KitTypes, KitSettingOK, K!Finish, K!Engine, K!Process, K!Histories
  <1>2. \A c : K!Choice(c)' = K!Choice(c) /\ K!Uses(c)' = K!Uses(c) /\ K!Created(c)' = K!Created(c)
    BY <1>1, SameChoices
  <1>3. KitTypes'
    <2>1. kitHalt' \in [KitCallers -> KitHalts]
      BY NoHaltTyped DEF KitInv, KitTypes, K!Finish
    <2>2. KitBootOK'
      BY <1>1, NoBootThen DEF KitInv, KitTypes, KitBootOK, K!Finish
    <2>3. /\ kitClient' \in K!Conns \cup {K!NoConn} /\ kitOwned' \in BOOLEAN /\ kitContainer' \in 0..Len(kitSetting'.boots)
          /\ kitRegistry' \in Seq(K!Instances) /\ kitSignals' \in BOOLEAN /\ kitConfig' \in 0..KitMaxBoots
      <3>1. kitSetting.boots \in Seq([mode : K!Modes, custom : BOOLEAN, supplied : BOOLEAN]) /\ KitMaxBoots \in Nat
        BY DEF KitInv, KitTypes, KitSettingOK, K!Assumption
      <3>2. Len(kitSetting'.boots) \in Nat
        BY <1>1, <3>1
      <3>3. 0 \in 0..Len(kitSetting'.boots) /\ 0 \in 0..KitMaxBoots /\ <<>> \in Seq(K!Instances)
        BY <3>1, <3>2
      <3> QED BY <3>3 DEF K!Finish
    <2> QED BY <1>1, <2>1, <2>2, <2>3 DEF KitInv, KitTypes, K!Finish, K!Histories
  <1>4. KitBooted'
    <2>1. kitBoot.pc = "idle" /\ kitBoot.k \in Nat
      BY NoBootThen DEF KitInv, KitTypes, KitBootOK, KitSettingOK, K!Finish
    <2> QED BY <2>1 DEF KitBooted, K!Finish
  <1>5. KitEmpty'
    BY DEF KitInv, KitClosing, KitCloses, KitEmpty, K!Finish
  <1>6. KitAccounted'
    <2>1. kitPools = {} /\ (kitOwned => kitClient \notin kitOpen)
      BY DEF KitInv, KitClosing, K!Finish
    <2> QED BY <1>2, <2>1 DEF KitInv, KitAccounted, K!Held, K!Finish, K!Histories
  <1>7. KitWorking'
    <2>1. \A i \in K!Instances \ KitExcused : ~kitModule[i].busy
      BY DEF KitInv, KitWorking, KitTracked, KitCloses, K!Finish
    <2> QED BY <2>1 DEF KitWorking, KitExcused, K!Finish, K!Histories
  <1>8. KitExclusive' /\ KitConnected' /\ KitClosing' /\ KitSupply' /\ KitTracked'
    BY <1>1, <1>2 DEF KitInv, KitTypes, KitBootOK, KitModules, KitHalts, KitExclusive, KitConnected, KitCloses,
       KitClosing, KitSupply, KitTracked, KitExcused, K!Awake, K!Finish, K!Engine, K!Process, K!Histories
  <1> QED BY <1>3, <1>4, <1>5, <1>6, <1>7, <1>8 DEF KitInv

-----------------------------------------------------------------------------
(* The invariant holds at the start ...                                     *)
LEMMA KitInitially == ASSUME K!Assumption, K!Init PROVE KitInv
  <1>1. /\ kitSetting \in [modules : Seq(KitNames), flagged : SUBSET KitNames,
                           boots : Seq([mode : K!Modes, custom : BOOLEAN, supplied : BOOLEAN]),
                           offers : [K!Calls -> Nat], budget : [K!Faults -> Nat]]
        /\ Len(kitSetting.boots) <= KitMaxBoots
    BY DEF K!Assumption, K!Init, K!InitWith
  <1>2. KitSettingOK
    BY <1>1 DEF KitSettingOK
  <1>3. Len(kitSetting.boots) \in Nat /\ KitMaxBoots \in Nat
    BY <1>1 DEF K!Assumption
  <1>4. kitBoot.pc = "idle" /\ kitBoot.k = 0 /\ \A h \in KitCallers : kitHalt[h].pc = "idle"
    BY DEF K!Init, K!InitWith, K!NoBoot, K!NoHalt
  <1>5. KitBootOK
    BY <1>3, <1>4 DEF KitBootOK, K!Init, K!InitWith, K!NoBoot
  <1>6. kitModule \in [K!Instances -> KitModules]
    <2>1. K!Unborn \in KitModules
      BY <1>3 DEF K!Unborn, KitModules
    <2> QED BY <2>1 DEF K!Init, K!InitWith
  <1>7. <<0, "redis">> \in K!Conns
    BY <1>3 DEF K!Conns, K!Parts
  <1>8. KitTypes
    <2>1. /\ kitConfig \in 0..KitMaxBoots /\ kitContainer \in 0..Len(kitSetting.boots)
          /\ kitRegistry \in Seq(K!Instances) /\ kitHalt \in [KitCallers -> KitHalts]
      <3>1. kitConfig = 0 /\ kitContainer = 0 /\ kitRegistry = <<>> /\ kitHalt = [h \in KitCallers |-> K!NoHalt]
        BY DEF K!Init, K!InitWith
      <3>2. kitHalt \in [KitCallers -> KitHalts]
        BY <3>1, NoHaltTyped
      <3>3. <<>> \in Seq(K!Instances)
        OBVIOUS
      <3> QED BY <1>3, <3>1, <3>2, <3>3
    <2> QED BY <1>2, <1>5, <1>6, <1>7, <2>1 DEF KitTypes, K!Init, K!InitWith
  <1>9. \A i \in K!Instances : ~K!Awake(i) /\ ~kitModule[i].busy
    BY DEF K!Init, K!InitWith, K!Unborn, K!Awake
  <1> QED
    BY <1>4, <1>8, <1>9
       DEF KitInv, KitExclusive, KitBooted, KitConnected, KitEmpty, KitClosing, KitCloses, KitSupply, KitAccounted,
           KitTracked, KitWorking, K!Init, K!InitWith

(* ... no step breaks it ...                                                *)
LEMMA KitStepKeeps == ASSUME K!Assumption, KitInv, [K!Next]_(K!vars) PROVE KitInv'
  <1>1. CASE K!Next
    BY <1>1, BeginKeeps, CreateAdaptersKeeps, BootEngineKeeps, BootFailsKeeps, RegisterKeeps,
       InitModulesKeeps, StartModulesKeeps, ModuleFailsKeeps, WireKeeps, CloseAdaptersKeeps,
       TakeJobKeeps, JobEndsKeeps, DisableKeeps, EnableKeeps, DrainedKeeps, DrainLapsesKeeps,
       StopFailsKeeps, StopKeeps, ProceedKeeps, ShutdownTimeoutKeeps, ClosePoolKeeps,
       QuitKeeps, FinishKeeps
       DEF K!Next
  <1>2. CASE UNCHANGED K!vars
    BY <1>2
       DEF K!vars, KitInv, KitTypes, KitSettingOK, KitBootOK, KitExclusive, KitBooted, KitConnected, KitEmpty,
           KitClosing, KitCloses, KitSupply, KitAccounted, K!Held, KitTracked, KitExcused, K!Awake, KitWorking, K!Choice,
           K!Uses, K!Created, K!Pooled, K!Redis
  <1> QED BY <1>1, <1>2

(* ... and it implies the property.                                         *)
LEMMA KitOrderly == ASSUME KitInv PROVE K!StopIsOrderly
  <1>1. ASSUME K!Down PROVE K!StoppedIsQuiet
    <2>1. kitRegistry = <<>> /\ ~kitTelemetry /\ ~kitSignals /\ kitPools = {} /\ kitClient = K!NoConn /\ ~kitOwned
      BY <1>1 DEF KitInv, KitEmpty, K!Down
    <2>2. \A c \in kitOpen : c[1] = 0 \/ c \in kitOrphaned \/ K!Choice(c[1]).custom
      BY <2>1 DEF KitInv, KitAccounted, K!Held
    <2>3. \A i \in K!Instances : K!Awake(i) => i \in KitExcused
      BY <2>1 DEF KitInv, KitTracked, K!ToSet
    <2> QED BY <2>1, <2>2, <2>3 DEF KitInv, KitSupply, K!StoppedIsQuiet, KitExcused
  <1>2. ASSUME NEW i \in K!Instances \ KitExcused, kitModule[i].busy
        PROVE  kitContainer >= kitModule[i].at /\ K!Uses(kitModule[i].at) \cup K!Uses(kitContainer) \subseteq kitOpen
    <2>1. K!Awake(i) /\ kitModule[i].at \in 1..kitContainer /\ K!Uses(kitModule[i].at) \subseteq kitOpen
      BY <1>2 DEF KitInv, KitWorking
    <2>2. \A h \in KitCallers : ~KitCloses(h)
      BY <1>2, <2>1 DEF KitInv, KitTracked
    <2>3. kitContainer \in Nat
      BY DEF KitInv, KitTypes, KitSettingOK
    <2> QED BY <2>1, <2>2, <2>3 DEF KitInv, KitConnected
  <1> QED
    BY <1>1, <1>2 DEF K!StopIsOrderly, K!StoppedIsQuiet, K!DrainedBeforeClose, K!Attached, KitExcused

(* stop() is orderly (index.ts:492-526, core.ts:184-216): see StopIsOrderly *)
(* in Kit.  For any modules, callers of stop(), configurations, number of   *)
(* boots and faults.                                                        *)
THEOREM StopsAreOrderly == ASSUME K!Assumption PROVE K!Spec => []K!StopIsOrderly
  <1>1. K!Init => KitInv
    BY KitInitially
  <1>2. KitInv /\ [K!Next]_(K!vars) => KitInv'
    BY KitStepKeeps
  <1>3. KitInv => K!StopIsOrderly
    BY KitOrderly
  <1> QED BY <1>1, <1>2, <1>3, PTL DEF K!Spec

-----------------------------------------------------------------------------
(* Storage adapters. Every step either writes records or removes them; a    *)
(* write leaves what it wrote stored, a removal takes what it names out of  *)
(* the index too, and what it misses because another call was half way is   *)
(* torn.                                                                    *)
VARIABLES storeSetting, storeClock, storeBlob, storeScore, storeCall,
  storeWinners, storeTorn
storeVars == <<storeSetting, storeClock, storeBlob, storeScore, storeCall,
  storeWinners, storeTorn>>
S == INSTANCE Stores WITH
  Settings <- StoreSettings, Ids <- StoreIds, Slots <- StoreSlots, MaxTime <- StoreMaxTime,
  setting <- storeSetting, clock <- storeClock, blob <- storeBlob, score <-
  storeScore, call <- storeCall, winners <- storeWinners, torn <- storeTorn

(* Types. *)
StoreTimes == 0 .. StoreMaxTime + 2
StoreRecords == [made : StoreTimes, ends : StoreTimes, value : Nat]
StoreCalls == [op : {"idle", "insert", "save", "prune"}, ids : Seq(StoreIds), before : 0 .. StoreMaxTime + 1, written : SUBSET StoreIds]
StoreTyped ==
  /\ storeSetting \in [adapter : S!Adapters, offers : [S!Ops -> Nat], crashes : Nat]
  /\ storeClock \in 0 .. StoreMaxTime
  /\ storeBlob \in [StoreIds -> StoreRecords] /\ storeScore \in [StoreIds -> StoreTimes]
  /\ storeCall \in [StoreSlots -> StoreCalls]
  /\ \A s \in StoreSlots : /\ storeCall[s].op # "idle" => storeCall[s].ids # <<>>
                           /\ storeCall[s].op \in {"insert", "save"} => S!Redis
                           /\ storeCall[s].op = "prune" => storeSetting.adapter # "memory"
  /\ storeWinners \in [StoreIds -> Nat] /\ storeTorn \subseteq StoreIds

(* The time a record is filed under. *)
Timed(rec) == rec.made # S!NoTime \/ rec.ends # S!NoTime
TimeOf(rec) == IF rec.made # S!NoTime THEN rec.made ELSE rec.ends

WonOnce == \A id \in StoreIds : storeWinners[id] <= 1 /\ (~S!Stored(id) => storeWinners[id] = 0)
InsertInHand ==
  \A s \in StoreSlots, id \in StoreIds : storeCall[s].op = "insert" /\ storeCall[s].ids[1] = id /\ id \notin storeTorn =>
    S!Stored(id) /\ Timed(storeBlob[id]) /\ storeCall[s].before = TimeOf(storeBlob[id])
FiledByTime ==
  S!Redis => \A id \in StoreIds \ storeTorn :
    /\ ~S!Stored(id) => storeScore[id] = S!NoTime
    /\ Timed(storeBlob[id]) /\ storeScore[id] # S!NoTime => storeScore[id] = TimeOf(storeBlob[id])
ListedIsPast ==
  \A s \in StoreSlots, id \in StoreIds :
    storeCall[s].op = "prune" /\ id \in S!ToSet(storeCall[s].ids) /\ id \notin storeTorn \cup storeCall[s].written =>
      /\ S!Stored(id) => S!Past(id, storeCall[s].before)
      /\ S!Redis => storeScore[id] = S!NoTime \/ storeScore[id] <= storeCall[s].before
StoreInv == StoreTyped /\ WonOnce /\ InsertInHand /\ FiledByTime /\ ListedIsPast

LEMMA StoreOffered ==
  ASSUME StoreTyped, NEW op \in S!Ops, S!Offered(op)
  PROVE  /\ storeSetting' \in [adapter : S!Adapters, offers : [S!Ops -> Nat], crashes : Nat]
         /\ storeSetting'.adapter = storeSetting.adapter
  <1>1. storeSetting \in [adapter : S!Adapters, offers : [S!Ops -> Nat], crashes : Nat] BY DEF StoreTyped
  <1>2. storeSetting.offers \in [S!Ops -> Nat] /\ storeSetting.offers[op] \in Nat /\ storeSetting.offers[op] > 0 BY <1>1 DEF S!Offered
  <1>3. storeSetting.offers[op] - 1 \in Nat BY <1>2
  <1>4. storeSetting' = [storeSetting EXCEPT !.offers[op] = storeSetting.offers[op] - 1] BY DEF S!Offered
  <1> QED BY <1>1, <1>3, <1>4

LEMMA WrittenTyped ==
  ASSUME StoreTyped, NEW ids \in SUBSET StoreIds
  PROVE  /\ S!Written(ids) \in [StoreSlots -> StoreCalls]
         /\ \A s \in StoreSlots : /\ S!Written(ids)[s].op = storeCall[s].op /\ S!Written(ids)[s].ids = storeCall[s].ids
                                  /\ S!Written(ids)[s].before = storeCall[s].before
                                  /\ storeCall[s].op = "prune" => S!Written(ids)[s].written = storeCall[s].written \cup ids
  <1>1. SUFFICES ASSUME NEW s \in StoreSlots
        PROVE  /\ S!Written(ids)[s] \in StoreCalls
               /\ S!Written(ids)[s].op = storeCall[s].op /\ S!Written(ids)[s].ids = storeCall[s].ids
               /\ S!Written(ids)[s].before = storeCall[s].before
               /\ storeCall[s].op = "prune" => S!Written(ids)[s].written = storeCall[s].written \cup ids
    BY DEF S!Written
  <1>2. storeCall[s] \in StoreCalls BY DEF StoreTyped
  <1> DEFINE cs == storeCall[s]
  <1>3. S!Written(ids)[s] = IF cs.op = "prune" THEN [cs EXCEPT !.written = @ \cup ids] ELSE cs BY DEF S!Written
  <1>4. cs \in StoreCalls BY <1>2
  <1> HIDE DEF cs
  <1>5. S!Written(ids)[s] \in StoreCalls /\ S!Written(ids)[s].op = cs.op /\ S!Written(ids)[s].ids = cs.ids
        /\ S!Written(ids)[s].before = cs.before /\ (cs.op = "prune" => S!Written(ids)[s].written = cs.written \cup ids)
    BY <1>3, <1>4 DEF StoreCalls
  <1> QED BY <1>5 DEF cs

LEMMA StoreRecordsTyped ==
  ASSUME S!Assumption, StoreTyped
  PROVE  /\ S!New \subseteq StoreRecords /\ S!NoRecord \in StoreRecords /\ S!Job(storeClock) \in StoreRecords
         /\ S!NoCall \in [op : {"idle"}, ids : {<<>>}, before : {0}, written : {{}}]
         /\ \A rec \in S!New \cup {S!Job(storeClock)} : Timed(rec) /\ rec # S!NoRecord /\ TimeOf(rec) \in 0 .. StoreMaxTime + 1 
         /\ \A b \in 0 .. StoreMaxTime : S!Job(b) \in StoreRecords /\ Timed(S!Job(b)) /\ S!Job(b) # S!NoRecord
         /\ ~Timed(S!NoRecord) /\ S!NoTime \in StoreTimes /\ S!NoTime \notin 0 .. StoreMaxTime + 1
         /\ 0 .. StoreMaxTime + 1 \subseteq StoreTimes /\ storeClock \in 0 .. StoreMaxTime /\ storeClock \in 0 .. StoreMaxTime + 1
  <1>1. storeClock \in 0 .. StoreMaxTime BY DEF StoreTyped
  <1>2. StoreMaxTime \in Nat BY DEF S!Assumption
  <1> QED BY <1>1, <1>2 DEF S!New, StoreRecords, S!NoRecord, S!Job, S!NoCall, Timed, TimeOf, StoreTimes, S!NoTime

(* A step that writes records, each stored after it. *)
StoreRefiles(ids) ==
  /\ storeBlob' \in [StoreIds -> StoreRecords] /\ storeScore' \in [StoreIds -> StoreTimes] /\ storeWinners' \in [StoreIds -> Nat]
  /\ storeTorn' \subseteq StoreIds /\ storeTorn \subseteq storeTorn' /\ storeClock' \in 0 .. StoreMaxTime
  /\ storeSetting' \in [adapter : S!Adapters, offers : [S!Ops -> Nat], crashes : Nat]
  /\ storeSetting'.adapter = storeSetting.adapter
  /\ \A id \in StoreIds \ ids : storeBlob'[id] = storeBlob[id] /\ storeScore'[id] = storeScore[id] /\ storeWinners'[id] = storeWinners[id]
  /\ \A id \in ids :
       /\ storeBlob'[id] # S!NoRecord /\ storeWinners'[id] <= 1
       /\ S!Redis /\ id \notin storeTorn' /\ Timed(storeBlob'[id]) /\ storeScore'[id] # S!NoTime => storeScore'[id] = TimeOf(storeBlob'[id])
       /\ S!Inserting(id) /\ id \notin storeTorn' => Timed(storeBlob'[id]) /\ TimeOf(storeBlob'[id]) = TimeOf(storeBlob[id])
StoreCallsGo(ids) ==
  /\ storeCall' \in [StoreSlots -> StoreCalls]
  /\ \A s \in StoreSlots :
       /\ storeCall'[s].op # "idle" => storeCall'[s].ids # <<>>
       /\ storeCall'[s].op = "save" => S!Redis
       /\ storeCall'[s].op = "insert" =>
            S!Redis /\ \/ storeCall[s].op = "insert" /\ storeCall'[s].ids[1] = storeCall[s].ids[1] /\ storeCall'[s].before = storeCall[s].before
                       \/ \E id \in ids : /\ storeCall'[s].ids[1] = id /\ Timed(storeBlob'[id]) 
                                          /\ storeCall'[s].before = TimeOf(storeBlob'[id])
       /\ storeCall'[s].op = "prune" =>
            /\ storeCall[s].op = "prune" /\ S!ToSet(storeCall'[s].ids) \subseteq S!ToSet(storeCall[s].ids)
            /\ storeCall'[s].before = storeCall[s].before /\ storeCall'[s].written = storeCall[s].written \cup ids

LEMMA WritesKeep ==
  ASSUME S!Assumption, StoreInv, NEW ids \in SUBSET StoreIds, StoreRefiles(ids), StoreCallsGo(ids)
  PROVE  StoreInv'
  <1>1. StoreTyped' 
    <2>1. StoreTyped /\ S!Redis' = S!Redis BY DEF StoreInv, StoreRefiles, S!Redis
    <2> QED BY <2>1 DEF StoreTyped, StoreRefiles, StoreCallsGo
  <1>2. WonOnce'
    BY DEF StoreInv, WonOnce, StoreRefiles, S!Stored
  <1>3. InsertInHand'
    <2> SUFFICES ASSUME NEW s \in StoreSlots, NEW id \in StoreIds, storeCall'[s].op = "insert", storeCall'[s].ids[1] = id, id \notin storeTorn'
                 PROVE  S!Stored(id)' /\ Timed(storeBlob'[id]) /\ storeCall'[s].before = TimeOf(storeBlob'[id])
      BY DEF InsertInHand, Timed, TimeOf, S!NoTime
    <2>1. id \notin storeTorn BY DEF StoreRefiles
    <2>2. CASE id \in ids /\ storeCall'[s].before = TimeOf(storeBlob'[id]) /\ Timed(storeBlob'[id])
      BY <2>2 DEF StoreRefiles, S!Stored, S!NoRecord
    <2>3. CASE storeCall[s].op = "insert" /\ storeCall[s].ids[1] = id /\ storeCall'[s].before = storeCall[s].before
      <3>1. S!Inserting(id) BY <2>3 DEF S!Inserting
      <3>2. S!Stored(id) /\ Timed(storeBlob[id]) /\ storeCall[s].before = TimeOf(storeBlob[id]) BY <2>1, <2>3 DEF StoreInv, InsertInHand
      <3>3. CASE id \in ids BY <2>3, <3>1, <3>2, <3>3 DEF StoreRefiles, S!Stored, S!NoRecord
      <3>4. CASE id \notin ids BY <2>3, <3>2, <3>4 DEF StoreRefiles, S!Stored, S!NoRecord
      <3> QED BY <3>3, <3>4
    <2> QED BY <2>2, <2>3 DEF StoreCallsGo
  <1>4. FiledByTime'
    <2> SUFFICES ASSUME S!Redis, NEW id \in StoreIds, id \notin storeTorn'
                 PROVE  /\ ~S!Stored(id)' => storeScore'[id] = S!NoTime
                        /\ Timed(storeBlob'[id]) /\ storeScore'[id] # S!NoTime => storeScore'[id] = TimeOf(storeBlob'[id])
      BY DEF FiledByTime, Timed, TimeOf, S!Redis, StoreRefiles, S!NoTime
    <2>1. id \notin storeTorn BY DEF StoreRefiles
    <2>2. CASE id \in ids BY <2>2 DEF StoreRefiles, S!Stored, S!NoRecord
    <2>3. CASE id \notin ids BY <2>1, <2>3 DEF StoreRefiles, S!Stored, StoreInv, FiledByTime
    <2> QED BY <2>2, <2>3
  <1>5. ListedIsPast'
    <2> SUFFICES ASSUME NEW s \in StoreSlots, NEW id \in StoreIds, storeCall'[s].op = "prune", id \in S!ToSet(storeCall'[s].ids),
                        id \notin storeTorn' \cup storeCall'[s].written
                 PROVE  /\ S!Stored(id)' => S!Past(id, storeCall[s].before)'
                        /\ S!Redis => storeScore'[id] = S!NoTime \/ storeScore'[id] <= storeCall'[s].before
      BY DEF ListedIsPast, S!Redis, StoreRefiles, S!NoTime
    <2>1. storeCall[s].op = "prune" /\ id \in S!ToSet(storeCall[s].ids) /\ id \notin storeTorn \cup storeCall[s].written /\ id \notin ids
          /\ storeCall'[s].before = storeCall[s].before
      BY DEF StoreRefiles, StoreCallsGo
    <2>2. storeBlob'[id] = storeBlob[id] /\ storeScore'[id] = storeScore[id] BY <2>1 DEF StoreRefiles
    <2>3. /\ S!Stored(id) => S!Past(id, storeCall[s].before)
          /\ S!Redis => storeScore[id] = S!NoTime \/ storeScore[id] <= storeCall[s].before
      BY <2>1 DEF StoreInv, ListedIsPast
    <2> QED BY <2>1, <2>2, <2>3 DEF S!Past, S!Stored, S!NoRecord, S!NoTime
  <1> QED BY <1>1, <1>2, <1>3, <1>4, <1>5 DEF StoreInv

(* A step that removes records, moves on or dies. *)
StoreRemoves(ids) ==
  /\ storeClock' \in 0 .. StoreMaxTime
  /\ storeSetting' \in [adapter : S!Adapters, offers : [S!Ops -> Nat], crashes : Nat]
  /\ storeSetting'.adapter = storeSetting.adapter
  /\ storeScore' \in [StoreIds -> StoreTimes] /\ storeTorn' \subseteq StoreIds /\ storeTorn \subseteq storeTorn' /\ S!Overtaken(ids) \subseteq storeTorn'
  /\ storeBlob' = [id \in StoreIds |-> IF id \in ids THEN S!NoRecord ELSE storeBlob[id]]
  /\ storeWinners' = [id \in StoreIds |-> IF id \in ids THEN 0 ELSE storeWinners[id]]
  /\ \A id \in StoreIds : /\ storeScore'[id] \in {S!NoTime, storeScore[id]}
                          /\ S!Redis /\ id \in ids \ storeTorn' => storeScore'[id] = S!NoTime
                          /\ id \notin ids \cup storeTorn' /\ S!Stored(id) => storeScore'[id] = storeScore[id]

LEMMA RemovalsKeep ==
  ASSUME S!Assumption, StoreInv, NEW ids \in SUBSET StoreIds, StoreRemoves(ids), StoreCallsGo({})
  PROVE  StoreInv'
  <1>0. \A id \in StoreIds : /\ storeBlob'[id] = IF id \in ids THEN S!NoRecord ELSE storeBlob[id]
                             /\ storeWinners'[id] = IF id \in ids THEN 0 ELSE storeWinners[id]
    BY DEF StoreRemoves
  <1>1. StoreTyped' 
    <2>1. StoreTyped /\ S!Redis' = S!Redis /\ S!NoRecord \in StoreRecords BY StoreRecordsTyped DEF StoreInv, StoreRemoves, S!Redis
    <2>2. storeBlob' \in [StoreIds -> StoreRecords] /\ storeWinners' \in [StoreIds -> Nat] BY <2>1 DEF StoreRemoves, StoreTyped
    <2> QED BY <2>1, <2>2 DEF StoreTyped, StoreRemoves, StoreCallsGo
  <1>2. WonOnce'
    BY <1>0 DEF StoreInv, WonOnce, S!Stored
  <1>3. InsertInHand'
    <2> SUFFICES ASSUME NEW s \in StoreSlots, NEW id \in StoreIds, storeCall'[s].op = "insert", storeCall'[s].ids[1] = id, id \notin storeTorn'
                 PROVE  S!Stored(id)' /\ Timed(storeBlob'[id]) /\ storeCall'[s].before = TimeOf(storeBlob'[id])
      BY DEF InsertInHand, Timed, TimeOf, S!NoTime
    <2>1. id \notin storeTorn BY DEF StoreRemoves
    <2>2. storeCall[s].op = "insert" /\ storeCall[s].ids[1] = id /\ storeCall'[s].before = storeCall[s].before BY DEF StoreCallsGo
    <2>3. S!Stored(id) /\ Timed(storeBlob[id]) /\ storeCall[s].before = TimeOf(storeBlob[id]) BY <2>1, <2>2 DEF StoreInv, InsertInHand
    <2>4. id \notin ids BY <2>2 DEF StoreRemoves, S!Overtaken, S!Inserting
    <2> QED BY <1>0, <2>2, <2>3, <2>4 DEF S!Stored, S!NoRecord
  <1>4. FiledByTime'
    <2> SUFFICES ASSUME S!Redis, NEW id \in StoreIds, id \notin storeTorn'
                 PROVE  /\ ~S!Stored(id)' => storeScore'[id] = S!NoTime
                        /\ Timed(storeBlob'[id]) /\ storeScore'[id] # S!NoTime => storeScore'[id] = TimeOf(storeBlob'[id])
      BY DEF FiledByTime, Timed, TimeOf, S!Redis, StoreRemoves, S!NoTime
    <2>1. id \notin storeTorn BY DEF StoreRemoves
    <2>2. CASE id \in ids BY <2>2 DEF StoreRemoves
    <2>3. CASE id \notin ids BY <1>0, <2>1, <2>3 DEF StoreRemoves, S!Stored, StoreInv, FiledByTime, S!NoRecord, S!NoTime
    <2> QED BY <2>2, <2>3
  <1>5. ListedIsPast'
    <2> SUFFICES ASSUME NEW s \in StoreSlots, NEW id \in StoreIds, storeCall'[s].op = "prune", id \in S!ToSet(storeCall'[s].ids),
                        id \notin storeTorn' \cup storeCall'[s].written
                 PROVE  /\ S!Stored(id)' => S!Past(id, storeCall[s].before)'
                        /\ S!Redis => storeScore'[id] = S!NoTime \/ storeScore'[id] <= storeCall'[s].before
      BY DEF ListedIsPast, S!Redis, StoreRemoves, S!NoTime
    <2>1. storeCall[s].op = "prune" /\ id \in S!ToSet(storeCall[s].ids) /\ id \notin storeTorn \cup storeCall[s].written
          /\ storeCall'[s].before = storeCall[s].before
      BY DEF StoreRemoves, StoreCallsGo
    <2>2. S!Stored(id)' => /\ id \notin ids /\ storeBlob'[id] = storeBlob[id] /\ S!Stored(id) /\ storeScore'[id] = storeScore[id]
      BY <1>0 DEF StoreRemoves, S!Stored, S!NoRecord, S!NoTime
    <2>3. /\ S!Stored(id) => S!Past(id, storeCall[s].before)
          /\ S!Redis => storeScore[id] = S!NoTime \/ storeScore[id] <= storeCall[s].before
      BY <2>1 DEF StoreInv, ListedIsPast
    <2>4. storeScore'[id] \in {S!NoTime, storeScore[id]} BY DEF StoreRemoves
    <2>5. S!Stored(id)' => S!Past(id, storeCall[s].before)'
      BY <2>1, <2>2, <2>3 DEF S!Past, S!NoTime
    <2> QED BY <2>1, <2>3, <2>4, <2>5
  <1> QED BY <1>1, <1>2, <1>3, <1>4, <1>5 DEF StoreInv

LEMMA FiledAs ==
  ASSUME S!Assumption, StoreTyped, NEW id \in StoreIds, NEW rec \in StoreRecords
  PROVE  /\ S!Filed(id, rec) \in StoreTimes
         /\ S!Redis /\ Timed(rec) => S!Filed(id, rec) = TimeOf(rec)
         /\ S!RedisScore(rec) \in StoreTimes /\ (Timed(rec) => S!RedisScore(rec) = TimeOf(rec))
  <1>1. storeClock \in StoreTimes /\ S!NoTime \in StoreTimes /\ storeScore[id] \in StoreTimes /\ rec.made \in StoreTimes /\ rec.ends \in StoreTimes
    BY StoreRecordsTyped DEF StoreTyped, StoreRecords
  <1>2. S!RedisScore(rec) \in StoreTimes /\ (Timed(rec) => S!RedisScore(rec) = TimeOf(rec))
    BY <1>1 DEF S!RedisScore, Timed, TimeOf
  <1> QED BY <1>1, <1>2 DEF S!Filed

LEMMA StoreWrittenGoes ==
  ASSUME StoreTyped, NEW ids \in SUBSET StoreIds, storeCall' = S!Written(ids)
  PROVE  StoreCallsGo(ids)
  <1>1. \A s \in StoreSlots : /\ storeCall'[s].op = storeCall[s].op /\ storeCall'[s].ids = storeCall[s].ids
                              /\ storeCall'[s].before = storeCall[s].before
                              /\ storeCall[s].op = "prune" => storeCall'[s].written = storeCall[s].written \cup ids
    BY WrittenTyped
  <1>2. storeCall' \in [StoreSlots -> StoreCalls] BY WrittenTyped
  <1> QED BY <1>1, <1>2 DEF StoreCallsGo, StoreTyped

(* One record put under its id, with what the index is told. *)
LEMMA PutRefiles ==
  ASSUME S!Assumption, StoreInv, NEW op \in S!Ops, S!Offered(op), NEW id \in StoreIds, NEW rec \in StoreRecords, rec # S!NoRecord,
         S!Put(id, rec), UNCHANGED <<storeClock, storeWinners>>, storeTorn \subseteq storeTorn', storeTorn' \subseteq StoreIds,
         S!Inserting(id) /\ id \notin storeTorn' => Timed(rec) /\ TimeOf(rec) = TimeOf(storeBlob[id])
  PROVE  StoreRefiles({id})
  <1>1. StoreTyped BY DEF StoreInv
  <1>2. S!Filed(id, rec) \in StoreTimes /\ (S!Redis /\ Timed(rec) => S!Filed(id, rec) = TimeOf(rec)) BY <1>1, FiledAs
  <1>3. storeBlob' = [storeBlob EXCEPT ![id] = rec] /\ storeScore' = [storeScore EXCEPT ![id] = S!Filed(id, rec)] BY DEF S!Put
  <1>4. storeBlob \in [StoreIds -> StoreRecords] /\ storeScore \in [StoreIds -> StoreTimes] /\ storeWinners \in [StoreIds -> Nat] /\ storeClock \in 0 .. StoreMaxTime
    BY <1>1 DEF StoreTyped
  <1>5. storeBlob' \in [StoreIds -> StoreRecords] /\ storeScore' \in [StoreIds -> StoreTimes] /\ storeWinners' \in [StoreIds -> Nat] /\ storeClock' \in 0 .. StoreMaxTime
    BY <1>2, <1>3, <1>4
  <1>6. storeSetting' \in [adapter : S!Adapters, offers : [S!Ops -> Nat], crashes : Nat] /\ storeSetting'.adapter = storeSetting.adapter
    BY <1>1, StoreOffered
  <1>7. storeBlob'[id] = rec /\ storeScore'[id] = S!Filed(id, rec) /\ \A x \in StoreIds \ {id} : storeBlob'[x] = storeBlob[x] /\ storeScore'[x] = storeScore[x]
    BY <1>3, <1>4
  <1>8. storeWinners[id] <= 1 BY DEF StoreInv, WonOnce
  <1> QED BY <1>2, <1>5, <1>6, <1>7, <1>8 DEF StoreRefiles

LEMMA StoreSaveKeeps ==
  ASSUME S!Assumption, StoreInv, NEW id \in StoreIds, NEW rec \in S!New, S!Save(id, rec) \/ S!Renew(id, rec)
  PROVE  StoreRefiles({id}) /\ StoreCallsGo({id})
  <1>1. StoreTyped BY DEF StoreInv
  <1>2. rec \in StoreRecords /\ rec # S!NoRecord BY <1>1, StoreRecordsTyped
  <1>3. "save" \in S!Ops /\ S!Offered("save") /\ S!Put(id, rec) /\ UNCHANGED <<storeClock, storeWinners>> /\ storeCall' = S!Written({id})
    BY DEF S!Save, S!Renew, S!Ops
  <1>4. storeTorn \subseteq storeTorn' /\ storeTorn' \subseteq StoreIds BY <1>1 DEF S!Save, S!Renew, StoreTyped, S!Overtaken
  <1>5. S!Inserting(id) => id \in storeTorn'
    <2>1. CASE S!Save(id, rec) BY <2>1 DEF S!Save, StoreInv, InsertInHand, S!Inserting
    <2>2. CASE S!Renew(id, rec) BY <2>2 DEF S!Renew, S!Overtaken
    <2> QED BY <2>1, <2>2
  <1>6. StoreRefiles({id}) BY <1>2, <1>3, <1>4, <1>5, PutRefiles
  <1> QED BY <1>1, <1>3, <1>6, StoreWrittenGoes

LEMMA StoreUpdateKeeps ==
  ASSUME S!Assumption, StoreInv, NEW id \in StoreIds, S!Update(id)
  PROVE  StoreRefiles({id}) /\ StoreCallsGo({id})
  <1>1. StoreTyped BY DEF StoreInv
  <1>2. storeBlob[id] \in StoreRecords BY <1>1 DEF StoreTyped
  <1> DEFINE old == storeBlob[id]
             rec == [old EXCEPT !.value = 1]
  <1>3. "update" \in S!Ops /\ S!Offered("update") /\ S!Put(id, rec) /\ UNCHANGED <<storeClock, storeWinners, storeTorn>> /\ storeCall' = S!Written({id})
        /\ S!Stored(id)
    BY DEF S!Update, S!Ops
  <1>4. old \in StoreRecords BY <1>2
  <1>a. S!Inserting(id) /\ id \notin storeTorn => Timed(old) BY DEF StoreInv, InsertInHand, S!Inserting
  <1> HIDE DEF old
  <1>5. rec \in StoreRecords /\ rec # S!NoRecord /\ rec.made = old.made /\ rec.ends = old.ends
    BY <1>4 DEF StoreRecords, S!NoRecord
  <1> HIDE DEF rec
  <1>6. TimeOf(rec) = TimeOf(old) /\ (Timed(old) => Timed(rec)) BY <1>5 DEF TimeOf, Timed
  <1>7. storeTorn \subseteq storeTorn' /\ storeTorn' \subseteq StoreIds BY <1>1, <1>3 DEF StoreTyped
  <1>8. S!Inserting(id) /\ id \notin storeTorn' => Timed(rec) /\ TimeOf(rec) = TimeOf(storeBlob[id])
    BY <1>3, <1>6, <1>a DEF old
  <1>9. StoreRefiles({id}) BY <1>3, <1>5, <1>7, <1>8, PutRefiles
  <1> QED BY <1>1, <1>3, <1>9, StoreWrittenGoes

(* A counter has no time, and none is under way. *)
LEMMA IncrementKeeps ==
  ASSUME S!Assumption, StoreInv, NEW id \in StoreIds, S!Increment(id)
  PROVE  StoreRefiles({id}) /\ StoreCallsGo({id})
  <1>1. StoreTyped BY DEF StoreInv
  <1> DEFINE old == storeBlob[id]
             rec == S!Counted(id)
             at == IF S!Redis \/ (storeSetting.adapter = "postgres" /\ ~S!Stored(id)) THEN storeClock ELSE storeScore[id]
  <1>2. storeBlob \in [StoreIds -> StoreRecords] /\ storeScore \in [StoreIds -> StoreTimes] /\ storeWinners \in [StoreIds -> Nat] /\ storeClock \in 0 .. StoreMaxTime
        /\ storeTorn \subseteq StoreIds
    BY <1>1 DEF StoreTyped
  <1>3. old \in StoreRecords /\ S!NoRecord \in StoreRecords /\ storeClock \in StoreTimes BY <1>1, <1>2, StoreRecordsTyped
  <1>4. "increment" \in S!Ops /\ S!Offered("increment") /\ UNCHANGED <<storeClock, storeWinners, storeTorn>> /\ storeCall' = S!Written({id})
        /\ ~Timed(old)
    BY DEF S!Increment, S!Ops, S!Counter, Timed
  <1>a. storeBlob' = [storeBlob EXCEPT ![id] = rec] BY DEF S!Increment
  <1>b. storeScore' = [storeScore EXCEPT ![id] = at] BY DEF S!Increment
  <1>5. storeBlob' = [storeBlob EXCEPT ![id] = rec] /\ storeScore' = [storeScore EXCEPT ![id] = at] BY <1>a, <1>b
  <1>6. S!Inserting(id) => id \in storeTorn BY <1>4 DEF StoreInv, InsertInHand, S!Inserting
  <1>7. rec \in StoreRecords /\ rec # S!NoRecord /\ ~Timed(rec)
    <2> DEFINE v == IF S!Stored(id) THEN old.value + 1 ELSE 1
    <2>1. v \in Nat /\ v # 0 BY <1>3 DEF StoreRecords
    <2>2. rec = [S!NoRecord EXCEPT !.value = v] BY DEF S!Counted
    <2> HIDE DEF v, rec
    <2> QED BY <1>3, <2>1, <2>2 DEF StoreRecords, S!NoRecord, Timed
  <1> HIDE DEF old
  <1>8. at \in StoreTimes BY <1>2, <1>3
  <1> HIDE DEF rec, at
  <1>9. storeBlob' \in [StoreIds -> StoreRecords] /\ storeScore' \in [StoreIds -> StoreTimes] /\ storeWinners' \in [StoreIds -> Nat] /\ storeClock' \in 0 .. StoreMaxTime
    BY <1>2, <1>4, <1>5, <1>7, <1>8
  <1>10. storeSetting' \in [adapter : S!Adapters, offers : [S!Ops -> Nat], crashes : Nat] /\ storeSetting'.adapter = storeSetting.adapter
    BY <1>1, <1>4, StoreOffered
  <1>11. storeBlob'[id] = rec /\ storeScore'[id] = at /\ \A x \in StoreIds \ {id} : storeBlob'[x] = storeBlob[x] /\ storeScore'[x] = storeScore[x]
    BY <1>2, <1>5
  <1>12. storeWinners[id] <= 1 BY DEF StoreInv, WonOnce
  <1>13. StoreRefiles({id}) BY <1>2, <1>4, <1>6, <1>7, <1>9, <1>10, <1>11, <1>12 DEF StoreRefiles
  <1> QED BY <1>1, <1>4, <1>13, StoreWrittenGoes

LEMMA CompareAndSetKeeps ==
  ASSUME S!Assumption, StoreInv, NEW id \in StoreIds, S!CompareAndSet(id, 0, 1)
  PROVE  StoreRefiles({id}) /\ StoreCallsGo({id})
  <1>1. StoreTyped BY DEF StoreInv
  <1> DEFINE old == storeBlob[id]
             rec == [old EXCEPT !.value = 1]
  <1>2. storeBlob \in [StoreIds -> StoreRecords] /\ storeScore \in [StoreIds -> StoreTimes] /\ storeWinners \in [StoreIds -> Nat] /\ storeClock \in 0 .. StoreMaxTime
        /\ storeTorn \subseteq StoreIds
    BY <1>1 DEF StoreTyped
  <1>3. "set" \in S!Ops /\ S!Offered("set") /\ UNCHANGED <<storeClock, storeScore, storeWinners, storeTorn>> /\ storeCall' = S!Written({id}) /\ S!Stored(id)
    BY DEF S!CompareAndSet, S!Ops
  <1>4. storeBlob' = [storeBlob EXCEPT ![id] = rec] BY DEF S!CompareAndSet
  <1>5. old \in StoreRecords BY <1>2
  <1>6. S!Inserting(id) /\ id \notin storeTorn => Timed(old) BY DEF StoreInv, InsertInHand, S!Inserting
  <1>7. S!Redis /\ id \notin storeTorn /\ Timed(old) /\ storeScore[id] # S!NoTime => storeScore[id] = TimeOf(old) BY DEF StoreInv, FiledByTime
  <1>8. storeBlob'[id] = rec /\ \A x \in StoreIds \ {id} : storeBlob'[x] = storeBlob[x] BY <1>2, <1>4
  <1>14. storeBlob[id] = old OBVIOUS
  <1> HIDE DEF old
  <1>9. rec \in StoreRecords /\ rec # S!NoRecord /\ rec.made = old.made /\ rec.ends = old.ends
    BY <1>5 DEF StoreRecords, S!NoRecord
  <1> HIDE DEF rec
  <1>10. TimeOf(rec) = TimeOf(old) /\ (Timed(old) <=> Timed(rec)) BY <1>9 DEF TimeOf, Timed
  <1>11. storeSetting' \in [adapter : S!Adapters, offers : [S!Ops -> Nat], crashes : Nat] /\ storeSetting'.adapter = storeSetting.adapter
    BY <1>1, <1>3, StoreOffered
  <1>12. storeBlob' \in [StoreIds -> StoreRecords] BY <1>2, <1>4, <1>9
  <1>15. storeWinners[id] <= 1 BY DEF StoreInv, WonOnce
  <1>13. StoreRefiles({id}) BY <1>2, <1>3, <1>6, <1>7, <1>8, <1>9, <1>10, <1>11, <1>12, <1>14, <1>15 DEF StoreRefiles
  <1> QED BY <1>1, <1>3, <1>13, StoreWrittenGoes

LEMMA InsertKeeps ==
  ASSUME S!Assumption, StoreInv, NEW s \in StoreSlots, NEW id \in StoreIds, NEW rec \in S!New, S!Insert(s, id, rec)
  PROVE  StoreRefiles({id}) /\ StoreCallsGo({id})
  <1>1. StoreTyped BY DEF StoreInv
  <1>2. storeBlob \in [StoreIds -> StoreRecords] /\ storeScore \in [StoreIds -> StoreTimes] /\ storeWinners \in [StoreIds -> Nat] /\ storeClock \in 0 .. StoreMaxTime
        /\ storeTorn \subseteq StoreIds
    BY <1>1 DEF StoreTyped
  <1>3. "insert" \in S!Ops /\ S!Offered("insert") /\ UNCHANGED <<storeClock, storeTorn>> /\ ~S!Stored(id)
        /\ storeWinners' = [storeWinners EXCEPT ![id] = @ + 1]
    BY DEF S!Insert, S!Ops, S!Taken
  <1>4. rec \in StoreRecords /\ rec # S!NoRecord /\ Timed(rec) /\ TimeOf(rec) \in 0 .. StoreMaxTime + 1 BY <1>1, StoreRecordsTyped
  <1>5. storeWinners[id] = 0 BY <1>3 DEF StoreInv, WonOnce
  <1>6. storeWinners' \in [StoreIds -> Nat] /\ storeWinners'[id] = 1 /\ \A x \in StoreIds \ {id} : storeWinners'[x] = storeWinners[x]
    BY <1>2, <1>3, <1>5
  <1>7. S!Inserting(id) => id \in storeTorn BY <1>3 DEF StoreInv, InsertInHand, S!Inserting
  <1>8. storeSetting' \in [adapter : S!Adapters, offers : [S!Ops -> Nat], crashes : Nat] /\ storeSetting'.adapter = storeSetting.adapter
    BY <1>1, <1>3, StoreOffered
  <1>9. CASE S!Redis
    <2> DEFINE b == S!RedisScore(rec)
               mine == [S!NoCall EXCEPT !.op = "insert", !.ids = <<id>>, !.before = b]
    <2>1. storeBlob' = [storeBlob EXCEPT ![id] = rec] /\ UNCHANGED storeScore
          /\ storeCall' = [S!Written({id}) EXCEPT ![s] = mine]
      BY <1>9 DEF S!Insert
    <2>2. b = TimeOf(rec) BY <1>1, <1>4, FiledAs
    <2>3. storeBlob' \in [StoreIds -> StoreRecords] /\ storeBlob'[id] = rec /\ \A x \in StoreIds \ {id} : storeBlob'[x] = storeBlob[x]
      BY <1>2, <1>4, <2>1
    <2>4. storeScore[id] = S!NoTime \/ id \in storeTorn BY <1>3, <1>9 DEF StoreInv, FiledByTime
    <2>5. StoreRefiles({id}) BY <1>2, <1>3, <1>4, <1>6, <1>7, <1>8, <2>1, <2>3, <2>4 DEF StoreRefiles
    <2>6. b \in 0 .. StoreMaxTime + 1 BY <1>4, <2>2
    <2> HIDE DEF b
    <2>a. S!NoCall \in StoreCalls
      <3>1. StoreMaxTime \in Nat BY DEF S!Assumption
      <3>2. 0 \in 0 .. StoreMaxTime + 1 BY <3>1
      <3> QED BY <3>2 DEF S!NoCall, StoreCalls
    <2>b. <<id>> \in Seq(StoreIds) /\ <<id>>[1] = id /\ <<id>> # <<>> OBVIOUS
    <2>7. mine \in StoreCalls /\ mine.op = "insert" /\ mine.ids = <<id>> /\ mine.ids[1] = id /\ mine.ids # <<>> /\ mine.before = b
      BY <2>6, <2>a, <2>b DEF StoreCalls
    <2> HIDE DEF mine
    <2>8. S!Written({id}) \in [StoreSlots -> StoreCalls] BY <1>1, WrittenTyped
    <2>9. storeCall' \in [StoreSlots -> StoreCalls] /\ storeCall'[s] = mine /\ \A t \in StoreSlots \ {s} : storeCall'[t] = S!Written({id})[t]
      BY <2>1, <2>7, <2>8
    <2>10. \A t \in StoreSlots \ {s} : /\ storeCall'[t].op = storeCall[t].op /\ storeCall'[t].ids = storeCall[t].ids
                                       /\ storeCall'[t].before = storeCall[t].before
                                       /\ storeCall[t].op = "prune" => storeCall'[t].written = storeCall[t].written \cup {id}
      BY <1>1, <2>9, WrittenTyped
    <2>11. storeCall'[s].op = "insert" /\ storeCall'[s].ids[1] = id /\ Timed(storeBlob'[id]) /\ storeCall'[s].before = TimeOf(storeBlob'[id])
           /\ storeCall'[s].ids # <<>>
      BY <1>4, <2>2, <2>3, <2>7, <2>9
    <2>12. StoreCallsGo({id})
      <3>1. SUFFICES ASSUME NEW t \in StoreSlots
            PROVE  /\ storeCall'[t].op # "idle" => storeCall'[t].ids # <<>>
                   /\ storeCall'[t].op = "save" => S!Redis
                   /\ storeCall'[t].op = "insert" =>
                        S!Redis /\ \/ storeCall[t].op = "insert" /\ storeCall'[t].ids[1] = storeCall[t].ids[1] /\ storeCall'[t].before = storeCall[t].before
                                   \/ \E i \in {id} : /\ storeCall'[t].ids[1] = i /\ Timed(storeBlob'[i])
                                                      /\ storeCall'[t].before = TimeOf(storeBlob'[i])
                   /\ storeCall'[t].op = "prune" =>
                        /\ storeCall[t].op = "prune" /\ S!ToSet(storeCall'[t].ids) \subseteq S!ToSet(storeCall[t].ids)
                        /\ storeCall'[t].before = storeCall[t].before /\ storeCall'[t].written = storeCall[t].written \cup {id}
        BY <2>9 DEF StoreCallsGo
      <3>2. CASE t = s BY <1>9, <2>11, <3>2
      <3>3. CASE t # s BY <1>1, <2>10, <3>3 DEF StoreTyped
      <3> QED BY <3>2, <3>3
    <2> QED BY <2>5, <2>12
  <1>10. CASE ~S!Redis
    <2>1. S!Put(id, rec) /\ storeCall' = S!Written({id}) BY <1>10 DEF S!Insert
    <2>2. S!Filed(id, rec) \in StoreTimes BY <1>1, <1>4, FiledAs
    <2>3. storeBlob' = [storeBlob EXCEPT ![id] = rec] /\ storeScore' = [storeScore EXCEPT ![id] = S!Filed(id, rec)] BY <2>1 DEF S!Put
    <2>4. /\ storeBlob' \in [StoreIds -> StoreRecords] /\ storeScore' \in [StoreIds -> StoreTimes] /\ storeBlob'[id] = rec
          /\ \A x \in StoreIds \ {id} : storeBlob'[x] = storeBlob[x] /\ storeScore'[x] = storeScore[x]
      BY <1>2, <1>4, <2>2, <2>3
    <2>5. StoreRefiles({id}) BY <1>2, <1>3, <1>4, <1>6, <1>7, <1>8, <1>10, <2>4 DEF StoreRefiles
    <2> QED BY <1>1, <2>1, <2>5, StoreWrittenGoes
  <1> QED BY <1>9, <1>10

LEMMA StoreIdleCall ==
  ASSUME S!Assumption
  PROVE  S!NoCall \in StoreCalls /\ S!NoCall.op = "idle"
  <1>1. StoreMaxTime \in Nat BY DEF S!Assumption
  <1>2. 0 \in 0 .. StoreMaxTime + 1 BY <1>1
  <1> QED BY <1>2 DEF S!NoCall, StoreCalls

(* One call changes and the others note the ids. *)
LEMMA OneGoes ==
  ASSUME StoreInv, NEW s \in StoreSlots, NEW ids \in SUBSET StoreIds, NEW new \in StoreCalls,
         storeCall' = [S!Written(ids) EXCEPT ![s] = new],
         new.op # "idle" => new.ids # <<>>, new.op = "save" => S!Redis, new.op \notin {"insert", "prune"}
  PROVE  StoreCallsGo(ids)
  <1>1. StoreTyped BY DEF StoreInv
  <1>2. S!Written(ids) \in [StoreSlots -> StoreCalls] BY <1>1, WrittenTyped
  <1>3. storeCall' \in [StoreSlots -> StoreCalls] /\ storeCall'[s] = new /\ \A t \in StoreSlots \ {s} : storeCall'[t] = S!Written(ids)[t]
    BY <1>2
  <1>4. \A t \in StoreSlots \ {s} : /\ storeCall'[t].op = storeCall[t].op /\ storeCall'[t].ids = storeCall[t].ids
                                    /\ storeCall'[t].before = storeCall[t].before
                                    /\ storeCall[t].op = "prune" => storeCall'[t].written = storeCall[t].written \cup ids
    BY <1>1, <1>3, WrittenTyped
  <1>5. SUFFICES ASSUME NEW t \in StoreSlots
        PROVE  /\ storeCall'[t].op # "idle" => storeCall'[t].ids # <<>>
               /\ storeCall'[t].op = "save" => S!Redis
               /\ storeCall'[t].op = "insert" =>
                    S!Redis /\ \/ storeCall[t].op = "insert" /\ storeCall'[t].ids[1] = storeCall[t].ids[1] /\ storeCall'[t].before = storeCall[t].before
                               \/ \E i \in ids : /\ storeCall'[t].ids[1] = i /\ Timed(storeBlob'[i])
                                                 /\ storeCall'[t].before = TimeOf(storeBlob'[i])
               /\ storeCall'[t].op = "prune" =>
                    /\ storeCall[t].op = "prune" /\ S!ToSet(storeCall'[t].ids) \subseteq S!ToSet(storeCall[t].ids)
                    /\ storeCall'[t].before = storeCall[t].before /\ storeCall'[t].written = storeCall[t].written \cup ids
    BY <1>3 DEF StoreCallsGo
  <1>6. CASE t = s BY <1>3, <1>6
  <1>7. CASE t # s BY <1>1, <1>4, <1>7 DEF StoreTyped
  <1> QED BY <1>6, <1>7

LEMMA WrittenNothing == ASSUME StoreTyped PROVE S!Written({}) = storeCall
  <1>1. storeCall \in [StoreSlots -> StoreCalls] BY DEF StoreTyped
  <1>2. ASSUME NEW s \in StoreSlots PROVE S!Written({})[s] = storeCall[s]
    <2> DEFINE cs == storeCall[s]
    <2>1. S!Written({})[s] = IF cs.op = "prune" THEN [cs EXCEPT !.written = @ \cup {}] ELSE cs BY DEF S!Written
    <2>2. cs \in StoreCalls BY <1>1
    <2> HIDE DEF cs
    <2>3. S!Written({})[s] = cs BY <2>1, <2>2 DEF StoreCalls
    <2> QED BY <2>3 DEF cs
  <1>3. S!Written({}) = [s \in StoreSlots |-> S!Written({})[s]] BY DEF S!Written
  <1> QED BY <1>1, <1>2, <1>3

LEMMA StoreLibrary ==
  /\ \A T : S!IsFiniteSet(T) = IsFiniteSet(T)
  /\ \A q : S!ToSet(q) = B!ToSet(q)
  /\ \A T : S!SetToSeq(T) = B!SetToSeq(T)
  <1>1. \A T : S!IsFiniteSet(T) = IsFiniteSet(T) BY Zenon DEF S!IsFiniteSet, IsFiniteSet
  <1>2. \A q : S!ToSet(q) = B!ToSet(q) BY Zenon DEF S!ToSet, B!ToSet
  <1>3. \A T : S!SetToSeq(T) = B!SetToSeq(T)
    BY Zenon DEF S!SetToSeq, B!SetToSeq, S!Cardinality, B!Cardinality, S!IsInjective, B!IsInjective
  <1> QED BY <1>1, <1>2, <1>3

LEMMA StoreIdsFinite == ASSUME S!Assumption PROVE IsFiniteSet(StoreIds)
  BY Zenon, StoreLibrary DEF S!Assumption

LEMMA InOrderLists ==
  ASSUME NEW ids \in SUBSET StoreIds, IsFiniteSet(ids), ids # {}
  PROVE  S!InOrder(ids) \in Seq(StoreIds) /\ S!ToSet(S!InOrder(ids)) = ids /\ S!InOrder(ids) # <<>>
  <1>1. S!InOrder(ids) \in Seq(ids) /\ S!ToSet(S!InOrder(ids)) = ids BY SetToSeqLists, StoreLibrary DEF S!InOrder
  <1>2. S!ToSet(<<>>) = {} BY DEF S!ToSet
  <1>3. S!InOrder(ids) # <<>> BY <1>1, <1>2
  <1>4. Seq(ids) \subseteq Seq(StoreIds) OBVIOUS
  <1> QED BY <1>1, <1>3, <1>4

LEMMA TailShrinks ==
  ASSUME NEW ids \in Seq(StoreIds), ids # <<>>
  PROVE  /\ Head(ids) \in StoreIds /\ Tail(ids) \in Seq(StoreIds) /\ (Len(ids) # 1 => Tail(ids) # <<>>)
         /\ Head(ids) \in S!ToSet(ids) /\ S!ToSet(Tail(ids)) \subseteq S!ToSet(ids)
  <1>1. Head(ids) = ids[1] /\ Len(ids) \in Nat /\ Len(ids) # 0 OBVIOUS
  <1>2. Tail(ids) \in Seq(StoreIds) /\ Len(Tail(ids)) = Len(ids) - 1 OBVIOUS
  <1>3. \A i \in 1 .. Len(ids) - 1 : Tail(ids)[i] = ids[i + 1] OBVIOUS
  <1>4. \A q \in Seq(StoreIds) : S!ToSet(q) = {q[i] : i \in 1 .. Len(q)} BY DEF S!ToSet
  <1>5. Head(ids) \in StoreIds /\ Head(ids) \in S!ToSet(ids) BY <1>1, <1>4
  <1>6. S!ToSet(Tail(ids)) \subseteq S!ToSet(ids)
    <2> SUFFICES ASSUME NEW x \in S!ToSet(Tail(ids)) PROVE x \in S!ToSet(ids) OBVIOUS
    <2>1. PICK i \in 1 .. Len(Tail(ids)) : x = Tail(ids)[i] BY <1>2, <1>4
    <2>2. i + 1 \in 1 .. Len(ids) /\ x = ids[i + 1] BY <1>1, <1>2, <1>3, <2>1
    <2> QED BY <1>4, <2>2
  <1>7. ASSUME Tail(ids) = <<>> PROVE Len(ids) = 1
    <2>1. Len(<<>>) = 0 OBVIOUS
    <2>2. Len(Tail(ids)) = 0 BY <1>7, <2>1
    <2>3. PICK n : n = Len(ids) OBVIOUS
    <2>4. n \in Nat /\ n - 1 = 0 BY <1>1, <1>2, <2>2, <2>3
    <2>5. n = 1 BY <2>4
    <2> QED BY <2>3, <2>5
  <1> QED BY <1>2, <1>5, <1>6, <1>7

LEMMA SaveNextKeeps ==
  ASSUME S!Assumption, StoreInv, NEW s \in StoreSlots, S!SaveNext(s)
  PROVE  /\ StoreRefiles({Head(storeCall[s].ids)}) /\ StoreCallsGo({Head(storeCall[s].ids)}) /\ Head(storeCall[s].ids) \in StoreIds
  <1>1. StoreTyped BY DEF StoreInv
  <1>2. PICK ids : ids = storeCall[s].ids OBVIOUS
  <1>3. PICK id : id = Head(ids) OBVIOUS
  <1>4. storeCall \in [StoreSlots -> StoreCalls] /\ storeCall[s].op = "save" /\ S!Redis BY <1>1 DEF S!SaveNext, StoreTyped
  <1>5. ids \in Seq(StoreIds) /\ ids # <<>> BY <1>1, <1>2, <1>4 DEF StoreTyped, StoreCalls
  <1>6. id \in StoreIds /\ Tail(ids) \in Seq(StoreIds) /\ (Len(ids) # 1 => Tail(ids) # <<>>) BY <1>3, <1>5, TailShrinks
  <1>7. PICK at : at = storeCall[s].before OBVIOUS
  <1>8. at \in 0 .. StoreMaxTime + 1 BY <1>4, <1>7 DEF StoreCalls
  <1>9. /\ S!Put(id, S!Job(at)) /\ storeTorn' = storeTorn \cup S!Overtaken({id}) /\ UNCHANGED <<storeSetting, storeClock, storeWinners>>
        /\ storeCall' = [S!Written({id}) EXCEPT ![s] = S!Rest(@)]
    BY <1>2, <1>3, <1>7 DEF S!SaveNext
  <1> DEFINE rec == S!Job(at)
  <1>10. rec \in StoreRecords /\ Timed(rec) /\ rec # S!NoRecord
    <2>1. StoreMaxTime \in Nat BY DEF S!Assumption
    <2> QED BY <1>8, <2>1 DEF S!Job, StoreRecords, StoreTimes, S!NoTime, S!NoRecord, Timed
  <1> HIDE DEF rec
  <1>11. StoreRefiles({id})
    <2>1. S!Filed(id, rec) \in StoreTimes /\ (S!Redis /\ Timed(rec) => S!Filed(id, rec) = TimeOf(rec)) BY <1>1, <1>6, <1>10, FiledAs
    <2>2. storeBlob' = [storeBlob EXCEPT ![id] = rec] /\ storeScore' = [storeScore EXCEPT ![id] = S!Filed(id, rec)] BY <1>9 DEF S!Put, rec
    <2>3. storeBlob \in [StoreIds -> StoreRecords] /\ storeScore \in [StoreIds -> StoreTimes] /\ storeWinners \in [StoreIds -> Nat] /\ storeClock \in 0 .. StoreMaxTime
          /\ storeTorn \subseteq StoreIds /\ storeSetting \in [adapter : S!Adapters, offers : [S!Ops -> Nat], crashes : Nat]
      BY <1>1 DEF StoreTyped
    <2>4. storeBlob' \in [StoreIds -> StoreRecords] /\ storeScore' \in [StoreIds -> StoreTimes] BY <1>6, <1>10, <2>1, <2>2, <2>3
    <2>5. storeBlob'[id] = rec /\ storeScore'[id] = S!Filed(id, rec) /\ \A x \in StoreIds \ {id} : storeBlob'[x] = storeBlob[x] /\ storeScore'[x] = storeScore[x]
      BY <1>6, <2>2, <2>3
    <2>6. storeWinners[id] <= 1 BY <1>6 DEF StoreInv, WonOnce
    <2>7. storeTorn \subseteq storeTorn' /\ storeTorn' \subseteq StoreIds /\ (S!Inserting(id) => id \in storeTorn')
      BY <1>6, <1>9, <2>3 DEF S!Overtaken
    <2> QED BY <1>4, <1>9, <1>10, <2>1, <2>3, <2>4, <2>5, <2>6, <2>7 DEF StoreRefiles
  <1>12. StoreCallsGo({id})
    <2>1. PICK was : was = S!Written({id})[s] OBVIOUS
    <2>2. was \in StoreCalls /\ was.op = "save" /\ was.ids = ids BY <1>1, <1>2, <1>4, <1>6, <2>1, WrittenTyped
    <2>3. PICK new : new = S!Rest(was) OBVIOUS
    <2>4. new \in StoreCalls /\ (new.op # "idle" => new.ids # <<>>) /\ new.op \notin {"insert", "prune"}
      BY <1>5, <1>6, <2>2, <2>3, StoreIdleCall DEF StoreCalls, S!Rest
    <2>5. S!Written({id}) \in [StoreSlots -> StoreCalls] BY <1>1, <1>6, WrittenTyped
    <2>6. storeCall' = [S!Written({id}) EXCEPT ![s] = new] BY <1>9, <2>1, <2>3, <2>5
    <2> QED BY <1>4, <1>6, <2>4, <2>6, OneGoes
  <1> QED BY <1>2, <1>3, <1>6, <1>11, <1>12

LEMMA BulkSaveKeeps ==
  ASSUME S!Assumption, StoreInv, NEW s \in StoreSlots, NEW ids \in SUBSET StoreIds, S!BulkSave(s, ids)
  PROVE  \/ StoreRefiles(ids) /\ StoreCallsGo(ids)
         \/ StoreRemoves({}) /\ StoreCallsGo({})
  <1>1. StoreTyped BY DEF StoreInv
  <1>2. "bulkSave" \in S!Ops /\ S!Offered("bulkSave") /\ UNCHANGED <<storeClock, storeWinners, storeTorn>> /\ ids # {} BY DEF S!BulkSave, S!Ops
  <1>3. storeSetting' \in [adapter : S!Adapters, offers : [S!Ops -> Nat], crashes : Nat] /\ storeSetting'.adapter = storeSetting.adapter
    BY <1>1, <1>2, StoreOffered
  <1>4. storeBlob \in [StoreIds -> StoreRecords] /\ storeScore \in [StoreIds -> StoreTimes] /\ storeWinners \in [StoreIds -> Nat] /\ storeClock \in 0 .. StoreMaxTime
        /\ storeTorn \subseteq StoreIds
    BY <1>1 DEF StoreTyped
  <1>5. CASE S!Redis
    <2>1. PICK new : new = [S!NoCall EXCEPT !.op = "save", !.ids = S!InOrder(ids), !.before = storeClock] OBVIOUS
    <2>2. storeCall' = [storeCall EXCEPT ![s] = new] /\ UNCHANGED <<storeBlob, storeScore>> BY <1>5, <2>1 DEF S!BulkSave
    <2>3. S!InOrder(ids) \in Seq(StoreIds) /\ S!InOrder(ids) # <<>>
      BY <1>2, InOrderLists, StoreIdsFinite, FS_Subset
    <2>4. S!NoCall \in StoreCalls /\ storeClock \in 0 .. StoreMaxTime + 1 BY <1>1, StoreIdleCall, StoreRecordsTyped
    <2>5. new \in StoreCalls /\ new.op = "save" /\ new.ids # <<>> BY <2>1, <2>3, <2>4 DEF StoreCalls
    <2>6. StoreCallsGo({}) BY <1>1, <1>5, <2>2, <2>5, WrittenNothing, OneGoes
    <2>7. StoreRemoves({})
      <3>1. S!Overtaken({}) = {} BY DEF S!Overtaken
      <3> QED BY <1>2, <1>3, <1>4, <2>2, <3>1 DEF StoreRemoves
    <2> QED BY <2>6, <2>7
  <1>6. CASE ~S!Redis
    <2> DEFINE rec == S!Job(storeClock)
    <2>1. /\ storeBlob' = [id \in StoreIds |-> IF id \in ids THEN rec ELSE storeBlob[id]]
          /\ storeScore' = [id \in StoreIds |-> IF id \in ids THEN S!Filed(id, rec) ELSE storeScore[id]]
          /\ storeCall' = S!Written(ids)
      BY <1>6 DEF S!BulkSave
    <2>2. rec \in StoreRecords /\ rec # S!NoRecord BY <1>1, StoreRecordsTyped
    <2> HIDE DEF rec
    <2>3. \A id \in StoreIds : S!Filed(id, rec) \in StoreTimes BY <1>1, <2>2, FiledAs
    <2>4. storeBlob' \in [StoreIds -> StoreRecords] /\ storeScore' \in [StoreIds -> StoreTimes] BY <1>4, <2>1, <2>2, <2>3
    <2>5. \A id \in ids : ~S!Inserting(id) BY <1>1, <1>6 DEF S!Inserting, StoreTyped
    <2>6. \A id \in StoreIds : storeWinners[id] <= 1 BY DEF StoreInv, WonOnce
    <2>7. StoreRefiles(ids) BY <1>2, <1>3, <1>4, <1>6, <2>1, <2>2, <2>4, <2>5, <2>6 DEF StoreRefiles
    <2> QED BY <1>1, <2>1, <2>7, StoreWrittenGoes
  <1> QED BY <1>5, <1>6

LEMMA TimesAreNumbers ==
  ASSUME S!Assumption, StoreTyped, NEW id \in StoreIds
  PROVE  /\ StoreMaxTime \in Nat /\ storeClock \in Nat /\ storeScore[id] \in Nat /\ storeBlob[id].made \in Nat /\ storeBlob[id].ends \in Nat
         /\ S!NoTime \in Nat /\ storeClock < S!NoTime
  <1>1. StoreMaxTime \in Nat BY DEF S!Assumption
  <1>2. StoreTimes \subseteq Nat BY <1>1 DEF StoreTimes
  <1>3. storeBlob[id] \in StoreRecords /\ storeScore[id] \in StoreTimes /\ storeClock \in 0 .. StoreMaxTime BY DEF StoreTyped
  <1>4. storeScore[id] \in Nat /\ storeBlob[id].made \in Nat /\ storeBlob[id].ends \in Nat BY <1>2, <1>3 DEF StoreRecords
  <1>5. storeClock \in Nat /\ storeClock < StoreMaxTime + 2 /\ StoreMaxTime + 2 \in Nat BY <1>1, <1>3
  <1> QED BY <1>1, <1>4, <1>5 DEF S!NoTime

(* The moment a prune looks: what it lists is past. *)
LEMMA LookedAt ==
  ASSUME S!Assumption, StoreInv, NEW id \in StoreIds, id \in S!Old(storeClock), id \notin storeTorn
  PROVE  /\ S!Stored(id) => S!Past(id, storeClock)
         /\ S!Redis => storeScore[id] = S!NoTime \/ storeScore[id] <= storeClock
  <1>1. StoreTyped BY DEF StoreInv
  <1>2. /\ storeClock \in Nat /\ storeScore[id] \in Nat /\ storeBlob[id].made \in Nat /\ storeBlob[id].ends \in Nat
        /\ S!NoTime \in Nat
    BY <1>1, TimesAreNumbers
  <1>3. CASE S!Redis
    <2>1. storeScore[id] # S!NoTime /\ storeScore[id] <= storeClock BY <1>3 DEF S!Old, S!RedisOld
    <2>2. Timed(storeBlob[id]) => storeScore[id] = TimeOf(storeBlob[id]) BY <1>3, <2>1 DEF StoreInv, FiledByTime
    <2>3. S!Past(id, storeClock) BY <1>2, <2>1, <2>2 DEF S!Past, Timed, TimeOf
    <2> QED BY <2>1, <2>3
  <1>4. CASE ~S!Redis /\ storeSetting.adapter = "memory"
    <2>1. storeBlob[id].made # S!NoTime /\ storeBlob[id].made < storeClock BY <1>4 DEF S!Old, S!MemoryOld
    <2>2. storeBlob[id].made <= storeClock BY <1>2, <2>1
    <2> QED BY <1>4, <2>1, <2>2 DEF S!Past
  <1>5. CASE ~S!Redis /\ storeSetting.adapter # "memory"
    <2>1. S!PostgresTime(id) < storeClock BY <1>5 DEF S!Old, S!PostgresOld
    <2>2. S!Past(id, storeClock) BY <1>2, <2>1 DEF S!Past, S!PostgresTime
    <2> QED BY <1>5, <2>2
  <1> QED BY <1>3, <1>4, <1>5

LEMMA DeletedRemoves ==
  ASSUME S!Assumption, StoreInv, NEW ids \in SUBSET StoreIds, NEW op \in S!Ops, S!Offered(op) \/ UNCHANGED storeSetting,
         S!Deleted(ids), UNCHANGED storeClock
  PROVE  StoreRemoves(ids)
  <1>1. StoreTyped BY DEF StoreInv
  <1>2. storeSetting' \in [adapter : S!Adapters, offers : [S!Ops -> Nat], crashes : Nat] /\ storeSetting'.adapter = storeSetting.adapter
    BY <1>1, StoreOffered DEF StoreTyped
  <1>3. storeScore \in [StoreIds -> StoreTimes] /\ storeTorn \subseteq StoreIds /\ storeClock \in 0 .. StoreMaxTime /\ S!NoTime \in StoreTimes
    BY <1>1, StoreRecordsTyped DEF StoreTyped
  <1>4. /\ storeBlob' = [id \in StoreIds |-> IF id \in ids THEN S!NoRecord ELSE storeBlob[id]]
        /\ storeScore' = [id \in StoreIds |-> IF id \in ids THEN S!NoTime ELSE storeScore[id]]
        /\ storeWinners' = [id \in StoreIds |-> IF id \in ids THEN 0 ELSE storeWinners[id]]
        /\ storeTorn' = storeTorn \cup S!Overtaken(ids)
    BY DEF S!Deleted
  <1>5. S!Overtaken(ids) \subseteq StoreIds BY DEF S!Overtaken
  <1>6. storeScore' \in [StoreIds -> StoreTimes] /\ \A id \in StoreIds : storeScore'[id] = IF id \in ids THEN S!NoTime ELSE storeScore[id]
    BY <1>3, <1>4
  <1> QED BY <1>2, <1>3, <1>4, <1>5, <1>6 DEF StoreRemoves

LEMMA StoreStands == ASSUME StoreInv, UNCHANGED storeCall PROVE StoreCallsGo({})
  <1>1. StoreTyped BY DEF StoreInv
  <1> QED BY <1>1, WrittenNothing, StoreWrittenGoes

LEMMA StoreDeleteKeeps ==
  ASSUME S!Assumption, StoreInv, NEW ids \in SUBSET StoreIds,
         S!BulkDelete(ids) \/ \E id \in StoreIds : ids = {id} /\ S!Delete(id)
  PROVE  StoreRemoves(ids) /\ StoreCallsGo({})
  <1>1. "delete" \in S!Ops /\ "bulkDelete" \in S!Ops BY DEF S!Ops
  <1>2. S!Deleted(ids) /\ UNCHANGED <<storeClock, storeCall>> /\ (S!Offered("delete") \/ S!Offered("bulkDelete"))
    BY DEF S!BulkDelete, S!Delete
  <1> QED BY <1>1, <1>2, DeletedRemoves, StoreStands

LEMMA PruneNextKeeps ==
  ASSUME S!Assumption, StoreInv, NEW s \in StoreSlots, S!PruneNext(s)
  PROVE  StoreRemoves({Head(storeCall[s].ids)}) /\ StoreCallsGo({})
  <1>1. StoreTyped BY DEF StoreInv
  <1>2. PICK ids : ids = storeCall[s].ids OBVIOUS
  <1>3. storeCall \in [StoreSlots -> StoreCalls] /\ storeCall[s].op = "prune" /\ UNCHANGED <<storeSetting, storeClock>> /\ S!Deleted({Head(ids)})
        /\ storeCall' = [storeCall EXCEPT ![s] = S!Rest(@)]
    BY <1>1, <1>2 DEF S!PruneNext, StoreTyped
  <1>4. ids \in Seq(StoreIds) /\ ids # <<>> BY <1>1, <1>2, <1>3 DEF StoreTyped, StoreCalls
  <1>5. Head(ids) \in StoreIds /\ Tail(ids) \in Seq(StoreIds) /\ (Len(ids) # 1 => Tail(ids) # <<>>)
        /\ S!ToSet(Tail(ids)) \subseteq S!ToSet(ids)
    BY <1>4, TailShrinks
  <1>6. StoreRemoves({Head(ids)})
    <2>1. "prune" \in S!Ops BY DEF S!Ops
    <2> QED BY <1>3, <1>5, <2>1, DeletedRemoves
  <1>7. PICK was : was = storeCall[s] OBVIOUS
  <1>8. was \in StoreCalls /\ was.op = "prune" /\ was.ids = ids BY <1>2, <1>3, <1>7
  <1>9. PICK new : new = S!Rest(was) OBVIOUS
  <1>10. new \in StoreCalls /\ (new.op # "idle" => new.ids # <<>>)
         /\ new.op \in {"idle", "prune"} /\ (new.op = "prune" => new.ids = Tail(ids) /\ new.before = was.before /\ new.written = was.written)
    BY <1>5, <1>8, <1>9, StoreIdleCall DEF StoreCalls, S!Rest
  <1>11. storeCall' \in [StoreSlots -> StoreCalls] /\ storeCall'[s] = new /\ \A t \in StoreSlots \ {s} : storeCall'[t] = storeCall[t]
    BY <1>3, <1>7, <1>9, <1>10
  <1>12. StoreCallsGo({})
    <2>1. SUFFICES ASSUME NEW t \in StoreSlots
          PROVE  /\ storeCall'[t].op # "idle" => storeCall'[t].ids # <<>>
                 /\ storeCall'[t].op = "save" => S!Redis
                 /\ storeCall'[t].op = "insert" =>
                      S!Redis /\ \/ storeCall[t].op = "insert" /\ storeCall'[t].ids[1] = storeCall[t].ids[1] /\ storeCall'[t].before = storeCall[t].before
                                 \/ \E i \in {} : /\ storeCall'[t].ids[1] = i /\ Timed(storeBlob'[i])
                                                  /\ storeCall'[t].before = TimeOf(storeBlob'[i])
                 /\ storeCall'[t].op = "prune" =>
                      /\ storeCall[t].op = "prune" /\ S!ToSet(storeCall'[t].ids) \subseteq S!ToSet(storeCall[t].ids)
                      /\ storeCall'[t].before = storeCall[t].before /\ storeCall'[t].written = storeCall[t].written \cup {}
      BY <1>11 DEF StoreCallsGo
    <2>2. CASE t = s BY <1>5, <1>7, <1>8, <1>10, <1>11, <2>2
    <2>3. CASE t # s BY <1>1, <1>11, <2>3 DEF StoreTyped
    <2> QED BY <2>2, <2>3
  <1> QED BY <1>2, <1>6, <1>12

(* A call that ends leaves the others as they are. *)
LEMMA StoreCallEnds ==
  ASSUME S!Assumption, StoreInv, NEW s \in StoreSlots, storeCall' = [storeCall EXCEPT ![s] = S!NoCall]
  PROVE  StoreCallsGo({})
  <1>1. StoreTyped BY DEF StoreInv
  <1>2. storeCall' = [S!Written({}) EXCEPT ![s] = S!NoCall] BY <1>1, WrittenNothing
  <1>3. S!NoCall \in StoreCalls /\ S!NoCall.op = "idle" BY StoreIdleCall
  <1> QED BY <1>2, <1>3, OneGoes

LEMMA SweepKeeps ==
  ASSUME S!Assumption, StoreInv, NEW s \in StoreSlots, S!Sweep(s)
  PROVE  StoreRemoves(S!ToSet(storeCall[s].ids)) /\ StoreCallsGo({}) /\ S!ToSet(storeCall[s].ids) \subseteq StoreIds
  <1>1. StoreTyped BY DEF StoreInv
  <1>2. PICK c : c = storeCall[s] OBVIOUS
  <1>3. PICK ids : ids = S!ToSet(c.ids) OBVIOUS
  <1>4. PICK filed : filed = {id \in StoreIds : S!RedisOld(id, c.before)} OBVIOUS
  <1>5. /\ c.op = "prune" /\ S!Redis
        /\ storeBlob' = [id \in StoreIds |-> IF id \in ids THEN S!NoRecord ELSE storeBlob[id]]
        /\ storeScore' = [id \in StoreIds |-> IF id \in filed THEN S!NoTime ELSE storeScore[id]]
        /\ storeWinners' = [id \in StoreIds |-> IF id \in ids THEN 0 ELSE storeWinners[id]]
        /\ storeTorn' = storeTorn \cup (c.written \cap (ids \cup filed)) \cup S!Overtaken(ids) \cup {id \in filed \ ids : S!Stored(id)}
        /\ storeCall' = [storeCall EXCEPT ![s] = S!NoCall] /\ UNCHANGED <<storeSetting, storeClock>>
    BY <1>2, <1>3, <1>4 DEF S!Sweep
  <1>6. c \in StoreCalls BY <1>1, <1>2 DEF StoreTyped
  <1>7. ids \subseteq StoreIds
    <2>1. c.ids \in Seq(StoreIds) BY <1>6 DEF StoreCalls
    <2> QED BY <1>3, <2>1, Members, StoreLibrary
  <1>8. storeScore \in [StoreIds -> StoreTimes] /\ storeTorn \subseteq StoreIds /\ storeClock \in 0 .. StoreMaxTime /\ S!NoTime \in StoreTimes
        /\ storeSetting \in [adapter : S!Adapters, offers : [S!Ops -> Nat], crashes : Nat]
    BY <1>1, StoreRecordsTyped DEF StoreTyped
  <1>9. storeScore' \in [StoreIds -> StoreTimes] /\ \A id \in StoreIds : storeScore'[id] = IF id \in filed THEN S!NoTime ELSE storeScore[id]
    BY <1>5, <1>8
  <1>10. storeTorn \subseteq storeTorn' /\ S!Overtaken(ids) \subseteq storeTorn' /\ storeTorn' \subseteq StoreIds
    BY <1>4, <1>5, <1>7, <1>8 DEF S!Overtaken
  <1>11. ASSUME NEW id \in ids, id \notin storeTorn' PROVE storeScore'[id] = S!NoTime
    <2>1. id \in StoreIds /\ id \notin storeTorn /\ id \notin c.written BY <1>5, <1>7, <1>11
    <2>2. storeScore[id] = S!NoTime \/ storeScore[id] <= c.before
      BY <1>2, <1>3, <1>5, <1>11, <2>1 DEF StoreInv, ListedIsPast
    <2>3. storeScore[id] = S!NoTime \/ id \in filed BY <1>4, <2>1, <2>2 DEF S!RedisOld
    <2> QED BY <1>9, <2>1, <2>3
  <1>12. ASSUME NEW id \in StoreIds, id \notin ids \cup storeTorn', S!Stored(id) PROVE storeScore'[id] = storeScore[id]
    <2>1. id \notin filed BY <1>5, <1>12
    <2> QED BY <1>9, <2>1
  <1>13. StoreRemoves(ids)
    BY <1>5, <1>8, <1>9, <1>10, <1>11, <1>12 DEF StoreRemoves
  <1>14. StoreCallsGo({}) BY <1>5, StoreCallEnds
  <1> QED BY <1>2, <1>3, <1>7, <1>13, <1>14

LEMMA StoreCrashKeeps ==
  ASSUME S!Assumption, StoreInv, NEW s \in StoreSlots, S!Crash(s)
  PROVE  StoreRemoves({}) /\ StoreCallsGo({})
  <1>1. StoreTyped BY DEF StoreInv
  <1>2. /\ storeSetting' = [storeSetting EXCEPT !.crashes = @ - 1] /\ storeSetting.crashes > 0
        /\ storeTorn' = IF storeCall[s].op = "insert" THEN storeTorn \cup {storeCall[s].ids[1]} ELSE storeTorn
        /\ storeCall' = [storeCall EXCEPT ![s] = S!NoCall] /\ UNCHANGED <<storeClock, storeBlob, storeScore, storeWinners>>
    BY DEF S!Crash
  <1>3. storeSetting \in [adapter : S!Adapters, offers : [S!Ops -> Nat], crashes : Nat] /\ storeTorn \subseteq StoreIds
        /\ storeCall[s] \in StoreCalls /\ storeBlob \in [StoreIds -> StoreRecords] /\ storeWinners \in [StoreIds -> Nat]
        /\ storeScore \in [StoreIds -> StoreTimes] /\ storeClock \in 0 .. StoreMaxTime
    BY <1>1 DEF StoreTyped
  <1>4. storeSetting' \in [adapter : S!Adapters, offers : [S!Ops -> Nat], crashes : Nat] /\ storeSetting'.adapter = storeSetting.adapter
    BY <1>2, <1>3
  <1>5. storeCall[s].op = "insert" => storeCall[s].ids \in Seq(StoreIds) /\ storeCall[s].ids # <<>> BY <1>1, <1>3 DEF StoreTyped, StoreCalls
  <1>6. storeCall[s].op = "insert" => storeCall[s].ids[1] \in StoreIds BY <1>5
  <1>7. storeTorn' \subseteq StoreIds /\ storeTorn \subseteq storeTorn' BY <1>2, <1>3, <1>6
  <1>8. S!Overtaken({}) = {} BY DEF S!Overtaken
  <1>9. StoreRemoves({}) BY <1>2, <1>3, <1>4, <1>7, <1>8 DEF StoreRemoves
  <1> QED BY <1>2, <1>9, StoreCallEnds

LEMMA StoreTickKeeps ==
  ASSUME S!Assumption, StoreInv, S!Tick
  PROVE  StoreRemoves({}) /\ StoreCallsGo({})
  <1>1. StoreTyped BY DEF StoreInv
  <1>2. storeClock' = storeClock + 1 /\ storeClock < StoreMaxTime /\ UNCHANGED <<storeSetting, storeBlob, storeScore, storeCall, storeWinners, storeTorn>> BY DEF S!Tick
  <1>3. StoreMaxTime \in Nat /\ storeClock \in 0 .. StoreMaxTime BY <1>1 DEF S!Assumption, StoreTyped
  <1>4. storeClock' \in 0 .. StoreMaxTime BY <1>2, <1>3
  <1>5. S!Overtaken({}) = {} BY DEF S!Overtaken
  <1>6. storeSetting \in [adapter : S!Adapters, offers : [S!Ops -> Nat], crashes : Nat] /\ storeTorn \subseteq StoreIds
        /\ storeBlob \in [StoreIds -> StoreRecords] /\ storeWinners \in [StoreIds -> Nat] /\ storeScore \in [StoreIds -> StoreTimes]
    BY <1>1 DEF StoreTyped
  <1>7. StoreRemoves({}) BY <1>2, <1>4, <1>5, <1>6 DEF StoreRemoves
  <1> QED BY <1>2, <1>7, StoreStands

LEMMA StoreStandingKeeps ==
  ASSUME S!Assumption, StoreInv, UNCHANGED S!vars
  PROVE  StoreRemoves({}) /\ StoreCallsGo({})
  <1>1. StoreTyped BY DEF StoreInv
  <1>2. UNCHANGED <<storeClock, storeSetting, storeBlob, storeScore, storeCall, storeWinners, storeTorn>> BY DEF S!vars
  <1>5. S!Overtaken({}) = {} BY DEF S!Overtaken
  <1>6. storeSetting \in [adapter : S!Adapters, offers : [S!Ops -> Nat], crashes : Nat] /\ storeTorn \subseteq StoreIds
        /\ storeBlob \in [StoreIds -> StoreRecords] /\ storeWinners \in [StoreIds -> Nat] /\ storeScore \in [StoreIds -> StoreTimes] /\ storeClock \in 0 .. StoreMaxTime
    BY <1>1 DEF StoreTyped
  <1>7. StoreRemoves({}) BY <1>2, <1>5, <1>6 DEF StoreRemoves
  <1> QED BY <1>2, <1>7, StoreStands

LEMMA StorePruneKeeps ==
  ASSUME S!Assumption, StoreInv, NEW s \in StoreSlots, S!Prune(s, storeClock)
  PROVE  StoreInv'
  <1>1. StoreTyped BY DEF StoreInv
  <1>2. "prune" \in S!Ops /\ S!Offered("prune") /\ UNCHANGED storeClock BY DEF S!Prune, S!Ops
  <1>3. PICK old : old = S!Old(storeClock) OBVIOUS
  <1>4. old \subseteq StoreIds BY <1>3 DEF S!Old
  <1>5. CASE storeSetting.adapter = "memory"
    <2>1. S!Deleted(old) /\ UNCHANGED storeCall BY <1>3, <1>5 DEF S!Prune
    <2>2. StoreRemoves(old) BY <1>2, <1>4, <2>1, DeletedRemoves
    <2>3. StoreCallsGo({}) BY <2>1, StoreStands
    <2> QED BY <1>4, <2>2, <2>3, RemovalsKeep
  <1>6. CASE storeSetting.adapter # "memory"
    <2>1. PICK new : new = [S!NoCall EXCEPT !.op = "prune", !.ids = S!InOrder(old), !.before = storeClock] OBVIOUS
    <2>2. /\ storeCall' = [storeCall EXCEPT ![s] = new] /\ old # {} /\ UNCHANGED <<storeBlob, storeScore, storeWinners, storeTorn, storeClock>>
      BY <1>2, <1>3, <1>6, <2>1 DEF S!Prune
    <2>3. IsFiniteSet(old) BY <1>4, StoreIdsFinite, FS_Subset
    <2>4. S!InOrder(old) \in Seq(StoreIds) /\ S!ToSet(S!InOrder(old)) = old /\ S!InOrder(old) # <<>> BY <1>4, <2>2, <2>3, InOrderLists
    <2>5. S!NoCall \in StoreCalls /\ storeClock \in 0 .. StoreMaxTime + 1 BY <1>1, StoreIdleCall, StoreRecordsTyped
    <2>6. new \in StoreCalls /\ new.op = "prune" /\ new.ids = S!InOrder(old) /\ new.before = storeClock
      BY <2>1, <2>4, <2>5 DEF StoreCalls
    <2>7. storeSetting' \in [adapter : S!Adapters, offers : [S!Ops -> Nat], crashes : Nat] /\ storeSetting'.adapter = storeSetting.adapter
      BY <1>1, <1>2, StoreOffered
    <2>8. storeCall' \in [StoreSlots -> StoreCalls] /\ storeCall'[s] = new /\ \A t \in StoreSlots \ {s} : storeCall'[t] = storeCall[t]
      BY <1>1, <2>2, <2>6 DEF StoreTyped
    <2>9. S!Redis' = S!Redis BY <2>7 DEF S!Redis
    <2>10. StoreTyped'
      <3>1. ASSUME NEW t \in StoreSlots PROVE /\ storeCall'[t].op # "idle" => storeCall'[t].ids # <<>>
                                              /\ storeCall'[t].op \in {"insert", "save"} => S!Redis
                                              /\ storeCall'[t].op = "prune" => storeSetting.adapter # "memory"
        <4>1. CASE t = s BY <1>6, <2>4, <2>6, <2>8, <4>1
        <4>2. CASE t # s BY <1>1, <2>8, <4>2 DEF StoreTyped
        <4> QED BY <4>1, <4>2
      <3> QED BY <1>1, <2>2, <2>7, <2>8, <2>9, <3>1 DEF StoreTyped
    <2>11. WonOnce' BY <2>2 DEF StoreInv, WonOnce, S!Stored
    <2>12. InsertInHand'
      <3> SUFFICES ASSUME NEW t \in StoreSlots, NEW id \in StoreIds, storeCall'[t].op = "insert", storeCall'[t].ids[1] = id, id \notin storeTorn'
                   PROVE  S!Stored(id)' /\ Timed(storeBlob'[id]) /\ storeCall'[t].before = TimeOf(storeBlob'[id])
        BY DEF InsertInHand, Timed, TimeOf, S!NoTime
      <3>1. t # s BY <2>6, <2>8
      <3>2. storeCall'[t] = storeCall[t] BY <2>8, <3>1
      <3>3. S!Stored(id) /\ Timed(storeBlob[id]) /\ storeCall[t].before = TimeOf(storeBlob[id]) BY <2>2, <3>2 DEF StoreInv, InsertInHand
      <3> QED BY <2>2, <3>2, <3>3 DEF S!Stored
    <2>13. FiledByTime' BY <2>2, <2>9 DEF StoreInv, FiledByTime, S!Stored, Timed, TimeOf
    <2>14. ListedIsPast'
      <3> SUFFICES ASSUME NEW t \in StoreSlots, NEW id \in StoreIds, storeCall'[t].op = "prune", id \in S!ToSet(storeCall'[t].ids),
                          id \notin storeTorn' \cup storeCall'[t].written
                   PROVE  /\ S!Stored(id)' => S!Past(id, storeCall[t].before)'
                          /\ S!Redis => storeScore'[id] = S!NoTime \/ storeScore'[id] <= storeCall'[t].before
        BY <2>9 DEF ListedIsPast, S!NoTime
      <3>1. CASE t = s
        <4>1. id \in S!Old(storeClock) /\ id \notin storeTorn /\ storeCall'[t].before = storeClock BY <1>3, <2>2, <2>4, <2>6, <2>8, <3>1
        <4>2. /\ S!Stored(id) => S!Past(id, storeClock)
              /\ S!Redis => storeScore[id] = S!NoTime \/ storeScore[id] <= storeClock
          BY <4>1, LookedAt
        <4> QED BY <2>2, <4>1, <4>2 DEF S!Past, S!Stored
      <3>2. CASE t # s
        <4>1. storeCall'[t] = storeCall[t] BY <2>8, <3>2
        <4>2. /\ S!Stored(id) => S!Past(id, storeCall[t].before)
              /\ S!Redis => storeScore[id] = S!NoTime \/ storeScore[id] <= storeCall[t].before
          BY <2>2, <4>1 DEF StoreInv, ListedIsPast
        <4> QED BY <2>2, <4>1, <4>2 DEF S!Past, S!Stored
      <3> QED BY <3>1, <3>2
    <2> QED BY <2>10, <2>11, <2>12, <2>13, <2>14 DEF StoreInv
  <1> QED BY <1>5, <1>6

LEMMA AddToIndexKeeps ==
  ASSUME S!Assumption, StoreInv, NEW s \in StoreSlots, S!AddToIndex(s)
  PROVE  StoreInv'
  <1>1. StoreTyped BY DEF StoreInv
  <1>2. PICK at : at = storeCall[s].before OBVIOUS
  <1>3. PICK i : i = storeCall[s].ids[1] OBVIOUS
  <1>4. /\ storeCall[s].op = "insert" /\ storeScore' = [storeScore EXCEPT ![i] = at] /\ storeCall' = [storeCall EXCEPT ![s] = S!NoCall]
        /\ UNCHANGED <<storeSetting, storeClock, storeBlob, storeWinners, storeTorn>>
    BY <1>2, <1>3 DEF S!AddToIndex
  <1>5. storeCall[s] \in StoreCalls /\ S!Redis /\ storeCall[s].ids # <<>> BY <1>1, <1>4 DEF StoreTyped
  <1>6. i \in StoreIds /\ at \in 0 .. StoreMaxTime + 1 BY <1>2, <1>3, <1>5 DEF StoreCalls
  <1>7. i \notin storeTorn => S!Stored(i) /\ Timed(storeBlob[i]) /\ at = TimeOf(storeBlob[i]) BY <1>2, <1>3, <1>4, <1>6 DEF StoreInv, InsertInHand
  <1>8. StoreCallsGo({}) BY <1>4, StoreCallEnds
  <1>9. storeScore \in [StoreIds -> StoreTimes] /\ at \in StoreTimes BY <1>1, <1>6, StoreRecordsTyped DEF StoreTyped
  <1>10. storeScore' \in [StoreIds -> StoreTimes] /\ storeScore'[i] = at /\ \A x \in StoreIds \ {i} : storeScore'[x] = storeScore[x]
    BY <1>4, <1>6, <1>9
  <1>11. S!Redis' = S!Redis BY <1>4 DEF S!Redis
  <1>12. StoreTyped' BY <1>1, <1>4, <1>8, <1>10, <1>11 DEF StoreTyped, StoreCallsGo
  <1>13. WonOnce' BY <1>4 DEF StoreInv, WonOnce, S!Stored
  <1>14. InsertInHand'
    <2> SUFFICES ASSUME NEW t \in StoreSlots, NEW id \in StoreIds, storeCall'[t].op = "insert", storeCall'[t].ids[1] = id, id \notin storeTorn'
                 PROVE  S!Stored(id)' /\ Timed(storeBlob'[id]) /\ storeCall'[t].before = TimeOf(storeBlob'[id])
      BY DEF InsertInHand, Timed, TimeOf, S!NoTime
    <2>1. storeCall[t].op = "insert" /\ storeCall[t].ids[1] = id /\ storeCall'[t].before = storeCall[t].before BY <1>8 DEF StoreCallsGo
    <2>2. S!Stored(id) /\ Timed(storeBlob[id]) /\ storeCall[t].before = TimeOf(storeBlob[id]) BY <1>4, <2>1 DEF StoreInv, InsertInHand
    <2> QED BY <1>4, <2>1, <2>2 DEF S!Stored
  <1>15. FiledByTime'
    <2> SUFFICES ASSUME NEW id \in StoreIds, id \notin storeTorn'
                 PROVE  /\ ~S!Stored(id)' => storeScore'[id] = S!NoTime
                        /\ Timed(storeBlob'[id]) /\ storeScore'[id] # S!NoTime => storeScore'[id] = TimeOf(storeBlob'[id])
      BY DEF FiledByTime, Timed, TimeOf, S!NoTime
    <2>1. CASE id = i BY <1>4, <1>7, <1>10, <2>1 DEF S!Stored
    <2>2. CASE id # i BY <1>4, <1>5, <1>10, <2>2 DEF StoreInv, FiledByTime, S!Stored
    <2> QED BY <2>1, <2>2
  <1>16. ListedIsPast'
    <2> SUFFICES ASSUME NEW t \in StoreSlots, NEW id \in StoreIds, storeCall'[t].op = "prune", id \in S!ToSet(storeCall'[t].ids),
                        id \notin storeTorn' \cup storeCall'[t].written
                 PROVE  /\ S!Stored(id)' => S!Past(id, storeCall[t].before)'
                        /\ S!Redis => storeScore'[id] = S!NoTime \/ storeScore'[id] <= storeCall'[t].before
      BY <1>11 DEF ListedIsPast, S!NoTime
    <2>1. storeCall[t].op = "prune" /\ id \in S!ToSet(storeCall[t].ids) /\ id \notin storeTorn \cup storeCall[t].written
          /\ storeCall'[t].before = storeCall[t].before
      BY <1>4, <1>8 DEF StoreCallsGo
    <2>2. /\ S!Stored(id) => S!Past(id, storeCall[t].before)
          /\ S!Redis => storeScore[id] = S!NoTime \/ storeScore[id] <= storeCall[t].before
      BY <2>1 DEF StoreInv, ListedIsPast
    <2>3. CASE id # i
      <3>1. storeScore'[id] = storeScore[id] BY <1>10, <2>3
      <3> QED BY <1>4, <2>1, <2>2, <3>1 DEF S!Past, S!Stored
    <2>4. CASE id = i
      <3>1. S!Stored(id) /\ Timed(storeBlob[id]) /\ at = TimeOf(storeBlob[id]) BY <1>4, <1>7, <2>4
      <3>2. S!Past(id, storeCall[t].before) BY <2>2, <3>1
      <3>3. at <= storeCall[t].before BY <3>1, <3>2 DEF S!Past, Timed, TimeOf
      <3>4. S!Past(id, storeCall[t].before)' BY <1>4, <2>1, <3>1, <3>2 DEF S!Past, Timed
      <3> QED BY <1>10, <2>1, <2>4, <3>3, <3>4
    <2> QED BY <2>3, <2>4
  <1> QED BY <1>12, <1>13, <1>14, <1>15, <1>16 DEF StoreInv

StoreSpares ==
  \A s \in StoreSlots, id \in StoreIds :
    S!Removes(s, {id}) /\ id \notin storeTorn \cup storeCall[s].written => S!Past(id, storeCall[s].before)

LEMMA WritesSpare == ASSUME NEW ids \in SUBSET StoreIds, StoreRefiles(ids) PROVE StoreSpares
  BY DEF StoreRefiles, StoreSpares, S!Removes, S!Stored

LEMMA StandingSpares == ASSUME UNCHANGED storeBlob \/ UNCHANGED storeCall PROVE StoreSpares
  BY DEF StoreSpares, S!Removes, S!Stored

LEMMA PrunesSpare ==
  ASSUME S!Assumption, StoreInv, NEW s \in StoreSlots, S!Sweep(s) \/ S!PruneNext(s)
  PROVE  StoreSpares
  <1>1. StoreTyped BY DEF StoreInv
  <1>2. PICK ids : ids = IF S!Redis THEN S!ToSet(storeCall[s].ids) ELSE {Head(storeCall[s].ids)} OBVIOUS
  <1>3. storeCall[s].op = "prune" /\ storeCall[s].ids \in Seq(StoreIds) /\ storeCall[s].ids # <<>> BY <1>1 DEF S!Sweep, S!PruneNext, StoreTyped, StoreCalls
  <1>4. ids \subseteq S!ToSet(storeCall[s].ids) BY <1>2, <1>3, TailShrinks
  <1>5. storeBlob' = [id \in StoreIds |-> IF id \in ids THEN S!NoRecord ELSE storeBlob[id]] BY <1>2 DEF S!Sweep, S!PruneNext, S!Deleted
  <1>6. \A t \in StoreSlots \ {s} : storeCall'[t] = storeCall[t] BY <1>1 DEF S!Sweep, S!PruneNext, StoreTyped
  <1> SUFFICES ASSUME NEW t \in StoreSlots, NEW id \in StoreIds, S!Removes(t, {id}), id \notin storeTorn \cup storeCall[t].written
               PROVE  S!Past(id, storeCall[t].before)
    BY DEF StoreSpares
  <1>7. t = s /\ S!Stored(id) /\ storeBlob'[id] = S!NoRecord BY <1>6 DEF S!Removes
  <1>8. id \in ids BY <1>5, <1>7 DEF S!Stored
  <1> QED BY <1>3, <1>4, <1>7, <1>8 DEF StoreInv, ListedIsPast

LEMMA StoreStepKeeps ==
  ASSUME S!Assumption, StoreInv, [S!Next]_(S!vars)
  PROVE  StoreInv' /\ StoreSpares
  <1>1. CASE UNCHANGED S!vars
    <2>1. UNCHANGED storeBlob BY <1>1 DEF S!vars
    <2> QED BY <1>1, <2>1, StoreStandingKeeps, RemovalsKeep, StandingSpares
  <1>2. ASSUME NEW id \in StoreIds, NEW rec \in S!New, S!Save(id, rec) \/ S!Renew(id, rec) PROVE StoreInv' /\ StoreSpares
    BY <1>2, StoreSaveKeeps, WritesKeep, WritesSpare
  <1>3. ASSUME NEW id \in StoreIds, NEW rec \in S!New, NEW s \in StoreSlots, S!Insert(s, id, rec) PROVE StoreInv' /\ StoreSpares
    BY <1>3, InsertKeeps, WritesKeep, WritesSpare
  <1>4. ASSUME NEW id \in StoreIds, S!Update(id) PROVE StoreInv' /\ StoreSpares
    BY <1>4, StoreUpdateKeeps, WritesKeep, WritesSpare
  <1>5. ASSUME NEW id \in StoreIds, S!Increment(id) PROVE StoreInv' /\ StoreSpares
    BY <1>5, IncrementKeeps, WritesKeep, WritesSpare
  <1>6. ASSUME NEW id \in StoreIds, S!CompareAndSet(id, 0, 1) PROVE StoreInv' /\ StoreSpares
    BY <1>6, CompareAndSetKeeps, WritesKeep, WritesSpare
  <1>7. ASSUME NEW id \in StoreIds, S!Delete(id) PROVE StoreInv' /\ StoreSpares
    <2>1. UNCHANGED storeCall BY <1>7 DEF S!Delete
    <2> QED BY <1>7, <2>1, StoreDeleteKeeps, RemovalsKeep, StandingSpares
  <1>8. ASSUME NEW ids \in SUBSET StoreIds, S!BulkDelete(ids) PROVE StoreInv' /\ StoreSpares
    <2>1. UNCHANGED storeCall BY <1>8 DEF S!BulkDelete
    <2> QED BY <1>8, <2>1, StoreDeleteKeeps, RemovalsKeep, StandingSpares
  <1>9. ASSUME NEW ids \in SUBSET StoreIds, NEW s \in StoreSlots, S!BulkSave(s, ids) PROVE StoreInv' /\ StoreSpares
    <2>1. CASE StoreRefiles(ids) /\ StoreCallsGo(ids) BY <2>1, WritesKeep, WritesSpare
    <2>2. CASE StoreRemoves({}) /\ StoreCallsGo({}) /\ UNCHANGED storeBlob BY <2>2, RemovalsKeep, StandingSpares
    <2>3. StoreRemoves({}) => UNCHANGED storeBlob BY DEF StoreRemoves, StoreInv, StoreTyped
    <2> QED BY <1>9, <2>1, <2>2, <2>3, BulkSaveKeeps
  <1>10. ASSUME NEW s \in StoreSlots, S!AddToIndex(s) PROVE StoreInv' /\ StoreSpares
    <2>1. UNCHANGED storeBlob BY <1>10 DEF S!AddToIndex
    <2> QED BY <1>10, <2>1, AddToIndexKeeps, StandingSpares
  <1>11. ASSUME NEW s \in StoreSlots, S!SaveNext(s) PROVE StoreInv' /\ StoreSpares
    BY <1>11, SaveNextKeeps, WritesKeep, WritesSpare
  <1>12. ASSUME NEW s \in StoreSlots, S!Prune(s, storeClock) PROVE StoreInv' /\ StoreSpares
    <2>1. UNCHANGED storeBlob \/ UNCHANGED storeCall BY <1>12 DEF S!Prune
    <2> QED BY <1>12, <2>1, StorePruneKeeps, StandingSpares
  <1>13. ASSUME NEW s \in StoreSlots, S!Sweep(s) PROVE StoreInv' /\ StoreSpares
    BY <1>13, SweepKeeps, RemovalsKeep, PrunesSpare
  <1>14. ASSUME NEW s \in StoreSlots, S!PruneNext(s) PROVE StoreInv' /\ StoreSpares
    <2>1. {Head(storeCall[s].ids)} \subseteq StoreIds
      <3>1. storeCall[s].ids \in Seq(StoreIds) /\ storeCall[s].ids # <<>>  BY <1>14 DEF S!PruneNext, StoreInv, StoreTyped, StoreCalls
      <3> QED BY <3>1, TailShrinks
    <2> QED BY <1>14, <2>1, PruneNextKeeps, RemovalsKeep, PrunesSpare
  <1>15. ASSUME NEW s \in StoreSlots, S!Crash(s) PROVE StoreInv' /\ StoreSpares
    <2>1. UNCHANGED storeBlob BY <1>15 DEF S!Crash
    <2> QED BY <1>15, <2>1, StoreCrashKeeps, RemovalsKeep, StandingSpares
  <1>16. CASE S!Tick
    <2>1. UNCHANGED storeBlob BY <1>16 DEF S!Tick
    <2> QED BY <1>16, <2>1, StoreTickKeeps, RemovalsKeep, StandingSpares
  <1> QED BY <1>1, <1>2, <1>3, <1>4, <1>5, <1>6, <1>7, <1>8, <1>9, <1>10, <1>11, <1>12, <1>13, <1>14, <1>15, <1>16 DEF S!Next

LEMMA StoreBegins == ASSUME S!Assumption, S!Init PROVE StoreInv
  <1>1. StoreMaxTime \in Nat BY DEF S!Assumption
  <1>2. storeSetting \in [adapter : S!Adapters, offers : [S!Ops -> Nat], crashes : Nat] /\ storeClock = 0
        /\ storeBlob = [id \in StoreIds |-> S!NoRecord] /\ storeScore = [id \in StoreIds |-> S!NoTime]
        /\ storeCall = [s \in StoreSlots |-> S!NoCall] /\ storeWinners = [id \in StoreIds |-> 0] /\ storeTorn = {}
    BY DEF S!Assumption, S!Init, S!InitWith
  <1>3. S!NoRecord \in StoreRecords /\ S!NoTime \in StoreTimes /\ ~Timed(S!NoRecord) BY <1>1 DEF S!NoRecord, StoreRecords, StoreTimes, S!NoTime, Timed
  <1>4. S!NoCall \in StoreCalls /\ S!NoCall.op = "idle" BY StoreIdleCall
  <1>5. StoreTyped BY <1>1, <1>2, <1>3, <1>4 DEF StoreTyped
  <1>6. WonOnce BY <1>2 DEF WonOnce
  <1>7. InsertInHand BY <1>2, <1>4 DEF InsertInHand
  <1>8. FiledByTime BY <1>2, <1>3 DEF FiledByTime
  <1>9. ListedIsPast BY <1>2, <1>4 DEF ListedIsPast
  <1> QED BY <1>5, <1>6, <1>7, <1>8, <1>9 DEF StoreInv

LEMMA StoreInductive == ASSUME S!Assumption PROVE S!Spec => []StoreInv
  <1>1. S!Init => StoreInv BY StoreBegins
  <1>2. StoreInv /\ [S!Next]_(S!vars) => StoreInv' BY StoreStepKeeps
  <1> QED BY <1>1, <1>2, PTL DEF S!Spec

(* Storage adapters (memory-store.ts, redis-store.ts, postgres-store.ts):   *)
(* while a record is stored, of the calls that insert it only if it is not  *)
(* there one was told that it did. For any ids, calls, clock, settings and  *)
(* faults.                                                                  *)
THEOREM OneInsertWins == ASSUME S!Assumption PROVE S!Spec => []S!InsertedOnce
  <1>1. StoreInv => S!InsertedOnce BY DEF StoreInv, WonOnce, S!InsertedOnce
  <1> QED BY <1>1, StoreInductive, PTL

(* Storage adapters: a prune removes what was older than its limit when it  *)
(* looked, unless the record was written since - then it may go, however    *)
(* fresh.                                                                   *)
THEOREM PrunesSpareTheFresh == ASSUME S!Assumption PROVE S!Spec => S!PruneSparesFresh
  <1>1. StoreInv /\ [S!Next]_(S!vars) => [StoreSpares]_(S!vars) BY StoreStepKeeps
  <1>2. StoreSpares => \A s \in StoreSlots, id \in StoreIds :
                    S!Removes(s, {id}) /\ id \notin storeTorn \cup storeCall[s].written => S!Past(id, storeCall[s].before)
    BY DEF StoreSpares
  <1> QED BY <1>1, <1>2, StoreInductive, PTL DEF S!Spec, S!PruneSparesFresh

-----------------------------------------------------------------------------
(* Monitoring API and held jobs.                                            *)
VARIABLES apiSetting, apiRecord, apiPaused, apiGate, apiHeld, apiBorn,
  apiStatus, apiFrom, apiQueued, apiFired, apiKeyed, apiCall, apiAsked,
  apiMuddled
apiVars == <<apiSetting, apiRecord, apiPaused, apiGate, apiHeld, apiBorn,
  apiStatus, apiFrom, apiQueued, apiFired, apiKeyed, apiCall, apiAsked,
  apiMuddled>>
A == INSTANCE Api WITH
  Settings <- ApiSettings, Names <- ApiNames, Jobs <- ApiJobs, Callers <-
  ApiCallers, setting <- apiSetting, record <- apiRecord, paused <- apiPaused,
  gate <- apiGate, held <- apiHeld, born <- apiBorn, status <- apiStatus,
  from <- apiFrom, queued <- apiQueued, fired <- apiFired, keyed <-
  apiKeyed, call <- apiCall, asked <- apiAsked, muddled <- apiMuddled

HeldTyped ==
  /\ apiSetting.maxHeld \in Nat \ {0}
  /\ apiHeld \in [A!Targets -> Seq(Nat)] /\ apiBorn \in Nat

LEMMA HeldInit == ASSUME A!Assumption PROVE A!Init => HeldTyped
BY DEF A!Init, A!InitWith, HeldTyped, A!Assumption

(* Only a hold, a release and a prune touch the held jobs.                  *)
HeldOnly == UNCHANGED <<apiHeld, apiBorn>> /\ apiSetting'.maxHeld = apiSetting.maxHeld

LEMMA BoundStays ==
  ASSUME HeldTyped, NEW f \in {"calls", "holds", "ends", "crashes"}, NEW n,
         apiSetting' = [apiSetting EXCEPT ![f] = n]
  PROVE  apiSetting'.maxHeld = apiSetting.maxHeld
OBVIOUS

LEMMA HeldSteps ==
  ASSUME HeldTyped, [A!Next]_(A!vars)
  PROVE  \/ HeldOnly
         \/ \E s \in ApiCallers : A!HoldJob(s) \/ A!ReleaseHeld(s) \/ A!PruneHeld(s)
<1>1. ASSUME NEW s \in ApiCallers, NEW req \in apiSetting.requests, A!Receive(s, req) PROVE HeldOnly
  BY <1>1, BoundStays DEF A!Receive, HeldOnly
<1>2. ASSUME NEW s \in ApiCallers, NEW t \in A!Targets, A!Produce(s, t) PROVE HeldOnly
  BY <1>2, BoundStays DEF A!Produce, HeldOnly
<1>3. ASSUME NEW s \in ApiCallers, A!ReadTarget(s) PROVE HeldOnly
  BY <1>3 DEF A!ReadTarget, A!At, HeldOnly
<1>4. ASSUME NEW s \in ApiCallers, A!ReadJob(s) PROVE HeldOnly
  BY <1>4 DEF A!ReadJob, A!At, HeldOnly
<1>5. ASSUME NEW s \in ApiCallers, A!SaveRecord(s) PROVE HeldOnly
  BY <1>5 DEF A!SaveRecord, A!At, HeldOnly
<1>6. ASSUME NEW s \in ApiCallers, A!TellBroker(s) PROVE HeldOnly
  BY <1>6 DEF A!TellBroker, A!At, HeldOnly
<1>7. ASSUME NEW s \in ApiCallers, A!CopyJob(s) PROVE HeldOnly
  BY <1>7 DEF A!CopyJob, A!At, HeldOnly
<1>8. ASSUME NEW s \in ApiCallers, A!PublishCopy(s) PROVE HeldOnly
  BY <1>8 DEF A!PublishCopy, A!At, HeldOnly
<1>9. ASSUME NEW s \in ApiCallers, A!CancelJob(s) PROVE HeldOnly
  BY <1>9 DEF A!CancelJob, A!At, HeldOnly
<1>10. ASSUME NEW s \in ApiCallers, A!Trigger(s) PROVE HeldOnly
  BY <1>10 DEF A!Trigger, A!At, HeldOnly
<1>11. ASSUME NEW s \in ApiCallers, A!SetKey(s) PROVE HeldOnly
  BY <1>11 DEF A!SetKey, A!At, HeldOnly
<1>12. ASSUME NEW j \in ApiJobs, NEW to \in A!Statuses, A!JobEnds(j, to) PROVE HeldOnly
  BY <1>12, BoundStays DEF A!JobEnds, HeldOnly
<1>13. ASSUME A!Crash PROVE HeldOnly
  BY <1>13, BoundStays DEF A!Crash, HeldOnly
<1>14. ASSUME UNCHANGED A!vars PROVE HeldOnly
  BY <1>14 DEF A!vars, HeldOnly
<1> QED
  BY <1>1, <1>2, <1>3, <1>4, <1>5, <1>6, <1>7, <1>8, <1>9, <1>10, <1>11, <1>12, <1>13, <1>14 DEF A!Next

LEMMA KeptHolds ==
  ASSUME NEW q \in Seq(Nat), NEW n \in Nat \ {0}, n < Len(q)
  PROVE  /\ A!RemoveAt(q, Len(q) - n) \in Seq(Nat)
         /\ Len(A!RemoveAt(q, Len(q) - n)) = Len(q) - 1
         /\ A!Last(A!RemoveAt(q, Len(q) - n)) = A!Last(q)
<1> DEFINE i == Len(q) - n
<1>1. i \in 1 .. Len(q) - 1 OBVIOUS
<1> HIDE DEF i
<1>2. /\ SubSeq(q, 1, i - 1) \in Seq(Nat) /\ Len(SubSeq(q, 1, i - 1)) = i - 1
  BY <1>1
<1>3. /\ SubSeq(q, i + 1, Len(q)) \in Seq(Nat) /\ Len(SubSeq(q, i + 1, Len(q))) = Len(q) - i
      /\ SubSeq(q, i + 1, Len(q))[Len(q) - i] = q[Len(q)]
  <2>1. PICK k \in Nat : k = Len(q) OBVIOUS
  <2>2. i \in 1 .. k - 1 BY <1>1, <2>1
  <2>3. \A j \in i + 1 .. k : q[j] \in Nat BY <2>1, <2>2
  <2>4. /\ SubSeq(q, i + 1, k) \in Seq(Nat) /\ Len(SubSeq(q, i + 1, k)) = k - i
        /\ SubSeq(q, i + 1, k)[k - i] = q[k]
    BY <2>1, <2>2, <2>3
  <2> QED BY <2>1, <2>4
<1>4. A!RemoveAt(q, i) = SubSeq(q, 1, i - 1) \o SubSeq(q, i + 1, Len(q))
  BY DEF A!RemoveAt
<1>5. /\ A!RemoveAt(q, i) \in Seq(Nat) /\ Len(A!RemoveAt(q, i)) = Len(q) - 1
      /\ A!RemoveAt(q, i)[Len(q) - 1] = q[Len(q)]
  <2> DEFINE a == SubSeq(q, 1, i - 1)
             b == SubSeq(q, i + 1, Len(q))
  <2>1. a \in Seq(Nat) /\ b \in Seq(Nat) BY <1>2, <1>3
  <2>2. /\ Len(a) = i - 1 /\ Len(b) = Len(q) - i /\ b[Len(q) - i] = q[Len(q)]
    BY <1>2, <1>3
  <2>3. A!RemoveAt(q, i) = a \o b BY <1>4
  <2> HIDE DEF a, b
  <2>4. PICK k \in Nat : k = Len(q) OBVIOUS
  <2>5. a \o b \in Seq(Nat) /\ Len(a \o b) = Len(a) + Len(b)
    BY <2>1, ConcatProperties
  <2>6. Len(a) + Len(b) = k - 1 BY <1>1, <2>2, <2>4
  <2>7. (a \o b)[k - 1] = b[k - i]
    <3>1. \A j \in 1 .. Len(a) + Len(b) :
            (a \o b)[j] = IF j <= Len(a) THEN a[j] ELSE b[j - Len(a)]
      BY <2>1, ConcatProperties
    <3>2. /\ k - 1 \in 1 .. Len(a) + Len(b) /\ ~(k - 1 <= Len(a))
          /\ (k - 1) - Len(a) = k - i
      BY <1>1, <2>2, <2>4, <2>6
    <3> QED BY <3>1, <3>2
  <2> QED BY <2>2, <2>3, <2>4, <2>5, <2>6, <2>7
<1> QED BY <1>5 DEF A!Last, i

LEMMA HeldKeeps == ASSUME A!Assumption, HeldTyped, [A!Next]_(A!vars) PROVE HeldTyped'
<1>1. CASE HeldOnly
  BY <1>1 DEF HeldTyped, HeldOnly
<1>2. ASSUME NEW s \in ApiCallers, A!HoldJob(s) PROVE HeldTyped'
  <2> DEFINE t == apiCall[s].target
  <2>1. /\ apiSetting' = apiSetting /\ apiBorn' = apiBorn + 1
        /\ apiHeld' = [apiHeld EXCEPT ![t] = Append(apiHeld[t], apiBorn + 1)]
    BY <1>2 DEF A!HoldJob, A!At
  <2> HIDE DEF t
  <2>2. t \in A!Targets => Append(apiHeld[t], apiBorn + 1) \in Seq(Nat)
    BY DEF HeldTyped
  <2>3. apiBorn' \in Nat BY <2>1 DEF HeldTyped
  <2>4. apiHeld' \in [A!Targets -> Seq(Nat)] BY <2>1, <2>2 DEF HeldTyped
  <2> QED BY <2>1, <2>3, <2>4 DEF HeldTyped
<1>3. ASSUME NEW s \in ApiCallers, A!ReleaseHeld(s) PROVE HeldTyped'
  <2>1. /\ apiSetting' = apiSetting /\ apiBorn' = apiBorn
        /\ apiHeld' = [apiHeld EXCEPT ![apiCall[s].target] = <<>>]
    BY <1>3 DEF A!ReleaseHeld, A!At
  <2>2. apiHeld' \in [A!Targets -> Seq(Nat)]
    <3>1. <<>> \in Seq(Nat) OBVIOUS
    <3> QED BY Zenon, <2>1, <3>1 DEF HeldTyped
  <2> QED BY <2>1, <2>2 DEF HeldTyped
<1>4. ASSUME NEW s \in ApiCallers, A!PruneHeld(s) PROVE HeldTyped'
  <2> DEFINE t == apiCall[s].target
             kept == IF t[1] = "cron" THEN A!KeptBySchedule(t) ELSE A!KeptHere(t)
  <2>1. apiSetting' = apiSetting /\ apiBorn' = apiBorn /\ apiHeld' = [apiHeld EXCEPT ![t] = kept]
    BY <1>4 DEF A!PruneHeld, A!At
  <2>2. t \in A!Targets => A!KeptBySchedule(t) \in Seq(Nat)
    BY DEF HeldTyped, A!KeptBySchedule
  <2>3. t \in A!Targets => A!KeptHere(t) \in Seq(Nat)
    BY KeptHolds DEF HeldTyped, A!KeptHere
  <2>4. t \in A!Targets => kept \in Seq(Nat) BY <2>2, <2>3
  <2> HIDE DEF t, kept
  <2> QED BY <2>1, <2>4 DEF HeldTyped
<1> QED BY <1>1, <1>2, <1>3, <1>4, HeldSteps

LEMMA HeldStep ==
  ASSUME A!Assumption, HeldTyped, [A!Next]_(A!vars), NEW u \in A!Targets, u[1] \in {"queue", "hook"}
  PROVE  ~A!DropsNewest(u)
<1>1. CASE HeldOnly
  BY <1>1 DEF HeldOnly, HeldTyped, A!DropsNewest
<1>2. ASSUME NEW s \in ApiCallers, A!HoldJob(s) PROVE ~A!DropsNewest(u)
  <2> DEFINE t == apiCall[s].target
  <2>1. apiHeld' = [apiHeld EXCEPT ![t] = Append(apiHeld[t], apiBorn + 1)]
    BY <1>2 DEF A!HoldJob, A!At
  <2> HIDE DEF t
  <2>2. Len(apiHeld'[u]) >= Len(apiHeld[u])
    BY <2>1 DEF HeldTyped
  <2> QED BY <2>2 DEF A!DropsNewest, HeldTyped
<1>3. ASSUME NEW s \in ApiCallers, A!ReleaseHeld(s) PROVE ~A!DropsNewest(u)
  <2> DEFINE t == apiCall[s].target
  <2>1. apiHeld' = [apiHeld EXCEPT ![t] = <<>>]
    BY <1>3 DEF A!ReleaseHeld, A!At
  <2> HIDE DEF t
  <2> QED BY <2>1 DEF A!DropsNewest, HeldTyped
<1>4. ASSUME NEW s \in ApiCallers, A!PruneHeld(s) PROVE ~A!DropsNewest(u)
  <2> DEFINE t == apiCall[s].target
             kept == IF t[1] = "cron" THEN A!KeptBySchedule(t) ELSE A!KeptHere(t)
  <2>1. apiHeld' = [apiHeld EXCEPT ![t] = kept]
    BY <1>4 DEF A!PruneHeld, A!At
  <2>2. CASE t = u
    <3>1. apiHeld'[u] = A!KeptHere(u) BY <2>1, <2>2 DEF HeldTyped
    <3>2. Len(apiHeld[u]) > apiSetting.maxHeld => A!Last(A!KeptHere(u)) = A!Last(apiHeld[u])
      BY KeptHolds DEF HeldTyped, A!KeptHere
    <3> QED BY <3>1, <3>2 DEF A!DropsNewest, HeldTyped, A!KeptHere
  <2>3. CASE t # u
    <3> HIDE DEF t, kept
    <3> QED BY <2>1, <2>3 DEF A!DropsNewest, HeldTyped
  <2> QED BY <2>2, <2>3
<1> QED BY <1>1, <1>2, <1>3, <1>4, HeldSteps

(* Monitoring API and held jobs (queue-engine.ts, webhook-engine.ts): on a  *)
(* queue or a dispatcher that holds its jobs while it is off, the limit     *)
(* never drops the job that was held last. For any names, jobs, calls and   *)
(* settings.                                                                *)
THEOREM TheNewestIsHeld == ASSUME A!Assumption PROVE A!Spec => A!NewestIsHeld
<1>1. A!Init => HeldTyped BY HeldInit
<1>2. HeldTyped /\ [A!Next]_(A!vars) => HeldTyped' BY HeldKeeps
<1>3. HeldTyped /\ [A!Next]_(A!vars) => [\A t \in A!Targets : t[1] \in {"queue", "hook"} => ~A!DropsNewest(t)]_(A!vars)
  BY HeldStep
<1> QED BY <1>1, <1>2, <1>3, PTL DEF A!Spec, A!NewestIsHeld
=============================================================================

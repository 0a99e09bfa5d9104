--------------------------- MODULE RateAlgorithms ---------------------------
(***************************************************************************)
(* The three algorithms of the rate limiter as operators: what peek reads  *)
(* from a stored record, what consume writes back, what reset stores, and  *)
(* when the record may be pruned.  Time is counted in ticks; one record    *)
(* type serves the three namespaces, each using its own fields.            *)
(***************************************************************************)
EXTENDS Integers, FiniteSetsExt

CONSTANTS
  MaxTime,         \* the clock stops there (a bound)
  Window,          \* windowMs
  RefillRate,      \* refillRate
  RefillInterval   \* refillIntervalMs

Times == 0 .. MaxTime
Never == MaxTime + 1 + Window  \* no createdAt: storage.prune leaves it alone
Algorithms == {"sliding-window", "fixed-window", "token-bucket"}

AlgorithmAssumption ==
  /\ MaxTime \in Nat /\ Window \in Nat \ {0}
  /\ RefillRate \in Nat \ {0} /\ RefillInterval \in Nat \ {0}

(* SlidingWindowState (stamps), FixedWindowState (id, count), BucketState   *)
(* (count: tokens, id: lastRefillAt); until is what createdAt stands for.   *)
NoState == [exists |-> FALSE, stamps |-> [t \in Times |-> 0], id |-> 0,
            count |-> 0, until |-> Never]

Total(f, times) == MapThenSumSet(LAMBDA t : f[t], times)
WindowId(now) == now \div Window
Within(now) == {t \in Times : t + Window > now /\ t <= now}

(* Lazy refill: whole intervals only.                                       *)
Intervals(s, now) == (now - s.id) \div RefillInterval
Tokens(s, max, now) ==
  LET refilled == s.count + Intervals(s, now) * RefillRate
  IN IF ~s.exists THEN max ELSE IF refilled > max THEN max ELSE refilled

Current(algorithm, s, max, now) ==
  CASE algorithm = "sliding-window" -> Total(s.stamps, Within(now))
    [] algorithm = "fixed-window" -> IF s.exists /\ s.id = WindowId(now) THEN s.count ELSE 0
    [] algorithm = "token-bucket" -> max - Tokens(s, max, now)

UntilFull(missing) ==
  ((missing + RefillRate - 1) \div RefillRate) * RefillInterval

(* consume, for a cost of 1 that fits.                                      *)
Charged(algorithm, s, max, now) ==
  CASE algorithm = "sliding-window" ->
         [NoState EXCEPT !.exists = TRUE, !.until = now + Window,
            !.stamps = [t \in Times |-> IF t \notin Within(now) THEN 0
                                        ELSE IF t = now THEN s.stamps[t] + 1 ELSE s.stamps[t]]]
    [] algorithm = "fixed-window" ->
         [NoState EXCEPT !.exists = TRUE, !.id = WindowId(now),
            !.count = Current(algorithm, s, max, now) + 1,
            !.until = (WindowId(now) + 1) * Window]
    [] algorithm = "token-bucket" ->
         [NoState EXCEPT !.exists = TRUE,
            !.id = IF s.exists THEN s.id + Intervals(s, now) * RefillInterval ELSE now,
            !.count = Tokens(s, max, now) - 1,
            !.until = now + UntilFull(max - Tokens(s, max, now) + 1)]

(* reset(): no createdAt.                                                   *)
Cleared(algorithm, max, now) ==
  CASE algorithm = "sliding-window" -> [NoState EXCEPT !.exists = TRUE]
    [] algorithm = "fixed-window" -> [NoState EXCEPT !.exists = TRUE, !.id = WindowId(now)]
    [] algorithm = "token-bucket" -> [NoState EXCEPT !.exists = TRUE, !.id = now, !.count = max]
=============================================================================

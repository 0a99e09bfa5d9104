------------------------------- MODULE MCBatch -------------------------------
EXTENDS Batch, TLC
CONSTANTS n1, n2, g1, g2, i1, i2, i3, j1, j2, j3, c1, c2, r1, r2

GroupOfItem == [i \in Items |-> IF i = i3 THEN g2 ELSE g1]
KeyOfItem == [i \in Items |-> "key"]

Plain == [maxPending |-> 0, throttle |-> 0, remove |-> FALSE, dedup |-> FALSE,
          filtered |-> {}]
Setting(items, calls, runs, fleet, options, faults) ==
  [fleet |-> fleet, items |-> items, calls |-> calls, runs |-> runs,
   maxPending |-> options.maxPending, throttle |-> options.throttle,
   remove |-> options.remove, dedup |-> options.dedup,
   filtered |-> options.filtered,
   budget |-> [k \in Budgets |-> IF k \in faults THEN 1 ELSE 0]]

Alone == {n1}
Pair == {n1, n2}
One == {i1}
Two == {i1, i2}
TwoCalls == {c1, c2}

(* Calls against each other, without the poll loop; runs against each other *)
(* and against the calls; options of the definition.                        *)
BufferSettings ==
  {Setting(One, TwoCalls, {}, Pair, Plain, {"crash"}),
   Setting(Two, TwoCalls, {}, Alone, Plain, {}),
   Setting(Two, TwoCalls, {}, Alone, [Plain EXCEPT !.dedup = TRUE], {}),
   Setting(One, TwoCalls, {}, Alone, Plain, {"lapse"}),
   Setting(One, TwoCalls, {}, Alone, Plain, {"timeout", "stop", "flush"})}
RunSettings ==
  {Setting(One, TwoCalls, {r1}, Alone, Plain, {}),
   Setting(One, {c1}, {r1}, Pair, [Plain EXCEPT !.remove = TRUE], {"crash"}),
   Setting(One, {c1}, {r1, r2}, Pair, Plain, {"crash"}),
   Setting(One, {c1}, {r1, r2}, Alone, Plain, {"hang"}),
   Setting(One, {c1}, {r1}, Pair, Plain, {"lapse"}),
   Setting(One, {c1}, {r1}, Pair, Plain, {"stop", "timeout"}),
   Setting(One, {c1}, {r1}, Pair, Plain, {"pause"})}
OptionSettings ==
  {Setting({i1, i3}, {c1}, {r1}, Alone, [Plain EXCEPT !.throttle = 1], {}),
   Setting(Two, {c1}, {r1}, Alone, [Plain EXCEPT !.maxPending = 1], {}),
   Setting(Two, {c1}, {r1}, Alone, [Plain EXCEPT !.filtered = One], {})}
BatchSettings == BufferSettings \cup RunSettings \cup OptionSettings
CrashSettings == {Setting(One, {c1}, {r1}, Pair, Plain, {"crash"})}
=============================================================================

------------------------------ MODULE MCUpdates -----------------------------
(* The scheduler and a thread of the user; versions 3.0.0-rc to 3.1.   *)
EXTENDS Updates

V(main, pre) == [main |-> main, pre |-> pre]
MCCurrent == V(<<3, 0, 0>>, 2)
MCTimeline ==
  <<[version |-> V(<<3>>, 0), stable |-> TRUE], [version |-> V(<<3, 1>>, 0), stable |-> TRUE]>>
MCFiles == {[on |-> [o \in Options |-> IF o = "slot-1" THEN TRUE ELSE Absent], last |-> 0]}
MCCatalog == {V(<<2, 9>>, 0), V(<<3>>, 0), V(<<3, 0, 0>>, 1), V(<<3, 0, 1>>, 0),
              V(<<3, 0>>, 2), V(<<3, 1>>, 1), V(<<2, 1, 4>>, 2), V(<<>>, 2)}
=============================================================================

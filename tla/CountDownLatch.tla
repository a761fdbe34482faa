--------------------------- MODULE CountDownLatch ---------------------------
(***************************************************************************)
(* lib/util/countDownLatch.js: a latch calls its callback when it has been *)
(* counted down, or with isTimeout when its timer fires first.  The        *)
(* channel service waits with a latch for the servers a message goes to,   *)
(* the master's watchdog for the servers it notifies, the console module   *)
(* for the agents it asks.  This module has the operations; those who wait *)
(* with a latch instantiate it.                                            *)
(***************************************************************************)
EXTENDS Integers

CONSTANT Latches           \* one for each latch ever made

VARIABLES made,            \* the latches made so far
          count,           \* count[l]: done() calls still expected
          timer,           \* timer[l]: "none", "set" or "over"
          calls,           \* calls[l]: how often the callback was called
          late             \* latches whose callback was told of a timeout

latchVars == <<made, count, timer, calls, late>>

TypeOK == /\ made \subseteq Latches
          /\ count \in [Latches -> Nat]
          /\ timer \in [Latches -> {"none", "set", "over"}]
          /\ calls \in [Latches -> Nat]
          /\ late \subseteq made

Init == /\ made = {}
        /\ count = [l \in Latches |-> 0]
        /\ timer = [l \in Latches |-> "none"]
        /\ calls = [l \in Latches |-> 0]
        /\ late = {}

\* createCountDownLatch; a count that is not positive throws.
Create(l, n, timed) == /\ l \notin made /\ n > 0
                       /\ made' = made \cup {l}
                       /\ count' = [count EXCEPT ![l] = n]
                       /\ timer' = [timer EXCEPT ![l] = IF timed THEN "set" ELSE "none"]
                       /\ UNCHANGED <<calls, late>>

DoneFiresEarly(l) == /\ count[l] > 0
                     /\ count' = [count EXCEPT ![l] = @ - 1]
                     /\ calls' = [calls EXCEPT ![l] = IF count[l] <= 2 THEN @ + 1 ELSE @]
                     /\ UNCHANGED <<made, timer, late>>

\* done(); on a latch that is down it throws.
Done(l) == /\ count[l] > 0
           /\ count' = [count EXCEPT ![l] = @ - 1]
           /\ IF count[l] = 1
              THEN /\ calls' = [calls EXCEPT ![l] = @ + 1]
                   /\ timer' = [timer EXCEPT ![l] = IF @ = "set" THEN "over" ELSE @]
              ELSE UNCHANGED <<calls, timer>>
           /\ UNCHANGED <<made, late>>

\* The timer fires.  The count stays, so that the last done() calls back again.
Timeout(l) == /\ timer[l] = "set"
              /\ timer' = [timer EXCEPT ![l] = "over"]
              /\ calls' = [calls EXCEPT ![l] = @ + 1]
              /\ late' = late \cup {l}
              /\ UNCHANGED <<made, count>>
=============================================================================

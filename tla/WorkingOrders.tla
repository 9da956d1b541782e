---------------------------- MODULE WorkingOrders ----------------------------
(***************************************************************************)
(* The promise the order path makes about its account, with everything     *)
(* else left out: for each instrument and side an order goes out only when *)
(* none is working (accepted, not yet filled or expired).  A cycle may be  *)
(* cut off and run again at any point; it never stacks a second order on a *)
(* working one.  OrderExecutor implements this specification.              *)
(***************************************************************************)
EXTENDS Naturals

CONSTANT Slot                  \* the (symbol, side) pairs an order can have

VARIABLE working               \* how many orders work in each slot

Init == working = [k \in Slot |-> 0]

Place(k) == /\ working[k] = 0
            /\ working' = [working EXCEPT ![k] = 1]

\* A working order is filled completely, or the market closes on it.
Close(k) == /\ working[k] > 0
            /\ working' = [working EXCEPT ![k] = @ - 1]

Next == \E k \in Slot : Place(k) \/ Close(k)

Spec == Init /\ [][Next]_working
==============================================================================

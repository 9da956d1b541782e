------------------------------- MODULE Consent -------------------------------
(***************************************************************************)
(* What an approval promises: the user is asked once, and once more at the *)
(* most; the first verdict is final, and a question nobody answers lapses. *)
(* ApprovalManager implements this specification.                          *)
(***************************************************************************)
EXTENDS Naturals

CONSTANT Id

VARIABLES
  verdict,   \* of each question
  asked      \* how often it was put to the user

vars == <<verdict, asked>>

Verdict == {"granted", "refused", "lapsed"}

Init == /\ verdict = [i \in Id |-> "none"]
        /\ asked = [i \in Id |-> 0]

Ask(i) == /\ verdict[i] = "none"
          /\ verdict' = [verdict EXCEPT ![i] = "open"]
          /\ asked' = [asked EXCEPT ![i] = 1]

AskAgain(i) == /\ verdict[i] = "open"
               /\ asked[i] = 1
               /\ asked' = [asked EXCEPT ![i] = 2]
               /\ UNCHANGED verdict

Decide(i) == /\ verdict[i] = "open"
             /\ \E v \in Verdict : verdict' = [verdict EXCEPT ![i] = v]
             /\ UNCHANGED asked

Next == \E i \in Id : Ask(i) \/ AskAgain(i) \/ Decide(i)

Spec == Init /\ [][Next]_vars
==============================================================================

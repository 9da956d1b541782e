---------------------------- MODULE ApprovalProofs ----------------------------
(***************************************************************************)
(* What ApprovalManager guarantees for every number of requests, every pair*)
(* of lifetimes and every caller.                                          *)
(***************************************************************************)
EXTENDS ApprovalManager, TLAPS

\* What is true of a request that waits for its answer, whoever checks it and
\* when: how often it was put to the user, and how long it has still to run.
Waiting(i) ==
  LET a == items[i] IN
  /\ a.status = "NONE" => asked[i] = 0
  /\ a.status = "PENDING" =>
       /\ asked[i] = 1
       /\ a.expires_at = a.created_at + Ttl(a.rerequestable)
  /\ a.status = "RE_REQUESTED" =>
       /\ asked[i] = 2
       /\ a.rerequestable
       /\ a.expires_at >= a.created_at + 2 * Week

IInv == ApprovalTypeOK /\ \A i \in Id : Waiting(i)

\* The lifetime of a request is a positive number.
LEMMA TtlPositive == \A r \in BOOLEAN : Ttl(r) \in Nat \ {0}
  BY ApprovalAssumption DEF Ttl

\* Only the store's empty places have the status NONE.
LEMMA Present ==
  ASSUME ApprovalTypeOK, NEW i \in Id, items[i].status \in Active \cup Terminal
  PROVE  items[i] \in Approval /\ i \in 1..seq
<1>1. items[i] # NoApproval
  BY DEF NoApproval, Active, Terminal
<1> QED
  BY <1>1 DEF ApprovalTypeOK, Id

\* The three things refresh() does to an active request: nothing, the end, or
\* the one repetition, which lasts a whole Week from now.
LEMMA RefreshedCases ==
  ASSUME IInv, NEW j \in Id, refresh(j)
  PROVE  LET a == items[j]
             new == Refreshed(a)
         IN  /\ a \in Approval /\ new \in Approval
             /\ \/ new = a /\ asked' = asked
                \/ /\ new = [a EXCEPT !.status = "EXPIRED"]
                   /\ new.status = "EXPIRED" /\ asked' = asked
                   /\ current = a.signal =>
                        /\ now >= a.expires_at
                        /\ a.rerequestable => a.status = "RE_REQUESTED"
                \/ /\ a.status = "PENDING" /\ a.rerequestable
                   /\ new.status = "RE_REQUESTED" /\ new.rerequestable
                   /\ new.expires_at = now + Week
                   /\ new.expires_at >= new.created_at + 2 * Week
                   /\ asked' = [asked EXCEPT ![j] = @ + 1]
<1> DEFINE a == items[j]
           new == Refreshed(a)
<1> USE ApprovalAssumption
<1>1. /\ a \in Approval /\ a.status \in Active /\ Waiting(j)
      /\ asked' = IF new.expires_at = a.expires_at THEN asked
                  ELSE [asked EXCEPT ![j] = @ + 1]
  BY Present DEF refresh, IInv
<1>2. /\ now \in Nat /\ a.created_at \in Nat /\ a.expires_at \in Nat
      /\ a.rerequestable \in BOOLEAN /\ a.status \in {"PENDING", "RE_REQUESTED"}
  BY <1>1 DEF IInv, ApprovalTypeOK, Approval, Active
<1>3. CASE new = a
  BY <1>1, <1>3
<1>4. CASE /\ new = [a EXCEPT !.status = "EXPIRED"]
           /\ current = a.signal =>
                /\ ~ (now < a.expires_at)
                /\ ~ (a.rerequestable /\ a.status = "PENDING")
  <2>1. /\ new \in Approval /\ new.status = "EXPIRED"
        /\ new.expires_at = a.expires_at
    BY <1>1, <1>4 DEF Approval, Terminal
  <2> QED
    BY <1>1, <1>2, <1>4, <2>1
<1>5. CASE /\ ~ (now < a.expires_at) /\ a.rerequestable /\ a.status = "PENDING"
           /\ new = [a EXCEPT !.status = "RE_REQUESTED",
                              !.expires_at = now + (a.expires_at - a.created_at)]
  <2>1. a.expires_at = a.created_at + Week
    BY <1>1, <1>5 DEF Waiting, Ttl
  <2>2. now + (a.expires_at - a.created_at) = now + Week /\ now + Week \in Nat
    BY <1>2, <2>1
  <2>3. /\ new \in Approval /\ new.status = "RE_REQUESTED" /\ new.rerequestable
        /\ new.expires_at = now + Week /\ new.created_at = a.created_at
    BY <1>1, <1>5, <2>2 DEF Approval, Active
  <2>4. /\ new.expires_at # a.expires_at
        /\ new.expires_at >= new.created_at + 2 * Week
    BY <1>2, <1>5, <2>1, <2>3
  <2> QED
    BY <1>1, <1>5, <2>3, <2>4
<1>6. \/ new = a
      \/ /\ new = [a EXCEPT !.status = "EXPIRED"]
         /\ current = a.signal =>
              /\ ~ (now < a.expires_at)
              /\ ~ (a.rerequestable /\ a.status = "PENDING")
      \/ /\ ~ (now < a.expires_at) /\ a.rerequestable /\ a.status = "PENDING"
         /\ new = [a EXCEPT !.status = "RE_REQUESTED",
                            !.expires_at = now + (a.expires_at - a.created_at)]
  BY DEF Refreshed
<1> QED
  BY <1>3, <1>4, <1>5, <1>6

LEMMA InitIInv == Init => IInv
<1> SUFFICES ASSUME Init PROVE IInv
  OBVIOUS
<1>1. ApprovalTypeOK
  BY ApprovalAssumption DEF Init, ApprovalTypeOK, Id
<1>2. \A i \in Id : items[i].status = "NONE" /\ asked[i] = 0
  BY DEF Init, NoApproval
<1> QED
  BY <1>1, <1>2 DEF IInv, Waiting

\* A step that writes one record and counts for it alone keeps the invariant,
\* if the record is well formed.
LEMMA OneRecordKeepsIInv ==
  ASSUME IInv, NEW j \in Id, NEW new \in Approval, NEW n \in Nat,
         items' = [items EXCEPT ![j] = new], asked' = [asked EXCEPT ![j] = n],
         seq' \in 0..MaxRequests, \A i \in Id : i > seq' <=> i > seq /\ i # j,
         UNCHANGED <<now, current>>,
         new.status = "PENDING" =>
           n = 1 /\ new.expires_at = new.created_at + Ttl(new.rerequestable),
         new.status = "RE_REQUESTED" =>
           /\ n = 2 /\ new.rerequestable
           /\ new.expires_at >= new.created_at + 2 * Week
  PROVE  IInv'
<1>1. /\ items'[j] = new /\ asked'[j] = n
      /\ \A i \in Id : i # j => items'[i] = items[i] /\ asked'[i] = asked[i]
  BY DEF IInv, ApprovalTypeOK
<1>2. new.status # "NONE" /\ new # NoApproval
  BY DEF Approval, NoApproval, Active, Terminal
<1>3. \A i \in Id : items'[i] = NoApproval <=> i > seq'
  BY <1>1, <1>2 DEF IInv, ApprovalTypeOK
<1>4. ApprovalTypeOK'
  BY <1>3 DEF IInv, ApprovalTypeOK
<1>5. \A i \in Id : Waiting(i)'
  BY <1>1, <1>2 DEF IInv, Waiting, Ttl
<1> QED
  BY <1>4, <1>5 DEF IInv

LEMMA RequestKeepsIInv ==
  ASSUME IInv, NEW r \in BOOLEAN, request(r)
  PROVE  IInv'
<1> DEFINE new == [signal |-> current, status |-> "PENDING",
                   created_at |-> now, expires_at |-> now + Ttl(r),
                   rerequestable |-> r, responded_at |-> NoTime]
<1> USE ApprovalAssumption
<1>1. /\ seq + 1 \in Id /\ seq' = seq + 1 /\ UNCHANGED <<now, current>>
      /\ items' = [items EXCEPT ![seq + 1] = new]
      /\ asked' = [asked EXCEPT ![seq + 1] = 1]
      /\ seq \in Nat /\ seq' \in 0..MaxRequests
  BY DEF request, IInv, ApprovalTypeOK, Id
<1>2. new \in Approval
  BY TtlPositive DEF IInv, ApprovalTypeOK, Approval, Active, NoTime
<1>3. /\ new.status = "PENDING"
      /\ new.expires_at = new.created_at + Ttl(new.rerequestable)
  OBVIOUS
<1>4. \A i \in Id : i > seq' <=> i > seq /\ i # seq + 1
  BY <1>1 DEF Id
<1> HIDE DEF new
<1> QED
  BY <1>1, <1>2, <1>3, <1>4, OneRecordKeepsIInv

LEMMA RespondKeepsIInv ==
  ASSUME IInv, NEW j \in Id, NEW answer \in {"APPROVED", "REJECTED"},
         respond(j, answer)
  PROVE  IInv'
<1> DEFINE new == [items[j] EXCEPT !.status = answer, !.responded_at = now]
<1>1. /\ items[j] \in Approval /\ j \in 1..seq
      /\ items' = [items EXCEPT ![j] = new]
      /\ UNCHANGED <<now, current, seq, asked>>
  BY Present DEF respond, IInv
<1>2. new \in Approval /\ new.status = answer
  <2>1. answer \in Active \cup Terminal /\ now \in 0..NoTime
    BY ApprovalAssumption DEF IInv, ApprovalTypeOK, Active, Terminal, NoTime
  <2> QED
    BY <1>1, <2>1 DEF Approval
<1>3. asked' = [asked EXCEPT ![j] = asked[j]] /\ asked[j] \in Nat
  BY <1>1 DEF IInv, ApprovalTypeOK
<1>4. seq' \in 0..MaxRequests /\ \A i \in Id : i > seq' <=> i > seq /\ i # j
  BY <1>1 DEF IInv, ApprovalTypeOK, Id
<1> HIDE DEF new
<1> QED
  BY <1>1, <1>2, <1>3, <1>4, OneRecordKeepsIInv

LEMMA RefreshKeepsIInv ==
  ASSUME IInv, NEW j \in Id, refresh(j)
  PROVE  IInv'
<1> DEFINE a == items[j]
           new == Refreshed(a)
<1>1. /\ a \in Approval /\ j \in 1..seq /\ Waiting(j)
      /\ items' = [items EXCEPT ![j] = new]
      /\ UNCHANGED <<now, current, seq>>
  BY Present DEF refresh, IInv
<1>2. /\ seq' \in 0..MaxRequests /\ asked[j] \in Nat
      /\ \A i \in Id : i > seq' <=> i > seq /\ i # j
      /\ asked = [asked EXCEPT ![j] = asked[j]]
  BY <1>1 DEF IInv, ApprovalTypeOK, Id
<1> HIDE DEF new
<1>3. CASE new = a /\ asked' = asked
  BY <1>1, <1>2, <1>3, OneRecordKeepsIInv DEF Waiting
<1>4. CASE new \in Approval /\ new.status = "EXPIRED" /\ asked' = asked
  BY <1>1, <1>2, <1>4, OneRecordKeepsIInv
<1>5. CASE /\ new \in Approval /\ a.status = "PENDING"
           /\ new.status = "RE_REQUESTED" /\ new.rerequestable
           /\ new.expires_at >= new.created_at + 2 * Week
           /\ asked' = [asked EXCEPT ![j] = @ + 1]
  <2>1. asked[j] + 1 = 2
    BY <1>1, <1>5 DEF Waiting
  <2>2. asked' = [asked EXCEPT ![j] = 2]
    BY <1>5, <2>1
  <2> QED
    BY <1>1, <1>2, <1>5, <2>2, OneRecordKeepsIInv
<1> QED
  BY <1>3, <1>4, <1>5, RefreshedCases DEF new

LEMMA NextKeepsIInv == IInv /\ [Next]_vars => IInv'
<1> SUFFICES ASSUME IInv, [Next]_vars PROVE IInv'
  OBVIOUS
<1>1. ASSUME NEW r \in BOOLEAN, request(r) PROVE IInv'
  BY <1>1, RequestKeepsIInv
<1>2. ASSUME NEW i \in Id, respond(i, "APPROVED") \/ respond(i, "REJECTED")
      PROVE  IInv'
  BY <1>2, RespondKeepsIInv
<1>3. ASSUME NEW i \in Id, refresh(i) PROVE IInv'
  BY <1>3, RefreshKeepsIInv
<1>4. CASE Tick \/ SignalChange \/ UNCHANGED vars
  <2>1. /\ now' \in 0..MaxTime /\ current' \in Signal
        /\ UNCHANGED <<items, seq, asked>>
    BY <1>4, ApprovalAssumption
    DEF Tick, SignalChange, vars, store, IInv, ApprovalTypeOK
  <2> QED
    BY <2>1 DEF IInv, ApprovalTypeOK, Waiting, Ttl
<1> QED
  BY <1>1, <1>2, <1>3, <1>4 DEF Next

THEOREM ApprovalInvariant == Spec => []IInv
  BY InitIInv, NextKeepsIInv, PTL DEF Spec

\* The store keeps well-formed records under the ids it has given.
THEOREM ApprovalTypeCorrect == Spec => []ApprovalTypeOK
<1>1. IInv => ApprovalTypeOK
  BY DEF IInv
<1> QED
  BY <1>1, ApprovalInvariant, PTL

------------------------------------------------------------------------------
(* No request lapses before its time *)

\* Only refresh() ends a request unanswered.
LEMMA LapseIsRefresh ==
  ASSUME IInv, [Next]_vars, NEW i \in 1..seq,
         items[i].status \in Active, items'[i].status = "EXPIRED"
  PROVE  refresh(i)
<1>1. i \in Id /\ items \in [Id -> Approval \cup {NoApproval}] /\ seq \in Nat
  BY ApprovalAssumption DEF IInv, ApprovalTypeOK, Id
<1>2. items'[i] # items[i]
  BY DEF Active
<1>3. ASSUME NEW r \in BOOLEAN, request(r) PROVE FALSE
  BY <1>1, <1>2, <1>3 DEF request
<1>4. ASSUME NEW j \in Id, NEW answer \in {"APPROVED", "REJECTED"},
             respond(j, answer)
      PROVE  FALSE
  <2> DEFINE new == [items[j] EXCEPT !.status = answer, !.responded_at = now]
  <2>1. items' = [items EXCEPT ![j] = new] /\ items[j] \in Approval
    BY <1>4, Present DEF respond, IInv
  <2>2. new.status = answer
    BY <2>1 DEF Approval
  <2> HIDE DEF new
  <2> QED
    BY <2>1, <2>2, <1>1, <1>2
<1>5. ASSUME NEW j \in Id, refresh(j) PROVE refresh(i)
  BY <1>1, <1>2, <1>5 DEF refresh
<1>6. CASE Tick \/ SignalChange \/ UNCHANGED vars
  BY <1>2, <1>6 DEF Tick, SignalChange, vars, store
<1> QED
  BY <1>3, <1>4, <1>5, <1>6 DEF Next

LEMMA LapseWhenDueStep ==
  ASSUME IInv, [Next]_vars, NEW i \in 1..seq,
         items[i].status \in Active, items[i].signal = current,
         items'[i].status = "EXPIRED"
  PROVE  now >= items[i].created_at
           + (IF items[i].rerequestable THEN 2 ELSE 1) * Ttl(items[i].rerequestable)
<1> DEFINE a == items[i]
           new == Refreshed(a)
<1>1. refresh(i) /\ i \in Id
  BY LapseIsRefresh, ApprovalAssumption DEF IInv, ApprovalTypeOK, Id
<1>2. items' = [items EXCEPT ![i] = new] /\ items'[i] = new
  BY <1>1 DEF refresh, IInv, ApprovalTypeOK
<1>3. /\ a \in Approval /\ now >= a.expires_at
      /\ a.rerequestable => a.status = "RE_REQUESTED"
  BY <1>1, <1>2, RefreshedCases DEF Active
<1>4. /\ now \in Nat /\ a.created_at \in Nat /\ a.expires_at \in Nat
      /\ a.rerequestable \in BOOLEAN /\ a.status \in Active /\ Waiting(i)
  BY <1>1, <1>3 DEF IInv, ApprovalTypeOK, Approval
<1>5. CASE a.rerequestable
  <2>1. a.expires_at >= a.created_at + 2 * Week /\ Week \in Nat
    BY <1>3, <1>4, <1>5, ApprovalAssumption DEF Waiting
  <2>2. now >= a.created_at + 2 * Week
    BY <1>3, <1>4, <2>1
  <2> QED
    BY <1>5, <2>2 DEF Ttl
<1>6. CASE ~ a.rerequestable
  <2>1. a.status = "PENDING"
    BY <1>4, <1>6 DEF Waiting, Active
  <2>2. a.expires_at = a.created_at + HalfDay /\ HalfDay \in Nat
    BY <1>4, <1>6, <2>1, ApprovalAssumption DEF Waiting, Ttl
  <2>3. now >= a.created_at + HalfDay
    BY <1>3, <1>4, <2>2
  <2> QED
    BY <1>6, <2>2, <2>3 DEF Ttl
<1> QED
  BY <1>4, <1>5, <1>6

\* However late it is checked, a request whose signal holds has had all of
\* its time, and its repetition too, before it lapses.
THEOREM EveryTermIsServed == Spec => LapsesWhenDue
<1>1. IInv /\ [Next]_vars =>
        [\A i \in 1..seq :
           LET a == items[i]
               rounds == IF a.rerequestable THEN 2 ELSE 1
           IN /\ a.status \in Active /\ a.signal = current
              /\ items'[i].status = "EXPIRED"
              => now >= a.created_at + rounds * Ttl(a.rerequestable)]_vars
  BY LapseWhenDueStep
<1> QED
  BY <1>1, ApprovalInvariant, PTL DEF Spec, LapsesWhenDue

------------------------------------------------------------------------------
(* ApprovalManager implements Consent *)

Verdicts == [i \in Id |-> VerdictOf(items[i])]

LEMMA VerdictFacts ==
  /\ \A a : a.status \in Active => VerdictOf(a) = "open"
  /\ VerdictOf(NoApproval) = "none"
  /\ \A a : a.status \in Terminal => VerdictOf(a) \in Asked!Verdict
  BY DEF VerdictOf, NoApproval, Active, Terminal, Asked!Verdict

\* A step that writes one record changes the verdict of one id.
LEMMA OneRecord ==
  ASSUME IInv, NEW j \in Id, NEW new, items' = [items EXCEPT ![j] = new]
  PROVE  Verdicts' = [Verdicts EXCEPT ![j] = VerdictOf(new)]
<1>1. items'[j] = new /\ \A i \in Id : i # j => items'[i] = items[i]
  BY DEF IInv, ApprovalTypeOK
<1>2. Verdicts' = [i \in Id |-> VerdictOf(items'[i])]
  BY DEF Verdicts, VerdictOf, Active
<1>3. \A i \in Id : VerdictOf(items'[i]) =
        IF i = j THEN VerdictOf(new) ELSE Verdicts[i]
  BY <1>1 DEF Verdicts
<1>4. Verdicts' = [i \in Id |-> IF i = j THEN VerdictOf(new) ELSE Verdicts[i]]
  BY <1>2, <1>3, Zenon
<1> QED
  BY <1>4, Zenon DEF Verdicts

LEMMA RequestAsks ==
  ASSUME IInv, NEW r \in BOOLEAN, request(r)
  PROVE  Asked!Next
<1> DEFINE new == [signal |-> current, status |-> "PENDING",
                   created_at |-> now, expires_at |-> now + Ttl(r),
                   rerequestable |-> r, responded_at |-> NoTime]
<1>1. /\ seq + 1 \in Id /\ items' = [items EXCEPT ![seq + 1] = new]
      /\ asked' = [asked EXCEPT ![seq + 1] = 1]
  BY ApprovalAssumption DEF request, IInv, ApprovalTypeOK, Id
<1>2. items[seq + 1] = NoApproval
  BY <1>1 DEF IInv, ApprovalTypeOK, Id
<1>3. VerdictOf(new) = "open"
  BY DEF VerdictOf, Active
<1> HIDE DEF new
<1>4. Verdicts' = [Verdicts EXCEPT ![seq + 1] = "open"]
  BY <1>1, <1>3, OneRecord
<1>5. Verdicts[seq + 1] = "none"
  BY <1>1, <1>2, VerdictFacts DEF Verdicts
<1>6. Asked!Ask(seq + 1)
  BY <1>1, <1>4, <1>5 DEF Asked!Ask, Verdicts
<1> QED
  BY <1>1, <1>6 DEF Asked!Next

\* A record that ends, and is not put to the user again, decides its question.
LEMMA EndDecides ==
  ASSUME IInv, NEW j \in Id, items[j].status \in Active, NEW new,
         items' = [items EXCEPT ![j] = new],
         new.status \in Terminal, asked' = asked
  PROVE  Asked!Next
<1>1. VerdictOf(new) \in Asked!Verdict /\ Verdicts[j] = "open"
  BY VerdictFacts DEF Verdicts
<1>2. Verdicts' = [Verdicts EXCEPT ![j] = VerdictOf(new)]
  BY OneRecord
<1>3. Asked!Decide(j)
  BY <1>1, <1>2 DEF Asked!Decide, Verdicts
<1> QED
  BY <1>3 DEF Asked!Next

LEMMA RefreshRefines ==
  ASSUME IInv, NEW j \in Id, refresh(j)
  PROVE  Asked!Next \/ UNCHANGED Asked!vars
<1> DEFINE a == items[j]
           new == Refreshed(a)
<1>1. /\ a \in Approval /\ a.status \in Active /\ Waiting(j)
      /\ items' = [items EXCEPT ![j] = new]
  BY Present DEF refresh, IInv
<1> HIDE DEF new
<1>2. CASE new = a /\ asked' = asked
  <2>1. items' = items
    BY <1>1, <1>2 DEF IInv, ApprovalTypeOK
  <2> QED
    BY <1>2, <2>1 DEF Asked!vars, VerdictOf, Active
<1>3. CASE new.status = "EXPIRED" /\ asked' = asked
  BY <1>1, <1>3, EndDecides DEF Terminal
<1>4. CASE /\ a.status = "PENDING" /\ new.status = "RE_REQUESTED"
           /\ asked' = [asked EXCEPT ![j] = @ + 1]
  <2>1. asked[j] = 1 /\ asked' = [asked EXCEPT ![j] = 2]
    <3>1. asked[j] = 1 /\ asked[j] + 1 = 2
      BY <1>1, <1>4 DEF Waiting
    <3> QED
      BY <1>4, <3>1
  <2>2. VerdictOf(a) = "open" /\ VerdictOf(new) = "open"
    BY <1>1, <1>4, VerdictFacts DEF Active
  <2>3. Verdicts' = [Verdicts EXCEPT ![j] = "open"] /\ Verdicts[j] = "open"
    BY <1>1, <2>2, OneRecord DEF Verdicts
  <2>4. Verdicts' = Verdicts
    BY <2>3 DEF Verdicts
  <2>5. Asked!AskAgain(j)
    BY <2>1, <2>3, <2>4 DEF Asked!AskAgain, Verdicts
  <2> QED
    BY <2>5 DEF Asked!Next
<1> QED
  BY <1>2, <1>3, <1>4, RefreshedCases DEF new

LEMMA RespondDecides ==
  ASSUME IInv, NEW j \in Id, NEW answer \in {"APPROVED", "REJECTED"},
         respond(j, answer)
  PROVE  Asked!Next
<1> DEFINE new == [items[j] EXCEPT !.status = answer, !.responded_at = now]
<1>1. /\ items[j] \in Approval /\ items[j].status \in Active
      /\ items' = [items EXCEPT ![j] = new] /\ asked' = asked
  BY Present DEF respond, IInv
<1>2. new.status \in Terminal
  BY <1>1 DEF Approval, Terminal
<1> QED
  BY <1>1, <1>2, EndDecides

LEMMA StepRefines == IInv /\ [Next]_vars => [Asked!Next]_Asked!vars
<1> SUFFICES ASSUME IInv, [Next]_vars PROVE Asked!Next \/ UNCHANGED Asked!vars
  OBVIOUS
<1>1. ASSUME NEW r \in BOOLEAN, request(r) PROVE Asked!Next
  BY <1>1, RequestAsks
<1>2. ASSUME NEW i \in Id, respond(i, "APPROVED") \/ respond(i, "REJECTED")
      PROVE  Asked!Next
  BY <1>2, RespondDecides
<1>3. ASSUME NEW i \in Id, refresh(i) PROVE Asked!Next \/ UNCHANGED Asked!vars
  BY <1>3, RefreshRefines
<1>4. CASE Tick \/ SignalChange \/ UNCHANGED vars
  <2>1. UNCHANGED <<items, asked>>
    BY <1>4 DEF Tick, SignalChange, vars, store
  <2> QED
    BY <2>1 DEF Asked!vars, VerdictOf, Active
<1> QED
  BY <1>1, <1>2, <1>3, <1>4 DEF Next

\* A question is put at most twice and its first verdict is final.
THEOREM ManagerImplementsConsent == Spec => ImplementsConsent
<1>1. Init => Asked!Init
  BY VerdictFacts DEF Init, Asked!Init
<1> QED
  BY <1>1, StepRefines, ApprovalInvariant, PTL DEF Spec, ImplementsConsent, Asked!Spec
==============================================================================

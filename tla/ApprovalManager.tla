--------------------------- MODULE ApprovalManager ---------------------------
(***************************************************************************)
(* approval_manager.py: requests for the user's approval of a signal, their*)
(* expiry and the one repetition, over a store and a clock.  Whoever uses  *)
(* the manager is outside, and nothing is assumed of it: requests, answers *)
(* and calls of refresh() come at any time, or never.                      *)
(***************************************************************************)
EXTENDS Naturals

CONSTANTS
  MaxRequests,   \* bound on the requests made
  MaxTime,       \* bound on the clock
  Signal,        \* the signals an approval may be about
  Week,          \* ttl of a request that is repeated once (SEVEN_DAYS)
  HalfDay        \* ttl of a request that is not (an outlier: 12 hours)

ASSUME ApprovalAssumption ==
  /\ MaxRequests \in Nat /\ MaxTime \in Nat
  /\ Week \in Nat \ {0} /\ HalfDay \in Nat \ {0}

VARIABLES
  now,       \* the clock
  current,   \* what the strategy would do now
  items,     \* the store, one record for each id
  seq        \* the latest id given

\* History: how often each request was put to the user.
VARIABLE asked

store == <<items, seq>>
vars == <<now, current, store, asked>>

Id == 1..MaxRequests
Active == {"PENDING", "RE_REQUESTED"}
Terminal == {"APPROVED", "REJECTED", "EXPIRED"}
NoTime == MaxTime + 1                   \* responded_at = None

Approval ==
  [signal : Signal, status : Active \cup Terminal,
   created_at : 0..MaxTime, expires_at : Nat, rerequestable : BOOLEAN,
   responded_at : 0..NoTime]
NoApproval == [status |-> "NONE"]

ApprovalTypeOK ==
  /\ now \in 0..MaxTime /\ current \in Signal
  /\ seq \in 0..MaxRequests
  /\ items \in [Id -> Approval \cup {NoApproval}]
  /\ \A i \in Id : items[i] = NoApproval <=> i > seq
  /\ asked \in [Id -> Nat]

Ttl(rerequestable) == IF rerequestable THEN Week ELSE HalfDay

Init ==
  /\ now = 0 /\ current \in Signal
  /\ items = [i \in Id |-> NoApproval] /\ seq = 0
  /\ asked = [i \in Id |-> 0]

------------------------------------------------------------------------------
\* Mutated form of request: stored under the id before its own.
request_previous_id(rerequestable) ==
  /\ seq < MaxRequests
  /\ seq' = seq + 1
  /\ items' = [items EXCEPT ![seq] =
       [signal |-> current, status |-> "PENDING",
        created_at |-> now, expires_at |-> now + Ttl(rerequestable),
        rerequestable |-> rerequestable, responded_at |-> NoTime]]
  /\ asked' = [asked EXCEPT ![seq + 1] = 1]
  /\ UNCHANGED <<now, current>>

\* request(kind, signal, ttl_seconds, rerequestable)
request(rerequestable) ==
  /\ seq < MaxRequests
  /\ seq' = seq + 1
  /\ items' = [items EXCEPT ![seq + 1] =
       [signal |-> current, status |-> "PENDING",
        created_at |-> now, expires_at |-> now + Ttl(rerequestable),
        rerequestable |-> rerequestable, responded_at |-> NoTime]]
  /\ asked' = [asked EXCEPT ![seq + 1] = 1]
  /\ UNCHANGED <<now, current>>

\* _respond(), the body of approve() and reject().  A request that is over
\* stays as it is.  Neither the clock nor the signal is looked at: a request
\* whose time has run out is not over before a refresh() has said so.
respond(i, answer) ==
  /\ items[i].status \in Active
  /\ items' = [items EXCEPT ![i].status = answer, ![i].responded_at = now]
  /\ UNCHANGED <<now, current, seq, asked>>

\* Mutated form of Refreshed: a request may be repeated again and again.
RefreshedForEver(a) ==
  IF current # a.signal THEN [a EXCEPT !.status = "EXPIRED"]
  ELSE IF now < a.expires_at THEN a
  ELSE IF a.rerequestable
    THEN [a EXCEPT !.status = "RE_REQUESTED",
                   !.expires_at = now + (a.expires_at - a.created_at)]
    ELSE [a EXCEPT !.status = "EXPIRED"]

\* Mutated form of Refreshed: the repeated request keeps its old expiry.
RefreshedInOldTime(a) ==
  IF current # a.signal THEN [a EXCEPT !.status = "EXPIRED"]
  ELSE IF now < a.expires_at THEN a
  ELSE IF a.rerequestable /\ a.status = "PENDING"
    THEN [a EXCEPT !.status = "RE_REQUESTED"]
    ELSE [a EXCEPT !.status = "EXPIRED"]

\* What refresh() makes of an active request.
Refreshed(a) ==
  IF current # a.signal THEN [a EXCEPT !.status = "EXPIRED"]
  ELSE IF now < a.expires_at THEN a
  ELSE IF a.rerequestable /\ a.status = "PENDING"
    THEN [a EXCEPT !.status = "RE_REQUESTED",
                   !.expires_at = now + (a.expires_at - a.created_at)]
    ELSE [a EXCEPT !.status = "EXPIRED"]

\* refresh(), called with the signal of the moment; history counts a request
\* that stays open with a new expiry as put to the user once more.
refresh(i) ==
  LET new == Refreshed(items[i]) IN
  /\ items[i].status \in Active
  /\ items' = [items EXCEPT ![i] = new]
  /\ asked' = IF new.expires_at = items[i].expires_at THEN asked
              ELSE [asked EXCEPT ![i] = @ + 1]
  /\ UNCHANGED <<now, current, seq>>

------------------------------------------------------------------------------
(* The rest of the world *)

Tick ==
  /\ now < MaxTime
  /\ now' = now + 1
  /\ UNCHANGED <<current, store, asked>>

\* The momentum of the funds turns.
SignalChange ==
  /\ current' \in Signal \ {current}
  /\ UNCHANGED <<now, store, asked>>

Next ==
  \/ \E r \in BOOLEAN : request(r)
  \/ \E i \in Id : \/ respond(i, "APPROVED") \/ respond(i, "REJECTED")
                   \/ refresh(i)
  \/ Tick \/ SignalChange

Spec == Init /\ [][Next]_vars

------------------------------------------------------------------------------
(* Properties *)

\* "7 days, and one repetition": whatever the order of answers, checks and
\* changes of the signal, a request is put to the user twice at the most and
\* its first verdict is final.
VerdictOf(a) ==
  CASE a.status = "NONE" -> "none"
    [] a.status \in Active -> "open"
    [] a.status = "APPROVED" -> "granted"
    [] a.status = "REJECTED" -> "refused"
    [] a.status = "EXPIRED" -> "lapsed"

Asked == INSTANCE Consent WITH
  verdict <- [i \in Id |-> VerdictOf(items[i])]
ImplementsConsent == Asked!Spec

\* A request whose signal still holds lapses only after all of its time: 12
\* hours for an outlier, seven days twice for a signal.  However late the
\* check that repeats it, the repetition lasts another seven days.
LapsesWhenDue ==
  [][\A i \in 1..seq :
       LET a == items[i]
           rounds == IF a.rerequestable THEN 2 ELSE 1
       IN /\ a.status \in Active /\ a.signal = current
          /\ items'[i].status = "EXPIRED"
          => now >= a.created_at + rounds * Ttl(a.rerequestable)]_vars
==============================================================================

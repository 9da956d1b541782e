------------------------- MODULE CommandRouterProofs -------------------------
(***************************************************************************)
(* For any number of threads, messages and crashes: a message changes the  *)
(* system once, what was liquidated stays paused, and a liquidation code   *)
(* is good for its minute.  The core of it is that the messages a prompt   *)
(* or a thread rests on belong to that prompt or thread alone.             *)
(***************************************************************************)
EXTENDS CommandRouter, TLAPS

\* What a thread at each call may be about.
KindsAt(call) ==
  CASE call = "is_paused"  -> {"pause", "resume"}
    [] call = "get_mode"   -> {"virtual", "real"}
    [] call = "set_mode"   -> {"virtual", "real"}
    [] call = "nav"        -> {"deposit"}
    [] call = "ask"        -> Prompt
    [] OTHER               -> Kind

KindFits == \A t \in Thread : job[t].kind \in KindsAt(job[t].call)

\* No message comes from the future.
SentBefore == \A u \in DOMAIN queue : queue[u].at <= clock

TInv == TypeOK /\ KindFits /\ SentBefore

\* What becomes of the job of one thread, and of the others.
OnlyJob(t, new) ==
  /\ job' \in [Thread -> Job]
  /\ job'[t] = new
  /\ \A o \in Thread \ {t} : job'[o] = job[o]

LEMMA GoToJob ==
  ASSUME TypeOK, NEW t \in Thread, NEW call \in Call, GoTo(t, call)
  PROVE  /\ OnlyJob(t, job'[t])
         /\ job'[t].call = call
         /\ call = "reply" => job'[t].basis = {} /\ job'[t].kind = "status"
         /\ call # "reply" => /\ job'[t].basis = job[t].basis
                              /\ job'[t].kind = job[t].kind
<1>1. job \in [Thread -> Job] /\ Idle \in Job
  BY DEF TypeOK, Idle, Job, Kind
<1>2. CASE call = "reply"
  <2>1. job' = [job EXCEPT ![t] =
                 [Idle EXCEPT !.call = call, !.update = job[t].update]]
    BY <1>2 DEF GoTo
  <2>2. [Idle EXCEPT !.call = call, !.update = job[t].update] \in Job
    BY <1>1 DEF Job
  <2> QED
    BY <1>1, <1>2, <2>1, <2>2 DEF OnlyJob, Idle
<1>3. CASE call # "reply"
  <2>1. job' = [job EXCEPT ![t] = [job[t] EXCEPT !.call = call]]
    BY <1>3 DEF GoTo
  <2>2. [job[t] EXCEPT !.call = call] \in Job
    BY <1>1 DEF Job
  <2> QED
    BY <1>1, <1>3, <2>1, <2>2 DEF OnlyJob, Job
<1> QED
  BY <1>2, <1>3

LEMMA FinishJob ==
  ASSUME TypeOK, NEW t \in Thread, Finish(t)
  PROVE  /\ OnlyJob(t, Idle)
         /\ DOMAIN queue' \subseteq DOMAIN queue
         /\ \A u \in DOMAIN queue' : queue'[u] = queue[u]
BY DEF TypeOK, Finish, Answer, OnlyJob, Idle, Job, Kind

LEMMA StartJob ==
  ASSUME TypeOK, NEW t \in Thread, NEW u \in Update, NEW basis, basis \subseteq Update,
         NEW what \in Kind \X Call, Start(t, u, what, basis)
  PROVE  /\ OnlyJob(t, job'[t])
         /\ job'[t].call = what[2] /\ job'[t].kind = what[1]
         /\ what[2] = "reply" => job'[t].basis = {}
         /\ what[2] # "reply" => job'[t].basis = basis \cup {u}
<1> DEFINE new == [call |-> what[2], update |-> u, kind |-> what[1],
                   basis |-> IF what[2] = "reply" THEN {} ELSE basis \cup {u}]
<1>1. new \in Job
  BY DEF Job
<1>2. job' = [job EXCEPT ![t] = new]
  BY DEF Start
<1> QED
  BY <1>1, <1>2 DEF TypeOK, OnlyJob

\* The kind and the call fit together, and nothing is changed without more.
Fit(what) ==
  /\ what \in Kind \X Call
  /\ what[1] \in KindsAt(what[2])
  /\ what[2] \notin {"liquidate", "trade_mode", "record_trade"}

\* Where a delivery leads: a command starts afresh, a good answer takes over
\* the messages of the prompt, any other answer ends here.
LEMMA HandleJob ==
  ASSUME TInv, NEW t \in Thread, NEW u \in Update, Handle(t, u)
  PROVE  /\ OnlyJob(t, job'[t])
         /\ job'[t].call \in Call \ {"liquidate", "trade_mode", "record_trade"}
         /\ job'[t].kind \in KindsAt(job'[t].call)
         /\ \/ job'[t].basis \in {{}, {u}}
            \/ pending # NoPending /\ job'[t].basis = pending.basis \cup {u}
<1> DEFINE text == queue[u].text
<1>0. TypeOK
  BY DEF TInv
<1>1. CASE IsAnswer(text)
  <2>1. pending # NoPending /\ pending.basis \subseteq Update
        /\ pending.kind \in Prompt
    BY <1>0, <1>1 DEF TypeOK, IsAnswer, Pending
  <2> DEFINE what == IF Confirms(text) THEN Confirmed ELSE <<"status", "reply">>
  <2>2. Fit(Confirmed) /\ Confirmed[2] # "reply"
    BY <2>1 DEF Confirmed, Fit, Prompt, Kind, Call, KindsAt
  <2>3. Fit(<<"status", "reply">>)
    BY DEF Fit, Kind, Call, KindsAt
  <2>4. Start(t, u, what, pending.basis)
    BY <1>1 DEF Handle
  <2>5. Fit(what)
    BY <2>2, <2>3
  <2> DEFINE basis == pending.basis
  <2>6. what \in Kind \X Call /\ Start(t, u, what, basis) /\ basis \subseteq Update
    BY <2>1, <2>4, <2>5 DEF Fit
  <2> HIDE DEF what, basis
  <2>7. /\ OnlyJob(t, job'[t])
        /\ job'[t].call = what[2] /\ job'[t].kind = what[1]
        /\ what[2] = "reply" => job'[t].basis = {}
        /\ what[2] # "reply" => job'[t].basis = basis \cup {u}
    BY <1>0, <2>6, StartJob
  <2>8. what[2] \in Call
    BY <2>6
  <2> QED
    BY <2>1, <2>5, <2>7, <2>8 DEF Fit, basis
<1>2. CASE ~IsAnswer(text)
  <2> DEFINE what == FirstCall(text)
  <2>1. Fit(what)
    BY DEF FirstCall, Fit, Prompt, Kind, Call, KindsAt
  <2>2. Start(t, u, what, {})
    BY <1>2 DEF Handle
  <2> HIDE DEF what
  <2>3. what \in Kind \X Call /\ {} \subseteq Update
    BY <2>1 DEF Fit
  <2>4. /\ OnlyJob(t, job'[t])
        /\ job'[t].call = what[2] /\ job'[t].kind = what[1]
        /\ what[2] = "reply" => job'[t].basis = {}
        /\ what[2] # "reply" => job'[t].basis = {} \cup {u}
    BY <1>0, <2>2, <2>3, StartJob
  <2>5. what[2] \in Call
    BY <2>3
  <2> QED
    BY <2>1, <2>4, <2>5 DEF Fit
<1> QED
  BY <1>1, <1>2

------------------------------------------------------------------------------
(* Types *)

LEMMA TInvInit == Init => TInv
<1> SUFFICES ASSUME Init PROVE TInv
  OBVIOUS
<1> USE DEF Init
<1>1. TypeOK
  <2>1. script \in Seq(Text) /\ Len(script) \in Nat /\ Len(script) <= MaxUpdates
    BY RouterAssumption
  <2>2. queue \in [DOMAIN queue -> Message] /\ DOMAIN queue \subseteq 1..sent
    OBVIOUS
  <2>3. job \in [Thread -> Job]
    BY DEF Idle, Job, Kind
  <2>4. acts \in [Update -> Nat]
    OBVIOUS
  <2>5. sent + Len(script) <= MaxUpdates
    BY <2>1
  <2>6. paused \in BOOLEAN /\ mode \in {"virtual", "real"}
    OBVIOUS
  <2> QED
    BY <2>1, <2>2, <2>3, <2>4, <2>5, <2>6 DEF TypeOK
<1>2. KindFits
  BY DEF KindFits, KindsAt, Idle, Kind
<1>3. SentBefore
  BY DEF SentBefore
<1> QED
  BY <1>1, <1>2, <1>3 DEF TInv

\* One thread has a new job whose kind fits its call, and the queue is not
\* longer than it was.
LEMMA TInvJob ==
  ASSUME TInv, NEW t \in Thread, OnlyJob(t, job'[t]),
         job'[t].kind \in KindsAt(job'[t].call),
         UNCHANGED <<script, sent, clock, crashes>>,
         DOMAIN queue' \subseteq DOMAIN queue,
         queue' = [u \in DOMAIN queue' |-> queue[u]],
         claimed' \subseteq 1..sent, paused' \in BOOLEAN,
         mode' \in {"virtual", "real"}, pending' \in Pending \cup {NoPending},
         acts' \in [Update -> Nat], accepted' \subseteq Update,
         liquidated' \subseteq Update
  PROVE  TInv'
<1>1. TypeOK'
  BY DEF TInv, TypeOK, OnlyJob
<1>2. KindFits'
  BY DEF TInv, KindFits, OnlyJob
<1>3. SentBefore'
  BY DEF TInv, TypeOK, SentBefore
<1> QED
  BY <1>1, <1>2, <1>3 DEF TInv

LEMMA TInvWorld ==
  ASSUME TInv, Send \/ Tick \/ Crash
  PROVE  TInv'
<1> USE DEF TInv
<1>1. CASE Send
  <2> USE <1>1 DEF Send, rows, memory, bounds, ghosts
  <2>1. script # <<>> /\ script \in Seq(Text)
    BY DEF TypeOK
  <2>2. Tail(script) \in Seq(Text) /\ Len(Tail(script)) = Len(script) - 1
        /\ Head(script) \in Text /\ Len(script) \in Nat
    BY <2>1
  <2>3. queue' \in [DOMAIN queue' -> Message]
    BY <2>2 DEF TypeOK, Message
  <2>4. DOMAIN queue' \subseteq 1..sent'
    BY DEF TypeOK
  <2>5. TypeOK'
    <3>1. script' \in Seq(Text) /\ sent' \in Nat
      BY <2>2 DEF TypeOK
    <3>2. sent' + Len(script') <= MaxUpdates
      BY <2>2, RouterAssumption DEF TypeOK
    <3>3. claimed' \subseteq 1..sent'
      BY DEF TypeOK
    <3> QED
      BY <2>3, <2>4, <3>1, <3>2, <3>3 DEF TypeOK
  <2>6. SentBefore'
    BY DEF TypeOK, SentBefore
  <2>7. KindFits'
    BY DEF KindFits
  <2> QED
    BY <2>5, <2>6, <2>7
<1>2. CASE Tick
  BY <1>2 DEF Tick, telegram, rows, memory, ghosts, TypeOK, KindFits,
              SentBefore, Message
<1>3. CASE Crash
  <2>1. TypeOK'
    BY <1>3 DEF Crash, telegram, rows, ghosts, TypeOK, Idle, Job, Kind
  <2>2. KindFits' /\ SentBefore'
    BY <1>3 DEF Crash, telegram, rows, ghosts, KindFits, SentBefore,
                KindsAt, Idle, Kind
  <2> QED
    BY <2>1, <2>2
<1> QED
  BY <1>1, <1>2, <1>3

LEMMA TInvReceive ==
  ASSUME TInv, Receive
  PROVE  TInv'
<1> USE DEF TInv
<1>1. PICK u \in DOMAIN queue :
        Duplicate(u) \/ Lose(u) \/ \E t \in Thread : Deliver(t, u)
  BY DEF Receive
<1>2. CASE Duplicate(u) \/ Lose(u)
  <2> USE <1>2 DEF Duplicate, Lose, Answer, rows, memory, bounds, ghosts
  <2>1. TypeOK'
    BY DEF TypeOK
  <2>2. KindFits' /\ SentBefore'
    BY DEF KindFits, SentBefore
  <2> QED
    BY <2>1, <2>2
<1>3. CASE \E t \in Thread : Deliver(t, u)
  <2>1. PICK t \in Thread : Deliver(t, u)
    BY <1>3
  <2> USE <2>1 DEF Deliver, telegram, bounds
  <2>2. u \in 1..sent /\ u \in Update /\ sent \in Nat
    BY RouterAssumption DEF TypeOK, Update
  <2>3. OnlyJob(t, job'[t]) /\ job'[t].kind \in KindsAt(job'[t].call)
    BY <2>2, HandleJob
  <2>4. accepted' \subseteq Update
    BY DEF Note, Accepts, IsAnswer, TypeOK, Pending
  <2> QED
    BY <2>2, <2>3, <2>4, TInvJob DEF TypeOK
<1> QED
  BY <1>1, <1>2, <1>3

\* The steps of a thread, by what they do to everything but its job.
LEMMA TInvStep ==
  ASSUME TInv, NEW t \in Thread, Step(t)
  PROVE  TInv'
<1> USE DEF TInv
<1>0. job[t] \in Job /\ job[t].kind \in KindsAt(job[t].call) /\ sent \in Nat
  BY DEF TypeOK, KindFits
<1>1. CASE IsPaused(t) \/ GetMode(t) \/ Nav(t) \/ FlowMode(t) \/ TradeMode(t)
              \/ RecordTrade(t)
  <2>1. PICK call \in {"reply", "ask", "set_paused", "record_flow", "record_trade"} :
          /\ GoTo(t, call)
          /\ call = "set_paused" => job[t].call = "is_paused"
          /\ call = "ask" => \/ job[t].call = "is_paused" /\ job[t].kind = "pause"
                             \/ job[t].call \in {"get_mode", "nav"}
    BY <1>1 DEF IsPaused, GetMode, Nav, FlowMode, TradeMode, RecordTrade, Read
  <2>2. call \in Call
    BY <2>1 DEF Call
  <2>3. UNCHANGED <<script, sent, queue, claimed, paused, mode, pending, clock,
                    crashes, acts, accepted, liquidated>>
    BY <1>1 DEF IsPaused, GetMode, Nav, FlowMode, TradeMode, RecordTrade, Read, telegram, rows,
                bounds, ghosts
  <2>5. job'[t].kind \in KindsAt(job'[t].call)
    <3>1. CASE call = "reply"
      BY <2>1, <2>2, <3>1, GoToJob DEF KindsAt, Kind
    <3>2. CASE call = "ask"
      BY <1>0, <2>1, <2>2, <3>2, GoToJob DEF KindsAt, Prompt
    <3>3. CASE call = "set_paused"
      BY <1>0, <2>1, <2>2, <3>3, GoToJob DEF KindsAt, Kind, Job
    <3>4. CASE call \in {"record_flow", "record_trade"}
      BY <1>0, <2>1, <2>2, <3>4, GoToJob DEF KindsAt, Kind, Job
    <3> QED
      BY <2>1, <3>1, <3>2, <3>3, <3>4
  <2> QED
    BY <2>1, <2>2, <2>3, <2>5, GoToJob, TInvJob DEF TypeOK
<1>2. CASE Ask(t)
  <2> USE <1>2 DEF Ask, telegram, rows, bounds, ghosts
  <2>1. job[t].kind \in Prompt /\ job[t].basis \subseteq Update
    BY <1>0 DEF KindsAt, Job
  <2>2. pending' \in Pending
    BY <2>1, RouterAssumption DEF Pending, TypeOK
  <2>3. "reply" \in Call
    BY DEF Call
  <2>4. OnlyJob(t, job'[t]) /\ job'[t].kind \in KindsAt(job'[t].call)
    BY <2>3, GoToJob DEF KindsAt, Kind
  <2> QED
    BY <2>2, <2>4, TInvJob DEF TypeOK
<1>3. CASE SetPaused(t) \/ SetMode(t) \/ RecordFlow(t)
  <2>1. UNCHANGED <<script, sent, queue, claimed, pending, clock, crashes,
                    liquidated>>
    BY <1>3 DEF SetPaused, SetMode, RecordFlow, Act, telegram, bounds
  <2>2. acts' \in [Update -> Nat]
    BY <1>3 DEF SetPaused, SetMode, RecordFlow, Act, TypeOK
  <2>3. paused' \in BOOLEAN
    BY <1>3 DEF SetPaused, SetMode, RecordFlow, TypeOK
  <2>4. mode' \in {"virtual", "real"}
    BY <1>0, <1>3 DEF SetPaused, SetMode, RecordFlow, Act, TypeOK, KindsAt
  <2>5. accepted' \subseteq Update
    BY <1>3 DEF SetPaused, SetMode, RecordFlow, TypeOK
  <2>6. PICK call \in {"reply", "liquidate"} : GoTo(t, call)
    BY <1>3 DEF SetPaused, SetMode, RecordFlow
  <2>7. OnlyJob(t, job'[t]) /\ job'[t].kind \in KindsAt(job'[t].call)
    BY <1>0, <2>6, GoToJob DEF KindsAt, Call, Kind, Job
  <2> QED
    BY <2>1, <2>2, <2>3, <2>4, <2>5, <2>7, TInvJob DEF TypeOK
<1>4. CASE Liquidate(t)
  <2> USE <1>4 DEF Liquidate, telegram, rows, bounds
  <2>1. liquidated' \subseteq Update
    BY <1>0 DEF TypeOK, Job
  <2>2. "trade_mode" \in Call
    BY DEF Call
  <2>3. OnlyJob(t, job'[t]) /\ job'[t].kind \in KindsAt(job'[t].call)
    BY <1>0, <2>2, GoToJob DEF KindsAt, Kind, Job
  <2> QED
    BY <2>1, <2>3, TInvJob DEF TypeOK
<1>5. CASE Reply(t) \/ Fail(t)
  <2>1. Finish(t)
    BY <1>5 DEF Reply, Fail
  <2>2. OnlyJob(t, job'[t]) /\ job'[t].kind \in KindsAt(job'[t].call)
    BY <2>1, FinishJob DEF OnlyJob, KindsAt, Idle, Kind
  <2>3. UNCHANGED <<script, sent, claimed, paused, mode, pending, clock,
                    crashes, acts, accepted, liquidated>>
    BY <2>1 DEF Finish, rows, bounds, ghosts
  <2>4. queue' = [u \in DOMAIN queue' |-> queue[u]]
        /\ DOMAIN queue' \subseteq DOMAIN queue
    BY <2>1 DEF Finish, Answer, TypeOK
  <2> QED
    BY <2>2, <2>3, <2>4, TInvJob DEF TypeOK
<1> QED
  BY <1>1, <1>2, <1>3, <1>4, <1>5 DEF Step

LEMMA TInvStays ==
  ASSUME TInv, [Next]_vars
  PROVE  TInv'
<1>1. CASE Send \/ Tick \/ Crash
  BY <1>1, TInvWorld
<1>2. CASE Receive
  BY <1>2, TInvReceive
<1>3. CASE Handling
  BY <1>3, TInvStep DEF Handling
<1>4. CASE UNCHANGED vars
  BY <1>4 DEF vars, telegram, rows, memory, bounds, ghosts, TInv, TypeOK,
              KindFits, SentBefore, Message, Pending, Job, Update
<1> QED
  BY <1>1, <1>2, <1>3, <1>4 DEF Next

LEMMA TInvAlways == Spec => []TInv
<1>1. Init => TInv
  BY TInvInit
<1>2. TInv /\ [Next]_vars => TInv'
  BY TInvStays
<1> QED
  BY <1>1, <1>2, PTL DEF Spec

\* Every variable keeps its type, whatever is delivered and whoever crashes.
THEOREM RouterTypeCorrect == Spec => []TypeOK
<1>1. TInv => TypeOK
  BY DEF TInv
<1> QED
  BY <1>1, TInvAlways, PTL

\* Handling a message within the 60 seconds of its code means that it was
\* sent within them: no message comes from the future.
THEOREM CodesRunOut == Spec => CodeInTime
<1>1. ASSUME TInv, [Next]_vars
      PROVE  [\A t \in Thread, u \in Update :
                Deliver(t, u) /\ Accepts(u) => queue[u].at <= pending.expires]_vars
  <2> SUFFICES ASSUME NEW t \in Thread, NEW u \in Update,
                      Deliver(t, u), Accepts(u)
               PROVE  queue[u].at <= pending.expires
    OBVIOUS
  <2>1. u \in DOMAIN queue /\ queue[u].at <= clock /\ queue[u].at \in Nat
    BY <1>1 DEF Deliver, TInv, TypeOK, SentBefore, Message
  <2>2. clock <= pending.expires /\ clock \in Nat
    BY <1>1 DEF Accepts, Confirms, Coded, TInv, TypeOK
  <2>3. pending.expires \in Nat
    BY <1>1 DEF Accepts, IsAnswer, TInv, TypeOK, Pending
  <2> QED
    BY <2>1, <2>2, <2>3
<1> QED
  BY <1>1, TInvAlways, PTL DEF Spec, CodeInTime

------------------------------------------------------------------------------
(* A message belongs to one prompt or to one thread, until it is spent *)

\* The change was made, and the thread has more to do.
Done == {"liquidate", "trade_mode", "record_trade"}

Open == IF pending = NoPending THEN {} ELSE pending.basis

BasisClaimed ==
  /\ Open \subseteq claimed
  /\ \A t \in Thread : job[t].basis \subseteq claimed

Disjoint ==
  /\ \A t \in Thread : job[t].basis \cap Open = {}
  /\ \A t, o \in Thread : t # o => job[t].basis \cap job[o].basis = {}

Unspent ==
  /\ \A u \in Open : acts[u] = 0
  /\ \A t \in Thread : \A u \in job[t].basis :
       acts[u] = IF job[t].call \in Done THEN 1 ELSE 0
  /\ \A u \in Update \ claimed : acts[u] = 0
  /\ \A u \in Update : acts[u] \in {0, 1}
  /\ \A u \in liquidated : acts[u] = 1

HaltedIsPaused ==
  /\ \A t \in Thread :
       job[t].call \in Done /\ job[t].basis \cap accepted # {} => paused
  /\ accepted \cap liquidated # {} => paused

OwnInv == BasisClaimed /\ Disjoint /\ Unspent /\ HaltedIsPaused

LEMMA OwnInit == Init => OwnInv
<1> SUFFICES ASSUME Init PROVE OwnInv
  OBVIOUS
<1> USE DEF Init
<1>1. Open = {} /\ \A t \in Thread : job[t].basis = {} /\ job[t].call = "idle"
  BY DEF Open, Idle
<1> QED
  BY <1>1 DEF OwnInv, BasisClaimed, Disjoint, Unspent, HaltedIsPaused, Done

\* A thread keeps its messages or drops them, and nothing else happens.
LEMMA OwnQuiet ==
  ASSUME OwnInv, NEW t \in Thread, OnlyJob(t, job'[t]),
         job'[t].basis = {} \/ /\ job'[t].basis = job[t].basis
                               /\ job'[t].call \in Done <=> job[t].call \in Done,
         UNCHANGED <<claimed, paused, pending, acts, accepted, liquidated>>
  PROVE  OwnInv'
<1>1. Open' = Open
  BY DEF Open
<1>2. BasisClaimed'
  BY <1>1 DEF OwnInv, BasisClaimed, OnlyJob
<1>3. Disjoint'
  BY <1>1 DEF OwnInv, Disjoint, OnlyJob
<1>4. Unspent'
  BY <1>1 DEF OwnInv, Unspent, OnlyJob
<1>5. HaltedIsPaused'
  BY DEF OwnInv, HaltedIsPaused, OnlyJob
<1> QED
  BY <1>2, <1>3, <1>4, <1>5 DEF OwnInv

\* A delivery gives the messages of the prompt, and its own, to one thread.
LEMMA OwnDeliver ==
  ASSUME TInv, OwnInv, NEW t \in Thread, NEW u \in Update, Deliver(t, u)
  PROVE  OwnInv'
<1> USE DEF Deliver, bounds, telegram
<1>1. /\ OnlyJob(t, job'[t])
      /\ job'[t].call \notin Done
      /\ job'[t].basis \subseteq Open \cup {u}
  BY HandleJob DEF Open, Done
<1>2. Open' = {} /\ u \notin claimed /\ claimed' = claimed \cup {u}
  BY DEF Open
<1>3. acts[u] = 0
  BY DEF OwnInv, Unspent
<1>4. BasisClaimed'
  BY <1>1, <1>2 DEF OwnInv, BasisClaimed, OnlyJob
<1>5. Disjoint'
  BY <1>1, <1>2 DEF OwnInv, BasisClaimed, Disjoint, OnlyJob
<1>6. Unspent'
  BY <1>1, <1>2, <1>3 DEF OwnInv, Unspent, OnlyJob
<1>7. accepted' \subseteq accepted \cup Open
  BY DEF Note, Accepts, IsAnswer, Open
<1>8. HaltedIsPaused'
  <2>1. \A o \in Thread : job[o].basis \cap Open = {}
    BY DEF OwnInv, Disjoint
  <2>2. liquidated \cap Open = {}
    BY DEF OwnInv, Unspent
  <2> QED
    BY <1>1, <1>7, <2>1, <2>2 DEF OwnInv, HaltedIsPaused, OnlyJob
<1> QED
  BY <1>4, <1>5, <1>6, <1>8 DEF OwnInv

LEMMA OwnAsk ==
  ASSUME TInv, OwnInv, NEW t \in Thread, Ask(t)
  PROVE  OwnInv'
<1> USE DEF Ask, rows, ghosts
<1>1. OnlyJob(t, job'[t]) /\ job'[t].basis = {}
  BY GoToJob DEF TInv, Call
<1>2. Open' = job[t].basis /\ job[t].call \notin Done
  BY DEF Open, NoPending, Done
<1>3. BasisClaimed'
  BY <1>1, <1>2 DEF OwnInv, BasisClaimed, OnlyJob
<1>4. Disjoint'
  BY <1>1, <1>2 DEF OwnInv, Disjoint, OnlyJob
<1>5. Unspent'
  BY <1>1, <1>2 DEF OwnInv, Unspent, OnlyJob
<1>6. HaltedIsPaused'
  BY <1>1 DEF OwnInv, HaltedIsPaused, OnlyJob
<1> QED
  BY <1>3, <1>4, <1>5, <1>6 DEF OwnInv

\* The messages of a thread are spent; those of the others are not touched.
LEMMA OwnAct ==
  ASSUME TInv, OwnInv, NEW t \in Thread,
         SetPaused(t) \/ SetMode(t) \/ RecordFlow(t)
  PROVE  OwnInv'
<1>1. PICK call \in {"reply", "liquidate"} :
        GoTo(t, call) /\ (call = "liquidate" => paused')
  BY DEF SetPaused, SetMode, RecordFlow
<1>2. /\ OnlyJob(t, job'[t])
      /\ job'[t].basis \in {{}, job[t].basis}
      /\ job'[t].call = call
  BY <1>1, GoToJob DEF TInv, Call
<1>3. job'[t].basis # {} => job'[t].call \in Done
  BY <1>1, <1>2, GoToJob DEF TInv, Call, Done
<1>4. /\ UNCHANGED <<claimed, pending, liquidated>>
      /\ acts' = [u \in Update |->
                    IF u \in job[t].basis THEN acts[u] + 1 ELSE acts[u]]
      /\ job[t].call \notin Done
  BY DEF SetPaused, SetMode, RecordFlow, Act, Done
<1>5. Open' = Open
  BY <1>4 DEF Open
<1>6. BasisClaimed'
  BY <1>2, <1>4, <1>5 DEF OwnInv, BasisClaimed, OnlyJob
<1>7. Disjoint'
  BY <1>2, <1>5 DEF OwnInv, Disjoint, OnlyJob
<1>8. Unspent'
  <2> DEFINE spent == job[t].basis
  <2>1. \A u \in spent : u \in Update /\ u \in claimed /\ acts[u] = 0
                         /\ u \notin Open /\ u \notin liquidated
    BY <1>4 DEF OwnInv, Unspent, BasisClaimed, Disjoint, TInv, TypeOK, Job
  <2>2. \A u \in Update : acts'[u] = IF u \in spent THEN 1 ELSE acts[u]
    BY <1>4, <2>1
  <2>3. \A o \in Thread \ {t} : job'[o] = job[o] /\ job[o].basis \cap spent = {}
                                /\ job[o].basis \subseteq Update
    BY <1>2 DEF OnlyJob, OwnInv, Disjoint, TInv, TypeOK, Job
  <2>4. Open \subseteq Update /\ liquidated \subseteq Update
    BY DEF Open, TInv, TypeOK, Pending
  <2>5. \A u \in Open' : acts'[u] = 0
    BY <1>5, <2>1, <2>2, <2>4 DEF OwnInv, Unspent
  <2>6. \A u \in job'[t].basis : acts'[u] = 1 /\ job'[t].call \in Done
    BY <1>2, <1>3, <2>1, <2>2
  <2>7. \A o \in Thread \ {t} : \A u \in job'[o].basis :
          acts'[u] = IF job'[o].call \in Done THEN 1 ELSE 0
    BY <2>2, <2>3 DEF OwnInv, Unspent
  <2>8. /\ \A u \in Update \ claimed' : acts'[u] = 0
        /\ \A u \in Update : acts'[u] \in {0, 1}
        /\ \A u \in liquidated' : acts'[u] = 1
    BY <1>4, <2>1, <2>2, <2>4 DEF OwnInv, Unspent
  <2> QED
    BY <2>5, <2>6, <2>7, <2>8 DEF Unspent
<1>9. HaltedIsPaused'
  <2>1. \/ accepted' = {}
        \/ accepted' = accepted /\ (paused' \/ UNCHANGED paused)
    BY DEF SetPaused, SetMode, RecordFlow, TInv, TypeOK
  <2>2. job'[t].call \in Done => paused'
    BY <1>1, <1>2 DEF Done
  <2> QED
    BY <1>2, <1>4, <2>1, <2>2 DEF OwnInv, HaltedIsPaused, OnlyJob
<1> QED
  BY <1>6, <1>7, <1>8, <1>9 DEF OwnInv

LEMMA OwnLiquidate ==
  ASSUME TInv, OwnInv, NEW t \in Thread, Liquidate(t)
  PROVE  OwnInv'
<1> USE DEF Liquidate, rows
<1>1. /\ OnlyJob(t, job'[t])
      /\ job'[t].call = "trade_mode" /\ job'[t].basis = job[t].basis
      /\ job'[t].call \in Done /\ job[t].call \in Done
  BY GoToJob DEF TInv, Call, Done
<1>2. Open' = Open
  BY DEF Open
<1>3. BasisClaimed'
  BY <1>1, <1>2 DEF OwnInv, BasisClaimed, OnlyJob
<1>4. Disjoint'
  BY <1>1, <1>2 DEF OwnInv, Disjoint, OnlyJob
<1>5. Unspent'
  BY <1>1, <1>2 DEF OwnInv, Unspent, OnlyJob
<1>6. HaltedIsPaused'
  BY <1>1 DEF OwnInv, HaltedIsPaused, OnlyJob
<1> QED
  BY <1>3, <1>4, <1>5, <1>6 DEF OwnInv

LEMMA OwnStep ==
  ASSUME TInv, OwnInv, NEW t \in Thread, Step(t)
  PROVE  OwnInv'
<1>1. CASE IsPaused(t) \/ GetMode(t) \/ Nav(t) \/ FlowMode(t) \/ TradeMode(t)
              \/ RecordTrade(t)
  <2>1. PICK call \in {"reply", "ask", "set_paused", "record_flow", "record_trade"} :
          /\ GoTo(t, call)
          /\ call # "reply" => (call \in Done <=> job[t].call \in Done)
    BY <1>1 DEF IsPaused, GetMode, Nav, FlowMode, TradeMode, RecordTrade, Read, Done
  <2>2. /\ OnlyJob(t, job'[t])
        /\ job'[t].basis = {} \/ /\ job'[t].basis = job[t].basis
                                 /\ job'[t].call \in Done <=> job[t].call \in Done
    BY <2>1, GoToJob DEF TInv, Call, Done
  <2>3. UNCHANGED <<claimed, paused, pending, acts, accepted, liquidated>>
    BY <1>1 DEF IsPaused, GetMode, Nav, FlowMode, TradeMode, RecordTrade, Read, rows, ghosts
  <2> QED
    BY <2>2, <2>3, OwnQuiet
<1>2. CASE Ask(t)
  BY <1>2, OwnAsk
<1>3. CASE SetPaused(t) \/ SetMode(t) \/ RecordFlow(t)
  BY <1>3, OwnAct
<1>4. CASE Liquidate(t)
  BY <1>4, OwnLiquidate
<1>5. CASE Reply(t) \/ Fail(t)
  <2>1. Finish(t)
    BY <1>5 DEF Reply, Fail
  <2>2. OnlyJob(t, job'[t]) /\ job'[t].basis = {}
    BY <2>1, FinishJob DEF TInv, OnlyJob, Idle
  <2>3. UNCHANGED <<claimed, paused, pending, acts, accepted, liquidated>>
    BY <2>1 DEF Finish, rows, ghosts
  <2> QED
    BY <2>2, <2>3, OwnQuiet
<1> QED
  BY <1>1, <1>2, <1>3, <1>4, <1>5 DEF Step

LEMMA OwnStays ==
  ASSUME TInv, OwnInv, [Next]_vars
  PROVE  OwnInv'
<1>1. ASSUME UNCHANGED <<claimed, paused, pending, job, acts, accepted,
                         liquidated>>
      PROVE  OwnInv'
  BY <1>1 DEF OwnInv, BasisClaimed, Disjoint, Unspent, HaltedIsPaused, Open,
              Update
<1>2. CASE Crash
  <2>1. Open' = {} /\ \A t \in Thread : job'[t].basis = {} /\ job'[t].call = "idle"
    BY <1>2 DEF Crash, Open, Idle
  <2> QED
    BY <1>2, <2>1 DEF Crash, rows, ghosts, OwnInv, BasisClaimed, Disjoint,
                      Unspent, HaltedIsPaused, Done
<1>3. CASE Receive
  <2>1. PICK u \in DOMAIN queue :
          Duplicate(u) \/ Lose(u) \/ \E t \in Thread : Deliver(t, u)
    BY <1>3 DEF Receive
  <2>2. CASE Duplicate(u) \/ Lose(u)
    BY <1>1, <2>2 DEF Duplicate, Lose, rows, memory, ghosts
  <2>3. CASE \E t \in Thread : Deliver(t, u)
    <3>1. u \in Update
      BY RouterAssumption DEF TInv, TypeOK, Update
    <3> QED
      BY <2>3, <3>1, OwnDeliver
  <2> QED
    BY <2>1, <2>2, <2>3
<1>4. CASE Handling
  BY <1>4, OwnStep DEF Handling
<1>5. CASE Send \/ Tick \/ UNCHANGED vars
  BY <1>1, <1>5 DEF Send, Tick, vars, rows, memory, ghosts
<1> QED
  BY <1>2, <1>3, <1>4, <1>5 DEF Next

LEMMA OwnAlways == Spec => []OwnInv
<1>1. Init => OwnInv
  BY OwnInit
<1>2. TInv /\ OwnInv /\ [Next]_vars => OwnInv'
  BY OwnStays
<1> QED
  BY <1>1, <1>2, TInvAlways, PTL DEF Spec

\* No message changes the system twice, for any number of threads, of
\* deliveries and of crashes.
THEOREM EveryMessageActsOnce == Spec => []ActsOnce
<1>1. OwnInv => ActsOnce
  BY DEF OwnInv, Unspent, ActsOnce
<1> QED
  BY <1>1, OwnAlways, PTL

\* After a liquidation the bot is paused until a /resume.
THEOREM LiquidationStaysPaused == Spec => []LiquidatedIsPaused
<1>1. OwnInv => LiquidatedIsPaused
  BY DEF OwnInv, HaltedIsPaused, LiquidatedIsPaused
<1> QED
  BY <1>1, OwnAlways, PTL
==============================================================================

---------------------------- MODULE CommandRouter ----------------------------
(***************************************************************************)
(* The web process: Telegram delivers the user's messages to the webhook,  *)
(* again and again until it gets its 200 in time; each delivery is handled *)
(* by a thread of the pool, through TelegramBot.handle_update and          *)
(* CommandRouter.handle.  Threads run at once and share the rows of the    *)
(* database and the dictionary of open confirmations.  One action per call *)
(* of the database, of the broker or of that dictionary.                   *)
(***************************************************************************)
EXTENDS Integers, Sequences, FiniteSets

CONSTANTS
  Thread,      \* threads of the pool that handle a delivery
  Code,        \* the codes code_gen may draw
  Window,      \* the 60 seconds a liquidation code is good for
  Dialogues,   \* bound: the sequences of messages the user may send
  MaxUpdates,  \* bound: the length of the longest
  MaxOpen,     \* bound: messages sent and not answered at once
  MaxTime,     \* bound: ticks of the clock
  MaxCrashes   \* bound: deaths of the web process

Commands == {"/pause", "/resume", "/deposit", "/virtual", "/real",
             "/emergency-stop", "/status"}

Text == Commands \cup Code \cup {"y", "n"}

ASSUME RouterAssumption ==
  /\ Code \subseteq STRING
  /\ Code \cap (Commands \cup {"y", "n"}) = {}
  /\ \A d \in Dialogues : d \in Seq(Text) /\ Len(d) <= MaxUpdates
  /\ Window \in Nat /\ MaxUpdates \in Nat /\ MaxOpen \in Nat
  /\ MaxTime \in Nat /\ MaxCrashes \in Nat

VARIABLES
  script,    \* what the user is still going to send
  sent,      \* number of messages so far: they are the update_ids 1..sent
  queue,     \* the messages Telegram got no 200 for yet
  claimed,   \* the rows of processed_updates
  paused,    \* bot_state.is_paused
  mode,      \* bot_state.trading_mode
  pending,   \* self._pending[chat_id]
  job,       \* what each thread is doing
  clock, crashes

\* What the code keeps nowhere.
VARIABLES
  acts,        \* for each message, the changes made on the strength of it
  accepted,    \* the messages of liquidations whose code was accepted since
               \* the last /resume took effect
  liquidated   \* the messages of liquidations that were begun

memory == <<pending, job>>
rows == <<claimed, paused, mode>>
telegram == <<script, sent, queue>>
bounds == <<clock, crashes>>
ghosts == <<acts, accepted, liquidated>>
vars == <<telegram, rows, memory, bounds, ghosts>>

Update == 1..MaxUpdates
Message == [text : Text, at : Nat]

\* _Pending.kind; the two cash-flow commands go the same way.
Prompt == {"pause", "virtual", "real", "deposit", "estop", "estop_challenge"}
Coded == {"real", "estop_challenge"}

\* The prompt is remembered with the messages that led to it.
Pending == [kind : Prompt, code : Code \cup {"none"}, expires : Nat,
            basis : SUBSET Update]
NoPending == <<>>

Call == {"is_paused", "get_mode", "nav", "ask", "set_paused", "set_mode",
         "flow_mode", "record_flow", "liquidate", "trade_mode", "record_trade",
         "reply"}
Kind == Prompt \cup {"resume", "status"}
Job == [call : Call \cup {"idle"}, update : Update \cup {0}, kind : Kind,
        basis : SUBSET Update]
Idle == [call |-> "idle", update |-> 0, kind |-> "status", basis |-> {}]

TypeOK ==
  /\ script \in Seq(Text) /\ sent + Len(script) <= MaxUpdates
  /\ sent \in Nat
  /\ queue \in [DOMAIN queue -> Message] /\ DOMAIN queue \subseteq 1..sent
  /\ claimed \subseteq 1..sent
  /\ paused \in BOOLEAN /\ mode \in {"virtual", "real"}
  /\ pending \in Pending \cup {NoPending}
  /\ job \in [Thread -> Job]
  /\ clock \in Nat /\ crashes \in Nat
  /\ acts \in [Update -> Nat]
  /\ accepted \subseteq Update /\ liquidated \subseteq Update

\* The rows are those the first migration writes.
Init ==
  /\ script \in Dialogues
  /\ sent = 0 /\ queue = <<>> /\ claimed = {}
  /\ paused = FALSE /\ mode = "virtual"
  /\ pending = NoPending
  /\ job = [t \in Thread |-> Idle]
  /\ clock = 0 /\ crashes = 0
  /\ acts = [u \in Update |-> 0] /\ accepted = {} /\ liquidated = {}

------------------------------------------------------------------------------
(* The user, Telegram and the platform *)

Send ==
  /\ script # <<>> /\ Cardinality(DOMAIN queue) < MaxOpen
  /\ script' = Tail(script)
  /\ sent' = sent + 1
  /\ queue' = [u \in DOMAIN queue \cup {sent + 1} |->
       IF u = sent + 1 THEN [text |-> Head(script), at |-> clock]
                       ELSE queue[u]]
  /\ UNCHANGED <<rows, memory, bounds, ghosts>>

\* Time is looked at only while the code of a liquidation runs.
Tick ==
  /\ clock < MaxTime
  /\ pending # NoPending /\ pending.kind = "estop_challenge"
  /\ clock' = clock + 1
  /\ UNCHANGED <<telegram, rows, memory, crashes, ghosts>>

\* The platform stops the web process: what it holds in memory is gone.
Crash ==
  /\ crashes < MaxCrashes
  /\ crashes' = crashes + 1
  /\ pending' = NoPending
  /\ job' = [t \in Thread |-> Idle]
  /\ UNCHANGED <<telegram, rows, clock, ghosts>>

------------------------------------------------------------------------------
(* TelegramBot.handle_update and CommandRouter.handle *)

\* The webhook's 200 reaches Telegram.
Answer(u) == queue' = [v \in DOMAIN queue \ {u} |-> queue[v]]

\* Where a command begins: the kind of the work and its first call.
FirstCall(text) ==
  CASE text = "/pause"          -> <<"pause", "is_paused">>
    [] text = "/resume"         -> <<"resume", "is_paused">>
    [] text = "/deposit"        -> <<"deposit", "nav">>
    [] text = "/virtual"        -> <<"virtual", "get_mode">>
    [] text = "/real"           -> <<"real", "get_mode">>
    [] text = "/emergency-stop" -> <<"estop", "ask">>
    [] OTHER                    -> <<"status", "reply">>

\* Mutated form of Confirms: the age of a liquidation code is not looked at.
ConfirmsAnyTime(text) ==
  IF pending.kind \in Coded THEN text = pending.code ELSE text = "y"

\* _is_yes, or the code repeated in time.
Confirms(text) ==
  IF pending.kind \in Coded
    THEN /\ text = pending.code
         /\ pending.kind = "estop_challenge" => clock <= pending.expires
    ELSE text = "y"

\* Where an accepted answer leads.
Confirmed ==
  CASE pending.kind = "pause"           -> <<"pause", "set_paused">>
    [] pending.kind = "virtual"         -> <<"virtual", "set_mode">>
    [] pending.kind = "real"            -> <<"real", "set_mode">>
    [] pending.kind = "deposit"         -> <<"deposit", "flow_mode">>
    [] pending.kind = "estop"           -> <<"estop_challenge", "ask">>
    [] pending.kind = "estop_challenge" -> <<"estop_challenge", "set_paused">>

IsAnswer(text) == pending # NoPending /\ text \notin Commands

\* On to the next call; with the answer as the last, the rest is forgotten.
GoTo(t, call) ==
  job' = [job EXCEPT ![t] =
    IF call = "reply" THEN [Idle EXCEPT !.call = call, !.update = job[t].update]
                      ELSE [@ EXCEPT !.call = call]]

Start(t, u, kind_call, basis) ==
  job' = [job EXCEPT ![t] =
    [call |-> kind_call[2], update |-> u, kind |-> kind_call[1],
     basis |-> IF kind_call[2] = "reply" THEN {} ELSE basis \cup {u}]]

\* An answer to the open prompt, or a command, which drops it.
Handle(t, u) ==
  LET text == queue[u].text
  IN  IF IsAnswer(text)
        THEN Start(t, u, IF Confirms(text) THEN Confirmed
                                           ELSE <<"status", "reply">>,
                   pending.basis)
        ELSE Start(t, u, FirstCall(text), {})

\* The code of a liquidation is accepted.
Accepts(u) ==
  /\ IsAnswer(queue[u].text) /\ Confirms(queue[u].text)
  /\ pending.kind = "estop_challenge"

Note(u) ==
  accepted' = IF Accepts(u) THEN accepted \cup pending.basis ELSE accepted

\* Mutated form of Deliver: an answer leaves the prompt open.
DeliverPeek(t, u) ==
  /\ job[t] = Idle
  /\ u \in DOMAIN queue /\ u \notin claimed
  /\ claimed' = claimed \cup {u}
  /\ Handle(t, u)
  /\ pending' = IF IsAnswer(queue[u].text) THEN pending ELSE NoPending
  /\ Note(u)
  /\ UNCHANGED <<telegram, paused, mode, bounds, acts, liquidated>>

\* A delivery claims its update and takes the open prompt, and all that needs
\* no other call is decided.  (That nobody comes between the claim and the
\* prompt is no loss: only another delivery of this update reads the claim.)
Deliver(t, u) ==
  /\ job[t] = Idle
  /\ u \in DOMAIN queue /\ u \notin claimed
  /\ claimed' = claimed \cup {u}
  /\ Handle(t, u)
  /\ pending' = NoPending
  /\ Note(u)
  /\ UNCHANGED <<telegram, paused, mode, bounds, acts, liquidated>>

\* Mutated form of Duplicate: the second claim is an error, and its 500 makes
\* Telegram try again.
DuplicateRaises(u) ==
  /\ u \in DOMAIN queue /\ u \in claimed
  /\ UNCHANGED vars

\* A delivery of an update that was claimed, perhaps by a thread still at
\* work on it, is answered at once.
Duplicate(u) ==
  /\ u \in DOMAIN queue /\ u \in claimed
  /\ Answer(u)
  /\ UNCHANGED <<script, sent, rows, memory, bounds, ghosts>>

\* claim_update raises: the webhook answers 200, and the message is lost.
Lose(u) ==
  /\ u \in DOMAIN queue /\ u \notin claimed
  /\ Answer(u)
  /\ UNCHANGED <<script, sent, rows, memory, bounds, ghosts>>

Read(t, call) ==
  /\ job[t].call = call
  /\ UNCHANGED <<telegram, rows, pending, bounds, ghosts>>

IsPaused(t) ==
  /\ Read(t, "is_paused")
  /\ GoTo(t, IF job[t].kind = "pause"
               THEN IF paused THEN "reply" ELSE "ask"
               ELSE IF paused THEN "set_paused" ELSE "reply")

GetMode(t) ==
  /\ Read(t, "get_mode")
  /\ GoTo(t, IF mode = job[t].kind THEN "reply" ELSE "ask")

\* A slow round of calls of the broker, which may have no answer.
Nav(t) ==
  /\ Read(t, "nav")
  /\ \E call \in {"ask", "reply"} : GoTo(t, call)

Ask(t) ==
  /\ job[t].call = "ask"
  /\ \E code \in (IF job[t].kind \in Coded THEN Code ELSE {"none"}) :
       pending' = [kind |-> job[t].kind, code |-> code,
                   expires |-> IF job[t].kind = "estop_challenge"
                                 THEN clock + Window ELSE 0,
                   basis |-> job[t].basis]
  /\ GoTo(t, "reply")
  /\ UNCHANGED <<telegram, rows, bounds, ghosts>>

\* One change is made, on the strength of the messages that led to it.  (Rows
\* of cash_flows are only counted here; nothing in the model reads them.)
Act(t, call) ==
  /\ job[t].call = call
  /\ acts' = [u \in Update |->
       IF u \in job[t].basis THEN acts[u] + 1 ELSE acts[u]]
  /\ UNCHANGED <<telegram, claimed, pending, bounds, liquidated>>

\* Mutated form of SetPaused: the liquidation does not wait for the pause.
SetPausedLater(t) ==
  /\ Act(t, "set_paused")
  /\ paused' = IF job[t].kind = "estop_challenge" THEN paused
                                                 ELSE job[t].kind = "pause"
  /\ accepted' = IF job[t].kind = "resume" THEN {} ELSE accepted
  /\ GoTo(t, IF job[t].kind = "estop_challenge" THEN "liquidate" ELSE "reply")
  /\ UNCHANGED mode

SetPaused(t) ==
  /\ Act(t, "set_paused")
  /\ paused' = (job[t].kind # "resume")
  /\ accepted' = IF job[t].kind = "resume" THEN {} ELSE accepted
  /\ GoTo(t, IF job[t].kind = "estop_challenge" THEN "liquidate" ELSE "reply")
  /\ UNCHANGED mode

\* Mutated form of SetMode: the value written is not one of VALID_MODES.
SetModeUnchecked(t) ==
  /\ Act(t, "set_mode")
  /\ mode' = "live"
  /\ GoTo(t, "reply")
  /\ UNCHANGED <<paused, accepted>>

SetMode(t) ==
  /\ Act(t, "set_mode")
  /\ mode' = job[t].kind
  /\ GoTo(t, "reply")
  /\ UNCHANGED <<paused, accepted>>

\* The mode that a row is filed under is read before the row is written.
FlowMode(t) ==
  /\ Read(t, "flow_mode")
  /\ GoTo(t, "record_flow")

RecordFlow(t) ==
  /\ Act(t, "record_flow")
  /\ GoTo(t, "reply")
  /\ UNCHANGED <<paused, mode, accepted>>

\* The first order of the liquidation may go out.
Liquidate(t) ==
  /\ job[t].call = "liquidate"
  /\ liquidated' = liquidated \cup job[t].basis
  /\ GoTo(t, "trade_mode")
  /\ UNCHANGED <<telegram, rows, pending, bounds, acts, accepted>>

TradeMode(t) ==
  /\ Read(t, "trade_mode")
  /\ GoTo(t, "record_trade")

\* The rows of trade_log, which nothing in the model reads.
RecordTrade(t) ==
  /\ Read(t, "record_trade")
  /\ GoTo(t, "reply")

\* The handler is through, in time for Telegram or too late.
Finish(t) ==
  /\ job' = [job EXCEPT ![t] = Idle]
  /\ Answer(job[t].update) \/ UNCHANGED queue
  /\ UNCHANGED <<script, sent, rows, pending, bounds, ghosts>>

\* The answer is sent, or sending it raises.
Reply(t) == job[t].call = "reply" /\ Finish(t)

\* A call raises: handle() or the webhook swallows the exception, and Telegram
\* gets its 200 all the same.
Fail(t) == job[t].call \in Call \ {"ask", "reply"} /\ Finish(t)

Step(t) ==
  \/ IsPaused(t) \/ GetMode(t) \/ Nav(t) \/ Ask(t)
  \/ SetPaused(t) \/ SetMode(t) \/ FlowMode(t) \/ RecordFlow(t)
  \/ Liquidate(t) \/ TradeMode(t) \/ RecordTrade(t)
  \/ Reply(t) \/ Fail(t)

Receive ==
  \E u \in DOMAIN queue :
    Duplicate(u) \/ Lose(u) \/ \E t \in Thread : Deliver(t, u)

Handling == \E t \in Thread : Step(t)

Next == Send \/ Tick \/ Crash \/ Receive \/ Handling

\* Telegram delivers what it got no answer for, and threads run.
Fairness == WF_vars(Receive) /\ WF_vars(Handling)

Spec == Init /\ [][Next]_vars
FairSpec == Spec /\ Fairness

------------------------------------------------------------------------------
(* Properties *)

\* A message is good for one change of the system, however often Telegram
\* delivers it, however many messages answer the same prompt, and whatever
\* crashes in between: /emergency-stop, its y and its code liquidate once,
\* one /deposit and its y write one row of cash_flows.
ActsOnce == \A u \in Update : acts[u] <= 1

\* PRD user story 38: once the code was accepted and the first order of a
\* liquidation may have gone out, the bot is paused until a /resume takes
\* effect, though the liquidation may raise or die half way.
LiquidatedIsPaused == accepted \cap liquidated # {} => paused

\* PRD user stories 36 and 37: an accepted code was sent by the user no later
\* than 60 seconds after it was drawn, however late its delivery.
CodeInTime ==
  [][\A t \in Thread, u \in Update :
       Deliver(t, u) /\ Accepts(u) => queue[u].at <= pending.expires]_vars

\* Every update is answered in the end: deliveries that fail, are duplicates
\* or are cut off by a crash do not keep Telegram trying for ever.
EveryUpdateAnswered ==
  \A u \in Update : u \in DOMAIN queue ~> u \notin DOMAIN queue
==============================================================================

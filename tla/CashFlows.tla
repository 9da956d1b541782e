------------------------------ MODULE CashFlows ------------------------------
(***************************************************************************)
(* The ledger of deposits and withdrawals and the return it yields: the    *)
(* seed of migration 003, the dialogues of /deposit and /withdraw and of   *)
(* the switch of mode they can meet, and compute_twr.                      *)
(*                                                                         *)
(* An account is seen as a fund: it is worth units times price, the market *)
(* moves the price, and money that comes or goes changes the units.  The   *)
(* growth of the price is what a time-weighted return has to show.  The    *)
(* user moves the money when the flow is recorded.                         *)
(***************************************************************************)
EXTENDS Migrate, Integers, Sequences, Functions

CONSTANTS
  web,         \* the process of Proc that handles the commands
  SeedFile,    \* the file that records the seed: 003
  Seed,        \* the worth of the virtual account at the seed
  Amount,      \* the amounts the user moves, each a multiple of each price
  Price,       \* bound on the prices; 1 is the price at the start
  MaxUnits, MaxFlows,  \* bounds on an account and on its ledger
  Impatient    \* bound: a /deposit may come while the y to another is at work

ASSUME CashFlowsAssumption ==
  /\ web \in Proc /\ SeedFile \in 1..Last /\ Seed \in 1..MaxUnits
  /\ Amount \subseteq Nat \ {0} /\ Price \subseteq Nat \ {0} /\ 1 \in Price
  /\ \A a \in Amount, c \in Price : a % c = 0
  /\ MaxUnits \in Nat /\ MaxFlows \in Nat \ {0} /\ Impatient \in BOOLEAN

VARIABLES
  mode,      \* bot_state.trading_mode
  units, price,   \* the account of each mode at the broker
  flows,     \* cash_flows, the rows of each mode in their order
  pending    \* the prompt the chat has open, in the memory of the process

\* The threads of the process that handle a message: at most one /deposit or
\* /withdraw, one y to the prompt of such a command, and one /virtual or /real
\* or answer to its prompt.
VARIABLES job, confirming, switching

\* For each mode the price at its first flow, and whether every flow was
\* recorded with the worth the account had at that moment.
VARIABLES base, exact

threads == <<job, confirming, switching>>
ledger == <<mode, units, price, flows, pending, threads, base, exact>>
vars == <<migration, ledger>>

Mode == {"virtual", "real"}
Direction == {"deposit", "withdraw"}
Nothing == [kind |-> "nothing"]

Flow == [signed_amount : Int, nav_before : Nat]

\* switched: history, the answer to a switch of mode was being handled at the
\* same time as the command, or as the y.
Job == [kind : Direction, amount : Amount, mode : Mode, switched : BOOLEAN,
        stage : {"mode", "nav"}]
Prompt == [kind : Direction, amount : Amount, nav_before : Nat,
           mode : Mode, switched : BOOLEAN]
Confirming == [kind : Direction, amount : Amount, nav_before : Nat, mode : Mode,
               switched : BOOLEAN, stage : {"mode", "record"}, written : Mode]
SwitchPrompt == [kind : {"switch"}, to : Mode]
Switching == [to : Mode, stage : {"command", "answer"}]

LedgerTypeOK ==
  /\ MigrateTypeOK
  /\ mode \in Mode
  /\ units \in [Mode -> 0..MaxUnits] /\ price \in [Mode -> Price]
  /\ \A m \in Mode : Len(flows[m]) <= MaxFlows /\ Range(flows[m]) \subseteq Flow
  /\ pending \in Prompt \cup SwitchPrompt \cup {Nothing}
  /\ job \in Job \cup {Nothing} /\ confirming \in Confirming \cup {Nothing}
  /\ switching \in Switching \cup {Nothing}
  /\ base \in [Mode -> Price] /\ exact \in [Mode -> BOOLEAN]

Init ==
  /\ MigrateInit
  /\ mode = "virtual"
  /\ units = [m \in Mode |-> Seed]         \* the real account is not empty
  /\ price = [m \in Mode |-> 1]
  /\ flows = [m \in Mode |-> <<>>]
  /\ pending = Nothing
  /\ job = Nothing /\ confirming = Nothing /\ switching = Nothing
  /\ base = [m \in Mode |-> 1]
  /\ exact = [m \in Mode |-> TRUE]

------------------------------------------------------------------------------
(* The accounts *)

Nav(m) == units[m] * price[m]

\* nav_provider: None when the balance cannot be read; the cash or a price
\* that cannot be read counts as 0.
None == -1
NavAnswers(m) == {Nav(m), 0, None}

\* The market, in the modes whose ledger the model still follows.
Market(m) ==
  /\ units[m] > 0 /\ exact[m]
  /\ \E c \in Price \ {price[m]} : price' = [price EXCEPT ![m] = c]
  /\ UNCHANGED <<migration, mode, units, flows, pending, threads, base, exact>>

------------------------------------------------------------------------------
(* The commands.  handle() takes the open prompt out of memory first, and   *)
(* whatever the message goes on to do comes in later steps of its thread.   *)

Serving == step[web] = "up"

\* The answer to a switch of mode is being handled.
Answering == switching # Nothing /\ switching.stage = "answer"

\* The bound on the ledger.
Room == Len(flows["virtual"]) + Len(flows["real"]) < MaxFlows

\* handle() and _cashflow() of a /deposit or /withdraw, up to nav_provider().
CashFlowCommand(kind, a) ==
  /\ Serving /\ Room
  /\ job = Nothing /\ (Impatient \/ confirming = Nothing)
  /\ pending' = Nothing
  /\ job' = [kind |-> kind, amount |-> a, mode |-> "virtual",
             switched |-> Answering, stage |-> "mode"]
  /\ UNCHANGED <<migration, mode, units, price, flows, confirming, switching,
                 base, exact>>

\* Mutated form of NavAccount: the client was built when the process started.
NavAccountAtStart ==
  /\ Serving
  /\ job # Nothing /\ job.stage = "mode"
  /\ job' = [job EXCEPT !.stage = "nav", !.mode = "virtual"]
  /\ UNCHANGED <<migration, mode, units, price, flows, pending, confirming,
                 switching, base, exact>>

\* _kis() in nav_provider(): the account of the mode of this moment.
NavAccount ==
  /\ Serving
  /\ job # Nothing /\ job.stage = "mode"
  /\ job' = [job EXCEPT !.stage = "nav", !.mode = mode]
  /\ UNCHANGED <<migration, mode, units, price, flows, pending, confirming,
                 switching, base, exact>>

\* Mutated form of Refused: a withdrawal is not compared with the worth.
RefusedNever(j, nav) == nav = None

Refused(j, nav) == (nav = None) \/ (j.kind = "withdraw" /\ j.amount > nav)

\* _cashflow() from the answer of nav_provider().
CashFlowPrompt ==
  /\ Serving
  /\ job # Nothing /\ job.stage = "nav"
  /\ \E nav \in NavAnswers(job.mode) :
       pending' = IF Refused(job, nav) THEN pending
                  ELSE [kind |-> job.kind, amount |-> job.amount,
                        nav_before |-> nav, mode |-> job.mode,
                        switched |-> job.switched]
  /\ job' = Nothing
  /\ UNCHANGED <<migration, mode, units, price, flows, confirming, switching,
                 base, exact>>

\* handle() of a y to that prompt
CashFlowAnswer ==
  /\ Serving
  /\ pending # Nothing /\ pending.kind \in Direction
  /\ confirming = Nothing
  /\ pending' = Nothing
  /\ confirming' = [kind |-> pending.kind, amount |-> pending.amount,
                    nav_before |-> pending.nav_before, mode |-> pending.mode,
                    switched |-> pending.switched \/ Answering,
                    stage |-> "mode", written |-> pending.mode]
  /\ UNCHANGED <<migration, mode, units, price, flows, job, switching, base, exact>>

\* _on_cashflow_confirm(): get_trading_mode()
CashFlowMode ==
  /\ Serving
  /\ confirming # Nothing /\ confirming.stage = "mode"
  /\ confirming' = [confirming EXCEPT !.stage = "record", !.written = mode]
  /\ UNCHANGED <<migration, mode, units, price, flows, pending, job, switching,
                 base, exact>>

\* record_cash_flow() and the sign read_cash_flows() gives it
SignedAmount(kind, a) == IF kind = "deposit" THEN a ELSE -a

\* _on_cashflow_confirm(): record_cash_flow().  A flow whose nav_before is not
\* the worth of the account it is written to is inexact, and the last the model
\* follows in that mode.
CashFlowRecord ==
  LET m == confirming.written
      signed == SignedAmount(confirming.kind, confirming.amount)
      right == confirming.nav_before = Nav(m)
      moved == IF confirming.kind = "deposit" THEN confirming.amount
               ELSE -confirming.amount
  IN
  /\ Serving
  /\ confirming # Nothing /\ confirming.stage = "record"
  /\ exact[m] /\ Room
  /\ right => units[m] + moved \div price[m] <= MaxUnits
  /\ flows' = [flows EXCEPT ![m] =
       Append(@, [signed_amount |-> signed, nav_before |-> confirming.nav_before])]
  /\ base' = [base EXCEPT ![m] = IF flows[m] = <<>> THEN price[m] ELSE @]
  /\ units' = [units EXCEPT ![m] = IF right THEN @ + moved \div price[m] ELSE @]
  /\ exact' = [exact EXCEPT ![m] = @ /\ right]
  /\ confirming' = Nothing
  /\ UNCHANGED <<migration, mode, price, pending, job, switching>>

\* handle() of a /virtual or /real
SwitchCommand(to) ==
  /\ Serving
  /\ switching = Nothing
  /\ pending' = Nothing
  /\ switching' = [to |-> to, stage |-> "command"]
  /\ UNCHANGED <<migration, mode, units, price, flows, job, confirming, base, exact>>

\* _virtual() and _real(), which open no prompt for the mode there is.
SwitchAsk ==
  /\ Serving
  /\ switching # Nothing /\ switching.stage = "command"
  /\ pending' = IF mode = switching.to THEN pending
                ELSE [kind |-> "switch", to |-> switching.to]
  /\ switching' = Nothing
  /\ UNCHANGED <<migration, mode, units, price, flows, job, confirming, base, exact>>

During(thread) ==
  IF thread = Nothing THEN thread ELSE [thread EXCEPT !.switched = TRUE]

\* handle() of a y, or of the right code, to that prompt
SwitchAnswer ==
  /\ Serving
  /\ pending # Nothing /\ pending.kind = "switch"
  /\ switching = Nothing
  /\ pending' = Nothing
  /\ switching' = [to |-> pending.to, stage |-> "answer"]
  /\ job' = During(job) /\ confirming' = During(confirming)
  /\ UNCHANGED <<migration, mode, units, price, flows, base, exact>>

\* _on_virtual_confirm() and _on_real_challenge(): set_trading_mode()
SwitchMode ==
  /\ Serving
  /\ Answering
  /\ mode' = switching.to
  /\ switching' = Nothing
  /\ UNCHANGED <<migration, units, price, flows, pending, job, confirming,
                 base, exact>>

\* A message that is no y ends the prompt.
Decline ==
  /\ Serving
  /\ pending # Nothing
  /\ pending' = Nothing
  /\ UNCHANGED <<migration, mode, units, price, flows, threads, base, exact>>

\* The database fails a thread, and handle() ends it with an apology.
ThreadFails ==
  /\ Serving
  /\ \/ confirming # Nothing /\ confirming' = Nothing /\ UNCHANGED switching
     \/ switching # Nothing /\ switching' = Nothing /\ UNCHANGED confirming
  /\ UNCHANGED <<migration, mode, units, price, flows, pending, job, base, exact>>

------------------------------------------------------------------------------
\* A step of the migrations: 003 inserts the seed, and what the web process
\* holds in memory goes with it.
MigrationStep ==
  /\ MigrateNext
  /\ flows' = IF effect'[SeedFile] = effect[SeedFile] THEN flows
              ELSE [flows EXCEPT !["virtual"] =
                      Append(@, [signed_amount |-> Seed, nav_before |-> 0])]
  /\ IF step'[web] = "down"
       THEN /\ pending' = Nothing
            /\ job' = Nothing /\ confirming' = Nothing /\ switching' = Nothing
       ELSE UNCHANGED <<pending, threads>>
  /\ UNCHANGED <<mode, units, price, base, exact>>

Next ==
  \/ MigrationStep
  \/ \E m \in Mode : Market(m)
  \/ \E k \in Direction, a \in Amount : CashFlowCommand(k, a)
  \/ NavAccount \/ CashFlowPrompt
  \/ CashFlowAnswer \/ CashFlowMode \/ CashFlowRecord
  \/ \E to \in Mode : SwitchCommand(to)
  \/ SwitchAsk \/ SwitchAnswer \/ SwitchMode
  \/ Decline \/ ThreadFails

\* A process that has been started goes on, and is started again.
Spec == Init /\ [][Next]_vars
             /\ \A p \in Proc : WF_migration(Migrating(p))

------------------------------------------------------------------------------
(* Properties *)

\* Mutated form of Segment: the money moved is not part of the start.
SegmentBefore(f, k, nav) ==
  [start |-> f[k].nav_before,
   end |-> IF k < Len(f) THEN f[k + 1].nav_before ELSE nav]

\* compute_twr: the k-th segment between two flows
Segment(f, k, nav) ==
  [start |-> f[k].nav_before + f[k].signed_amount,
   end |-> IF k < Len(f) THEN f[k + 1].nav_before ELSE nav]

\* 1 + compute_twr, as numerator and denominator
GrowthOf(f, nav) ==
  LET Counted == {k \in DOMAIN f : Segment(f, k, nav).start > 0}
      Product(part(_)) ==
        FoldFunctionOnSet(LAMBDA x, y : x * y, 1,
          [k \in DOMAIN f |-> part(Segment(f, k, nav))], Counted)
  IN [up |-> Product(LAMBDA s : s.end), down |-> Product(LAMBDA s : s.start)]

\* returns.compute_twr promises the performance of the strategy whatever the
\* time and size of deposits and withdrawals, an emptied account included: as
\* long as every flow of a mode was recorded with the worth the account had,
\* its return is the growth of the price since the first flow.
ReturnIsGrowth ==
  \A m \in Mode : flows[m] # <<>> /\ exact[m] =>
    LET g == GrowthOf(flows[m], Nav(m))
    IN  g.up * base[m] = g.down * price[m]

\* A flow is written to the mode its account was valued in, unless the answer
\* to a switch of mode was being handled at the same time as the command or its
\* y: messages that are handled one after the other never mix the modes, because
\* the prompt of a switch replaces the prompt of a flow.
RecordedWhereValued ==
  confirming # Nothing /\ confirming.stage = "record" /\ ~confirming.switched
    => confirming.written = confirming.mode
==============================================================================

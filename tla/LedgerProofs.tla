----------------------------- MODULE LedgerProofs -----------------------------
(***************************************************************************)
(* Proofs about Migrate and CashFlows, for every set of processes, every   *)
(* number of files and every bound.                                        *)
(***************************************************************************)
EXTENDS CashFlows, FiniteSetTheorems, WellFoundedInduction, TLAPS

------------------------------------------------------------------------------
(* The migrations.  A process passes only files whose versions are there,   *)
(* and an open transaction is the only one of its file, whose version is    *)
(* not there yet.                                                           *)

MigrateInv ==
  /\ MigrateTypeOK
  /\ AppliedOnceInOrder
  /\ \A p \in Proc : done[p] \subseteq versions
  /\ \A p \in Proc : step[p] = "up" => done[p] = File
  /\ \A p \in Proc, f \in File : Holds(p, f) => f \notin versions
  /\ \A p, q \in Proc, f \in File : Holds(p, f) /\ Holds(q, f) => p = q

\* The loop is at one file at a time.
LEMMA OneNext ==
  \A p \in Proc, f, g \in File : IsNext(p, f) /\ IsNext(p, g) => f = g
<1> SUFFICES ASSUME NEW p \in Proc, NEW f \in File, NEW g \in File,
                    IsNext(p, f), IsNext(p, g)
             PROVE  f = g
  OBVIOUS
<1>1. f \in Nat \ {0} /\ g \in Nat \ {0}
  BY MigrateAssumption DEF File
<1>2. ~ (f < g)
  <2>1. f < g => f \in 1..(g - 1)
    BY <1>1
  <2> QED
    BY <2>1 DEF IsNext
<1>3. ~ (g < f)
  <2>1. g < f => g \in 1..(f - 1)
    BY <1>1
  <2> QED
    BY <2>1 DEF IsNext
<1> QED
  BY <1>1, <1>2, <1>3

LEMMA InitMigrateInv == MigrateInit => MigrateInv
  BY MigrateAssumption
  DEF MigrateInit, MigrateInv, MigrateTypeOK, AppliedOnceInOrder, Step, Holds

\* A process that moves without touching the database, to a step other than
\* "commit" and with nothing new to pass.
LEMMA LocalStep ==
  ASSUME MigrateInv, NEW p \in Proc, NEW s \in Step \ {"commit"},
         NEW d \in SUBSET versions, s = "up" => d = File,
         step' = [step EXCEPT ![p] = s], done' = [done EXCEPT ![p] = d],
         UNCHANGED database, crashes' \in 0..MaxCrashes
  PROVE  MigrateInv'
<1>1. /\ versions' = versions /\ effect' = effect
      /\ step'[p] = s /\ done'[p] = d
      /\ \A q \in Proc : q # p => step'[q] = step[q] /\ done'[q] = done[q]
  BY DEF database, MigrateInv, MigrateTypeOK
<1>2. MigrateTypeOK'
  BY <1>1 DEF MigrateInv, MigrateTypeOK
<1>3. \A q \in Proc, f \in File : Holds(q, f)' => q # p /\ Holds(q, f)
  BY <1>1 DEF Holds, IsNext
<1> QED
  BY <1>1, <1>2, <1>3 DEF MigrateInv, AppliedOnceInOrder

LEMMA ExecuteKeeps ==
  ASSUME MigrateInv, NEW p \in Proc, NEW f \in File, Execute(p, f)
  PROVE  MigrateInv'
<1>1. CASE f \in versions
  <2>1. /\ step' = [step EXCEPT ![p] = "down"] /\ done' = [done EXCEPT ![p] = {}]
        /\ UNCHANGED database /\ crashes' \in 0..MaxCrashes
    BY <1>1 DEF Execute, Down, Goto, MigrateInv, MigrateTypeOK
  <2> QED
    BY <2>1, LocalStep DEF Step
<1>2. CASE f \notin versions
  <2>1. /\ step' = [step EXCEPT ![p] = "commit"]
        /\ UNCHANGED <<versions, effect, done, crashes>>
        /\ IsNext(p, f) /\ \A q \in Proc : ~Holds(q, f)
    BY <1>2 DEF Execute, Goto, database
  <2>2. /\ step'[p] = "commit"
        /\ \A q \in Proc : q # p => step'[q] = step[q]
    BY <2>1 DEF MigrateInv, MigrateTypeOK
  <2>3. \A q \in Proc, g \in File : IsNext(q, g)' <=> IsNext(q, g)
    BY <2>1 DEF IsNext
  <2>4. \A q \in Proc, g \in File : q # p => (Holds(q, g)' <=> Holds(q, g))
    BY <2>2, <2>3 DEF Holds
  <2>5. \A g \in File : Holds(p, g)' => g = f
    BY <2>1, <2>3, OneNext DEF Holds
  <2>6. MigrateTypeOK'
    BY <2>1 DEF MigrateInv, MigrateTypeOK, Step
  <2> QED
    BY <1>2, <2>1, <2>2, <2>4, <2>5, <2>6 DEF MigrateInv, AppliedOnceInOrder
<1> QED
  BY <1>1, <1>2

LEMMA CommitKeeps ==
  ASSUME MigrateInv, NEW p \in Proc, NEW f \in File, Commit(p, f)
  PROVE  MigrateInv'
<1>1. /\ versions' = versions \cup {f} /\ f \notin versions
      /\ effect' = [effect EXCEPT ![f] = effect[f] + 1]
      /\ step[p] = "commit" /\ IsNext(p, f)
  BY DEF Commit, Holds, MigrateInv
<1>2. PICK s \in {"loop", "down"}, d \in SUBSET versions' :
        step' = [step EXCEPT ![p] = s] /\ done' = [done EXCEPT ![p] = d]
  <2>1. done[p] \cup {f} \in SUBSET versions'
    BY <1>1 DEF MigrateInv
  <2> QED
    BY <2>1 DEF Commit, Goto, Down
<1>3. crashes' \in 0..MaxCrashes
  BY MigrateAssumption DEF Commit, MigrateInv, MigrateTypeOK
<1>4. /\ step'[p] = s /\ done'[p] = d
      /\ \A q \in Proc : q # p => step'[q] = step[q] /\ done'[q] = done[q]
  BY <1>2 DEF MigrateInv, MigrateTypeOK
<1>5. MigrateTypeOK'
  BY <1>1, <1>2, <1>3 DEF MigrateInv, MigrateTypeOK, Step
<1>6. AppliedOnceInOrder'
  <2>1. \A g \in File : effect'[g] = IF g = f THEN effect[f] + 1 ELSE effect[g]
    BY <1>1 DEF MigrateInv, MigrateTypeOK
  <2>2. effect[f] = 0
    BY <1>1 DEF MigrateInv, AppliedOnceInOrder
  <2>3. 1..(f - 1) \subseteq versions
    BY <1>1 DEF IsNext, MigrateInv
  <2>4. 1..f \subseteq versions'
    BY <1>1, <2>3, MigrateAssumption DEF File
  <2> QED
    BY <1>1, <2>1, <2>2, <2>4 DEF MigrateInv, AppliedOnceInOrder
<1>7. \A q \in Proc, g \in File : Holds(q, g)' => q # p /\ Holds(q, g) /\ g # f
  <2>1. \A q \in Proc, g \in File : Holds(q, g)' => q # p /\ Holds(q, g)
    BY <1>4 DEF Holds, IsNext
  <2>2. Holds(p, f)
    BY DEF Commit
  <2> QED
    BY <2>1, <2>2 DEF MigrateInv
<1>8. \A q \in Proc : done'[q] \subseteq versions'
  BY <1>1, <1>4 DEF MigrateInv
<1>9. \A q \in Proc : step'[q] = "up" => done'[q] = File
  BY <1>4 DEF MigrateInv
<1> QED
  BY <1>1, <1>5, <1>6, <1>7, <1>8, <1>9 DEF MigrateInv

LEMMA MigrateStepKeeps == MigrateInv /\ [MigrateNext]_migration => MigrateInv'
<1> SUFFICES ASSUME MigrateInv, [MigrateNext]_migration PROVE MigrateInv'
  OBVIOUS
<1> USE MigrateAssumption
<1>1. ASSUME NEW p \in Proc, Start(p) PROVE MigrateInv'
  <2>1. CASE Goto(p, "read")
    <3>1. step' = [step EXCEPT ![p] = "read"] /\ done' = [done EXCEPT ![p] = done[p]]
      BY <1>1, <2>1 DEF Start, Goto, MigrateInv, MigrateTypeOK
    <3> QED
      BY <1>1, <3>1, LocalStep DEF Start, MigrateInv, MigrateTypeOK, Step
  <2>2. CASE UNCHANGED step
    BY <1>1, <2>2 DEF Start, database, MigrateInv, MigrateTypeOK,
       AppliedOnceInOrder, Holds, IsNext
  <2> QED
    BY <1>1, <2>1, <2>2 DEF Start
<1>2. ASSUME NEW p \in Proc, ReadVersions(p) PROVE MigrateInv'
  BY <1>2, LocalStep DEF ReadVersions, Goto, MigrateInv, MigrateTypeOK, Step
<1>3. ASSUME NEW p \in Proc, Serve(p) PROVE MigrateInv'
  <2>1. step' = [step EXCEPT ![p] = "up"] /\ done' = [done EXCEPT ![p] = done[p]]
    BY <1>3 DEF Serve, Goto, MigrateInv, MigrateTypeOK
  <2> QED
    BY <1>3, <2>1, LocalStep DEF Serve, MigrateInv, MigrateTypeOK, Step
<1>4. ASSUME NEW p \in Proc, NEW f \in File, Execute(p, f) \/ Commit(p, f)
      PROVE  MigrateInv'
  BY <1>4, ExecuteKeeps, CommitKeeps
<1>5. ASSUME NEW p \in Proc, Crash(p) \/ End(p) PROVE MigrateInv'
  <2>1. /\ Down(p) /\ UNCHANGED database /\ crashes' \in 0..MaxCrashes
    BY <1>5 DEF Crash, End, MigrateInv, MigrateTypeOK
  <2> QED
    BY <2>1, LocalStep DEF Down, Goto, Step
<1>6. CASE UNCHANGED migration
  BY <1>6 DEF migration, database, MigrateInv, MigrateTypeOK, AppliedOnceInOrder,
     Holds, IsNext
<1> QED
  BY <1>1, <1>2, <1>3, <1>4, <1>5, <1>6 DEF MigrateNext, Migrating

LEMMA MigrateInvariant == Spec => []MigrateInv
<1>1. Init => MigrateInv
  BY InitMigrateInv DEF Init
<1>2. [Next]_vars => [MigrateNext]_migration
  BY DEF Next, MigrationStep, Market, CashFlowCommand, NavAccount, CashFlowPrompt, CashFlowAnswer,
     CashFlowMode, CashFlowRecord, SwitchCommand, SwitchAsk, SwitchAnswer, SwitchMode,
     Decline, ThreadFails, vars, migration, database
<1> QED
  BY <1>1, <1>2, MigrateStepKeeps, PTL DEF Spec

\* Whoever starts when, and wherever it fails, the SQL of each file is
\* committed once, together with its version and after the files before it.
THEOREM EachFileOnce == Spec => []AppliedOnceInOrder
<1>1. MigrateInv => AppliedOnceInOrder
  BY DEF MigrateInv
<1> QED
  BY <1>1, MigrateInvariant, PTL

\* A process that serves finds every file applied.
THEOREM ServesOnItsSchema == Spec => []SchemaReady
<1>1. MigrateInv => SchemaReady
  BY DEF MigrateInv, SchemaReady, MigrateTypeOK
<1> QED
  BY <1>1, MigrateInvariant, PTL

------------------------------------------------------------------------------
(* The ledger and the accounts.  The seed is the first row there is: no     *)
(* process serves before 003 is applied, and it is applied once.  A         *)
(* withdrawal that is recorded with the right worth leaves no debt, because *)
(* it was compared with that worth.                                         *)

NoOverdraft ==
  /\ pending # Nothing /\ pending.kind = "withdraw" =>
       pending.amount <= pending.nav_before
  /\ confirming # Nothing /\ confirming.kind = "withdraw" =>
       confirming.amount <= confirming.nav_before

ThreadsOK ==
  /\ pending \in Prompt \cup SwitchPrompt \cup {Nothing}
  /\ job \in Job \cup {Nothing} /\ confirming \in Confirming \cup {Nothing}
  /\ switching \in Switching \cup {Nothing}

BooksInv ==
  /\ mode \in Mode
  /\ units \in [Mode -> 0..MaxUnits] /\ price \in [Mode -> Price]
  /\ base \in [Mode -> Price] /\ exact \in [Mode -> BOOLEAN]
  /\ ThreadsOK
  /\ flows \in [Mode -> Seq(Flow)]
  /\ Len(flows["virtual"]) + Len(flows["real"]) <= MaxFlows
  /\ effect[SeedFile] = 0 => \A m \in Mode : flows[m] = <<>>
  /\ NoOverdraft

LedgerInv == MigrateInv /\ BooksInv

\* Exact division, of the amounts that the prices divide.
LEMMA ExactDivision ==
  ASSUME NEW a \in Amount, NEW c \in Price
  PROVE  /\ a \div c \in Nat /\ a = c * (a \div c)
         /\ (-a) \div c = -(a \div c)
<1>1. a \in Nat /\ c \in Nat \ {0} /\ a % c = 0
  BY CashFlowsAssumption
<1> QED
  BY <1>1

\* What is taken from an account that is worth at least as much.
LEMMA WithinUnits ==
  ASSUME NEW a \in Amount, NEW c \in Price, NEW u \in Nat, a <= u * c
  PROVE  a \div c <= u
<1>1. PICK q \in Nat : a \div c = q /\ a = c * q
  BY ExactDivision
<1>2. c \in Nat /\ c >= 1
  BY CashFlowsAssumption
<1>3. c * q <= c * u
  BY <1>1, <1>2
<1>4. q > u => FALSE
  <2> SUFFICES ASSUME q >= u + 1 PROVE FALSE
    BY <1>1
  <2>1. c * q >= c * u + c
    BY <1>2
  <2> QED
    BY <1>2, <1>3, <2>1
<1> QED
  BY <1>1, <1>4

\* The migrations append the seed to an empty ledger, once.
LEMMA SeedKeeps ==
  ASSUME LedgerInv, MigrateInv', MigrationStep
  PROVE  BooksInv'
<1>1. /\ SeedFile \in File /\ Seed \in 1..MaxUnits /\ MaxFlows \in Nat \ {0}
      /\ MaxUnits \in Nat
  BY CashFlowsAssumption DEF File
<1>2. effect[SeedFile] \in {0, 1} /\ effect'[SeedFile] \in {0, 1}
  BY <1>1 DEF LedgerInv, MigrateInv, AppliedOnceInOrder
<1>3. effect'[SeedFile] \in {effect[SeedFile], effect[SeedFile] + 1}
  BY <1>1 DEF LedgerInv, MigrateInv, MigrateTypeOK, MigrationStep, MigrateNext, Migrating,
     Start, ReadVersions, Serve, Execute, Commit, Crash, End, database
<1>4. /\ UNCHANGED <<mode, units, price, base, exact>>
      /\ pending' \in {pending, Nothing} /\ job' \in {job, Nothing}
      /\ confirming' \in {confirming, Nothing} /\ switching' \in {switching, Nothing}
  BY DEF MigrationStep, threads
<1>5. NoOverdraft' /\ ThreadsOK'
  BY <1>4 DEF NoOverdraft, ThreadsOK, LedgerInv, BooksInv
<1>6. CASE effect'[SeedFile] = effect[SeedFile]
  <2>1. flows' = flows
    BY <1>6 DEF MigrationStep
  <2> QED
    BY <1>4, <1>5, <1>6, <2>1 DEF LedgerInv, BooksInv
<1>7. CASE effect'[SeedFile] # effect[SeedFile]
  <2> DEFINE row == [signed_amount |-> Seed, nav_before |-> 0]
  <2>1. effect[SeedFile] = 0 /\ effect'[SeedFile] = 1
    BY <1>2, <1>3, <1>7
  <2>2. row \in Flow
    BY <1>1 DEF Flow
  <2>3. \A m \in Mode : flows[m] = <<>>
    BY <2>1 DEF LedgerInv, BooksInv
  <2>4. flows' = [flows EXCEPT !["virtual"] = Append(flows["virtual"], row)]
    BY <1>7 DEF MigrationStep
  <2> HIDE DEF row
  <2>5. /\ flows["virtual"] = <<>> /\ flows["real"] = <<>>
        /\ "virtual" \in Mode /\ "real" \in Mode
        /\ flows \in [Mode -> Seq(Flow)]
        /\ Append(flows["virtual"], row) = <<row>> /\ <<row>> \in Seq(Flow)
    <3>1. "virtual" \in Mode /\ "real" \in Mode
      BY DEF Mode
    <3>2. flows["virtual"] = <<>> /\ flows["real"] = <<>>
      BY <2>3, <3>1
    <3>3. Append(<<>>, row) = <<row>> /\ <<row>> \in Seq(Flow)
      BY <2>2
    <3> QED
      BY <3>1, <3>2, <3>3 DEF LedgerInv, BooksInv
  <2>6. flows'["virtual"] = <<row>> /\ flows'["real"] = <<>> /\ flows' \in [Mode -> Seq(Flow)]
    BY <2>4, <2>5
  <2>7. Len(flows'["virtual"]) = 1 /\ Len(flows'["real"]) = 0
    BY <2>6
  <2> QED
    BY <1>1, <1>4, <1>5, <2>1, <2>6, <2>7 DEF LedgerInv, BooksInv
<1> QED
  BY <1>6, <1>7

\* What the threads and the prompt can become.
LEMMA PromptKeeps ==
  ASSUME LedgerInv, CashFlowPrompt
  PROVE  ThreadsOK' /\ NoOverdraft'
<1>1. PICK nav \in NavAnswers(job.mode) :
        pending' = IF Refused(job, nav) THEN pending
                   ELSE [kind |-> job.kind, amount |-> job.amount,
                         nav_before |-> nav, mode |-> job.mode,
                         switched |-> job.switched]
  BY DEF CashFlowPrompt
<1>2. job \in Job /\ job' = Nothing /\ UNCHANGED <<confirming, switching>>
  BY DEF CashFlowPrompt, LedgerInv, BooksInv, ThreadsOK
<1>3. nav \in Nat \/ nav = None
  <2>1. job.mode \in Mode
    BY <1>2 DEF Job
  <2>2. units[job.mode] \in 0..MaxUnits /\ price[job.mode] \in Price
    BY <2>1 DEF LedgerInv, BooksInv
  <2>3. units[job.mode] * price[job.mode] \in Nat
    BY <2>2, CashFlowsAssumption
  <2> QED
    BY <2>3 DEF NavAnswers, Nav
<1>4. CASE Refused(job, nav)
  BY <1>1, <1>2, <1>4 DEF LedgerInv, BooksInv, NoOverdraft, ThreadsOK
<1>5. CASE ~Refused(job, nav)
  <2>1. nav \in Nat /\ (job.kind = "withdraw" => job.amount <= nav)
    <3>1. job.amount \in Nat
      BY <1>2, CashFlowsAssumption DEF Job
    <3> QED
      BY <1>3, <1>5, <3>1 DEF Refused
  <2>2. /\ pending' \in Prompt
        /\ pending'.kind = job.kind /\ pending'.amount = job.amount
        /\ pending'.nav_before = nav
    BY <1>1, <1>2, <1>5, <2>1 DEF Job, Prompt
  <2> QED
    BY <1>2, <2>1, <2>2 DEF NoOverdraft, ThreadsOK, LedgerInv, BooksInv
<1> QED
  BY <1>4, <1>5

LEMMA AnswerKeeps ==
  ASSUME LedgerInv, CashFlowAnswer
  PROVE  ThreadsOK' /\ NoOverdraft'
<1>1. /\ pending \in Prompt /\ pending # Nothing
      /\ UNCHANGED <<job, switching>> /\ pending' = Nothing
      /\ confirming' = [kind |-> pending.kind, amount |-> pending.amount,
                        nav_before |-> pending.nav_before, mode |-> pending.mode,
                        switched |-> pending.switched \/ Answering,
                        stage |-> "mode", written |-> pending.mode]
  BY DEF CashFlowAnswer, LedgerInv, BooksInv, ThreadsOK, SwitchPrompt, Nothing, Direction
<1>2. (pending.switched \/ Answering) \in BOOLEAN
  BY <1>1 DEF Answering, Prompt
<1>3. /\ confirming' \in Confirming
      /\ confirming'.kind = pending.kind /\ confirming'.amount = pending.amount
      /\ confirming'.nav_before = pending.nav_before
  BY <1>1, <1>2 DEF Prompt, Confirming
<1> QED
  BY <1>1, <1>3 DEF ThreadsOK, NoOverdraft, LedgerInv, BooksInv

LEMMA ThreadsStep ==
  ASSUME LedgerInv, [Next]_vars, ~MigrationStep
  PROVE  ThreadsOK' /\ NoOverdraft'
<1> USE DEF LedgerInv, BooksInv
<1>1. ASSUME NEW m \in Mode, Market(m) PROVE ThreadsOK' /\ NoOverdraft'
  BY <1>1 DEF Market, threads, ThreadsOK, NoOverdraft
<1>2. ASSUME NEW k \in Direction, NEW a \in Amount, CashFlowCommand(k, a)
      PROVE  ThreadsOK' /\ NoOverdraft'
  <2>1. Answering \in BOOLEAN /\ "virtual" \in Mode
    BY DEF Answering, Mode
  <2>2. job' \in Job
    BY <1>2, <2>1 DEF CashFlowCommand, Job
  <2> QED
    BY <1>2, <2>2 DEF CashFlowCommand, ThreadsOK, NoOverdraft
<1>3. CASE NavAccount
  <2>1. job \in Job /\ job' = [job EXCEPT !.stage = "nav", !.mode = mode]
    BY <1>3 DEF NavAccount, ThreadsOK
  <2>2. job' \in Job
    BY <2>1 DEF Job
  <2> QED
    BY <1>3, <2>2 DEF NavAccount, ThreadsOK, NoOverdraft
<1>4. CASE CashFlowPrompt
  BY <1>4, PromptKeeps
<1>5. CASE CashFlowAnswer
  BY <1>5, AnswerKeeps
<1>6. CASE CashFlowMode
  <2>1. confirming \in Confirming
        /\ confirming' = [confirming EXCEPT !.stage = "record", !.written = mode]
    BY <1>6 DEF CashFlowMode, ThreadsOK
  <2>2. /\ confirming' \in Confirming
        /\ confirming'.kind = confirming.kind /\ confirming'.amount = confirming.amount
        /\ confirming'.nav_before = confirming.nav_before /\ confirming # Nothing
    BY <1>6, <2>1 DEF Confirming, CashFlowMode
  <2> QED
    BY <1>6, <2>2 DEF CashFlowMode, ThreadsOK, NoOverdraft
<1>7. CASE CashFlowRecord
  BY <1>7 DEF CashFlowRecord, ThreadsOK, NoOverdraft
<1>8. ASSUME NEW to \in Mode, SwitchCommand(to) PROVE ThreadsOK' /\ NoOverdraft'
  BY <1>8 DEF SwitchCommand, ThreadsOK, NoOverdraft, Switching
<1>9. CASE SwitchAsk
  <2>1. switching.to \in Mode
    BY <1>9 DEF SwitchAsk, ThreadsOK, Switching
  <2>2. CASE mode = switching.to
    BY <1>9, <2>2 DEF SwitchAsk, ThreadsOK, NoOverdraft
  <2>3. CASE mode # switching.to
    <3>1. pending' \in SwitchPrompt /\ pending'.kind = "switch"
      BY <1>9, <2>1, <2>3 DEF SwitchAsk, SwitchPrompt
    <3> QED
      BY <1>9, <3>1 DEF SwitchAsk, ThreadsOK, NoOverdraft
  <2> QED
    BY <2>2, <2>3
<1>10. CASE SwitchAnswer
  <2>1. pending \in SwitchPrompt
    BY <1>10 DEF SwitchAnswer, ThreadsOK, Prompt, Direction
  <2>2. switching' \in Switching /\ pending' = Nothing
    BY <1>10, <2>1 DEF SwitchAnswer, Switching, SwitchPrompt
  <2>3. job' \in Job \cup {Nothing}
    BY <1>10 DEF SwitchAnswer, During, ThreadsOK, Job
  <2>4. /\ confirming' \in Confirming \cup {Nothing}
        /\ confirming' = Nothing <=> confirming = Nothing
        /\ confirming # Nothing =>
             /\ confirming'.kind = confirming.kind /\ confirming'.amount = confirming.amount
             /\ confirming'.nav_before = confirming.nav_before
    <3>1. CASE confirming = Nothing
      BY <1>10, <3>1 DEF SwitchAnswer, During
    <3>2. CASE confirming # Nothing
      <4>1. confirming \in Confirming
            /\ confirming' = [confirming EXCEPT !.switched = TRUE]
        BY <1>10, <3>2 DEF SwitchAnswer, During, ThreadsOK
      <4>2. /\ confirming' \in Confirming
            /\ confirming'.kind = confirming.kind /\ confirming'.amount = confirming.amount
            /\ confirming'.nav_before = confirming.nav_before
        BY <4>1 DEF Confirming
      <4>3. confirming' # Nothing
        BY <4>2 DEF Confirming, Direction, Nothing
      <4> QED
        BY <3>2, <4>2, <4>3
    <3> QED
      BY <3>1, <3>2
  <2> QED
    BY <2>2, <2>3, <2>4 DEF ThreadsOK, NoOverdraft
<1>11. CASE SwitchMode
  BY <1>11 DEF SwitchMode, ThreadsOK, NoOverdraft
<1>12. CASE Decline \/ ThreadFails
  BY <1>12 DEF Decline, ThreadFails, threads, ThreadsOK, NoOverdraft
<1>13. CASE UNCHANGED vars
  BY <1>13 DEF vars, ledger, threads, ThreadsOK, NoOverdraft
<1> QED
  BY <1>1, <1>2, <1>3, <1>4, <1>5, <1>6, <1>7, <1>8, <1>9, <1>10, <1>11, <1>12, <1>13
  DEF Next

\* The units an account has after a flow that was recorded with its worth.
LEMMA UnitsMoved ==
  ASSUME BooksInv, confirming \in Confirming, NEW w \in Mode,
         confirming.nav_before = Nav(w), NEW moved,
         moved = (IF confirming.kind = "deposit" THEN confirming.amount ELSE -confirming.amount),
         units[w] + moved \div price[w] <= MaxUnits
  PROVE  units[w] + moved \div price[w] \in 0..MaxUnits
<1> DEFINE u == units[w]  c == price[w]  a == confirming.amount
<1>1. /\ a \in Amount /\ c \in Price /\ u \in 0..MaxUnits /\ MaxUnits \in Nat
      /\ confirming.kind \in {"deposit", "withdraw"}
  BY CashFlowsAssumption DEF BooksInv, Confirming, Direction
<1>2. a \div c \in Nat /\ (-a) \div c = -(a \div c)
  BY <1>1, ExactDivision
<1>3. CASE confirming.kind = "deposit"
  BY <1>1, <1>2, <1>3
<1>4. CASE confirming.kind = "withdraw"
  <2>1. a <= u * c
    BY <1>4 DEF BooksInv, NoOverdraft, Nav, Confirming, Nothing
  <2>2. a \div c <= u
    BY <1>1, <2>1, WithinUnits
  <2> QED
    BY <1>1, <1>2, <1>4, <2>2
<1> QED
  BY <1>1, <1>3, <1>4

LEMMA ConfirmKeeps ==
  ASSUME LedgerInv, CashFlowRecord
  PROVE  BooksInv'
<1> DEFINE w == confirming.written
           signed == SignedAmount(confirming.kind, confirming.amount)
           right == confirming.nav_before = Nav(w)
           moved == IF confirming.kind = "deposit" THEN confirming.amount ELSE -confirming.amount
           row == [signed_amount |-> signed, nav_before |-> confirming.nav_before]
<1>1. /\ confirming \in Confirming /\ w \in Mode
      /\ Len(flows["virtual"]) + Len(flows["real"]) < MaxFlows
      /\ right => units[w] + moved \div price[w] <= MaxUnits
      /\ flows' = [flows EXCEPT ![w] = Append(flows[w], row)]
      /\ base' = [base EXCEPT ![w] = IF flows[w] = <<>> THEN price[w] ELSE @]
      /\ units' = [units EXCEPT ![w] = IF right THEN @ + moved \div price[w] ELSE @]
      /\ exact' = [exact EXCEPT ![w] = @ /\ right]
      /\ UNCHANGED <<migration, mode, price>>
  <2>1. confirming \in Confirming
    BY DEF CashFlowRecord, LedgerInv, BooksInv, ThreadsOK
  <2> QED
    BY <2>1 DEF CashFlowRecord, Room, Confirming
<1>2. row \in Flow
  <2>1. confirming.amount \in Nat /\ confirming.nav_before \in Nat
    BY <1>1, CashFlowsAssumption DEF Confirming
  <2>2. signed \in Int
    BY <2>1 DEF SignedAmount
  <2> QED
    BY <2>1, <2>2 DEF Flow
<1>3. units' \in [Mode -> 0..MaxUnits]
  BY <1>1, UnitsMoved DEF LedgerInv, BooksInv
<1>4. exact' \in [Mode -> BOOLEAN]
  BY <1>1 DEF LedgerInv, BooksInv
<1>5. base' \in [Mode -> Price]
  BY <1>1 DEF LedgerInv, BooksInv
<1> HIDE DEF row
<1>6. /\ flows' \in [Mode -> Seq(Flow)]
      /\ Len(flows'[w]) = Len(flows[w]) + 1
      /\ \A m \in Mode : m # w => flows'[m] = flows[m]
  BY <1>1, <1>2 DEF LedgerInv, BooksInv
<1>7. Len(flows'["virtual"]) + Len(flows'["real"]) <= MaxFlows
  <2>1. \A m \in Mode : Len(flows[m]) \in Nat
    BY DEF LedgerInv, BooksInv
  <2>2. CASE w = "virtual"
    BY <1>1, <1>6, <2>1, <2>2, CashFlowsAssumption DEF Mode
  <2>3. CASE w = "real"
    BY <1>1, <1>6, <2>1, <2>3, CashFlowsAssumption DEF Mode
  <2> QED
    BY <1>1, <2>2, <2>3 DEF Mode
<1>8. effect'[SeedFile] # 0
  <2>1. SeedFile \in File /\ done[web] = File
    BY CashFlowsAssumption DEF CashFlowRecord, Serving, LedgerInv, MigrateInv, File
  <2>2. SeedFile \in versions
    BY <2>1, CashFlowsAssumption DEF LedgerInv, MigrateInv
  <2> QED
    BY <1>1, <2>1, <2>2 DEF LedgerInv, MigrateInv, AppliedOnceInOrder, migration, database
<1>9. ThreadsOK' /\ NoOverdraft'
  BY DEF CashFlowRecord, ThreadsOK, NoOverdraft, LedgerInv, BooksInv
<1> QED
  BY <1>1, <1>3, <1>4, <1>5, <1>6, <1>7, <1>8, <1>9 DEF LedgerInv, BooksInv

LEMMA BooksStep ==
  ASSUME LedgerInv, [Next]_vars, MigrateInv'
  PROVE  BooksInv'
<1>1. CASE MigrationStep
  BY <1>1, SeedKeeps
<1>2. CASE CashFlowRecord
  BY <1>2, ConfirmKeeps
<1> SUFFICES ASSUME ~MigrationStep, ~CashFlowRecord PROVE BooksInv'
  BY <1>1, <1>2
<1>3. ThreadsOK' /\ NoOverdraft'
  BY ThreadsStep
<1>4. UNCHANGED <<effect, flows, units, base, exact>>
  BY DEF Next, Market, CashFlowCommand, NavAccount, CashFlowPrompt, CashFlowAnswer,
     CashFlowMode, SwitchCommand, SwitchAsk, SwitchAnswer, SwitchMode, Decline,
     ThreadFails, vars, ledger, migration, database
<1>5. price' \in [Mode -> Price]
  <2>1. ASSUME NEW m \in Mode, Market(m) PROVE price' \in [Mode -> Price]
    BY <2>1 DEF Market, LedgerInv, BooksInv
  <2>2. (\A m \in Mode : ~Market(m)) => price' = price
    BY DEF Next, CashFlowCommand, NavAccount, CashFlowPrompt, CashFlowAnswer,
       CashFlowMode, SwitchCommand, SwitchAsk, SwitchAnswer, SwitchMode, Decline,
       ThreadFails, vars, ledger
  <2> QED
    BY <2>1, <2>2 DEF LedgerInv, BooksInv
<1>6. mode' \in Mode
  <2>1. CASE SwitchMode
    BY <2>1 DEF SwitchMode, Answering, Switching, LedgerInv, BooksInv, ThreadsOK
  <2>2. ~SwitchMode => mode' = mode
    BY DEF Next, Market, CashFlowCommand, NavAccount, CashFlowPrompt, CashFlowAnswer,
       CashFlowMode, SwitchCommand, SwitchAsk, SwitchAnswer, Decline,
       ThreadFails, vars, ledger
  <2> QED
    BY <2>1, <2>2 DEF LedgerInv, BooksInv
<1> QED
  BY <1>3, <1>4, <1>5, <1>6 DEF LedgerInv, BooksInv

LEMMA InitBooks == Init => BooksInv
<1> SUFFICES ASSUME Init PROVE BooksInv
  OBVIOUS
<1>1. Seed \in 0..MaxUnits /\ 1 \in Price /\ MaxFlows \in Nat /\ <<>> \in Seq(Flow)
  BY CashFlowsAssumption
<1>2. Len(flows["virtual"]) = 0 /\ Len(flows["real"]) = 0
  BY DEF Init, Mode
<1> QED
  BY <1>1, <1>2 DEF Init, BooksInv, ThreadsOK, NoOverdraft, Mode

LEMMA LedgerInvariant == Spec => []LedgerInv
<1>1. Init => LedgerInv
  BY InitMigrateInv, InitBooks DEF Init, LedgerInv
<1>2. LedgerInv /\ MigrateInv' /\ [Next]_vars => LedgerInv'
  BY BooksStep DEF LedgerInv
<1> QED
  BY <1>1, <1>2, MigrateInvariant, PTL DEF Spec

------------------------------------------------------------------------------
(* Where a flow is written.  A command, a prompt and a y that met no answer *)
(* to a switch have the mode of the moment: only such an answer changes it, *)
(* and while the prompt of a flow is open no such answer can begin.         *)

InMode(m) == ~Answering /\ m = mode

DialogueInv ==
  /\ job # Nothing /\ ~job.switched =>
       /\ ~Answering
       /\ job.stage = "nav" => InMode(job.mode)
  /\ pending # Nothing /\ pending.kind \in Direction /\ ~pending.switched =>
       InMode(pending.mode)
  /\ confirming # Nothing /\ ~confirming.switched =>
       /\ InMode(confirming.mode)
       /\ confirming.stage = "record" => confirming.written = confirming.mode

LEMMA DialogueStep == LedgerInv /\ DialogueInv /\ [Next]_vars => DialogueInv'
<1> SUFFICES ASSUME LedgerInv, DialogueInv, [Next]_vars PROVE DialogueInv'
  OBVIOUS
<1> USE DEF DialogueInv, InMode
<1>0. ThreadsOK
  BY DEF LedgerInv, BooksInv
<1>1. CASE MigrationStep
  BY <1>1 DEF MigrationStep, threads, Answering
<1>2. ASSUME NEW m \in Mode, Market(m) PROVE DialogueInv'
  BY <1>2 DEF Market, threads, Answering
<1>3. ASSUME NEW k \in Direction, NEW a \in Amount, CashFlowCommand(k, a)
      PROVE  DialogueInv'
  BY <1>3 DEF CashFlowCommand, Answering
<1>4. CASE NavAccount
  <2>1. job \in Job /\ job' = [job EXCEPT !.stage = "nav", !.mode = mode]
    BY <1>0, <1>4 DEF NavAccount, ThreadsOK
  <2>2. job'.mode = mode /\ job'.switched = job.switched
    BY <2>1 DEF Job
  <2> QED
    BY <1>4, <2>2 DEF NavAccount, Answering
<1>5. CASE CashFlowPrompt
  <2>1. PICK nav \in NavAnswers(job.mode) :
          pending' = IF Refused(job, nav) THEN pending
                     ELSE [kind |-> job.kind, amount |-> job.amount,
                           nav_before |-> nav, mode |-> job.mode,
                           switched |-> job.switched]
    BY <1>5 DEF CashFlowPrompt
  <2> QED
    BY <1>5, <2>1 DEF CashFlowPrompt, Answering
<1>6. CASE CashFlowAnswer
  BY <1>6 DEF CashFlowAnswer, Answering
<1>7. CASE CashFlowMode
  <2>1. confirming \in Confirming
        /\ confirming' = [confirming EXCEPT !.stage = "record", !.written = mode]
    BY <1>0, <1>7 DEF CashFlowMode, ThreadsOK
  <2>2. /\ confirming'.written = mode /\ confirming'.mode = confirming.mode
        /\ confirming'.switched = confirming.switched
    BY <2>1 DEF Confirming
  <2> QED
    BY <1>7, <2>2 DEF CashFlowMode, Answering
<1>8. CASE CashFlowRecord
  BY <1>8 DEF CashFlowRecord, Answering
<1>9. ASSUME NEW to \in Mode, SwitchCommand(to) PROVE DialogueInv'
  BY <1>9 DEF SwitchCommand, Answering
<1>10. CASE SwitchAsk
  BY <1>10 DEF SwitchAsk, Answering, Direction, Nothing
<1>11. CASE SwitchAnswer
  <2>1. job' # Nothing => job'.switched
    BY <1>0, <1>11 DEF SwitchAnswer, During, ThreadsOK, Job
  <2>2. confirming' # Nothing => confirming'.switched
    BY <1>0, <1>11 DEF SwitchAnswer, During, ThreadsOK, Confirming
  <2>3. pending' = Nothing
    BY <1>11 DEF SwitchAnswer
  <2> QED
    BY <2>1, <2>2, <2>3
<1>12. CASE SwitchMode
  BY <1>12 DEF SwitchMode, Answering
<1>13. CASE Decline \/ ThreadFails
  BY <1>13 DEF Decline, ThreadFails, threads, Answering, Nothing
<1>14. CASE UNCHANGED vars
  BY <1>14 DEF vars, ledger, threads, Answering
<1> QED
  BY <1>1, <1>2, <1>3, <1>4, <1>5, <1>6, <1>7, <1>8, <1>9, <1>10, <1>11, <1>12, <1>13,
     <1>14 DEF Next

\* Messages that are handled one after the other never mix the modes: a flow is
\* written where it was valued, unless an answer to a switch of mode was being
\* handled at the same time as the command or its y.
THEOREM FlowsAreRecordedWhereValued == Spec => []RecordedWhereValued
<1>1. Init => DialogueInv
  BY DEF Init, DialogueInv
<1>2. DialogueInv => RecordedWhereValued
  BY DEF DialogueInv, RecordedWhereValued
<1> QED
  BY <1>1, <1>2, DialogueStep, LedgerInvariant, PTL DEF Spec

\* An account is never overdrawn by a flow recorded with its worth, the ledger
\* keeps rows of the right form, and the one row of the seed has its place,
\* for every bound and every set of amounts and prices.
THEOREM LedgerTypeCorrect == Spec => []LedgerTypeOK
<1>1. LedgerInv => LedgerTypeOK
  <2> SUFFICES ASSUME LedgerInv, NEW m \in Mode
               PROVE  Len(flows[m]) <= MaxFlows /\ Range(flows[m]) \subseteq Flow
    BY DEF LedgerTypeOK, LedgerInv, BooksInv, MigrateInv, ThreadsOK
  <2>1. flows[m] \in Seq(Flow) /\ \A n \in Mode : Len(flows[n]) \in Nat
    BY DEF LedgerInv, BooksInv
  <2>2. Len(flows[m]) <= MaxFlows
    BY <2>1, CashFlowsAssumption DEF LedgerInv, BooksInv, Mode
  <2>3. Range(flows[m]) \subseteq Flow
    BY <2>1 DEF Range
  <2> QED
    BY <2>2, <2>3
<1> QED
  BY <1>1, LedgerInvariant, PTL

------------------------------------------------------------------------------
(* Products over finite sets.  What FoldFunctionOnSet yields does not       *)
(* depend on the order it takes the elements in.                            *)

ProductOf(g, S) == FoldFunctionOnSet(LAMBDA x, y : x * y, 1, g, S)

Chosen(s) == CHOOSE x \in s : TRUE

Multiplies(h, g, S) ==
  h = [s \in SUBSET S |-> IF s = {} THEN 1 ELSE g[Chosen(s)] * h[s \ {Chosen(s)}]]

LEMMA ProductIsChosen ==
  ASSUME NEW g, NEW S
  PROVE  ProductOf(g, S) = (CHOOSE h : Multiplies(h, g, S))[S]
  BY DEF ProductOf, FoldFunctionOnSet, MapThenFoldSet, Multiplies, Chosen

\* A set of subsets of a finite set has one that holds no other.
LEMMA SmallestSubset ==
  ASSUME NEW S, IsFiniteSet(S), NEW T \in SUBSET SUBSET S, T # {}
  PROVE  \E s \in T : \A r \in T : r \subseteq s => r = s
<1>1. IsWellFoundedOn(StrictSubsetOrdering(S), SUBSET S)
  BY FS_StrictSubsetOrderingWellFounded, FS_FiniteSubsetsOfFinite
<1>2. PICK s \in T : \A r \in T : <<r, s>> \notin StrictSubsetOrdering(S)
  BY <1>1, WFMin
<1>3. ASSUME NEW r \in T, r \subseteq s, r # s PROVE FALSE
  BY <1>2, <1>3 DEF StrictSubsetOrdering
<1> QED
  BY <1>3

LEMMA ChosenIn ==
  ASSUME NEW s, s # {}
  PROVE  Chosen(s) \in s
  BY DEF Chosen

\* What a function of this kind gives for one set.
LEMMA MultipliesNone ==
  ASSUME NEW S, NEW g, NEW h, Multiplies(h, g, S)
  PROVE  h[{}] = 1
  BY DEF Multiplies

LEMMA MultipliesAt ==
  ASSUME NEW S, NEW g, NEW h, Multiplies(h, g, S)
  PROVE  \A s \in SUBSET S :
           s # {} => h[s] = g[Chosen(s)] * h[s \ {Chosen(s)}]
  BY DEF Multiplies

\* Two of them agree where both are defined.
LEMMA MultipliesOnce ==
  ASSUME NEW A, NEW B, IsFiniteSet(A), NEW g, NEW h, NEW i,
         Multiplies(h, g, A), Multiplies(i, g, B), NEW s \in SUBSET A, s \subseteq B
  PROVE  h[s] = i[s]
<1> DEFINE T == {r \in SUBSET A : r \subseteq B /\ h[r] # i[r]}
<1> SUFFICES ASSUME T # {} PROVE FALSE
  OBVIOUS
<1>1. PICK r \in T : \A q \in T : q \subseteq r => q = r
  <2>1. T \in SUBSET SUBSET A
    OBVIOUS
  <2> HIDE DEF T
  <2> QED
    BY <2>1, SmallestSubset
<1>2. r \in SUBSET A /\ r \in SUBSET B /\ h[r] # i[r]
  BY <1>1
<1>3. r # {}
  <2>1. h[{}] = 1 /\ i[{}] = 1
    BY MultipliesNone
  <2> QED
    BY <1>2, <2>1
<1>4. PICK q : q = r \ {Chosen(r)}
  OBVIOUS
<1>5. q \subseteq r /\ q # r /\ q \in SUBSET A /\ q \subseteq B
  BY <1>2, <1>3, <1>4, ChosenIn
<1>6. h[q] = i[q]
  BY <1>1, <1>5
<1> HIDE DEF T
<1>7. h[r] = g[Chosen(r)] * h[q]
  <2>1. \A t \in SUBSET A : t # {} => h[t] = g[Chosen(t)] * h[t \ {Chosen(t)}]
    BY MultipliesAt
  <2> QED
    BY <1>2, <1>3, <1>4, <2>1
<1>8. i[r] = g[Chosen(r)] * i[q]
  <2>1. \A t \in SUBSET B : t # {} => i[t] = g[Chosen(t)] * i[t \ {Chosen(t)}]
    BY MultipliesAt
  <2> QED
    BY <1>2, <1>3, <1>4, <2>1
<1> QED
  BY <1>2, <1>6, <1>7, <1>8

\* Where there is one, the product is its value, and follows its recursion.
LEMMA ProductFrom ==
  ASSUME NEW S, IsFiniteSet(S), NEW g,
         \A r \in SUBSET S : \E h : Multiplies(h, g, r)
  PROVE  ProductOf(g, S) = IF S = {} THEN 1 ELSE g[Chosen(S)] * ProductOf(g, S \ {Chosen(S)})
<1>1. ASSUME NEW r \in SUBSET S
      PROVE  \E h : Multiplies(h, g, r) /\ ProductOf(g, r) = h[r]
  BY ProductIsChosen
<1>2. PICK h : Multiplies(h, g, S) /\ ProductOf(g, S) = h[S]
  BY <1>1
<1>3. CASE S = {}
  BY <1>2, <1>3, MultipliesNone
<1>4. CASE S # {}
  <2>1. PICK q : q = S \ {Chosen(S)}
    OBVIOUS
  <2>2. q \in SUBSET S
    BY <2>1
  <2>3. PICK i : Multiplies(i, g, q) /\ ProductOf(g, q) = i[q]
    BY <1>1, <2>2
  <2>4. h[q] = i[q]
    BY <1>2, <2>2, <2>3, MultipliesOnce
  <2>5. h[S] = g[Chosen(S)] * h[q]
    BY <1>2, <1>4, <2>1, MultipliesAt
  <2> QED
    BY <1>2, <1>4, <2>1, <2>3, <2>4, <2>5
<1> QED
  BY <1>3, <1>4

LEMMA MultipliesExists ==
  ASSUME NEW S, IsFiniteSet(S), NEW g
  PROVE  \E h : Multiplies(h, g, S)
<1> DEFINE T == {r \in SUBSET S : ~ \E h : Multiplies(h, g, r)}
<1> SUFFICES ASSUME T # {} PROVE FALSE
  OBVIOUS
<1>1. PICK r \in T : \A q \in T : q \subseteq r => q = r
  <2>1. T \in SUBSET SUBSET S
    OBVIOUS
  <2> HIDE DEF T
  <2> QED
    BY <2>1, SmallestSubset
<1>2. \A q \in SUBSET r : q # r => \E h : Multiplies(h, g, q)
  BY <1>1
<1> DEFINE H == [s \in SUBSET r |->
                   IF s = {} THEN 1 ELSE g[Chosen(s)] * ProductOf(g, s \ {Chosen(s)})]
<1>3. ASSUME NEW q \in SUBSET r, q # r
      PROVE  H[q] = ProductOf(g, q)
  <2>1. IsFiniteSet(q)
    BY <1>1, FS_Subset
  <2>2. \A p \in SUBSET q : \E h : Multiplies(h, g, p)
    BY <1>2, <1>3
  <2> HIDE DEF T
  <2> QED
    BY <2>1, <2>2, ProductFrom
<1>4. Multiplies(H, g, r)
  <2>1. ASSUME NEW s \in SUBSET r, s # {}
        PROVE  H[s \ {Chosen(s)}] = ProductOf(g, s \ {Chosen(s)})
    <3>1. s \ {Chosen(s)} \in SUBSET r /\ s \ {Chosen(s)} # r
      BY <2>1, ChosenIn
    <3> HIDE DEF H
    <3> QED
      BY <1>3, <3>1
  <2>2. H = [s \in SUBSET r |->
               IF s = {} THEN 1 ELSE g[Chosen(s)] * H[s \ {Chosen(s)}]]
    BY <2>1
  <2> HIDE DEF H
  <2> QED
    BY <2>2 DEF Multiplies
<1> QED
  BY <1>1, <1>4

LEMMA ProductChosen ==
  ASSUME NEW S, IsFiniteSet(S), NEW g, S # {}
  PROVE  ProductOf(g, S) = g[Chosen(S)] * ProductOf(g, S \ {Chosen(S)})
<1>1. \A r \in SUBSET S : \E h : Multiplies(h, g, r)
  BY FS_Subset, MultipliesExists
<1> QED
  BY <1>1, ProductFrom

LEMMA ProductOfNone ==
  ASSUME NEW g
  PROVE  ProductOf(g, {}) = 1
<1>1. IsFiniteSet({})
  BY FS_EmptySet
<1>2. \A r \in SUBSET {} : \E h : Multiplies(h, g, r)
  BY <1>1, MultipliesExists
<1> QED
  BY <1>1, <1>2, ProductFrom

LEMMA ProductType ==
  ASSUME NEW S, IsFiniteSet(S), NEW g, \A x \in S : g[x] \in Int
  PROVE  ProductOf(g, S) \in Int
<1> DEFINE T == {r \in SUBSET S : ProductOf(g, r) \notin Int}
<1> SUFFICES ASSUME T # {} PROVE FALSE
  OBVIOUS
<1>1. PICK r \in T : \A q \in T : q \subseteq r => q = r
  <2>1. T \in SUBSET SUBSET S
    OBVIOUS
  <2> HIDE DEF T
  <2> QED
    BY <2>1, SmallestSubset
<1>2. IsFiniteSet(r) /\ r \in SUBSET S /\ ProductOf(g, r) \notin Int
  BY <1>1, FS_Subset
<1>3. r # {}
  BY <1>2, ProductOfNone
<1>4. Chosen(r) \in r /\ ProductOf(g, r \ {Chosen(r)}) \in Int
  BY <1>1, <1>3, ChosenIn
<1>5. g[Chosen(r)] \in Int /\ ProductOf(g, r) = g[Chosen(r)] * ProductOf(g, r \ {Chosen(r)})
  BY <1>2, <1>3, <1>4, ProductChosen
<1> QED
  BY <1>2, <1>4, <1>5

\* Any element can be taken out first.
LEMMA ProductWithout ==
  ASSUME NEW S, IsFiniteSet(S), NEW g, \A x \in S : g[x] \in Int, NEW x \in S
  PROVE  ProductOf(g, S) = g[x] * ProductOf(g, S \ {x})
<1> DEFINE T == {r \in SUBSET S : \E y \in r : ProductOf(g, r) # g[y] * ProductOf(g, r \ {y})}
<1> SUFFICES ASSUME T # {} PROVE FALSE
  OBVIOUS
<1>1. PICK r \in T : \A q \in T : q \subseteq r => q = r
  <2>1. T \in SUBSET SUBSET S
    OBVIOUS
  <2> HIDE DEF T
  <2> QED
    BY <2>1, SmallestSubset
<1>2. r \in SUBSET S /\ \A q \in SUBSET S : IsFiniteSet(q)
  BY <1>1, FS_Subset
<1>3. PICK y \in r : ProductOf(g, r) # g[y] * ProductOf(g, r \ {y})
  BY <1>1
<1>4. PICK c \in r : c = Chosen(r)
  BY <1>3, ChosenIn
<1>5. ProductOf(g, r) = g[c] * ProductOf(g, r \ {c}) /\ c # y
  BY <1>2, <1>3, <1>4, ProductChosen
<1>6. ASSUME NEW a \in r, NEW b \in r \ {a}
      PROVE  ProductOf(g, r \ {a}) = g[b] * ProductOf(g, (r \ {a}) \ {b})
  <2>1. r \ {a} \in SUBSET S /\ r \ {a} \subseteq r /\ r \ {a} # r
    BY <1>2, <1>6
  <2> QED
    BY <1>1, <1>6, <2>1
<1>7. PICK q : q = (r \ {c}) \ {y} /\ q = (r \ {y}) \ {c}
  OBVIOUS
<1>8. /\ ProductOf(g, r \ {c}) = g[y] * ProductOf(g, q)
      /\ ProductOf(g, r \ {y}) = g[c] * ProductOf(g, q)
  BY <1>3, <1>4, <1>5, <1>6, <1>7
<1>9. g[c] \in Int /\ g[y] \in Int /\ ProductOf(g, q) \in Int
  <2>1. IsFiniteSet(q) /\ \A z \in q : g[z] \in Int
    BY <1>2, <1>7
  <2> QED
    BY <1>2, <1>3, <2>1, ProductType
<1>10. \A a, b, d \in Int : a * (b * d) = b * (a * d)
  OBVIOUS
<1> QED
  BY <1>3, <1>5, <1>8, <1>9, <1>10

\* The product depends on nothing but what is multiplied.
LEMMA ProductSame ==
  ASSUME NEW S, IsFiniteSet(S), NEW g, NEW h, \A x \in S : g[x] = h[x]
  PROVE  ProductOf(g, S) = ProductOf(h, S)
<1> DEFINE T == {r \in SUBSET S : ProductOf(g, r) # ProductOf(h, r)}
<1> SUFFICES ASSUME T # {} PROVE FALSE
  OBVIOUS
<1>1. PICK r \in T : \A q \in T : q \subseteq r => q = r
  <2>1. T \in SUBSET SUBSET S
    OBVIOUS
  <2> HIDE DEF T
  <2> QED
    BY <2>1, SmallestSubset
<1>2. r \in SUBSET S /\ IsFiniteSet(r) /\ ProductOf(g, r) # ProductOf(h, r)
  BY <1>1, FS_Subset
<1>3. r # {}
  BY <1>2, ProductOfNone
<1>4. PICK c \in r : c = Chosen(r)
  BY <1>3, ChosenIn
<1>5. ProductOf(g, r \ {c}) = ProductOf(h, r \ {c})
  BY <1>1, <1>2, <1>4
<1>6. g[c] = h[c]
  BY <1>2, <1>4
<1>7. /\ ProductOf(g, r) = g[c] * ProductOf(g, r \ {c})
      /\ ProductOf(h, r) = h[c] * ProductOf(h, r \ {c})
  BY <1>2, <1>3, <1>4, ProductChosen
<1> QED
  BY <1>2, <1>5, <1>6, <1>7

------------------------------------------------------------------------------
(* The return *)

StartOf(r) == r.nav_before + r.signed_amount

CountedIn(f) == {k \in DOMAIN f : StartOf(f[k]) > 0}
Starts(f) == [k \in DOMAIN f |-> StartOf(f[k])]
Ends(f, nav) == [k \in DOMAIN f |-> IF k < Len(f) THEN f[k + 1].nav_before ELSE nav]

LEMMA GrowthIs ==
  ASSUME NEW f, NEW nav
  PROVE  /\ GrowthOf(f, nav).up = ProductOf(Ends(f, nav), CountedIn(f))
         /\ GrowthOf(f, nav).down = ProductOf(Starts(f), CountedIn(f))
  BY DEF GrowthOf, Segment, ProductOf, StartOf, CountedIn, Starts, Ends

LEMMA GrowthOfNone ==
  ASSUME NEW nav
  PROVE  GrowthOf(<<>>, nav).up = 1 /\ GrowthOf(<<>>, nav).down = 1
<1>1. CountedIn(<<>>) = {}
  BY DEF CountedIn
<1> QED
  BY <1>1, GrowthIs, ProductOfNone

LEMMA CountedFinite ==
  ASSUME NEW f \in Seq(Flow)
  PROVE  IsFiniteSet(CountedIn(f)) /\ CountedIn(f) \subseteq 1..Len(f)
<1>1. IsFiniteSet(1..Len(f))
  BY FS_Interval
<1>2. CountedIn(f) \subseteq 1..Len(f)
  BY DEF CountedIn
<1> QED
  BY <1>1, <1>2, FS_Subset

LEMMA GrowthType ==
  ASSUME NEW f \in Seq(Flow), NEW nav \in Nat
  PROVE  GrowthOf(f, nav).up \in Int /\ GrowthOf(f, nav).down \in Int
<1>1. IsFiniteSet(CountedIn(f)) /\ CountedIn(f) \subseteq 1..Len(f)
  BY CountedFinite
<1>2. ASSUME NEW k \in CountedIn(f)
      PROVE  Ends(f, nav)[k] \in Int /\ Starts(f)[k] \in Int
  <2>1. k \in 1..Len(f) /\ f[k] \in Flow /\ (k < Len(f) => f[k + 1] \in Flow)
    BY <1>1, <1>2
  <2> QED
    BY <2>1 DEF Ends, Starts, StartOf, Flow
<1> QED
  BY <1>1, <1>2, GrowthIs, ProductType

\* A new row ends the last segment, and begins one of its own unless it
\* empties the account.
LEMMA GrowthAppended ==
  ASSUME NEW f \in Seq(Flow), NEW r \in Flow, NEW nav \in Nat, NEW old, NEW new,
         old = GrowthOf(f, r.nav_before), new = GrowthOf(Append(f, r), nav)
  PROVE  /\ StartOf(r) > 0 => new.up = nav * old.up /\ new.down = StartOf(r) * old.down
         /\ ~ (StartOf(r) > 0) => new.up = old.up /\ new.down = old.down
<1> DEFINE e == Append(f, r)  n == Len(f) + 1  C == CountedIn(f)
<1>1. /\ Len(f) \in Nat /\ Len(e) = n /\ DOMAIN e = 1..n /\ DOMAIN f = 1..Len(f)
      /\ e[n] = r /\ \A k \in 1..Len(f) : e[k] = f[k] /\ f[k] \in Flow
  OBVIOUS
<1>2. IsFiniteSet(C) /\ C \subseteq 1..Len(f) /\ n \notin C
  BY <1>1, CountedFinite
<1>3. CountedIn(e) = IF StartOf(r) > 0 THEN C \cup {n} ELSE C
  <2>1. \A k \in 1..n : k = n \/ k \in 1..Len(f)
    BY <1>1
  <2>2. \A k \in 1..Len(f) : k \in 1..n /\ k # n
    BY <1>1
  <2> QED
    BY <1>1, <2>1, <2>2 DEF CountedIn
<1>4. ASSUME NEW k \in C
      PROVE  Ends(e, nav)[k] = Ends(f, r.nav_before)[k] /\ Starts(e)[k] = Starts(f)[k]
  <2>1. k \in 1..Len(f) /\ k \in 1..n /\ e[k] = f[k] /\ k < n
    BY <1>1, <1>2
  <2>2. k < Len(f) => e[k + 1] = f[k + 1]
    BY <1>1, <2>1
  <2>3. ~ (k < Len(f)) => e[k + 1] = r
    BY <1>1, <2>1
  <2> QED
    BY <1>1, <2>1, <2>2, <2>3 DEF Ends, Starts
<1>5. /\ ProductOf(Ends(e, nav), C) = old.up /\ ProductOf(Starts(e), C) = old.down
  <2>1. /\ old.up = ProductOf(Ends(f, r.nav_before), C)
        /\ old.down = ProductOf(Starts(f), C)
    BY GrowthIs
  <2> QED
    BY <1>2, <1>4, <2>1, ProductSame
<1>6. /\ new.up = ProductOf(Ends(e, nav), CountedIn(e))
      /\ new.down = ProductOf(Starts(e), CountedIn(e))
  BY GrowthIs
<1>7. CASE StartOf(r) > 0
  <2>1. Ends(e, nav)[n] = nav /\ Starts(e)[n] = StartOf(r) /\ n \in DOMAIN e
    BY <1>1 DEF Ends, Starts
  <2>2. \A k \in C \cup {n} : Ends(e, nav)[k] \in Int /\ Starts(e)[k] \in Int
    <3>1. ASSUME NEW k \in 1..n PROVE e[k] \in Flow
      BY <1>1
    <3>2. ASSUME NEW k \in 1..n, k < n PROVE e[k + 1] \in Flow
      BY <1>1, <3>1, <3>2
    <3>3. ASSUME NEW k \in 1..n PROVE Ends(e, nav)[k] \in Int /\ Starts(e)[k] \in Int
      <4>1. \A row \in Flow : row.nav_before \in Int /\ StartOf(row) \in Int
        BY DEF Flow, StartOf
      <4>2. Starts(e)[k] = StartOf(e[k])
        BY <1>1 DEF Starts
      <4>3. Ends(e, nav)[k] = IF k < n THEN e[k + 1].nav_before ELSE nav
        BY <1>1 DEF Ends
      <4> QED
        BY <3>1, <3>2, <4>1, <4>2, <4>3
    <3>4. C \cup {n} \subseteq 1..n
      BY <1>1, <1>2
    <3> QED
      BY <3>3, <3>4
  <2>3. IsFiniteSet(C \cup {n}) /\ (C \cup {n}) \ {n} = C
    BY <1>2, FS_AddElement
  <2> HIDE DEF n, C, e
  <2>4. /\ ProductOf(Ends(e, nav), C \cup {n}) = nav * ProductOf(Ends(e, nav), C)
        /\ ProductOf(Starts(e), C \cup {n}) = StartOf(r) * ProductOf(Starts(e), C)
    BY <2>1, <2>2, <2>3, ProductWithout
  <2> QED
    BY <1>3, <1>5, <1>6, <1>7, <2>4
<1>8. CASE ~ (StartOf(r) > 0)
  BY <1>3, <1>5, <1>6, <1>8
<1> QED
  BY <1>7, <1>8

\* What the rows of a ledger come to, p in the numerator and d in the
\* denominator, up to the last row: it was written at price c, and what it left
\* in the account is the start of the segment that still runs.
Yields(m, c, p, d) ==
  /\ p * base[m] = d * c
  /\ units[m] = 0 => c = price[m]
  /\ \A nav \in Nat :
       /\ GrowthOf(flows[m], nav).up = IF units[m] > 0 THEN nav * p ELSE p
       /\ GrowthOf(flows[m], nav).down = IF units[m] > 0 THEN (units[m] * c) * d ELSE d

Grown(m) ==
  exact[m] /\ flows[m] # <<>> => \E c \in Price, p \in Int, d \in Int : Yields(m, c, p, d)

\* Before the seed the virtual account is as it was, but for its price.
SeedIsWorth == effect[SeedFile] = 0 => units["virtual"] = Seed /\ base["virtual"] = 1

ReturnInv == LedgerInv /\ SeedIsWorth /\ \A m \in Mode : Grown(m)

LEMMA AccountTypes ==
  ASSUME BooksInv, NEW m \in Mode
  PROVE  /\ units[m] \in Nat /\ price[m] \in Nat \ {0} /\ base[m] \in Nat \ {0}
         /\ price[m] \in Price /\ base[m] \in Price /\ Nav(m) \in Nat
         /\ flows[m] \in Seq(Flow) /\ exact[m] \in BOOLEAN
<1>1. /\ units[m] \in 0..MaxUnits /\ price[m] \in Price /\ base[m] \in Price
      /\ flows[m] \in Seq(Flow) /\ exact[m] \in BOOLEAN
  BY DEF BooksInv
<1>2. units[m] \in Nat /\ price[m] \in Nat \ {0} /\ base[m] \in Nat \ {0}
  <2>1. Price \subseteq Nat \ {0} /\ 0..MaxUnits \subseteq Nat
    BY CashFlowsAssumption
  <2> QED
    BY <1>1, <2>1, Zenon
<1>3. units[m] * price[m] \in Nat
  BY <1>2
<1> QED
  BY <1>1, <1>2, <1>3 DEF Nav

LEMMA GrownIsGrowth ==
  ASSUME BooksInv, NEW m \in Mode, Grown(m), exact[m], flows[m] # <<>>
  PROVE  GrowthOf(flows[m], Nav(m)).up * base[m] = GrowthOf(flows[m], Nav(m)).down * price[m]
<1>1. PICK c \in Price, p \in Int, d \in Int : Yields(m, c, p, d)
  BY DEF Grown
<1>2. PICK u \in Nat, q \in Nat, b \in Nat : u = units[m] /\ q = price[m] /\ b = base[m]
  BY AccountTypes
<1>3. c \in Nat /\ p * b = d * c /\ (u = 0 => c = q) /\ Nav(m) = u * q
  BY <1>1, <1>2, CashFlowsAssumption DEF Yields, Nav
<1>4. /\ GrowthOf(flows[m], Nav(m)).up = IF u > 0 THEN (u * q) * p ELSE p
      /\ GrowthOf(flows[m], Nav(m)).down = IF u > 0 THEN (u * c) * d ELSE d
  <2>1. Nav(m) \in Nat
    BY AccountTypes
  <2> QED
    BY <1>1, <1>2, <1>3, <2>1 DEF Yields
<1>5. CASE u > 0
  <2>1. ((u * q) * p) * b = (u * q) * (p * b)
    BY <1>2
  <2>2. (u * q) * (d * c) = ((u * c) * d) * q
    BY <1>2, <1>3
  <2> QED
    BY <1>2, <1>3, <1>4, <1>5, <2>1, <2>2
<1>6. CASE u = 0
  BY <1>2, <1>3, <1>4, <1>6
<1> QED
  BY <1>2, <1>5, <1>6

\* A row is written at the price of the moment, with the worth of the account
\* before it, and leaves in the account what it starts with.
LEMMA RowGrows ==
  ASSUME BooksInv, NEW m \in Mode, NEW r \in Flow, exact[m], flows[m] # <<>> => Grown(m),
         flows'[m] = Append(flows[m], r), NEW c \in Price,
         units'[m] \in Nat, StartOf(r) = units'[m] * c, price'[m] = c \/ units'[m] # 0,
         GrowthOf(flows[m], r.nav_before).up * base'[m]
           = GrowthOf(flows[m], r.nav_before).down * c
  PROVE  Grown(m)'
<1> DEFINE p == GrowthOf(flows[m], r.nav_before).up
           d == GrowthOf(flows[m], r.nav_before).down
<1>1. c \in Nat \ {0} /\ r.nav_before \in Nat /\ flows[m] \in Seq(Flow)
  BY AccountTypes, CashFlowsAssumption DEF Flow
<1>2. p \in Int /\ d \in Int
  BY <1>1, GrowthType
<1>3. StartOf(r) > 0 <=> units'[m] > 0
  BY <1>1
<1>4. ASSUME NEW nav \in Nat
      PROVE  /\ GrowthOf(flows'[m], nav).up = IF units'[m] > 0 THEN nav * p ELSE p
             /\ GrowthOf(flows'[m], nav).down =
                  IF units'[m] > 0 THEN (units'[m] * c) * d ELSE d
  BY <1>1, <1>3, GrowthAppended
<1>5. p * base'[m] = d * c /\ (units'[m] = 0 => c = price'[m])
  OBVIOUS
<1> HIDE DEF p, d
<1>6. \E pp \in Int, dd \in Int :
        /\ pp * base'[m] = dd * c /\ (units'[m] = 0 => c = price'[m])
        /\ \A nav \in Nat :
             /\ GrowthOf(flows'[m], nav).up = IF units'[m] > 0 THEN nav * pp ELSE pp
             /\ GrowthOf(flows'[m], nav).down =
                  IF units'[m] > 0 THEN (units'[m] * c) * dd ELSE dd
  BY <1>2, <1>4, <1>5
<1> QED
  BY <1>6 DEF Grown, Yields

\* What the growth of a ledger rests on.
LEMMA GrownKept ==
  ASSUME NEW m \in Mode, Grown(m),
         flows'[m] = flows[m], base'[m] = base[m], units'[m] = units[m], exact'[m] = exact[m],
         units[m] = 0 => price'[m] = price[m]
  PROVE  Grown(m)'
<1> SUFFICES ASSUME exact[m], flows[m] # <<>> PROVE Grown(m)'
  BY DEF Grown
<1>1. PICK c \in Price, p \in Int, d \in Int : Yields(m, c, p, d)
  BY DEF Grown
<1>2. Yields(m, c, p, d)'
  BY <1>1 DEF Yields
<1> QED
  BY <1>2 DEF Grown

LEMMA ReturnSeed ==
  ASSUME ReturnInv, LedgerInv', MigrationStep
  PROVE  SeedIsWorth' /\ \A m \in Mode : Grown(m)'
<1>1. UNCHANGED <<mode, units, price, base, exact>>
  BY DEF MigrationStep
<1>2. SeedFile \in File /\ effect[SeedFile] \in {0, 1} /\ effect'[SeedFile] \in {0, 1}
  BY CashFlowsAssumption DEF ReturnInv, LedgerInv, MigrateInv, AppliedOnceInOrder, File
<1>3. effect'[SeedFile] \in {effect[SeedFile], effect[SeedFile] + 1}
  BY <1>2 DEF ReturnInv, LedgerInv, MigrateInv, MigrateTypeOK, MigrationStep, MigrateNext,
     Migrating, Start, ReadVersions, Serve, Execute, Commit, Crash, End, database
<1>4. SeedIsWorth'
  BY <1>1, <1>2, <1>3 DEF SeedIsWorth, ReturnInv
<1>5. CASE effect'[SeedFile] = effect[SeedFile]
  <2>1. flows' = flows
    BY <1>5 DEF MigrationStep
  <2>2. ASSUME NEW m \in Mode PROVE Grown(m)'
    <3>1. Grown(m)
      BY DEF ReturnInv
    <3> QED
      BY <1>1, <2>1, <3>1 DEF Grown, Yields
  <2> QED
    BY <1>4, <2>2
<1>6. CASE effect'[SeedFile] # effect[SeedFile]
  <2> DEFINE row == [signed_amount |-> Seed, nav_before |-> 0]
  <2>1. effect[SeedFile] = 0
    BY <1>2, <1>3, <1>6
  <2>2. /\ \A m \in Mode : flows[m] = <<>>
        /\ units["virtual"] = Seed /\ base["virtual"] = 1
    BY <2>1 DEF ReturnInv, SeedIsWorth, LedgerInv, BooksInv
  <2>3. /\ flows' = [flows EXCEPT !["virtual"] = Append(flows["virtual"], row)]
        /\ flows \in [Mode -> Seq(Flow)] /\ BooksInv
    BY <1>6 DEF MigrationStep, ReturnInv, LedgerInv, BooksInv
  <2>4. /\ Seed \in Nat \ {0} /\ row \in Flow /\ row.nav_before = 0 /\ StartOf(row) = Seed
        /\ 1 \in Price /\ "virtual" \in Mode /\ "real" \in Mode
    BY CashFlowsAssumption DEF Flow, StartOf, Mode
  <2> HIDE DEF row
  <2>5. /\ flows'["virtual"] = Append(flows["virtual"], row)
        /\ flows'["real"] = <<>>
    BY <2>2, <2>3, <2>4
  <2>6. /\ GrowthOf(flows["virtual"], row.nav_before).up = 1
        /\ GrowthOf(flows["virtual"], row.nav_before).down = 1
    BY <2>2, <2>4, GrowthOfNone
  <2>7. ASSUME exact["virtual"]
        PROVE  Grown("virtual")'
    <3>1. /\ units'["virtual"] = Seed /\ base'["virtual"] = 1
          /\ units'["virtual"] \in Nat /\ units'["virtual"] # 0
          /\ StartOf(row) = units'["virtual"] * 1
      BY <1>1, <2>2, <2>4
    <3>2. GrowthOf(flows["virtual"], row.nav_before).up * base'["virtual"]
            = GrowthOf(flows["virtual"], row.nav_before).down * 1
      BY <2>6, <3>1
    <3>3. flows["virtual"] # <<>> => Grown("virtual")
      BY <2>2, <2>4
    <3> QED
      BY <2>3, <2>4, <2>5, <2>7, <3>1, <3>2, <3>3, RowGrows
  <2>8. ~ exact["virtual"] => Grown("virtual")'
    BY <1>1 DEF Grown
  <2>9. Grown("real")'
    BY <2>5 DEF Grown
  <2> QED
    BY <1>4, <2>7, <2>8, <2>9 DEF Mode
<1> QED
  BY <1>5, <1>6

LEMMA ReturnConfirm ==
  ASSUME ReturnInv, LedgerInv', CashFlowRecord
  PROVE  \A m \in Mode : Grown(m)'
<1> DEFINE w == confirming.written
           signed == SignedAmount(confirming.kind, confirming.amount)
           right == confirming.nav_before = Nav(w)
           moved == IF confirming.kind = "deposit" THEN confirming.amount ELSE -confirming.amount
           row == [signed_amount |-> signed, nav_before |-> confirming.nav_before]
           c == price[w]
<1>1. /\ confirming \in Confirming /\ w \in Mode /\ exact[w] /\ BooksInv
      /\ flows' = [flows EXCEPT ![w] = Append(flows[w], row)]
      /\ base' = [base EXCEPT ![w] = IF flows[w] = <<>> THEN c ELSE base[w]]
      /\ units' = [units EXCEPT ![w] =
                     IF right THEN units[w] + moved \div c ELSE units[w]]
      /\ exact' = [exact EXCEPT ![w] = exact[w] /\ right]
      /\ UNCHANGED price
  <2>1. BooksInv /\ confirming \in Confirming
    BY DEF CashFlowRecord, ReturnInv, LedgerInv, BooksInv, ThreadsOK
  <2> QED
    BY <2>1 DEF CashFlowRecord, Confirming
<1>2. /\ flows'[w] = Append(flows[w], row)
      /\ base'[w] = (IF flows[w] = <<>> THEN c ELSE base[w])
      /\ units'[w] = (IF right THEN units[w] + moved \div c ELSE units[w])
      /\ exact'[w] = (exact[w] /\ right)
  BY <1>1 DEF BooksInv
<1> SUFFICES ASSUME NEW m \in Mode PROVE Grown(m)'
  OBVIOUS
<1>3. CASE m # w
  <2>1. /\ flows'[m] = flows[m] /\ base'[m] = base[m] /\ units'[m] = units[m]
        /\ exact'[m] = exact[m] /\ price' = price /\ Grown(m)
    BY <1>1, <1>3 DEF BooksInv, ReturnInv
  <2> QED
    BY <2>1, GrownKept
<1>4. /\ row \in Flow /\ row.nav_before = confirming.nav_before
      /\ StartOf(row) = confirming.nav_before + moved
  <2>1. confirming.amount \in Nat /\ confirming.nav_before \in Nat
    BY <1>1, CashFlowsAssumption DEF Confirming
  <2>2. signed \in Int /\ signed = moved
    BY <2>1 DEF SignedAmount
  <2> HIDE DEF signed, moved
  <2> QED
    BY <2>1, <2>2 DEF Flow, StartOf
<1>5. CASE m = w /\ right
  <2>1. PICK u \in Nat, n \in Nat \ {0} : u = units[w] /\ n = c /\ c \in Price
    BY <1>1, AccountTypes
  <2>2. moved \div c \in Int /\ moved = c * (moved \div c)
    <3>1. confirming.amount \in Amount
      BY <1>1 DEF Confirming
    <3>2. PICK k \in Nat : /\ confirming.amount \div c = k /\ confirming.amount = c * k
                           /\ (-confirming.amount) \div c = -k
      BY <2>1, <3>1, ExactDivision
    <3>3. c * (-k) = -(c * k)
      BY <2>1
    <3> QED
      BY <3>2, <3>3
  <2>3. PICK k \in Int : k = moved \div c /\ moved = n * k
    BY <2>1, <2>2
  <2>4. confirming.nav_before = u * n
    BY <1>5, <2>1 DEF Nav
  <2>5. units'[w] = u + k /\ units'[w] \in Nat
    <3>1. units'[w] \in Nat
      BY <1>1, AccountTypes DEF LedgerInv, BooksInv
    <3> QED
      BY <1>2, <1>5, <2>1, <2>3, <3>1
  <2>6. StartOf(row) = units'[w] * c
    <3>1. u * n + n * k = (u + k) * n
      BY <2>1, <2>3
    <3> QED
      BY <1>4, <2>1, <2>3, <2>4, <2>5, <3>1
  <2>7. GrowthOf(flows[w], row.nav_before).up * base'[w]
          = GrowthOf(flows[w], row.nav_before).down * c
    <3>1. CASE flows[w] = <<>>
      BY <1>2, <2>1, <3>1, GrowthOfNone
    <3>2. CASE flows[w] # <<>>
      <4>1. base'[w] = base[w] /\ row.nav_before = Nav(w)
        BY <1>2, <1>4, <1>5, <3>2
      <4>2. Grown(w)
        BY <1>1 DEF ReturnInv
      <4> HIDE DEF row
      <4> QED
        BY <1>1, <3>2, <4>1, <4>2, GrownIsGrowth
    <3> QED
      BY <3>1, <3>2
  <2>8. price'[w] = c /\ Grown(w)
    BY <1>1 DEF ReturnInv
  <2>9. m = w
    BY <1>5
  <2> HIDE DEF row, c
  <2> QED
    BY <1>1, <1>2, <1>4, <2>1, <2>5, <2>6, <2>7, <2>8, <2>9, RowGrows
<1>6. CASE m = w /\ ~right
  <2>1. ~ exact'[m]
    BY <1>1, <1>2, <1>6
  <2> QED
    BY <2>1 DEF Grown
<1> QED
  BY <1>3, <1>5, <1>6

LEMMA ReturnStep ==
  ASSUME ReturnInv, [Next]_vars, LedgerInv'
  PROVE  ReturnInv'
<1>1. ASSUME UNCHANGED <<effect, units, price, flows, base, exact>>
      PROVE  ReturnInv'
  <2>1. ASSUME NEW m \in Mode PROVE Grown(m)'
    <3>1. Grown(m)
      BY DEF ReturnInv
    <3> QED
      BY <1>1, <3>1 DEF Grown, Yields
  <2> QED
    BY <1>1, <2>1 DEF ReturnInv, SeedIsWorth
<1>2. CASE MigrationStep
  BY <1>2, ReturnSeed DEF ReturnInv
<1>3. ASSUME NEW n \in Mode, Market(n)
      PROVE  ReturnInv'
  <2>1. /\ UNCHANGED <<effect, units, flows, base, exact>> /\ units[n] > 0
        /\ \A m \in Mode : m # n => price'[m] = price[m]
    BY <1>3 DEF Market, migration, database, ReturnInv, LedgerInv, BooksInv
  <2>2. ASSUME NEW m \in Mode PROVE Grown(m)'
    <3>1. Grown(m) /\ (units[m] = 0 => price'[m] = price[m])
      BY <2>1 DEF ReturnInv
    <3> QED
      BY <2>1, <3>1, GrownKept
  <2> QED
    BY <2>1, <2>2 DEF ReturnInv, SeedIsWorth
<1>4. CASE CashFlowRecord
  <2>1. effect'[SeedFile] # 0
    <3>1. SeedFile \in File /\ done[web] = File
      BY <1>4, CashFlowsAssumption
      DEF CashFlowRecord, Serving, ReturnInv, LedgerInv, MigrateInv, File
    <3>2. SeedFile \in versions
      BY <3>1, CashFlowsAssumption DEF ReturnInv, LedgerInv, MigrateInv
    <3> QED
      BY <1>4, <3>1, <3>2
      DEF CashFlowRecord, ReturnInv, LedgerInv, MigrateInv, AppliedOnceInOrder, migration,
          database
  <2> QED
    BY <1>4, <2>1, ReturnConfirm DEF ReturnInv, SeedIsWorth
<1>5. ASSUME NEW k \in Direction, NEW a \in Amount, CashFlowCommand(k, a)
      PROVE  ReturnInv'
  BY <1>1, <1>5 DEF CashFlowCommand, migration, database
<1>6. CASE \/ NavAccount \/ CashFlowPrompt \/ CashFlowAnswer \/ CashFlowMode
           \/ (\E to \in Mode : SwitchCommand(to)) \/ SwitchAsk \/ SwitchAnswer
           \/ SwitchMode \/ Decline \/ ThreadFails
  BY <1>1, <1>6 DEF NavAccount, CashFlowPrompt, CashFlowAnswer, CashFlowMode,
     SwitchCommand, SwitchAsk, SwitchAnswer, SwitchMode, Decline, ThreadFails,
     migration, database
<1>7. CASE UNCHANGED vars
  BY <1>1, <1>7 DEF vars, ledger, migration, database
<1> QED
  BY <1>2, <1>3, <1>4, <1>5, <1>6, <1>7 DEF Next

\* compute_twr is the performance of the strategy: over any number of deposits
\* and withdrawals of any size, emptied accounts included, the return of a
\* ledger written with the right worths is the growth of the price, and nothing
\* else.
THEOREM ReturnIgnoresTheFlows == Spec => []ReturnIsGrowth
<1>1. Init => ReturnInv
  <2>1. Init => LedgerInv
    BY InitMigrateInv, InitBooks DEF Init, LedgerInv
  <2>2. Init => SeedIsWorth /\ \A m \in Mode : Grown(m)
    BY DEF Init, SeedIsWorth, Grown, Mode
  <2> QED
    BY <2>1, <2>2 DEF ReturnInv
<1>2. ReturnInv => ReturnIsGrowth
  <2> SUFFICES ASSUME ReturnInv, NEW m \in Mode, flows[m] # <<>>, exact[m]
               PROVE  GrowthOf(flows[m], Nav(m)).up * base[m]
                        = GrowthOf(flows[m], Nav(m)).down * price[m]
    BY DEF ReturnIsGrowth
  <2> QED
    BY GrownIsGrowth DEF ReturnInv, LedgerInv
<1>3. ReturnInv /\ LedgerInv' /\ [Next]_vars => ReturnInv'
  BY ReturnStep
<1> QED
  BY <1>1, <1>2, <1>3, LedgerInvariant, PTL DEF Spec
==============================================================================

------------------------------- MODULE Migrate -------------------------------
(***************************************************************************)
(* migrate.py: the web service and the cron job both call run_migrations() *)
(* when they start, on one database and with nothing to keep them apart but*)
(* the primary key of schema_migrations.  A process that raises is started *)
(* again: the service by its host, the job at its next trigger.            *)
(***************************************************************************)
EXTENDS Naturals

CONSTANTS
  Proc,        \* the processes that migrate at their start
  Last,        \* the number of files, applied in the order of their names
  MaxCrashes   \* bound on the deaths of processes and connections

ASSUME MigrateAssumption == Last \in Nat \ {0} /\ MaxCrashes \in Nat

VARIABLES
  versions,  \* the rows of schema_migrations
  effect,    \* how often the SQL of each file has been committed
  step,      \* where each process is
  done,      \* the files its loop passes: local done, and what it has applied
  crashes

database == <<versions, effect>>
migration == <<database, step, done, crashes>>

File == 1..Last
Step == {"down", "read", "loop", "commit", "up"}

MigrateTypeOK ==
  /\ versions \in SUBSET File
  /\ effect \in [File -> Nat]
  /\ step \in [Proc -> Step]
  /\ done \in [Proc -> SUBSET File]
  /\ crashes \in 0..MaxCrashes

MigrateInit ==
  /\ versions = {}
  /\ effect = [f \in File |-> 0]
  /\ step = [p \in Proc |-> "down"]
  /\ done = [p \in Proc |-> {}]
  /\ crashes = 0

Goto(p, s) == step' = [step EXCEPT ![p] = s]

\* The process and its connection end; what was not committed is gone.
Down(p) == Goto(p, "down") /\ done' = [done EXCEPT ![p] = {}]

\* The process starts, connects and creates schema_migrations IF NOT EXISTS.
\* Of two that find it missing at once, the second raises.
Start(p) ==
  /\ step[p] = "down"
  /\ \/ Goto(p, "read")
     \/ /\ versions = {} /\ \E q \in Proc : step[q] = "read"
        /\ UNCHANGED step
  /\ UNCHANGED <<database, done, crashes>>

\* _applied_versions()
ReadVersions(p) ==
  /\ step[p] = "read"
  /\ done' = [done EXCEPT ![p] = versions]
  /\ Goto(p, "loop")
  /\ UNCHANGED <<database, crashes>>

\* The loop is at f: the first file it does not pass.
IsNext(p, f) == f \in File \ done[p] /\ 1..(f - 1) \subseteq done[p]

\* q has executed f and not committed it.
Holds(q, f) == step[q] = "commit" /\ IsNext(q, f)

\* Mutated form of Execute: ON CONFLICT DO NOTHING on the version.
ExecuteOnConflict(p, f) ==
  /\ step[p] = "loop"
  /\ IsNext(p, f)
  /\ \A q \in Proc : ~Holds(q, f)
  /\ Goto(p, "commit")
  /\ UNCHANGED <<database, done, crashes>>

\* Mutated form of Execute: the conflict is taken for a reason to try again.
ExecuteAgain(p, f) ==
  /\ step[p] = "loop"
  /\ IsNext(p, f)
  /\ \A q \in Proc : ~Holds(q, f)
  /\ f \notin versions
  /\ Goto(p, "commit")
  /\ UNCHANGED <<database, done, crashes>>

\* The SQL of a file and the row of its version, in one transaction: the row
\* waits for another transaction that has inserted the same, and raises when
\* the version is there.
Execute(p, f) ==
  /\ step[p] = "loop"
  /\ IsNext(p, f)
  /\ \A q \in Proc : ~Holds(q, f)
  /\ IF f \in versions THEN Down(p) ELSE Goto(p, "commit") /\ UNCHANGED done
  /\ UNCHANGED <<database, crashes>>

Commit(p, f) ==
  /\ Holds(p, f)
  /\ versions' = versions \cup {f}
  /\ effect' = [effect EXCEPT ![f] = @ + 1]
  /\ \/ /\ Goto(p, "loop")
        /\ done' = [done EXCEPT ![p] = @ \cup {f}]
        /\ UNCHANGED crashes
     \/ /\ crashes < MaxCrashes         \* the answer is lost
        /\ crashes' = crashes + 1
        /\ Down(p)

\* Mutated form of Serve: a database with versions is taken to be up to date.
ServeOnAnyVersion(p) ==
  /\ step[p] = "loop"
  /\ versions # {}
  /\ Goto(p, "up")
  /\ UNCHANGED <<database, done, crashes>>

\* run_migrations() returns and the process serves.
Serve(p) ==
  /\ step[p] = "loop"
  /\ done[p] = File
  /\ Goto(p, "up")
  /\ UNCHANGED <<database, done, crashes>>

\* The process dies, or its connection breaks and it raises.
Crash(p) ==
  /\ step[p] # "down"
  /\ crashes < MaxCrashes
  /\ crashes' = crashes + 1
  /\ Down(p)
  /\ UNCHANGED database

\* The job is over, or the host puts the idle service to sleep.
End(p) ==
  /\ step[p] = "up"
  /\ Down(p)
  /\ UNCHANGED <<database, crashes>>

\* The progress of p.
Migrating(p) ==
  \/ Start(p) \/ ReadVersions(p) \/ Serve(p)
  \/ \E f \in File : Execute(p, f) \/ Commit(p, f)

MigrateNext == \E p \in Proc : Migrating(p) \/ Crash(p) \/ End(p)

MigrateSpec == MigrateInit /\ [][MigrateNext]_migration

------------------------------------------------------------------------------
(* Properties *)

\* However the two processes start, overlap, fail and start again, each file
\* takes effect once and in the order of the names, and its version is there
\* exactly when its effect is: a second INSERT of the seed of 003 would set
\* the return to -100 %.
AppliedOnceInOrder ==
  \A f \in File : /\ effect[f] = IF f \in versions THEN 1 ELSE 0
                  /\ f \in versions => 1..f \subseteq versions

\* No process serves on a schema older than the one it was written for.
SchemaReady == \A p \in Proc : step[p] = "up" => versions = File

\* Both processes come up in the end: of two that meet in one file, one fails
\* on the key, but only because the other has taken the file.
EveryProcessServes == \A p \in Proc : step[p] = "down" ~> step[p] = "up"
==============================================================================

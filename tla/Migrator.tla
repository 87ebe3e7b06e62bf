------------------------------- MODULE Migrator -------------------------------
(***************************************************************************)
(* The migrations that the migrate command runs, and servers when they     *)
(* start, unless their configuration leaves that to the command            *)
(* (AUTO_MIGRATE, false unless it is set), on one database.                *)
(* pg_try_advisory_lock gives its lock to the connection that asked.  When *)
(* that connection breaks, database/sql goes on with another one, and the  *)
(* lock is free, or held by a session that PostgreSQL has yet to give up.  *)
(***************************************************************************)
EXTENDS Naturals, Sequences

CONSTANTS Starter,           \* servers and migrate commands
          LastFile,          \* files are known by their place in the order of names
          MaxMigratorFaults  \* bound: lost connections, failed statements, crashes

ASSUME MigratorAssumption ==
  /\ "free" \notin Starter /\ "stale" \notin Starter
  /\ LastFile \in Nat /\ MaxMigratorFaults \in Nat

VARIABLES
  lock,        \* who holds the advisory lock: nobody, a starter, a dead session
  at,          \* starter -> where it is in Run, or that it is down or serves
  migrates,    \* starter -> its last start was to migrate
  nextFile,    \* starter -> the file its loop has come to
  applied,     \* rows of schema_migrations
  log,         \* history: the files whose statements have taken effect
  lockLosses,  \* history: connections and processes lost with the lock
  migratorFaults

migratorVars == <<lock, at, migrates, nextFile, applied, log, lockLosses, migratorFaults>>

File == 1..LastFile

MigratorTypeOK ==
  /\ lock \in Starter \cup {"free", "stale"}
  /\ at \in [Starter -> {"down", "check", "apply", "failing", "done", "up"}]
  /\ migrates \in [Starter -> BOOLEAN]
  /\ nextFile \in [Starter -> 1..(LastFile + 1)]
  /\ \A p \in Starter : at[p] = "apply" => nextFile[p] \in File
  /\ applied \subseteq File
  /\ log \in Seq(File)
  /\ lockLosses \in Nat
  /\ migratorFaults \in 0..MaxMigratorFaults

MigratorInit ==
  /\ lock = "free"
  /\ at = [p \in Starter |-> "down"]
  /\ migrates = [p \in Starter |-> FALSE]
  /\ nextFile = [p \in Starter |-> 1]
  /\ applied = {} /\ log = <<>>
  /\ lockLosses = 0 /\ migratorFaults = 0

MigratorFault ==
  /\ migratorFaults < MaxMigratorFaults
  /\ migratorFaults' = migratorFaults + 1

GoTo(p, where) == at' = [at EXCEPT ![p] = where]

\* Mutant of TryLock: the result of the query is not looked at.
TryLockAnyway(p) == lock' = p

\* A start that does not get the lock ends, and changes nothing.
TryLock(p) == lock = "free" /\ lock' = p

StartsTo(p, migrate) == migrates' = [migrates EXCEPT ![p] = migrate]

\* The migrate command, or a server with EnableAutoMigration.
Run(p) ==
  /\ at[p] = "down"
  /\ StartsTo(p, TRUE)
  /\ TryLock(p)
  /\ GoTo(p, "check")
  /\ nextFile' = [nextFile EXCEPT ![p] = 1]
  /\ UNCHANGED <<applied, log, lockLosses, migratorFaults>>

\* A server without EnableAutoMigration serves over the schema that is there.
ServeUnmigrated(p) ==
  /\ at[p] = "down"
  /\ StartsTo(p, FALSE)
  /\ GoTo(p, "up")
  /\ UNCHANGED <<lock, nextFile, applied, log, lockLosses, migratorFaults>>

\* The loop over the files: SELECT 1 decides whether the file is skipped.
Check(p) ==
  /\ at[p] = "check"
  /\ IF nextFile[p] > LastFile
     THEN GoTo(p, "done") /\ UNCHANGED nextFile
     ELSE IF nextFile[p] \in applied
          THEN nextFile' = [nextFile EXCEPT ![p] = @ + 1] /\ UNCHANGED at
          ELSE GoTo(p, "apply") /\ UNCHANGED nextFile
  /\ UNCHANGED <<lock, migrates, applied, log, lockLosses, migratorFaults>>

\* Mutant of Commits: id is no primary key.
CommitsAgain(f) == TRUE

\* The insert finds no row of the file, whoever wrote one since it was checked.
Commits(f) == f \notin applied

\* The transaction of a file: its statements and its row, or neither.
Transact(f) ==
  /\ Commits(f)
  /\ applied' = applied \cup {f}
  /\ log' = Append(log, f)

Apply(p) ==
  /\ at[p] = "apply"
  /\ \/ /\ Transact(nextFile[p])
        /\ nextFile' = [nextFile EXCEPT ![p] = @ + 1]
        /\ GoTo(p, "check")
     \/ /\ ~Commits(nextFile[p])
        /\ GoTo(p, "failing")
        /\ UNCHANGED <<applied, log, nextFile>>
  /\ UNCHANGED <<lock, migrates, lockLosses, migratorFaults>>

\* Mutant of AfterFailure: a file whose statements fail is passed over.
AfterFailurePassed(p) ==
  GoTo(p, "check") /\ nextFile' = [nextFile EXCEPT ![p] = IF @ > LastFile THEN @ ELSE @ + 1]

AfterFailure(p) == GoTo(p, "failing") /\ UNCHANGED nextFile

\* A statement fails, or the context of the start ends; a commit whose answer
\* is lost may have been made.
RunFails(p) ==
  /\ at[p] \in {"check", "apply"} /\ MigratorFault
  /\ AfterFailure(p)
  /\ \/ at[p] = "apply" /\ Transact(nextFile[p])
     \/ UNCHANGED <<applied, log>>
  /\ UNCHANGED <<lock, migrates, lockLosses>>

\* The deferred unlock; on a connection that does not hold the lock it returns
\* false, which nobody looks at.
Unlock(p) ==
  /\ at[p] \in {"done", "failing"}
  /\ lock' = IF lock = p THEN "free" ELSE lock
  /\ GoTo(p, IF at[p] = "done" THEN "up" ELSE "down")
  /\ UNCHANGED <<migrates, nextFile, applied, log, lockLosses, migratorFaults>>

LockIsLost(p) ==
  IF lock = p THEN lock' \in {"free", "stale"} /\ lockLosses' = lockLosses + 1
              ELSE UNCHANGED <<lock, lockLosses>>

\* The connection breaks between two statements: the next one gets another.
LoseConnection(p) ==
  /\ lock = p /\ MigratorFault
  /\ LockIsLost(p)
  /\ UNCHANGED <<at, migrates, nextFile, applied, log>>

\* PostgreSQL gives the dead session up.
SessionEnds ==
  /\ lock = "stale" /\ lock' = "free"
  /\ UNCHANGED <<at, migrates, nextFile, applied, log, lockLosses, migratorFaults>>

\* A server that serves is stopped; the migrate command has nothing left to do.
Stop(p) ==
  /\ at[p] = "up" /\ GoTo(p, "down")
  /\ UNCHANGED <<lock, migrates, nextFile, applied, log, lockLosses, migratorFaults>>

CrashStart(p) ==
  /\ at[p] \notin {"down", "up"} /\ MigratorFault
  /\ GoTo(p, "down")
  /\ LockIsLost(p)
  /\ UNCHANGED <<migrates, nextFile, applied, log>>

MigratorNext ==
  \/ \E p \in Starter :
       \/ Run(p) \/ ServeUnmigrated(p) \/ Check(p) \/ Apply(p) \/ RunFails(p) \/ Unlock(p)
       \/ LoseConnection(p) \/ Stop(p) \/ CrashStart(p)
  \/ SessionEnds

MigratorSpec == MigratorInit /\ [][MigratorNext]_migratorVars

-------------------------------------------------------------------------------
Migrating(p) == at[p] \in {"check", "apply", "failing", "done"}

\* Whatever happens to the lock, and however many processes migrate at once,
\* every file takes effect once and in its place (the primary key of
\* schema_migrations and the loop of Run).
Order == INSTANCE MigrationOrder WITH LastFile <- LastFile, log <- log

AppliesInOrder == Order!Spec

\* Two processes migrate at once only after a connection was lost with the lock.
OneMigratesAtATime ==
  lockLosses = 0 => \A p, q \in Starter : Migrating(p) /\ Migrating(q) => p = q

\* A start that migrates ends only when all files have been applied, by whoever:
\* a server may serve over an incomplete schema only if its configuration leaves
\* the migrations to others.
ServesComplete ==
  \A p \in Starter : at[p] = "done" \/ (at[p] = "up" /\ migrates[p]) => File \subseteq applied
-------------------------------------------------------------------------------
(***************************************************************************)
(* What the steps preserve.                                                *)
(***************************************************************************)

\* The rows are those of a prefix of the files, the one that took effect.
AppliedIsPrefix ==
  /\ applied = 1..Len(log)
  /\ \A i \in 1..Len(log) : log[i] = i

\* A loop has left no file behind.
LoopsFollow ==
  \A p \in Starter : Migrating(p) => \A f \in File : f < nextFile[p] => f \in applied

HolderMigrates ==
  lockLosses = 0 =>
    /\ lock # "stale"
    /\ \A p \in Starter : Migrating(p) <=> lock = p
===============================================================================

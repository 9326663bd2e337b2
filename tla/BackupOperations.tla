-------------------------- MODULE BackupOperations --------------------------
(***************************************************************************)
(* The backup volume and the processes that work on both volumes: the      *)
(* backup service and an operator's commands (src/src/backup/runner.ts,    *)
(* repository.ts, lock.ts; src/src/database/maintenance.ts).  A process    *)
(* may die at every step and leave its locks and temporary files behind;   *)
(* the operator clears them, having made sure that no such process runs.   *)
(*                                                                         *)
(* A backup's name is its time stamp and a number.  The clock of the host  *)
(* may be set back.  A file with a final name is complete (it was verified *)
(* before it was linked), so a file is the database it is a copy of: its   *)
(* writes, its instance, and what has become of that database since: it is *)
(* "live", a restore or an application that began anew has "replaced" it,  *)
(* or restore-migration-backup has "rolled back" to one before it.  This   *)
(* last field is the model's: no file holds it.                            *)
(***************************************************************************)
EXTENDS LiveDatabase

CONSTANTS
    Procs,         \* the processes that run backup and maintenance commands
    KeepCount,     \* how many backups retention keeps
    MaxClock,      \* bound: the clock
    MaxFiles,      \* bound: backups at a time
    MaxMoves,      \* bound: how often the clock moves
    MaxCommands,   \* bound: commands that are run
    MaxDeaths      \* bound: processes that die

(* An inode is unused when no name, process or application holds it: there *)
(* is always a spare one, as on a file system.                             *)
ASSUME BackupAssumption ==
    /\ IsFiniteSet(Procs) /\ Procs \cap {"free", "orphan", "unreadable"} = {}
    /\ KeepCount \in Nat \ {0} /\ MaxClock \in Nat \ {0} /\ MaxFiles \in Nat \ {0}
    /\ MaxMoves \in Nat /\ MaxCommands \in Nat /\ MaxDeaths \in Nat
    /\ Cardinality(Inodes) > Cardinality(Apps) + Cardinality(Procs) + 2

VARIABLES
    clock, moves, commands, deaths,
    block,      \* the backup lock
    plock,      \* the publication lock
    state,      \* perpay-local-backup-state.json
    files,      \* the published backups, by name
    linked,     \* the backup whose staging name is still there, or NoName
    temps,      \* whether temporary files lie in the backup directory
    twoLinks,   \* the backup whose restored copy still has its staging name, or NoName
    proc        \* the processes

time == <<clock, moves, commands, deaths>>
directory == <<state, files, linked, temps>>
volume == <<target, disk, wal, mlock, app, acked, kept, instances, twoLinks>>
vars == <<time, block, plock, directory, volume, proc>>

NoName == <<0, 0>>
Names == (1..MaxClock) \X (1..MaxFiles)
NoCopy == [writes |-> {}, instance |-> 0, of |-> "replaced"]

\* lastAttemptAt, lastSuccessAt and lastErrorAt, where 0 stands for null.
NoState == [name |-> NoName, required |-> FALSE, instance |-> 0,
            attempt |-> 0, success |-> 0, errorAt |-> 0]

\* `at' is when the command began, `now' the clock its retention works with.
Resting == [pc |-> "rest", cmd |-> "none", at |-> 0, now |-> 0, name |-> NoName,
            ino |-> NoFile, copy |-> NoCopy, cur |-> NoState, claimed |-> FALSE]

\* A backup was made of the empty database, or none was.
Init ==
    /\ VolumeInit /\ twoLinks = NoName
    /\ clock = MaxClock /\ moves = 0 /\ commands = 0 /\ deaths = 0
    /\ block = Free /\ plock = Free
    /\ linked = NoName /\ temps = FALSE
    /\ \/ state = NoState /\ files = [n \in {} |-> NoCopy]
       \/ /\ state = [name |-> <<1, 1>>, required |-> FALSE, instance |-> 1,
                       attempt |-> 1, success |-> 1, errorAt |-> 0]
          /\ files = [n \in {<<1, 1>>} |-> [writes |-> {}, instance |-> 1, of |-> "live"]]
    /\ proc = [p \in Procs |-> Resting]

Later(s, t) == IF s >= t THEN s ELSE t
At(p, pc) == proc[p].pc = pc
Does(p, cmds) == proc[p].cmd \in cmds
Goes(p, pc) == proc' = [proc EXCEPT ![p].pc = pc]

\* What a command still knows when it has failed, and when it is done.
Failed(p) == [Resting EXCEPT !.pc = "failed", !.cmd = proc[p].cmd, !.at = proc[p].at,
                             !.now = proc[p].now, !.cur = proc[p].cur]
Done(p) == [Resting EXCEPT !.pc = "release", !.cmd = proc[p].cmd]

Unused == CHOOSE i \in Inodes :
             /\ i # target /\ i # wal
             /\ \A a \in Apps : app[a].ino # i
             /\ \A p \in Procs : proc[p].ino # i

-----------------------------------------------------------------------------
(* The backup lock and what every command does under it first.             *)

AcquireBackupLock(p, cmd) ==
    /\ At(p, "rest") /\ block = Free /\ commands < MaxCommands
    /\ block' = p /\ commands' = commands + 1
    /\ proc' = [proc EXCEPT ![p].pc = "locked", ![p].cmd = cmd,
                            ![p].at = clock, ![p].now = clock]
    /\ UNCHANGED <<clock, moves, deaths, plock, directory, volume>>

ReleaseBackupLock(p) ==
    /\ At(p, "release")
    /\ block' = Free
    /\ proc' = [proc EXCEPT ![p] = Resting]
    /\ UNCHANGED <<time, plock, directory, volume>>

LatestStateTimestamp(s) == Later(s.attempt, Later(s.success, s.errorAt))

\* The first step of executeTrackedCycle and reconcileBackupRetention: a
\* clock behind the state is an error, else a cycle records its attempt.
Prepare(p) ==
    LET attempted == IF Does(p, {"cycle"}) THEN [state EXCEPT !.attempt = proc[p].at] ELSE state
        behind == proc[p].at < LatestStateTimestamp(state)
    IN  /\ At(p, "locked") /\ Does(p, {"cycle", "retention"})
        /\ state' = IF behind THEN state ELSE attempted
        /\ proc' = [proc EXCEPT ![p].cur = attempted,
                                ![p].pc = IF behind THEN "failed" ELSE "recover"]
        /\ UNCHANGED <<time, block, plock, files, linked, temps, volume>>

\* recoverInterruptedBackupFiles: the temporary names go, one of which may be
\* the second name of a published backup.
Recover(p) ==
    /\ \/ At(p, "recover")
       \/ At(p, "locked") /\ Does(p, {"restore"})
    /\ temps' = FALSE /\ linked' = NoName
    /\ proc' = [proc EXCEPT
                  ![p].now = Later(clock, @),
                  ![p].pc = IF Does(p, {"cycle"}) THEN "plock"
                            ELSE IF Does(p, {"restore"}) THEN "select"
                            ELSE IF state.required \/ state.name = NoName THEN "release"
                            ELSE "prune"]
    /\ UNCHANGED <<time, block, plock, state, files, volume>>

-----------------------------------------------------------------------------
(* createOperationalBackup                                                 *)

AcquirePublicationLock(p) ==
    /\ At(p, "plock") /\ plock = Free
    /\ plock' = p
    /\ Goes(p, IF Does(p, {"cycle"}) THEN "source" ELSE "mlock")
    /\ UNCHANGED <<time, block, directory, volume>>

InspectSource(p) ==
    /\ At(p, "source") /\ target # NoFile /\ twoLinks = NoName /\ mlock = Free
    /\ proc' = [proc EXCEPT ![p].pc = "snapshot", ![p].ino = target]
    /\ UNCHANGED <<time, block, plock, directory, volume>>

\* The connection opens whatever the name stands for by now.
TakeSnapshot(p) ==
    /\ At(p, "snapshot") /\ target # NoFile /\ disk[target].sound
    /\ proc' = [proc EXCEPT ![p].pc = "copying",
                  ![p].copy = [writes |-> disk[target].writes,
                               instance |-> disk[target].instance, of |-> "live"]]
    /\ temps' = TRUE
    /\ UNCHANGED <<time, block, plock, state, files, linked, volume>>

\* createVerifiedDatabaseBackup returns and the source is closed.
Copied(p) ==
    /\ At(p, "copying")
    /\ Goes(p, "barrier")
    /\ UNCHANGED <<time, block, plock, directory, volume>>

CheckBarrier(p) ==
    /\ At(p, "barrier") /\ mlock = Free /\ target = proc[p].ino
    /\ Goes(p, "link")
    /\ UNCHANGED <<time, block, plock, directory, volume>>

\* The name holds the time the cycle began; the rest of it is random.
LinkBackup(p) ==
    /\ At(p, "link") /\ Cardinality(DOMAIN files) < MaxFiles
    /\ \E n \in Names \ DOMAIN files :
          /\ n[1] = proc[p].at
          /\ files' = [m \in DOMAIN files \cup {n} |-> IF m = n THEN proc[p].copy ELSE files[m]]
          /\ linked' = n
          /\ proc' = [proc EXCEPT ![p].pc = "unlink", ![p].name = n]
    /\ UNCHANGED <<time, block, plock, state, temps, volume>>

UnlinkStaging(p) ==
    /\ At(p, "unlink")
    /\ linked' = NoName /\ temps' = FALSE
    /\ Goes(p, "punlock")
    /\ UNCHANGED <<time, block, plock, state, files, volume>>

ReleasePublicationLock(p) ==
    /\ At(p, "punlock")
    /\ plock' = Free
    /\ Goes(p, IF Does(p, {"cycle"}) THEN "record" ELSE "finish")
    /\ UNCHANGED <<time, block, directory, volume>>

-----------------------------------------------------------------------------
(* The rest of a cycle: the new recovery point is on record before the     *)
(* first old backup goes.                                                  *)

\* inspectLocalBackup: one link, and not from the future.
Usable(n, now) == n \in DOMAIN files /\ n # linked /\ n[1] =< now

OfInstance(copy, s) == s.instance \in {0, copy.instance}

Recorded(p) == [name |-> proc[p].name, required |-> FALSE, instance |-> proc[p].copy.instance,
                attempt |-> proc[p].at, success |-> clock, errorAt |-> clock]

RecordRecoveryPoint(p) ==
    /\ At(p, "record")
    /\ Usable(proc[p].name, proc[p].at)
    /\ OfInstance(proc[p].copy, proc[p].cur)
    /\ clock >= proc[p].at
    /\ state' = Recorded(p)
    /\ proc' = [proc EXCEPT ![p].pc = "prune", ![p].cur = Recorded(p), ![p].now = clock,
                            ![p].copy = NoCopy, ![p].ino = NoFile]
    /\ UNCHANGED <<time, block, plock, files, linked, temps, volume>>

\* compareBackupsNewestFirst
Newer(m, n) == m[1] > n[1] \/ (m[1] = n[1] /\ m[2] > n[2])

Verified(p) == { n \in DOMAIN files : /\ Usable(n, proc[p].now)
                                      /\ files[n].instance = proc[p].cur.instance }
Newest(p, k) == { n \in Verified(p) : Cardinality({ m \in Verified(p) : Newer(m, n) }) < k }

\* A faulty Kept: the newest only.
KeptNewest(p) == Newest(p, KeepCount)

\* pruneLocalBackups keeps the newest and the one the state names.
Kept(p) ==
    LET point == {proc[p].cur.name} \cap Verified(p)
    IN  IF point \subseteq Newest(p, KeepCount) THEN Newest(p, KeepCount)
        ELSE Newest(p, KeepCount - 1) \cup point

PruneOne(p) ==
    /\ At(p, "prune") /\ proc[p].cur.name \in DOMAIN files
    /\ \E n \in Verified(p) \ Kept(p) :
          /\ \A m \in Verified(p) \ Kept(p) : m = n \/ Newer(n, m)
          /\ files' = [m \in DOMAIN files \ {n} |-> files[m]]
    /\ UNCHANGED <<time, block, plock, state, linked, temps, volume, proc>>

\* Files that could not be verified are left, and make the command fail.
PruneDone(p) ==
    /\ At(p, "prune") /\ proc[p].cur.name \in DOMAIN files /\ Verified(p) \subseteq Kept(p)
    /\ IF DOMAIN files = Verified(p)
       THEN state' = [proc[p].cur EXCEPT !.errorAt = 0] /\ proc' = [proc EXCEPT ![p] = Done(p)]
       ELSE proc' = [proc EXCEPT ![p] = Failed(p)] /\ UNCHANGED state
    /\ UNCHANGED <<time, block, plock, files, linked, temps, volume>>

\* delete-backup-file
DeleteBackupFile(p, n) ==
    /\ At(p, "locked") /\ Does(p, {"delete"})
    /\ n \in DOMAIN files /\ n # linked /\ n # state.name
    /\ files' = [m \in DOMAIN files \ {n} |-> files[m]]
    /\ proc' = [proc EXCEPT ![p] = Done(p)]
    /\ UNCHANGED <<time, block, plock, state, linked, temps, volume>>

-----------------------------------------------------------------------------
(* restore and restore-migration-backup.  The first runs under the backup  *)
(* lock and the publication lock; the second only takes the maintenance    *)
(* lock, and finds its source in the data directory.                       *)

RestoredState(p, n) == [name |-> n, required |-> TRUE, instance |-> files[n].instance,
                        attempt |-> proc[p].at, success |-> proc[p].at, errorAt |-> proc[p].at]

Selects(p, n) ==
    /\ At(p, "select") /\ Usable(n, proc[p].at) /\ OfInstance(files[n], state)
    /\ proc' = [proc EXCEPT ![p].pc = "plock", ![p].copy = files[n], ![p].name = n,
                            ![p].cur = RestoredState(p, n)]

\* A faulty SelectBackup: the state is only written when the restore is done.
SelectBackupOnly(p, n) ==
    /\ Selects(p, n)
    /\ UNCHANGED <<time, block, plock, directory, volume>>

\* The selected backup is on record before anything is replaced.
SelectBackup(p, n) ==
    /\ Selects(p, n)
    /\ state' = RestoredState(p, n)
    /\ UNCHANGED <<time, block, plock, files, linked, temps, volume>>

\* The backup made before the database was migrated: none of the writes.
SelectMigrationBackup(p) ==
    /\ At(p, "rest") /\ commands < MaxCommands
    /\ commands' = commands + 1
    /\ proc' = [proc EXCEPT ![p].pc = "mlock", ![p].cmd = "migration",
                            ![p].copy = [NoCopy EXCEPT !.instance = 1]]
    /\ UNCHANGED <<clock, moves, deaths, block, plock, directory, volume>>

AcquireMaintenanceLock(p) ==
    /\ At(p, "mlock") /\ mlock = Free
    /\ mlock' = p
    /\ Goes(p, "probe")
    /\ UNCHANGED <<time, block, plock, directory, target, disk, wal, app, acked, kept,
                   instances, twoLinks>>

\* inspectCurrentSqliteForRestore.  An operator who asks for the isolation of
\* an unreadable database has stopped everything that could have it open.
Probe(p) ==
    /\ At(p, "probe") /\ twoLinks = NoName
    /\ \/ /\ target = NoFile /\ wal = NoFile /\ Does(p, {"restore"})
          /\ Goes(p, "link target")
       \/ /\ target # NoFile /\ disk[target].sound /\ TRUE \in LeaseExpired(target)
          /\ proc' = [proc EXCEPT ![p].pc = "claim", ![p].ino = target]
       \/ /\ target # NoFile /\ ~disk[target].sound /\ Does(p, {"restore"})
          /\ \A a \in Apps : app[a].pc = "down"
          /\ proc' = [proc EXCEPT ![p].pc = "move", ![p].ino = target]
    /\ UNCHANGED <<time, block, plock, directory, volume>>

\* A faulty Claim: the lease is looked at, and left to whoever comes next.
ClaimOnly(p) ==
    LET i == proc[p].ino
    IN  /\ At(p, "claim") /\ target = i /\ ~WriteLocked(i) /\ TRUE \in LeaseExpired(i)
        /\ Goes(p, "quiesce")
        /\ UNCHANGED <<time, block, plock, directory, volume>>

\* claimAndQuiesceApplicationDatabase: the lease is taken in a transaction ...
Claim(p) ==
    LET i == proc[p].ino
    IN  /\ At(p, "claim") /\ target = i /\ ~WriteLocked(i) /\ TRUE \in LeaseExpired(i)
        /\ disk' = [disk EXCEPT ![i].owner = "maintenance"]
        /\ proc' = [proc EXCEPT ![p].pc = "quiesce", ![p].claimed = TRUE]
        /\ UNCHANGED <<time, block, plock, directory, target, wal, mlock, app, acked, kept,
                       instances, twoLinks>>

Reading(i) == \E p \in Procs : At(p, "copying") /\ proc[p].ino = i

\* ... and WAL mode can only be left when nobody else is connected.
Quiesce(p) ==
    /\ At(p, "quiesce") /\ Attached(proc[p].ino) = {} /\ ~Reading(proc[p].ino)
    /\ wal' = NoFile
    /\ Goes(p, "quarantine")
    /\ UNCHANGED <<time, block, plock, directory, target, disk, mlock, app, acked, kept,
                   instances, twoLinks>>

Quarantine(p) ==
    /\ At(p, "quarantine") /\ target = proc[p].ino
    /\ kept' = kept \cup disk[target].writes
    /\ Goes(p, "replace")
    /\ UNCHANGED <<time, block, plock, directory, target, disk, wal, mlock, app, acked,
                   instances, twoLinks>>

\* The backups of the database that was in use are not backups of the new one.
Outdated == [n \in DOMAIN files |-> [files[n] EXCEPT !.of = "replaced"]]

\* restoreMigrationBackup leaves the backup state as it is: the backups stay on
\* record, and a copy a command has in hand will come on record.
RolledBack(c) == [c EXCEPT !.of = IF c.of = "live" THEN "rolled back" ELSE c.of]
RollBack(p) ==
    /\ files' = [n \in DOMAIN files |-> RolledBack(files[n])]
    /\ proc' = [q \in Procs |-> [proc[q] EXCEPT !.pc = IF q = p THEN "munlock" ELSE proc[q].pc,
                                                !.copy = RolledBack(proc[q].copy)]]

Published(p, i) ==
    /\ target' = i
    /\ disk' = [Freed(disk, target) EXCEPT ![i] = Created(proc[p].copy.writes, proc[p].copy.instance)]

Replace(p) ==
    /\ At(p, "replace") /\ target = proc[p].ino /\ wal = NoFile
    /\ Published(p, Unused)
    /\ IF Does(p, {"migration"}) THEN RollBack(p) ELSE files' = Outdated /\ Goes(p, "munlock")
    /\ UNCHANGED <<time, block, plock, state, linked, temps, wal, mlock, app, acked, kept,
                   instances, twoLinks>>

\* moveUnreadableSqliteArtifacts, file by file.
MoveDatabase(p) ==
    /\ At(p, "move") /\ target # NoFile
    /\ kept' = kept \cup disk[target].writes
    /\ target' = NoFile /\ disk' = Freed(disk, target)
    /\ Goes(p, "move wal")
    /\ UNCHANGED <<time, block, plock, directory, wal, mlock, app, acked, instances, twoLinks>>

MoveWal(p) ==
    /\ At(p, "move wal")
    /\ wal' = NoFile
    /\ Goes(p, "link target")
    /\ UNCHANGED <<time, block, plock, directory, target, disk, mlock, app, acked, kept,
                   instances, twoLinks>>

\* link() does not replace a database that has appeared meanwhile.
LinkTarget(p) ==
    /\ At(p, "link target") /\ target = NoFile /\ wal = NoFile
    /\ Published(p, Unused)
    /\ files' = Outdated /\ twoLinks' = proc[p].name
    /\ Goes(p, "unstage")
    /\ UNCHANGED <<time, block, plock, state, linked, temps, wal, mlock, app, acked, kept, instances>>

Unstage(p) ==
    /\ At(p, "unstage")
    /\ twoLinks' = NoName
    /\ Goes(p, "munlock")
    /\ UNCHANGED <<time, block, plock, directory, target, disk, wal, mlock, app, acked, kept, instances>>

ReleaseMaintenanceLock(p) ==
    /\ At(p, "munlock")
    /\ mlock' = Free
    /\ proc' = IF Does(p, {"migration"}) THEN [proc EXCEPT ![p] = Resting]
               ELSE [proc EXCEPT ![p].pc = "punlock", ![p].ino = NoFile,
                                 ![p].claimed = FALSE, ![p].copy = NoCopy]
    /\ UNCHANGED <<time, block, plock, directory, target, disk, wal, app, acked, kept,
                   instances, twoLinks>>

FinishRestore(p) ==
    /\ At(p, "finish")
    /\ state' = [proc[p].cur EXCEPT !.errorAt = 0, !.success = Later(clock, proc[p].at)]
    /\ proc' = [proc EXCEPT ![p] = Done(p)]
    /\ UNCHANGED <<time, block, plock, files, linked, temps, volume>>

-----------------------------------------------------------------------------
(* Errors and deaths.                                                      *)

Without(n) == [m \in DOMAIN files \ {n} |-> files[m]]

\* createOperationalBackup removes what it has made.
BackupFails(p) ==
    /\ Does(p, {"cycle"})
    /\ proc[p].pc \in {"recover", "plock", "source", "snapshot", "copying", "barrier", "link", "unlink"}
    /\ IF At(p, "recover") THEN UNCHANGED <<temps, linked>> ELSE temps' = FALSE /\ linked' = NoName
    /\ files' = IF At(p, "unlink") THEN Without(proc[p].name) ELSE files
    /\ plock' = IF plock = p THEN Free ELSE plock
    /\ proc' = [proc EXCEPT ![p] = Failed(p)]
    /\ UNCHANGED <<time, block, state, volume>>

\* The maintenance lock stays when a step may have left the files in between,
\* or when the maintenance lease could not be given back.
RestoreFails(p) ==
    LET pc == proc[p].pc
        between == \/ pc \in {"move wal", "unstage", "munlock"}
                   \/ pc \in {"probe", "link target"} /\ target = NoFile /\ wal # NoFile
                   \/ pc = "link target" /\ proc[p].ino # NoFile
    IN  /\ Does(p, {"restore", "migration"})
        /\ pc \in {"plock", "mlock", "probe", "claim", "quiesce", "quarantine", "replace", "move",
                   "move wal", "link target", "unstage", "munlock"}
        /\ \/ /\ mlock' = IF mlock = p THEN (IF between THEN Orphan ELSE Free) ELSE mlock
              /\ disk' = IF proc[p].claimed /\ pc # "munlock"
                         THEN [disk EXCEPT ![proc[p].ino].owner = "nobody"]
                         ELSE disk
           \/ /\ pc = "move" \/ (proc[p].claimed /\ pc # "munlock")
              /\ mlock' = Orphan
              /\ UNCHANGED disk
        /\ plock' = IF plock = p THEN Free ELSE plock
        /\ proc' = [proc EXCEPT ![p] = IF Does(p, {"migration"}) THEN Resting ELSE Failed(p)]
        /\ UNCHANGED <<time, block, directory, target, wal, app, acked, kept, instances, twoLinks>>

\* createLocalBackup removes a backup it cannot accept, the checks after it
\* leave it.
RefusesBackup(p) ==
    /\ At(p, "record")
    /\ \/ files' = Without(proc[p].name)
       \/ OfInstance(proc[p].copy, proc[p].cur) /\ UNCHANGED files
    /\ proc' = [proc EXCEPT ![p] = Failed(p)]
    /\ UNCHANGED <<time, block, plock, state, linked, temps, volume>>

\* Retention fails before it deletes or between two deletions.
RetentionFails(p) ==
    /\ At(p, "prune") \/ (At(p, "recover") /\ Does(p, {"retention"}))
    /\ proc' = [proc EXCEPT ![p] = Failed(p)]
    /\ UNCHANGED <<time, block, plock, directory, volume>>

\* A restore or a deletion that is refused before it has changed anything.
RefusesCommand(p) ==
    /\ At(p, "select") \/ (At(p, "locked") /\ Does(p, {"restore", "delete"}))
    /\ proc' = [proc EXCEPT ![p] = Done(p)]
    /\ UNCHANGED <<time, block, plock, directory, volume>>

RecordFailure(p) ==
    /\ At(p, "failed")
    /\ state' = [proc[p].cur EXCEPT
                    !.errorAt = Later(clock, IF Does(p, {"retention"}) THEN proc[p].now ELSE proc[p].at)]
    /\ proc' = [proc EXCEPT ![p] = Done(p)]
    /\ UNCHANGED <<time, block, plock, files, linked, temps, volume>>

\* A lock is created before its record is written.
Abandoned(lock, p, here) ==
    IF lock = p THEN {Orphan}
    ELSE {lock} \cup (IF lock = Free /\ At(p, here) THEN {Unreadable} ELSE {})

\* The process dies.  The backup lock is linked when it is complete.
ProcDies(p) ==
    /\ ~At(p, "rest") /\ deaths < MaxDeaths
    /\ deaths' = deaths + 1
    /\ proc' = [proc EXCEPT ![p] = Resting]
    /\ block' = IF block = p THEN Orphan ELSE block
    /\ plock' \in Abandoned(plock, p, "plock")
    /\ mlock' \in Abandoned(mlock, p, "mlock")
    /\ UNCHANGED <<clock, moves, commands, directory, target, disk, wal, app, acked, kept, instances, twoLinks>>

-----------------------------------------------------------------------------
(* The operator's clear commands.  Each demands the confirmation that no   *)
(* such process is left.                                                   *)

AllStopped == \A p \in Procs : At(p, "rest")

ClearBackupLock ==
    /\ AllStopped /\ block = Orphan
    /\ block' = Free
    /\ UNCHANGED <<time, plock, directory, volume, proc>>

ClearPublicationLock ==
    /\ AllStopped /\ plock \in {Orphan, Unreadable}
    /\ plock' = Free
    /\ UNCHANGED <<time, block, directory, volume, proc>>

\* finalizeInterruptedFreshRestorePublication compares with the backup.
FinalizeFreshRestore ==
    /\ AllStopped /\ mlock = Orphan /\ twoLinks # NoName
    /\ twoLinks \in DOMAIN files /\ twoLinks # linked /\ wal = NoFile
    /\ twoLinks' = NoName
    /\ UNCHANGED <<time, block, plock, directory, target, disk, wal, mlock, app, acked, kept,
                   instances, proc>>

\* A faulty SidecarsGone: a missing database is not looked at any further.
SidecarsIgnored == TRUE

\* assertSelfContainedSqlite when the database is missing.
SidecarsGone == target = NoFile => wal = NoFile

\* Opening and closing the database takes its -wal file away.
ClearMaintenanceLock ==
    /\ AllStopped /\ mlock = Orphan /\ twoLinks = NoName
    /\ SidecarsGone
    /\ IF target = NoFile THEN UNCHANGED <<disk, wal>>
       ELSE /\ disk[target].sound
            /\ disk' = IF disk[target].owner = "maintenance"
                       THEN [disk EXCEPT ![target].owner = "nobody"] ELSE disk
            /\ wal' = IF Attached(target) = {} THEN NoFile ELSE wal
    /\ mlock' = Free
    /\ UNCHANGED <<time, block, plock, directory, target, app, acked, kept, instances, twoLinks, proc>>

ClearUnreadableMaintenanceLock ==
    /\ AllStopped /\ mlock = Unreadable
    /\ IF target = NoFile THEN SidecarsGone ELSE disk[target].sound /\ TRUE \in LeaseExpired(target)
    /\ mlock' = Free
    /\ UNCHANGED <<time, block, plock, directory, target, disk, wal, app, acked, kept, instances,
                   twoLinks, proc>>

-----------------------------------------------------------------------------
\* The clock goes on, or is set back.
ClockMoves ==
    /\ moves < MaxMoves
    /\ clock' \in (1..MaxClock) \ {clock} /\ moves' = moves + 1
    /\ UNCHANGED <<commands, deaths, block, plock, directory, volume, proc>>

\* An application that creates the database leaves the backups without one.
Application ==
    /\ \/ \E a \in Apps : AppStep(a, Unused)
       \/ Damage
    /\ files' = IF target = NoFile /\ target' # NoFile THEN Outdated ELSE files
    /\ UNCHANGED <<time, block, plock, state, linked, temps, twoLinks, proc>>

BackupStep(p) ==
    \/ \E cmd \in {"cycle", "retention", "delete", "restore"} : AcquireBackupLock(p, cmd)
    \/ ReleaseBackupLock(p) \/ Prepare(p) \/ Recover(p)
    \/ AcquirePublicationLock(p) \/ InspectSource(p) \/ TakeSnapshot(p) \/ Copied(p)
    \/ CheckBarrier(p) \/ LinkBackup(p) \/ UnlinkStaging(p) \/ ReleasePublicationLock(p)
    \/ RecordRecoveryPoint(p) \/ PruneOne(p) \/ PruneDone(p)
    \/ \E n \in DOMAIN files : DeleteBackupFile(p, n)

RestoreStep(p) ==
    \/ \E n \in DOMAIN files : SelectBackup(p, n)
    \/ SelectMigrationBackup(p) \/ AcquireMaintenanceLock(p) \/ Probe(p) \/ Claim(p)
    \/ Quiesce(p) \/ Quarantine(p) \/ Replace(p) \/ MoveDatabase(p) \/ MoveWal(p)
    \/ LinkTarget(p) \/ Unstage(p) \/ ReleaseMaintenanceLock(p) \/ FinishRestore(p)

FailureStep(p) ==
    \/ BackupFails(p) \/ RestoreFails(p) \/ RefusesBackup(p) \/ RetentionFails(p)
    \/ RefusesCommand(p) \/ RecordFailure(p) \/ ProcDies(p)

OperatorStep ==
    \/ ClearBackupLock \/ ClearPublicationLock \/ FinalizeFreshRestore
    \/ ClearMaintenanceLock \/ ClearUnreadableMaintenanceLock

Next ==
    \/ \E p \in Procs : BackupStep(p) \/ RestoreStep(p) \/ FailureStep(p)
    \/ Application \/ OperatorStep \/ ClockMoves

Spec == Init /\ [][Next]_vars

-----------------------------------------------------------------------------
(* Properties.                                                             *)

(* The backup the state names is there, whatever retention, deletion,      *)
(* failed cycles and interrupted commands have removed, and also when the  *)
(* clock was set back (runner.ts: "can never lose the new one").           *)
RecoveryPointKept == state.name # NoName => state.name \in DOMAIN files

\* inspectBackupHealth, as far as the age of the backup allows it.
HealthOk ==
    /\ state.name # NoName /\ Usable(state.name, MaxClock)
    /\ clock >= LatestStateTimestamp(state)
    /\ ~(state.errorAt # 0 /\ state.errorAt >= state.success)
    /\ ~state.required
    /\ ~(temps /\ block = Free)

(* When the backup service reports itself healthy, the backup it vouches   *)
(* for is one of the database in use, not of one that a restore has        *)
(* replaced or an application has begun anew, whatever was interrupted     *)
(* (inspectBackupHealth).  The exception: restore-migration-backup          *)
(* replaces the database without the backup state (maintenance.ts:914), so  *)
(* until a backup begun after it is on record, the report is about one of   *)
(* the database before it.                                                 *)
HealthyBackupIsNotOfReplaced == HealthOk => files[state.name].of # "replaced"

=============================================================================

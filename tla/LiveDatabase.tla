---------------------------- MODULE LiveDatabase ----------------------------
(***************************************************************************)
(* The database file of the data volume and the application processes that *)
(* open it: AppDatabase (src/src/database/database.ts) with its lease, and *)
(* the maintenance lock (maintenance-lock.ts) it looks for.                *)
(*                                                                         *)
(* A database is an inode.  `target' is the inode under the database's     *)
(* name; a connection keeps the inode it opened, also when the name has    *)
(* moved on.  Of the contents only the acknowledged writes and the         *)
(* instance identity are kept.                                             *)
(* An application may be suspended for longer than LEASE_TTL_MS at any     *)
(* step, and renews its lease when it runs: whoever looks at the lease of  *)
(* an application may find it expired or not.  Maintenance takes a lease   *)
(* of a day, which does not expire here.                                   *)
(***************************************************************************)
EXTENDS Naturals, FiniteSets

CONSTANTS
    Apps,        \* application processes
    Writes,      \* the writes they make
    Inodes,      \* enough that one is always unused
    MaxInstances \* bound: databases created from nothing

ASSUME VolumeAssumption ==
    /\ IsFiniteSet(Apps) /\ IsFiniteSet(Writes)
    /\ {"nobody", "gone", "maintenance"} \cap Apps = {}
    /\ Inodes \subseteq Nat \ {0} /\ IsFiniteSet(Inodes) /\ Inodes # {}
    /\ MaxInstances \in Nat \ {0}

VARIABLES
    target,     \* the inode under the database's name, or NoFile
    disk,       \* the contents of each inode
    wal,        \* whose -wal file lies beside the name, or NoFile
    mlock,      \* the maintenance lock
    app,        \* the application processes
    acked,      \* the writes that were committed
    kept,       \* the writes preserved in quarantined copies and directories
    instances   \* how many databases were created

NoFile == 0

\* A lock is free, held by a process, left behind by one that died, or left
\* behind before its record was written.
Free == "free"
Orphan == "orphan"
Unreadable == "unreadable"

Created(writes, instance) == [writes |-> writes, instance |-> instance, sound |-> TRUE,
                              owner |-> "nobody"]
Down == [pc |-> "down", ino |-> NoFile, writing |-> FALSE, lost |-> FALSE]

VolumeInit ==
    /\ target = CHOOSE i \in Inodes : TRUE
    /\ disk = [i \in Inodes |-> Created({}, 1)]
    /\ wal = NoFile
    /\ mlock = Free
    /\ app = [a \in Apps |-> Down]
    /\ acked = {} /\ kept = {} /\ instances = 1

\* The connections that hold SQLite's lock on an inode.
Attached(i) == { a \in Apps : app[a].ino = i /\ app[a].pc \in {"leased", "up"} }
WriteLocked(i) == \E a \in Apps : app[a].ino = i /\ app[a].writing

\* An inode without a name goes when nobody has it open.
Freed(d, i) ==
    IF i # NoFile /\ \A a \in Apps : app[a].ino # i THEN [d EXCEPT ![i] = Created({}, 1)] ELSE d

(***************************************************************************)
(* AppDatabase.open: the maintenance lock is looked for three times, around *)
(* the connection and the lease.                                           *)
(***************************************************************************)
Starts(a) ==
    /\ app[a].pc = "down" /\ mlock = Free
    /\ app' = [app EXCEPT ![a].pc = "checked"]
    /\ UNCHANGED <<target, disk, wal, mlock, acked, kept, instances>>

\* A database that is not there is created, empty, by opening it.
Connects(a, unused) ==
    /\ app[a].pc = "checked"
    /\ IF target # NoFile
       THEN /\ app' = [app EXCEPT ![a].pc = "connected", ![a].ino = target]
            /\ UNCHANGED <<target, disk, instances>>
       ELSE /\ instances < MaxInstances
            /\ instances' = instances + 1
            /\ app' = [app EXCEPT ![a].pc = "connected", ![a].ino = unused]
            /\ target' = unused
            /\ disk' = [disk EXCEPT ![unused] = Created({}, instances')]
    /\ UNCHANGED <<wal, mlock, acked, kept>>

ChecksAgain(a) ==
    /\ app[a].pc = "connected"
    /\ app' = IF mlock = Free THEN [app EXCEPT ![a].pc = "idle"] ELSE [app EXCEPT ![a] = Down]
    /\ UNCHANGED <<target, disk, wal, mlock, acked, kept, instances>>

\* The answers a look at somebody else's lease may give.
LeaseExpired(i) == IF disk[i].owner = "nobody" THEN {TRUE}
                   ELSE IF disk[i].owner = "maintenance" THEN {FALSE} ELSE BOOLEAN

\* configurePragmas and acquireLease.
TakesLease(a) ==
    LET i == app[a].ino
    IN  /\ app[a].pc = "idle" /\ ~WriteLocked(i)
        /\ \E expired \in LeaseExpired(i) :
              IF disk[i].sound /\ expired
              THEN /\ app' = [app EXCEPT ![a].pc = "leased"]
                   /\ disk' = [disk EXCEPT ![i].owner = a]
                   /\ wal' = IF i = target THEN i ELSE wal
              ELSE /\ app' = [app EXCEPT ![a] = Down]
                   /\ UNCHANGED <<disk, wal>>
        /\ UNCHANGED <<target, mlock, acked, kept, instances>>

LeaseReleased(a) ==
    [i \in Inodes |-> IF disk[i].owner = a
                      THEN [disk[i] EXCEPT !.owner = "nobody"] ELSE disk[i]]

\* The last connection to close takes the -wal file with it.
WalWithout(a) == IF wal = app[a].ino /\ Attached(wal) \subseteq {a} THEN NoFile ELSE wal

\* The rest of the start runs under the heartbeat of the lease.
Opens(a) ==
    /\ app[a].pc = "leased"
    /\ IF mlock = Free /\ disk[app[a].ino].owner = a
       THEN /\ app' = [app EXCEPT ![a].pc = "up"]
            /\ UNCHANGED <<disk, wal>>
       ELSE /\ app' = [app EXCEPT ![a] = Down]
            /\ disk' = LeaseReleased(a) /\ wal' = WalWithout(a)
    /\ UNCHANGED <<target, mlock, acked, kept, instances>>

(***************************************************************************)
(* AppDatabase.write: the lock and the lease are looked at once more when  *)
(* SQLite's write lock is held, and the lease is renewed before the commit. *)
(***************************************************************************)
Begins(a) ==
    /\ app[a].pc = "up" /\ ~app[a].lost /\ ~WriteLocked(app[a].ino)
    /\ \/ /\ mlock = Free /\ disk[app[a].ino].owner = a
          /\ app' = [app EXCEPT ![a].writing = TRUE]
       \/ /\ mlock = Free
          /\ app' = [app EXCEPT ![a].lost = TRUE]
    /\ UNCHANGED <<target, disk, wal, mlock, acked, kept, instances>>

Commits(a) ==
    LET i == app[a].ino
    IN  /\ app[a].writing
        /\ \E w \in Writes \ acked :
              /\ acked' = acked \cup {w}
              /\ disk' = [disk EXCEPT ![i].writes = @ \cup {w}]
        /\ app' = [app EXCEPT ![a].writing = FALSE]
        /\ UNCHANGED <<target, wal, mlock, kept, instances>>

\* #renewLease finds that the lease has gone to somebody else.
Renews(a) ==
    /\ app[a].pc = "up" /\ ~app[a].lost /\ ~WriteLocked(app[a].ino)
    /\ disk[app[a].ino].owner # a
    /\ app' = [app EXCEPT ![a].lost = TRUE]
    /\ UNCHANGED <<target, disk, wal, mlock, acked, kept, instances>>

Closes(a) ==
    /\ app[a].pc = "up" /\ ~app[a].writing
    /\ app' = [app EXCEPT ![a] = Down]
    /\ disk' = LeaseReleased(a) /\ wal' = WalWithout(a)
    /\ UNCHANGED <<target, mlock, acked, kept, instances>>

\* The process dies; its lease and the -wal file stay.
Dies(a) ==
    /\ app[a].pc # "down"
    /\ app' = [app EXCEPT ![a] = Down]
    /\ disk' = [i \in Inodes |-> IF disk[i].owner = a THEN [disk[i] EXCEPT !.owner = "gone"]
                                                      ELSE disk[i]]
    /\ UNCHANGED <<target, wal, mlock, acked, kept, instances>>

\* The file is damaged while nobody has it open.
Damage ==
    /\ target # NoFile /\ disk[target].sound
    /\ \A a \in Apps : app[a].ino # target
    /\ disk' = [disk EXCEPT ![target].sound = FALSE]
    /\ UNCHANGED <<target, wal, mlock, app, acked, kept, instances>>

AppStep(a, unused) ==
    \/ Starts(a) \/ Connects(a, unused) \/ ChecksAgain(a) \/ TakesLease(a) \/ Opens(a)
    \/ Begins(a) \/ Commits(a) \/ Renews(a) \/ Closes(a) \/ Dies(a)

-----------------------------------------------------------------------------
(* Properties.                                                             *)

(* A write the application has acknowledged is in the database, or in a    *)
(* copy or directory a restore set aside (AppDatabase.write against        *)
(* claimAndQuiesceApplicationDatabase and the replacement of the file).    *)
NothingLost ==
    acked \subseteq kept \cup (IF target = NoFile THEN {} ELSE disk[target].writes)

(* An application never opens a database beside the -wal file of another   *)
(* one, which SQLite would take for its own: "a subsequent application     *)
(* start could pair the new database with that unrelated WAL" (comment at  *)
(* maintenance.ts, restoreOperationalBackup).                              *)
OwnWalOnly ==
    \A a \in Apps :
        app[a].pc \in {"connected", "idle", "leased", "up"} /\ app[a].ino = target =>
            wal \in {NoFile, target}

=============================================================================

---------------------------- MODULE BackupProofs ----------------------------
(***************************************************************************)
(* Theorems about backups, restores and the live database: whoever moves   *)
(* the database and wherever a command dies, the database, its saved copy  *)
(* or the image it was taken from is there, a -wal is that of the database *)
(* it lies beside, the recovery point survives pruning, and a backup the   *)
(* health report vouches for is not of a database a restore has replaced   *)
(* (restore-migration-backup excepted).                                    *)
(*                                                                         *)
(* DInv is about what the commands know: which stage each of them may be   *)
(* in, that the backup lock is held exactly by those in a backup, that the *)
(* backup the state names is in the directory, and that what a command has *)
(* read of the state, the directory and its target still stands.  MInv     *)
(* says what the holder of the maintenance lock has made sure of before    *)
(* each of its steps; NothingLost is the part of it a reader cares for,    *)
(* but a restore keeps it only because of what its earlier steps saw.      *)
(***************************************************************************)
EXTENDS BackupOperations, FiniteSetTheorems, TLAPS

-----------------------------------------------------------------------------
(* The types of the tables.                                                *)

Copies == [writes : SUBSET Writes, instance : Nat,
           of : {"live", "replaced", "rolled back"}]
States == [name : Names \cup {NoName}, required : BOOLEAN, instance : Nat,
           attempt : Nat, success : Nat, errorAt : Nat]
Contents == [writes : SUBSET Writes, instance : Nat, sound : BOOLEAN,
             owner : Apps \cup {"nobody", "gone", "maintenance"}]
Applications == [pc : {"down", "checked", "connected", "idle", "leased", "up"},
                 ino : Inodes \cup {NoFile}, writing : BOOLEAN, lost : BOOLEAN]

CycleStages == {"locked", "recover", "plock", "source", "snapshot", "copying", "barrier", "link",
                "unlink", "punlock", "record", "prune", "failed", "release"}
RetentionStages == {"locked", "recover", "prune", "failed", "release"}
RestoreStages == {"locked", "select", "plock", "mlock", "probe", "claim", "quiesce", "quarantine",
                  "replace", "move", "move wal", "link target", "unstage", "munlock", "punlock",
                  "finish", "failed", "release"}
MigrationStages == {"mlock", "probe", "claim", "quiesce", "quarantine", "replace", "munlock"}
Stages == CycleStages \cup RestoreStages \cup {"rest"}
BackupCommands == {"cycle", "retention", "delete", "restore"}

Processes == [pc : Stages, cmd : BackupCommands \cup {"none", "migration"}, at : Nat, now : Nat,
              name : Names \cup {NoName}, ino : Inodes \cup {NoFile}, copy : Copies,
              cur : States, claimed : BOOLEAN]

DirectoryTyped == /\ state \in States
                  /\ DOMAIN files \subseteq Names /\ files \in [DOMAIN files -> Copies]
VolumeTyped == /\ target \in Inodes \cup {NoFile} /\ wal \in Inodes \cup {NoFile}
               /\ disk \in [Inodes -> Contents] /\ app \in [Apps -> Applications]
               /\ acked \subseteq Writes /\ kept \subseteq Writes /\ instances \in Nat

(* Where each command may be.                                              *)
Staged(r) ==
    \/ r.cmd = "none" /\ r.pc = "rest"
    \/ r.cmd = "cycle" /\ r.pc \in CycleStages
    \/ r.cmd = "retention" /\ r.pc \in RetentionStages
    \/ r.cmd = "delete" /\ r.pc \in {"locked", "release"}
    \/ r.cmd = "restore" /\ r.pc \in RestoreStages
    \/ r.cmd = "migration" /\ r.pc \in MigrationStages

(* A command holds the backup lock from its first step to its last.        *)
HoldsBackup(p) == block = p <=> proc[p].cmd \in BackupCommands

ProcessesTyped ==
    /\ clock \in Nat
    /\ proc \in [Procs -> Processes]
    /\ \A p \in Procs : Staged(proc[p]) /\ HoldsBackup(p)

-----------------------------------------------------------------------------
(* The backup on record.                                                   *)

(* The command has read or written the state and will write it again.      *)
Informed(r) ==
    \/ r.cmd \in {"cycle", "retention"} /\ r.pc \notin {"locked", "release"}
    \/ r.cmd = "restore" /\ r.pc \notin {"locked", "select", "release"}

(* What a command knows of the state, the directory and the database.      *)
Knows(r, st, fs, tg) ==
    /\ Informed(r) => r.cur.name = st.name /\ r.cur.required = st.required
    /\ Informed(r) /\ r.cmd = "restore" => st.required
    /\ r.cmd = "cycle" =>
          /\ r.pc \in {"snapshot", "copying", "barrier", "link", "unlink", "punlock", "record"} =>
                tg # NoFile
          /\ r.pc \in {"copying", "barrier", "link"} => r.copy.of # "replaced"
          /\ r.pc \in {"unlink", "punlock", "record"} =>
                r.name \in DOMAIN fs /\ r.name # st.name /\ fs[r.name].of # "replaced"

(* The backup on record is there, and it is not one of a database that was  *)
(* replaced unless a new one is asked for.                                 *)
OnRecord(st, fs, tg) ==
    st.name # NoName => /\ st.name \in DOMAIN fs
                        /\ ~st.required => tg # NoFile /\ fs[st.name].of # "replaced"

DInv == /\ DirectoryTyped /\ VolumeTyped /\ ProcessesTyped
        /\ OnRecord(state, files, target)
        /\ \A p \in Procs : Knows(proc[p], state, files, target)

-----------------------------------------------------------------------------
(* The database.                                                           *)

(* An application that is not connected has nothing open; one that holds   *)
(* the lease has the database in use open; one that is about to take it of *)
(* a database that was replaced finds the maintenance lease on it.         *)
AppHeld(a) ==
    /\ app[a].pc \in {"down", "checked"} => app[a].ino = NoFile
    /\ app[a].pc \in {"connected", "idle", "leased", "up"} => app[a].ino \in Inodes
    /\ app[a].writing => app[a].pc = "up"
    /\ app[a].pc \in {"leased", "up"} => app[a].ino = target
    /\ app[a].pc \in {"connected", "idle"} /\ app[a].ino # target =>
          disk[app[a].ino].owner = "maintenance"

AllDown == \A a \in Apps : app[a].pc = "down"

(* A -wal file without its database is there only under maintenance.       *)
WalHeld ==
    /\ target # NoFile => wal \in {NoFile, target}
    /\ target = NoFile /\ wal # NoFile => mlock # Free /\ AllDown

Section == {"probe", "claim", "quiesce", "quarantine", "replace", "move", "move wal",
            "link target", "unstage", "munlock"}

(* What a process under the maintenance lock has made sure of.             *)
Maintains(p) ==
    /\ mlock = p <=> proc[p].pc \in Section
    /\ proc[p].claimed => proc[p].pc \in {"quiesce", "quarantine", "replace", "munlock"}
    /\ proc[p].pc \in {"claim", "quiesce", "quarantine", "replace", "move"} =>
          target = proc[p].ino /\ target # NoFile
    /\ proc[p].pc \in {"quiesce", "quarantine", "replace"} =>
          /\ disk[target].owner = "maintenance"
          /\ \A a \in Apps : ~app[a].writing
    /\ proc[p].pc \in {"quarantine", "replace"} =>
          \A a \in Apps : app[a].pc \notin {"leased", "up"}
    /\ proc[p].pc = "replace" => disk[target].writes \subseteq kept
    /\ proc[p].pc \in {"move", "move wal"} => AllDown
    /\ proc[p].pc \in {"unstage", "munlock"} => target # NoFile

MInv == /\ \A a \in Apps : AppHeld(a)
        /\ WalHeld
        /\ \A p \in Procs : Maintains(p)
        /\ NothingLost

-----------------------------------------------------------------------------
(* Constants.                                                              *)

LEMMA LocksAreNotProcs ==
    \A p \in Procs : p # Free /\ p # Orphan /\ p # Unreadable
BY BackupAssumption DEF Free, Orphan, Unreadable

LEMMA NoNameIsNoName ==
    /\ NoName \notin Names
    /\ <<1, 1>> \in Names
    /\ \A n \in Names : n[1] \in Nat /\ n[2] \in Nat
BY BackupAssumption DEF NoName, Names

LEMMA NoFileIsNoInode == NoFile \notin Inodes
BY VolumeAssumption DEF NoFile

LEMMA EmptyRecords ==
    /\ NoCopy \in Copies
    /\ NoState \in States
    /\ Resting \in Processes
    /\ Staged(Resting) /\ ~Informed(Resting) /\ Resting.cmd = "none"
    /\ Resting.pc = "rest" /\ Resting.claimed = FALSE /\ Resting.ino = NoFile
    /\ Resting.copy = NoCopy /\ Resting.name = NoName
BY DEF NoCopy, Copies, NoState, States, Resting, Processes, Stages, CycleStages, RestoreStages,
       BackupCommands, Staged, Informed, NoName

LEMMA SmallRange ==
    ASSUME NEW S, IsFiniteSet(S), NEW f, DOMAIN f = S, f = [x \in S |-> f[x]]
    PROVE  /\ IsFiniteSet({f[x] : x \in S})
           /\ Cardinality({f[x] : x \in S}) <= Cardinality(S)
<1>1. f \in Surjection(S, {f[x] : x \in S})
  BY DEF Surjection
<1>2. QED
  BY <1>1, FS_Surjection

(* There are more inodes than can be in use.                               *)
LEMMA UnusedInode ==
    /\ Unused \in Inodes
    /\ Unused # target /\ Unused # wal
    /\ \A a \in Apps : app[a].ino # Unused
<1> DEFINE A == {app[a].ino : a \in Apps}
           P == {proc[p].ino : p \in Procs}
           U == (A \cup P) \cup {target, wal}
<1>1. IsFiniteSet(A) /\ Cardinality(A) <= Cardinality(Apps)
  <2> DEFINE f == [a \in Apps |-> app[a].ino]
  <2>1. IsFiniteSet({f[a] : a \in Apps}) /\ Cardinality({f[a] : a \in Apps}) <= Cardinality(Apps)
    BY SmallRange, VolumeAssumption
  <2>2. A = {f[a] : a \in Apps}
    OBVIOUS
  <2>3. QED
    BY <2>1, <2>2
<1>2. IsFiniteSet(P) /\ Cardinality(P) <= Cardinality(Procs)
  <2> DEFINE f == [p \in Procs |-> proc[p].ino]
  <2>1. IsFiniteSet({f[p] : p \in Procs}) /\ Cardinality({f[p] : p \in Procs}) <= Cardinality(Procs)
    BY SmallRange, BackupAssumption
  <2>2. P = {f[p] : p \in Procs}
    OBVIOUS
  <2>3. QED
    BY <2>1, <2>2
<1> HIDE DEF A, P
<1>3. /\ Cardinality(A) \in Nat /\ Cardinality(P) \in Nat
      /\ Cardinality(Apps) \in Nat /\ Cardinality(Procs) \in Nat /\ Cardinality(Inodes) \in Nat
  BY <1>1, <1>2, VolumeAssumption, BackupAssumption, FS_CardinalityType
<1>4. IsFiniteSet(A \cup P) /\ Cardinality(A \cup P) <= Cardinality(A) + Cardinality(P)
      /\ Cardinality(A \cup P) \in Nat
  <2>1. IsFiniteSet(A \cup P) /\ IsFiniteSet(A \cap P)
        /\ Cardinality(A \cup P) = Cardinality(A) + Cardinality(P) - Cardinality(A \cap P)
    BY <1>1, <1>2, FS_Union, FS_Intersection
  <2>2. Cardinality(A \cap P) \in Nat /\ Cardinality(A \cup P) \in Nat
    BY <2>1, FS_CardinalityType
  <2>3. QED
    BY <1>3, <2>1, <2>2
<1>5. IsFiniteSet({target, wal}) /\ Cardinality({target, wal}) <= 2
      /\ Cardinality({target, wal}) \in Nat
  <2>1. {target, wal} = {target} \cup {wal}
    OBVIOUS
  <2>2. /\ IsFiniteSet({target}) /\ Cardinality({target}) = 1
        /\ IsFiniteSet({wal}) /\ Cardinality({wal}) = 1
    BY FS_Singleton
  <2>3. /\ IsFiniteSet({target} \cup {wal}) /\ IsFiniteSet({target} \cap {wal})
        /\ Cardinality({target} \cup {wal}) = 1 + 1 - Cardinality({target} \cap {wal})
    BY <2>2, FS_Union, FS_Intersection
  <2>4. Cardinality({target} \cap {wal}) \in Nat /\ Cardinality({target} \cup {wal}) \in Nat
    BY <2>3, FS_CardinalityType
  <2>5. QED
    BY <2>1, <2>3, <2>4
<1>6. IsFiniteSet(U) /\ Cardinality(U) < Cardinality(Inodes)
  <2> DEFINE B == A \cup P
             C == {target, wal}
  <2>1. IsFiniteSet(B) /\ IsFiniteSet(C)
    BY <1>4, <1>5
  <2> HIDE DEF B, C
  <2>2. IsFiniteSet(B \cup C) /\ IsFiniteSet(B \cap C)
        /\ Cardinality(B \cup C) = Cardinality(B) + Cardinality(C) - Cardinality(B \cap C)
    BY <2>1, FS_Union, FS_Intersection
  <2>3. Cardinality(B \cap C) \in Nat /\ Cardinality(B \cup C) \in Nat
    BY <2>2, FS_CardinalityType
  <2>4. Cardinality(B \cup C) < Cardinality(Inodes)
    BY <1>1, <1>2, <1>3, <1>4, <1>5, <2>2, <2>3, BackupAssumption DEF B, C
  <2>5. QED
    BY <2>2, <2>4 DEF B, C
<1>7. \E i \in Inodes : i \notin U
  <2>1. SUFFICES ASSUME Inodes \subseteq U PROVE FALSE
    OBVIOUS
  <2>2. Cardinality(Inodes) <= Cardinality(U)
    <3> HIDE DEF U
    <3>1. QED
      BY <1>6, <2>1, FS_Subset
  <2>3. Cardinality(U) \in Nat
    <3> HIDE DEF U
    <3>1. QED
      BY <1>6, FS_CardinalityType
  <2>4. QED
    BY <1>3, <1>6, <2>2, <2>3
<1>8. \E i \in Inodes : /\ i # target /\ i # wal
                        /\ \A a \in Apps : app[a].ino # i
                        /\ \A p \in Procs : proc[p].ino # i
  BY <1>7 DEF A, P
<1>9. QED
  BY <1>8 DEF Unused

-----------------------------------------------------------------------------
(* One process takes a step.                                               *)

Becomes(p, r) == proc' = [proc EXCEPT ![p] = r]

LEMMA OneMoves ==
    ASSUME proc \in [Procs -> Processes], NEW p \in Procs, NEW r \in Processes, Becomes(p, r)
    PROVE  /\ proc' \in [Procs -> Processes]
           /\ proc'[p] = r
           /\ \A q \in Procs : q # p => proc'[q] = proc[q]
BY DEF Becomes

(* The step of a command that holds the backup lock before and after.      *)
LEMMA HolderSteps ==
    ASSUME DInv, NEW p \in Procs, NEW r \in Processes, Becomes(p, r),
           proc[p].cmd \in BackupCommands, r.cmd = proc[p].cmd, Staged(r),
           UNCHANGED <<block, clock>>,
           DirectoryTyped', VolumeTyped',
           OnRecord(state', files', target'),
           Knows(r, state', files', target')
    PROVE  DInv'
<1>1. /\ proc' \in [Procs -> Processes] /\ proc'[p] = r
      /\ \A q \in Procs : q # p => proc'[q] = proc[q]
  BY OneMoves DEF DInv, ProcessesTyped
<1>2. ASSUME NEW q \in Procs, q # p
      PROVE  Staged(proc'[q]) /\ HoldsBackup(q)' /\ Knows(proc'[q], state', files', target')
  <2>1. block = p /\ proc[q].cmd \notin BackupCommands /\ Staged(proc[q])
    BY <1>2 DEF DInv, ProcessesTyped, HoldsBackup
  <2>2. proc'[q] = proc[q]
    BY <1>1, <1>2
  <2>3. HoldsBackup(q)'
    BY <2>1, <2>2, <1>2 DEF HoldsBackup
  <2>4. proc[q].cmd \notin {"cycle", "retention", "restore"}
    BY <2>1 DEF BackupCommands
  <2>5. Knows(proc[q], state', files', target')
    BY <2>4 DEF Knows, Informed
  <2>6. QED
    BY <2>1, <2>2, <2>3, <2>5
<1>3. HoldsBackup(p)'
  BY <1>1 DEF DInv, ProcessesTyped, HoldsBackup
<1>4. ProcessesTyped'
  BY <1>1, <1>2, <1>3 DEF ProcessesTyped, DInv
<1>5. \A q \in Procs : Knows(proc'[q], state', files', target')
  BY <1>1, <1>2
<1>6. QED
  BY <1>4, <1>5 DEF DInv

(* A step that leaves the directory alone, and the database where it is.   *)
LEMMA BystanderSteps ==
    ASSUME DInv, NEW p \in Procs, NEW r \in Processes, Becomes(p, r),
           Staged(r), block' = p <=> r.cmd \in BackupCommands,
           \A q \in Procs \ {p} : block' = q <=> block = q,
           UNCHANGED <<state, files>>, clock' \in Nat,
           VolumeTyped', target' = NoFile <=> target = NoFile,
           Knows(r, state, files, target)
    PROVE  DInv'
<1>1. /\ proc' \in [Procs -> Processes] /\ proc'[p] = r
      /\ \A q \in Procs : q # p => proc'[q] = proc[q]
  BY OneMoves DEF DInv, ProcessesTyped
<1>2. ASSUME NEW q \in Procs
      PROVE  Knows(proc'[q], state', files', target')
  <2>1. Knows(proc'[q], state, files, target)
    BY <1>1 DEF DInv
  <2>2. QED
    BY <2>1 DEF Knows
<1>3. ProcessesTyped'
  BY <1>1 DEF ProcessesTyped, DInv, HoldsBackup
<1>4. OnRecord(state', files', target')
  BY DEF DInv, OnRecord
<1>5. DirectoryTyped'
  BY DEF DInv, DirectoryTyped
<1>6. QED
  BY <1>2, <1>3, <1>4, <1>5 DEF DInv

LEMMA VolumeStays ==
    ASSUME VolumeTyped, UNCHANGED volume
    PROVE  VolumeTyped' /\ target' = target
BY DEF VolumeTyped, volume

(* A step in the backup directory, outside the maintenance lock.           *)
DirectoryStep(p) ==
    /\ UNCHANGED volume
    /\ proc[p].pc \notin Section
    /\ \E r \in Processes : Becomes(p, r) /\ r.pc \notin Section /\ ~r.claimed

LEMMA DirectoryKeepsM ==
    ASSUME DInv, MInv, NEW p \in Procs, DirectoryStep(p)
    PROVE  MInv'
<1>1. PICK r \in Processes : Becomes(p, r) /\ r.pc \notin Section /\ ~r.claimed
  BY DEF DirectoryStep
<1>2. /\ proc'[p] = r
      /\ \A q \in Procs : q # p => proc'[q] = proc[q]
  BY <1>1, OneMoves DEF DInv, ProcessesTyped
<1>3. UNCHANGED <<target, disk, wal, mlock, app, acked, kept>>
  BY DEF DirectoryStep, volume
<1>4. ASSUME NEW q \in Procs PROVE Maintains(q)'
  <2>1. CASE q = p
    <3>1. mlock # p
      BY DEF DirectoryStep, MInv, Maintains
    <3>2. QED
      BY <1>1, <1>2, <1>3, <2>1, <3>1 DEF Maintains, Section
  <2>2. CASE q # p
    BY <1>2, <1>3, <2>2 DEF Maintains, MInv, AllDown
  <2>3. QED
    BY <2>1, <2>2
<1>5. QED
  BY <1>3, <1>4 DEF MInv, AppHeld, WalHeld, NothingLost, AllDown

-----------------------------------------------------------------------------
(* What a step makes of a process.                                         *)

SameBut(r, s, pc) ==
    /\ r.pc = pc /\ r.cmd = s.cmd /\ r.at = s.at /\ r.claimed = s.claimed
    /\ r.name = s.name /\ r.copy = s.copy /\ r.cur = s.cur

LEMMA GoesOn ==
    ASSUME proc \in [Procs -> Processes], NEW p \in Procs, NEW pc \in Stages, Goes(p, pc)
    PROVE  \E r \in Processes : Becomes(p, r) /\ SameBut(r, proc[p], pc)
                                /\ r.ino = proc[p].ino /\ r.now = proc[p].now
<1>1. PICK r : r = [proc[p] EXCEPT !.pc = pc]
  OBVIOUS
<1>2. proc[p] \in Processes
  OBVIOUS
<1>3. r \in Processes
  BY <1>1, <1>2 DEF Processes
<1>4. SameBut(r, proc[p], pc) /\ r.ino = proc[p].ino /\ r.now = proc[p].now
  BY <1>1, <1>2 DEF SameBut, Processes
<1>5. Becomes(p, r)
  BY <1>1 DEF Becomes, Goes
<1>6. QED
  BY <1>3, <1>4, <1>5

LEMMA FailedRow ==
    ASSUME proc \in [Procs -> Processes], NEW p \in Procs
    PROVE  /\ Failed(p) \in Processes
           /\ Failed(p).pc = "failed" /\ Failed(p).cmd = proc[p].cmd
           /\ Failed(p).cur = proc[p].cur /\ Failed(p).claimed = FALSE
           /\ Failed(p).at = proc[p].at /\ Failed(p).ino = NoFile
<1>1. proc[p] \in Processes /\ Resting \in Processes
  BY EmptyRecords
<1>2. PICK f : f = Failed(p)
  OBVIOUS
<1>3. PICK s : s = proc[p]
  OBVIOUS
<1>4. f = [Resting EXCEPT !.pc = "failed", !.cmd = s.cmd, !.at = s.at, !.now = s.now, !.cur = s.cur]
  BY <1>2, <1>3 DEF Failed
<1>5. /\ s.cmd \in BackupCommands \cup {"none", "migration"} /\ s.at \in Nat /\ s.now \in Nat
      /\ s.cur \in States /\ "failed" \in Stages
  BY <1>1, <1>3 DEF Processes, Stages, CycleStages
<1>6. /\ f \in Processes /\ f.pc = "failed" /\ f.cmd = s.cmd /\ f.cur = s.cur
      /\ f.claimed = FALSE /\ f.at = s.at /\ f.ino = NoFile
  <2>1. Resting.claimed = FALSE /\ Resting.ino = NoFile
    BY DEF Resting
  <2> HIDE DEF Resting
  <2>2. QED
    BY <1>1, <1>4, <1>5, <2>1 DEF Processes
<1>7. QED
  BY <1>2, <1>3, <1>6

LEMMA DoneRow ==
    ASSUME proc \in [Procs -> Processes], NEW p \in Procs
    PROVE  /\ Done(p) \in Processes
           /\ Done(p).pc = "release" /\ Done(p).cmd = proc[p].cmd /\ Done(p).claimed = FALSE
<1>1. proc[p] \in Processes /\ Resting \in Processes /\ Resting.claimed = FALSE
  BY EmptyRecords
<1>2. PICK f : f = Done(p)
  OBVIOUS
<1>3. PICK c : c = proc[p].cmd
  OBVIOUS
<1>4. f = [Resting EXCEPT !.pc = "release", !.cmd = c]
  BY <1>2, <1>3 DEF Done
<1>5. c \in BackupCommands \cup {"none", "migration"} /\ "release" \in Stages
  BY <1>1, <1>3 DEF Processes, Stages, CycleStages
<1>6. f \in Processes /\ f.pc = "release" /\ f.cmd = c /\ f.claimed = FALSE
  BY <1>1, <1>4, <1>5 DEF Processes
<1>7. QED
  BY <1>2, <1>3, <1>6

(* A step of a command that changes neither directory nor database.        *)
LEMMA QuietStep ==
    ASSUME DInv, NEW p \in Procs, NEW r \in Processes, Becomes(p, r),
           proc[p].cmd \in BackupCommands, r.cmd = proc[p].cmd, Staged(r),
           UNCHANGED <<block, clock, state, files, volume>>,
           Knows(r, state, files, target)
    PROVE  DInv'
<1>1. VolumeTyped' /\ target' = target
  BY VolumeStays DEF DInv, volume
<1>2. DirectoryTyped'
  BY DEF DInv, DirectoryTyped
<1>3. OnRecord(state', files', target') /\ Knows(r, state', files', target')
  BY <1>1 DEF DInv
<1>4. QED
  BY <1>1, <1>2, <1>3, HolderSteps

LEMMA TypedRows ==
    ASSUME DInv, NEW p \in Procs
    PROVE  /\ proc \in [Procs -> Processes] /\ proc[p] \in Processes
           /\ Staged(proc[p]) /\ Knows(proc[p], state, files, target)
           /\ block = p <=> proc[p].cmd \in BackupCommands
BY DEF DInv, ProcessesTyped, HoldsBackup

(* A process that is not in the section does not come to hold a claim.     *)
LEMMA Unclaimed ==
    ASSUME MInv, NEW p \in Procs, proc[p].pc \notin Section, DInv
    PROVE  ~proc[p].claimed
BY DEF MInv, Maintains, Section

-----------------------------------------------------------------------------
(* The steps up to the snapshot.                                           *)

LEMMA AcquireBackupKeeps ==
    ASSUME DInv, MInv, NEW p \in Procs,
           NEW cmd \in {"cycle", "retention", "delete", "restore"}, AcquireBackupLock(p, cmd)
    PROVE  DInv' /\ DirectoryStep(p)
<1>1. proc[p] \in Processes /\ proc[p].pc = "rest" /\ block = Free /\ clock \in Nat
  BY TypedRows DEF AcquireBackupLock, At, DInv, ProcessesTyped
<1>2. PICK r : r = [proc[p] EXCEPT !.pc = "locked", !.cmd = cmd, !.at = clock, !.now = clock]
  OBVIOUS
<1>3. /\ r \in Processes /\ r.pc = "locked" /\ r.cmd = cmd /\ r.claimed = proc[p].claimed
  BY <1>1, <1>2 DEF Processes, Stages, CycleStages, BackupCommands
<1>4. Becomes(p, r)
  BY <1>2 DEF AcquireBackupLock, Becomes
<1>5. Staged(r) /\ ~Informed(r) /\ Knows(r, state, files, target)
  BY <1>3 DEF Staged, Informed, Knows, CycleStages, RetentionStages, RestoreStages
<1>6. UNCHANGED volume /\ UNCHANGED <<state, files, clock>> /\ block' = p
  BY DEF AcquireBackupLock, directory
<1>7. \A q \in Procs \ {p} : block' = q <=> block = q
  BY <1>1, <1>6, LocksAreNotProcs
<1>8. DInv'
  BY <1>1, <1>3, <1>4, <1>5, <1>6, <1>7, VolumeStays, BystanderSteps DEF BackupCommands, DInv
<1>9. DirectoryStep(p)
  BY <1>1, <1>3, <1>4, <1>6, Unclaimed DEF DirectoryStep, Section
<1>10. QED
  BY <1>8, <1>9

LEMMA ReleaseBackupKeeps ==
    ASSUME DInv, MInv, NEW p \in Procs, ReleaseBackupLock(p)
    PROVE  DInv' /\ DirectoryStep(p)
<1>1. proc[p] \in Processes /\ proc[p].pc = "release" /\ Staged(proc[p]) /\ clock \in Nat
  BY TypedRows DEF ReleaseBackupLock, At, DInv, ProcessesTyped
<1>2. proc[p].cmd \in BackupCommands /\ block = p
  BY <1>1, TypedRows DEF Staged, BackupCommands, MigrationStages
<1>3. Becomes(p, Resting) /\ UNCHANGED volume /\ UNCHANGED <<state, files, clock>> /\ block' = Free
  BY DEF ReleaseBackupLock, directory, time, Becomes
<1>4. Knows(Resting, state, files, target) /\ Resting.cmd \notin BackupCommands
  BY EmptyRecords DEF Knows, BackupCommands
<1>5. \A q \in Procs \ {p} : block' = q <=> block = q
  BY <1>2, <1>3, LocksAreNotProcs
<1>6. block' # p
  BY <1>3, LocksAreNotProcs
<1>7. DInv'
  BY <1>1, <1>3, <1>4, <1>5, <1>6, EmptyRecords, VolumeStays, BystanderSteps DEF DInv
<1>8. DirectoryStep(p)
  BY <1>1, <1>3, EmptyRecords DEF DirectoryStep, Section
<1>9. QED
  BY <1>7, <1>8

LEMMA PrepareKeeps ==
    ASSUME DInv, MInv, NEW p \in Procs, Prepare(p)
    PROVE  DInv' /\ DirectoryStep(p)
<1> DEFINE attempted == IF Does(p, {"cycle"}) THEN [state EXCEPT !.attempt = proc[p].at] ELSE state
           behind == proc[p].at < LatestStateTimestamp(state)
<1>1. /\ proc[p] \in Processes /\ proc[p].pc = "locked" /\ proc[p].cmd \in {"cycle", "retention"}
      /\ state \in States /\ ~proc[p].claimed
  BY TypedRows, Unclaimed DEF Prepare, At, Does, DInv, DirectoryTyped, Section
<1>2. PICK c : c = attempted
  OBVIOUS
<1>3. c \in States /\ c.name = state.name /\ c.required = state.required
  BY <1>1, <1>2 DEF States, Processes
<1>4. PICK r : r = [proc[p] EXCEPT !.cur = c, !.pc = IF behind THEN "failed" ELSE "recover"]
  OBVIOUS
<1>5. /\ r \in Processes /\ r.pc \in {"failed", "recover"} /\ r.cmd = proc[p].cmd
      /\ r.cur = c /\ ~r.claimed
  BY <1>1, <1>3, <1>4 DEF Processes, Stages, CycleStages
<1>6. Becomes(p, r) /\ UNCHANGED <<files, block, clock, volume>> /\ state' \in {state, c}
  <2>1. Becomes(p, r)
    BY <1>2, <1>4 DEF Prepare, Becomes
  <2>2. QED
    BY <2>1, <1>2 DEF Prepare, time
<1>7. state' \in States /\ state'.name = state.name /\ state'.required = state.required
  BY <1>1, <1>3, <1>6
<1>8. Staged(r) /\ Knows(r, state', files', target')
  BY <1>1, <1>3, <1>5, <1>7 DEF Staged, Informed, Knows, CycleStages, RetentionStages
<1>9. VolumeTyped' /\ target' = target
  BY <1>6, VolumeStays DEF DInv, volume
<1>10. OnRecord(state', files', target') /\ DirectoryTyped'
  BY <1>6, <1>7, <1>9 DEF DInv, OnRecord, DirectoryTyped
<1>11. proc[p].cmd \in BackupCommands
  BY <1>1 DEF BackupCommands
<1>12. DInv'
  BY <1>5, <1>6, <1>8, <1>9, <1>10, <1>11, HolderSteps
<1>13. DirectoryStep(p)
  BY <1>1, <1>5, <1>6 DEF DirectoryStep, Section
<1>14. QED
  BY <1>12, <1>13

LEMMA RecoverKeeps ==
    ASSUME DInv, MInv, NEW p \in Procs, Recover(p)
    PROVE  DInv' /\ DirectoryStep(p)
<1>1. /\ proc[p] \in Processes /\ ~proc[p].claimed /\ clock \in Nat
      /\ \/ proc[p].pc = "recover" /\ proc[p].cmd \in {"cycle", "retention"}
         \/ proc[p].pc = "locked" /\ proc[p].cmd = "restore"
      /\ Knows(proc[p], state, files, target)
  <2>1. proc[p].pc = "recover" => proc[p].cmd \in {"cycle", "retention"}
    BY TypedRows DEF Staged, RestoreStages, MigrationStages
  <2>2. QED
    BY <2>1, TypedRows, Unclaimed DEF Recover, At, Does, Section, DInv, ProcessesTyped
<1>2. PICK pc : pc = IF Does(p, {"cycle"}) THEN "plock"
                     ELSE IF Does(p, {"restore"}) THEN "select"
                     ELSE IF state.required \/ state.name = NoName THEN "release"
                     ELSE "prune"
  OBVIOUS
<1>3. /\ proc[p].cmd = "cycle" => pc = "plock"
      /\ proc[p].cmd = "restore" => pc = "select"
      /\ proc[p].cmd = "retention" => pc \in {"release", "prune"}
  BY <1>2 DEF Does
<1>4. PICK n : n = Later(clock, proc[p].now)
  OBVIOUS
<1>5. n \in Nat
  BY <1>1, <1>4 DEF Later, Processes
<1>6. PICK r : r = [proc[p] EXCEPT !.now = n, !.pc = pc]
  OBVIOUS
<1>7. r \in Processes /\ SameBut(r, proc[p], pc)
  BY <1>1, <1>3, <1>5, <1>6 DEF Processes, SameBut, Stages, CycleStages, RestoreStages
<1>8. Becomes(p, r)
  BY <1>2, <1>4, <1>6 DEF Recover, Becomes
<1>9. UNCHANGED <<state, files, block, clock, volume>>
  BY DEF Recover, time
<1>10. Staged(r) /\ Knows(r, state, files, target) /\ proc[p].cmd \in BackupCommands
  BY <1>1, <1>3, <1>7 DEF Staged, Knows, Informed, SameBut, CycleStages, RetentionStages,
                          RestoreStages, BackupCommands
<1>11. DInv'
  BY <1>7, <1>8, <1>9, <1>10, QuietStep DEF SameBut
<1>12. DirectoryStep(p)
  BY <1>1, <1>3, <1>7, <1>8, <1>9 DEF DirectoryStep, Section, SameBut
<1>13. QED
  BY <1>11, <1>12

(* A step that does no more than go on, outside the maintenance lock.      *)
LEMMA GoingOn ==
    ASSUME DInv, MInv, NEW p \in Procs, NEW pc \in Stages, Goes(p, pc),
           proc[p].pc \notin Section, pc \notin Section, proc[p].cmd \in BackupCommands,
           UNCHANGED <<block, clock, state, files, volume>>,
           \A r : SameBut(r, proc[p], pc) => Staged(r) /\ Knows(r, state, files, target)
    PROVE  DInv' /\ DirectoryStep(p)
<1>1. PICK r \in Processes : Becomes(p, r) /\ SameBut(r, proc[p], pc)
  BY TypedRows, GoesOn
<1>2. Staged(r) /\ Knows(r, state, files, target) /\ r.cmd = proc[p].cmd /\ r.pc = pc
      /\ ~r.claimed
  BY <1>1, Unclaimed DEF SameBut
<1>3. DInv'
  BY <1>1, <1>2, QuietStep
<1>4. DirectoryStep(p)
  BY <1>1, <1>2 DEF DirectoryStep
<1>5. QED
  BY <1>3, <1>4

LEMMA AcquirePublicationKeeps ==
    ASSUME DInv, MInv, NEW p \in Procs, AcquirePublicationLock(p)
    PROVE  DInv' /\ DirectoryStep(p)
<1>1. PICK pc : pc = IF Does(p, {"cycle"}) THEN "source" ELSE "mlock"
  OBVIOUS
<1>2. /\ proc[p].pc = "plock" /\ proc[p].cmd \in {"cycle", "restore"}
      /\ proc[p].cmd = "cycle" => pc = "source"
      /\ proc[p].cmd = "restore" => pc = "mlock"
  BY <1>1, TypedRows DEF AcquirePublicationLock, At, Does, Staged, RetentionStages, MigrationStages
<1>3. Goes(p, pc) /\ UNCHANGED <<block, clock, state, files, volume>>
  BY <1>1 DEF AcquirePublicationLock, time, directory
<1>4. ASSUME NEW r, SameBut(r, proc[p], pc)
      PROVE  Staged(r) /\ Knows(r, state, files, target)
  BY <1>2, <1>4, TypedRows DEF SameBut, Staged, Knows, Informed, CycleStages, RestoreStages
<1>5. pc \in Stages /\ pc \notin Section /\ proc[p].pc \notin Section /\ proc[p].cmd \in BackupCommands
  BY <1>2 DEF Stages, CycleStages, RestoreStages, Section, BackupCommands
<1>6. QED
  BY <1>3, <1>4, <1>5, GoingOn

LEMMA InspectSourceKeeps ==
    ASSUME DInv, MInv, NEW p \in Procs, InspectSource(p)
    PROVE  DInv' /\ DirectoryStep(p)
<1>1. /\ proc[p] \in Processes /\ proc[p].pc = "source" /\ proc[p].cmd = "cycle"
      /\ target # NoFile /\ target \in Inodes \cup {NoFile} /\ ~proc[p].claimed
  BY TypedRows, Unclaimed DEF InspectSource, At, Staged, RetentionStages, RestoreStages,
     MigrationStages, DInv, VolumeTyped, Section
<1>2. PICK r : r = [proc[p] EXCEPT !.pc = "snapshot", !.ino = target]
  OBVIOUS
<1>3. r \in Processes /\ SameBut(r, proc[p], "snapshot")
  BY <1>1, <1>2 DEF Processes, SameBut, Stages, CycleStages
<1>4. Becomes(p, r) /\ UNCHANGED <<state, files, block, clock, volume>>
  BY <1>2 DEF InspectSource, Becomes, time, directory
<1>5. Staged(r) /\ Knows(r, state, files, target) /\ proc[p].cmd \in BackupCommands
  BY <1>1, <1>3, TypedRows DEF Staged, Knows, Informed, SameBut, CycleStages, BackupCommands
<1>6. DInv'
  BY <1>3, <1>4, <1>5, QuietStep DEF SameBut
<1>7. DirectoryStep(p)
  BY <1>1, <1>3, <1>4 DEF DirectoryStep, Section, SameBut
<1>8. QED
  BY <1>6, <1>7

LEMMA TakeSnapshotKeeps ==
    ASSUME DInv, MInv, NEW p \in Procs, TakeSnapshot(p)
    PROVE  DInv' /\ DirectoryStep(p)
<1>1. /\ proc[p] \in Processes /\ proc[p].pc = "snapshot" /\ proc[p].cmd = "cycle"
      /\ target # NoFile /\ disk[target] \in Contents /\ ~proc[p].claimed
  BY TypedRows, Unclaimed DEF TakeSnapshot, At, Staged, RetentionStages, RestoreStages,
     MigrationStages, DInv, VolumeTyped, Section
<1>2. PICK c : c = [writes |-> disk[target].writes, instance |-> disk[target].instance,
                    of |-> "live"]
  OBVIOUS
<1>3. c \in Copies /\ c.of # "replaced"
  BY <1>1, <1>2 DEF Copies, Contents
<1>4. PICK r : r = [proc[p] EXCEPT !.pc = "copying", !.copy = c]
  OBVIOUS
<1>5. /\ r \in Processes /\ r.pc = "copying" /\ r.cmd = "cycle" /\ r.copy = c
      /\ r.cur = proc[p].cur /\ ~r.claimed
  BY <1>1, <1>3, <1>4 DEF Processes, Stages, CycleStages
<1>6. Becomes(p, r) /\ UNCHANGED <<state, files, block, clock, volume>>
  BY <1>2, <1>4 DEF TakeSnapshot, Becomes, time
<1>7. Staged(r) /\ Knows(r, state, files, target) /\ proc[p].cmd \in BackupCommands
  BY <1>1, <1>3, <1>5, TypedRows DEF Staged, Knows, Informed, CycleStages, BackupCommands
<1>8. DInv'
  BY <1>1, <1>5, <1>6, <1>7, QuietStep
<1>9. DirectoryStep(p)
  BY <1>1, <1>5, <1>6 DEF DirectoryStep, Section
<1>10. QED
  BY <1>8, <1>9

LEMMA CopiedKeeps ==
    ASSUME DInv, MInv, NEW p \in Procs, Copied(p)
    PROVE  DInv' /\ DirectoryStep(p)
<1>1. proc[p].pc = "copying" /\ proc[p].cmd = "cycle"
  BY TypedRows DEF Copied, At, Staged, RetentionStages, RestoreStages, MigrationStages
<1>2. Goes(p, "barrier") /\ UNCHANGED <<block, clock, state, files, volume>>
  BY DEF Copied, time, directory
<1>3. ASSUME NEW r, SameBut(r, proc[p], "barrier")
      PROVE  Staged(r) /\ Knows(r, state, files, target)
  BY <1>1, <1>3, TypedRows DEF SameBut, Staged, Knows, Informed, CycleStages
<1>4. "barrier" \in Stages /\ "barrier" \notin Section /\ proc[p].pc \notin Section
      /\ proc[p].cmd \in BackupCommands
  BY <1>1 DEF Stages, CycleStages, Section, BackupCommands
<1>5. QED
  BY <1>2, <1>3, <1>4, GoingOn

LEMMA CheckBarrierKeeps ==
    ASSUME DInv, MInv, NEW p \in Procs, CheckBarrier(p)
    PROVE  DInv' /\ DirectoryStep(p)
<1>1. proc[p].pc = "barrier" /\ proc[p].cmd = "cycle"
  BY TypedRows DEF CheckBarrier, At, Staged, RetentionStages, RestoreStages, MigrationStages
<1>2. Goes(p, "link") /\ UNCHANGED <<block, clock, state, files, volume>>
  BY DEF CheckBarrier, time, directory
<1>3. ASSUME NEW r, SameBut(r, proc[p], "link")
      PROVE  Staged(r) /\ Knows(r, state, files, target)
  BY <1>1, <1>3, TypedRows DEF SameBut, Staged, Knows, Informed, CycleStages
<1>4. "link" \in Stages /\ "link" \notin Section /\ proc[p].pc \notin Section
      /\ proc[p].cmd \in BackupCommands
  BY <1>1 DEF Stages, CycleStages, Section, BackupCommands
<1>5. QED
  BY <1>2, <1>3, <1>4, GoingOn

LEMMA UnlinkStagingKeeps ==
    ASSUME DInv, MInv, NEW p \in Procs, UnlinkStaging(p)
    PROVE  DInv' /\ DirectoryStep(p)
<1>1. proc[p].pc = "unlink" /\ proc[p].cmd = "cycle"
  BY TypedRows DEF UnlinkStaging, At, Staged, RetentionStages, RestoreStages, MigrationStages
<1>2. Goes(p, "punlock") /\ UNCHANGED <<block, clock, state, files, volume>>
  BY DEF UnlinkStaging, time
<1>3. ASSUME NEW r, SameBut(r, proc[p], "punlock")
      PROVE  Staged(r) /\ Knows(r, state, files, target)
  BY <1>1, <1>3, TypedRows DEF SameBut, Staged, Knows, Informed, CycleStages
<1>4. "punlock" \in Stages /\ "punlock" \notin Section /\ proc[p].pc \notin Section
      /\ proc[p].cmd \in BackupCommands
  BY <1>1 DEF Stages, CycleStages, Section, BackupCommands
<1>5. QED
  BY <1>2, <1>3, <1>4, GoingOn

LEMMA ReleasePublicationKeeps ==
    ASSUME DInv, MInv, NEW p \in Procs, ReleasePublicationLock(p)
    PROVE  DInv' /\ DirectoryStep(p)
<1>1. PICK pc : pc = IF Does(p, {"cycle"}) THEN "record" ELSE "finish"
  OBVIOUS
<1>2. /\ proc[p].pc = "punlock" /\ proc[p].cmd \in {"cycle", "restore"}
      /\ proc[p].cmd = "cycle" => pc = "record"
      /\ proc[p].cmd = "restore" => pc = "finish"
  BY <1>1, TypedRows DEF ReleasePublicationLock, At, Does, Staged, RetentionStages, MigrationStages
<1>3. Goes(p, pc) /\ UNCHANGED <<block, clock, state, files, volume>>
  BY <1>1 DEF ReleasePublicationLock, time, directory
<1>4. ASSUME NEW r, SameBut(r, proc[p], pc)
      PROVE  Staged(r) /\ Knows(r, state, files, target)
  BY <1>2, <1>4, TypedRows DEF SameBut, Staged, Knows, Informed, CycleStages, RestoreStages
<1>5. pc \in Stages /\ pc \notin Section /\ proc[p].pc \notin Section /\ proc[p].cmd \in BackupCommands
  BY <1>2 DEF Stages, CycleStages, RestoreStages, Section, BackupCommands
<1>6. QED
  BY <1>3, <1>4, <1>5, GoingOn

-----------------------------------------------------------------------------
(* Files come and go.                                                      *)

(* The directory without a file that is not the one on record.             *)
LEMMA OneFileLess ==
    ASSUME DInv, NEW n, n # state.name, files' = Without(n), UNCHANGED <<state, volume>>
    PROVE  /\ DirectoryTyped' /\ VolumeTyped' /\ target' = target
           /\ OnRecord(state', files', target')
           /\ \A m \in DOMAIN files \ {n} : m \in DOMAIN files' /\ files'[m] = files[m]
<1>1. VolumeTyped' /\ target' = target
  BY VolumeStays DEF DInv, volume
<1>2. DOMAIN files' = DOMAIN files \ {n} /\ \A m \in DOMAIN files' : files'[m] = files[m]
  BY DEF Without
<1>3. files' \in [DOMAIN files' -> Copies]
  BY <1>2 DEF DInv, DirectoryTyped, Without
<1>4. DirectoryTyped'
  BY <1>2, <1>3 DEF DInv, DirectoryTyped
<1>5. OnRecord(state', files', target')
  BY <1>1, <1>2 DEF DInv, OnRecord
<1>6. QED
  BY <1>1, <1>2, <1>4, <1>5

LEMMA LinkBackupKeeps ==
    ASSUME DInv, MInv, NEW p \in Procs, LinkBackup(p)
    PROVE  DInv' /\ DirectoryStep(p)
<1>1. /\ proc[p] \in Processes /\ proc[p].pc = "link" /\ proc[p].cmd = "cycle"
      /\ ~proc[p].claimed /\ Knows(proc[p], state, files, target)
  BY TypedRows, Unclaimed DEF LinkBackup, At, Staged, RetentionStages, RestoreStages,
     MigrationStages, Section
<1>2. PICK n \in Names \ DOMAIN files :
          /\ files' = [m \in DOMAIN files \cup {n} |-> IF m = n THEN proc[p].copy ELSE files[m]]
          /\ proc' = [proc EXCEPT ![p].pc = "unlink", ![p].name = n]
  BY DEF LinkBackup
<1>3. PICK r : r = [proc[p] EXCEPT !.pc = "unlink", !.name = n]
  OBVIOUS
<1>4. /\ r \in Processes /\ r.pc = "unlink" /\ r.cmd = "cycle" /\ r.name = n
      /\ r.cur = proc[p].cur /\ ~r.claimed
  BY <1>1, <1>2, <1>3 DEF Processes, Stages, CycleStages
<1>5. Becomes(p, r) /\ UNCHANGED <<state, block, clock, volume>>
  BY <1>2, <1>3 DEF LinkBackup, Becomes, time
<1>6. VolumeTyped' /\ target' = target
  BY <1>5, VolumeStays DEF DInv, volume
<1>7. /\ DOMAIN files' = DOMAIN files \cup {n} /\ files'[n] = proc[p].copy
      /\ \A m \in DOMAIN files : files'[m] = files[m]
  BY <1>2
<1>8. DirectoryTyped'
  <2>1. proc[p].copy \in Copies
    BY <1>1 DEF Processes
  <2>2. files' \in [DOMAIN files' -> Copies]
    BY <1>2, <1>7, <2>1 DEF DInv, DirectoryTyped
  <2>3. QED
    BY <1>2, <1>5, <1>7, <2>2 DEF DInv, DirectoryTyped
<1>9. OnRecord(state', files', target')
  BY <1>5, <1>6, <1>7 DEF DInv, OnRecord
<1>10. n # state.name
  BY <1>2, NoNameIsNoName DEF DInv, OnRecord
<1>11. Staged(r) /\ Knows(r, state', files', target')
  BY <1>1, <1>4, <1>5, <1>6, <1>7, <1>10 DEF Staged, Knows, Informed, CycleStages
<1>12. proc[p].cmd \in BackupCommands
  BY <1>1 DEF BackupCommands
<1>13. DInv'
  BY <1>1, <1>4, <1>5, <1>6, <1>8, <1>9, <1>11, <1>12, HolderSteps
<1>14. DirectoryStep(p)
  BY <1>1, <1>4, <1>5 DEF DirectoryStep, Section
<1>15. QED
  BY <1>13, <1>14

LEMMA RecordedState ==
    ASSUME DInv, NEW p \in Procs
    PROVE  Recorded(p) \in States /\ Recorded(p).name = proc[p].name /\ ~Recorded(p).required
<1>1. proc[p].name \in Names \cup {NoName} /\ proc[p].copy \in Copies /\ proc[p].at \in Nat
      /\ clock \in Nat
  BY TypedRows DEF Processes, DInv, ProcessesTyped
<1>2. QED
  BY <1>1 DEF Recorded, States, Copies

LEMMA RecordKeeps ==
    ASSUME DInv, MInv, NEW p \in Procs, RecordRecoveryPoint(p)
    PROVE  DInv' /\ DirectoryStep(p)
<1>1. /\ proc[p] \in Processes /\ proc[p].pc = "record" /\ proc[p].cmd = "cycle"
      /\ ~proc[p].claimed /\ Knows(proc[p], state, files, target) /\ clock \in Nat
  BY TypedRows, Unclaimed DEF RecordRecoveryPoint, At, Staged, RetentionStages, RestoreStages,
     MigrationStages, Section, DInv, ProcessesTyped
<1>2. PICK s : s = Recorded(p)
  OBVIOUS
<1>3. s \in States /\ s.name = proc[p].name /\ ~s.required
  BY <1>2, RecordedState
<1>4. PICK r : r = [proc[p] EXCEPT !.pc = "prune", !.cur = s, !.now = clock, !.copy = NoCopy,
                                   !.ino = NoFile]
  OBVIOUS
<1>5. /\ r \in Processes /\ r.pc = "prune" /\ r.cmd = "cycle" /\ r.cur = s /\ ~r.claimed
  <2>1. NoCopy \in Copies
    BY EmptyRecords
  <2> HIDE DEF NoCopy
  <2>2. QED
    BY <1>1, <1>3, <1>4, <2>1 DEF Processes, Stages, CycleStages
<1>6. Becomes(p, r) /\ state' = s /\ UNCHANGED <<files, block, clock, volume>>
  BY <1>2, <1>4 DEF RecordRecoveryPoint, Becomes, time
<1>7. VolumeTyped' /\ target' = target /\ DirectoryTyped'
  BY <1>3, <1>6, VolumeStays DEF DInv, volume, DirectoryTyped
<1>8. proc[p].name \in DOMAIN files /\ files[proc[p].name].of # "replaced" /\ target # NoFile
  BY <1>1 DEF Knows
<1>9. OnRecord(state', files', target')
  BY <1>3, <1>6, <1>7, <1>8 DEF OnRecord
<1>10. Staged(r) /\ Knows(r, state', files', target') /\ proc[p].cmd \in BackupCommands
  BY <1>1, <1>5, <1>6 DEF Staged, Knows, Informed, CycleStages, BackupCommands
<1>11. DInv'
  BY <1>1, <1>5, <1>6, <1>7, <1>9, <1>10, HolderSteps
<1>12. DirectoryStep(p)
  BY <1>1, <1>5, <1>6 DEF DirectoryStep, Section
<1>13. QED
  BY <1>11, <1>12

LEMMA PruneOneKeeps ==
    ASSUME DInv, MInv, NEW p \in Procs, PruneOne(p)
    PROVE  DInv' /\ DirectoryStep(p)
<1>1. /\ proc[p] \in Processes /\ proc[p].pc = "prune" /\ proc[p].cmd \in {"cycle", "retention"}
      /\ ~proc[p].claimed /\ Knows(proc[p], state, files, target)
  BY TypedRows, Unclaimed DEF PruneOne, At, Staged, RestoreStages, MigrationStages, Section
<1>2. PICK n \in Verified(p) \ Kept(p) : files' = Without(n)
  BY DEF PruneOne, Without
<1>3. proc[p].cur.name = state.name
  BY <1>1 DEF Knows, Informed
<1>4. n # state.name
  <2>1. {proc[p].cur.name} \cap Verified(p) \subseteq Kept(p)
    BY DEF Kept
  <2>2. QED
    BY <1>2, <1>3, <2>1
<1>5. UNCHANGED <<state, block, clock, volume, proc>>
  BY DEF PruneOne, time
<1>6. /\ DirectoryTyped' /\ VolumeTyped' /\ target' = target
      /\ OnRecord(state', files', target')
  BY <1>2, <1>4, <1>5, OneFileLess
<1>7. Becomes(p, proc[p])
  BY <1>5, TypedRows DEF Becomes
<1>8. Knows(proc[p], state', files', target') /\ proc[p].cmd \in BackupCommands
  BY <1>1, <1>5, <1>6 DEF Knows, Informed, BackupCommands
<1>9. DInv'
  BY <1>1, <1>5, <1>6, <1>7, <1>8, TypedRows, HolderSteps
<1>10. DirectoryStep(p)
  BY <1>1, <1>5, <1>7 DEF DirectoryStep, Section
<1>11. QED
  BY <1>9, <1>10

-----------------------------------------------------------------------------
(* A command fails or is done.                                             *)

LEMMA Ends ==
    ASSUME DInv, MInv, NEW p \in Procs, NEW r \in Processes, Becomes(p, r),
           proc[p].cmd \in BackupCommands, proc[p].pc \notin Section,
           r.cmd = proc[p].cmd, r.pc \in {"failed", "release"}, ~r.claimed,
           r.pc = "failed" => r.cur = proc[p].cur /\ Informed(proc[p]),
           UNCHANGED <<block, clock, volume>>,
           state'.name = state.name, state'.required = state.required,
           DirectoryTyped', OnRecord(state', files', target')
    PROVE  DInv' /\ DirectoryStep(p)
<1>1. VolumeTyped' /\ target' = target
  BY VolumeStays DEF DInv, volume
<1>2. Knows(proc[p], state, files, target) /\ Staged(proc[p])
  BY TypedRows
<1>3. Staged(r)
  BY <1>2 DEF Staged, Informed, BackupCommands, CycleStages, RetentionStages, RestoreStages
<1>4. Knows(r, state', files', target')
  BY <1>2 DEF Knows, Informed
<1>5. DInv'
  BY <1>1, <1>3, <1>4, HolderSteps
<1>6. r.pc \notin Section
  BY DEF Section
<1>7. DirectoryStep(p)
  BY <1>6 DEF DirectoryStep
<1>8. QED
  BY <1>5, <1>7

LEMMA RowIsDone ==
    ASSUME DInv, MInv, NEW p \in Procs, proc' = [proc EXCEPT ![p] = Done(p)],
           proc[p].cmd \in BackupCommands, proc[p].pc \notin Section,
           UNCHANGED <<block, clock, volume>>,
           state'.name = state.name, state'.required = state.required,
           DirectoryTyped', OnRecord(state', files', target')
    PROVE  DInv' /\ DirectoryStep(p)
<1>1. PICK r : r = Done(p)
  OBVIOUS
<1>2. r \in Processes /\ r.pc = "release" /\ r.cmd = proc[p].cmd /\ ~r.claimed /\ Becomes(p, r)
  BY <1>1, DoneRow, TypedRows DEF Becomes
<1>3. QED
  BY <1>2, Ends

LEMMA RowHasFailed ==
    ASSUME DInv, MInv, NEW p \in Procs, proc' = [proc EXCEPT ![p] = Failed(p)],
           proc[p].cmd \in BackupCommands, proc[p].pc \notin Section, Informed(proc[p]),
           UNCHANGED <<block, clock, volume, state>>,
           DirectoryTyped', OnRecord(state', files', target')
    PROVE  DInv' /\ DirectoryStep(p)
<1>1. PICK r : r = Failed(p)
  OBVIOUS
<1>2. /\ r \in Processes /\ r.pc = "failed" /\ r.cmd = proc[p].cmd /\ ~r.claimed /\ Becomes(p, r)
      /\ r.cur = proc[p].cur
  BY <1>1, FailedRow, TypedRows DEF Becomes
<1>3. QED
  BY <1>2, Ends

(* The directory when at most the state has been written.                  *)
LEMMA StateWritten ==
    ASSUME DInv, UNCHANGED <<files, volume>>, state' \in States,
           state'.name = state.name, state'.required = state.required
    PROVE  DirectoryTyped' /\ OnRecord(state', files', target')
<1>1. target' = target
  BY DEF volume
<1>2. QED
  BY <1>1 DEF DInv, DirectoryTyped, OnRecord

LEMMA LaterIsNat ==
    ASSUME NEW s \in Nat, NEW t \in Nat PROVE Later(s, t) \in Nat
BY DEF Later

LEMMA PruneDoneKeeps ==
    ASSUME DInv, MInv, NEW p \in Procs, PruneDone(p)
    PROVE  DInv' /\ DirectoryStep(p)
<1>1. /\ proc[p] \in Processes /\ proc[p].pc = "prune" /\ proc[p].cmd \in {"cycle", "retention"}
      /\ Knows(proc[p], state, files, target)
      /\ UNCHANGED <<files, block, clock, volume>>
  BY TypedRows DEF PruneDone, At, Staged, RestoreStages, MigrationStages, time
<1>2. /\ Informed(proc[p]) /\ proc[p].cmd \in BackupCommands /\ proc[p].pc \notin Section
  BY <1>1 DEF Informed, BackupCommands, Section
<1>3. proc[p].cur.name = state.name /\ proc[p].cur.required = state.required
  BY <1>1, <1>2 DEF Knows
<1>4. CASE state' = [proc[p].cur EXCEPT !.errorAt = 0] /\ proc' = [proc EXCEPT ![p] = Done(p)]
  <2>1. proc[p].cur \in States
    BY <1>1 DEF Processes
  <2>2. /\ state' \in States /\ state'.name = state.name /\ state'.required = state.required
    BY <1>3, <1>4, <2>1 DEF States
  <2>3. DirectoryTyped' /\ OnRecord(state', files', target')
    BY <1>1, <2>2, StateWritten
  <2>4. QED
    BY <1>1, <1>2, <1>4, <2>2, <2>3, RowIsDone
<1>5. CASE proc' = [proc EXCEPT ![p] = Failed(p)] /\ UNCHANGED state
  <2>1. DirectoryTyped' /\ OnRecord(state', files', target')
    BY <1>1, <1>5, StateWritten DEF DInv, DirectoryTyped
  <2>2. QED
    BY <1>1, <1>2, <1>5, <2>1, RowHasFailed
<1>6. QED
  BY <1>4, <1>5 DEF PruneDone

LEMMA DeleteKeeps ==
    ASSUME DInv, MInv, NEW p \in Procs, NEW n \in DOMAIN files, DeleteBackupFile(p, n)
    PROVE  DInv' /\ DirectoryStep(p)
<1>1. /\ proc[p].pc = "locked" /\ proc[p].cmd = "delete"
      /\ proc' = [proc EXCEPT ![p] = Done(p)] /\ n # state.name /\ files' = Without(n)
      /\ UNCHANGED <<state, block, clock, volume>>
  BY DEF DeleteBackupFile, At, Does, time, Without
<1>2. DirectoryTyped' /\ OnRecord(state', files', target')
  BY <1>1, OneFileLess
<1>3. proc[p].cmd \in BackupCommands /\ proc[p].pc \notin Section
  BY <1>1 DEF BackupCommands, Section
<1>4. QED
  BY <1>1, <1>2, <1>3, RowIsDone

LEMMA FinishKeeps ==
    ASSUME DInv, MInv, NEW p \in Procs, FinishRestore(p)
    PROVE  DInv' /\ DirectoryStep(p)
<1>1. /\ proc[p] \in Processes /\ proc[p].pc = "finish" /\ proc[p].cmd = "restore"
      /\ Knows(proc[p], state, files, target) /\ clock \in Nat
      /\ UNCHANGED <<files, block, clock, volume>> /\ proc' = [proc EXCEPT ![p] = Done(p)]
  BY TypedRows DEF FinishRestore, At, Staged, CycleStages, RetentionStages, MigrationStages, time,
                   DInv, ProcessesTyped
<1>2. proc[p].cur \in States /\ proc[p].at \in Nat
  BY <1>1 DEF Processes
<1>3. proc[p].cur.name = state.name /\ proc[p].cur.required = state.required
  BY <1>1 DEF Knows, Informed
<1>4. PICK t \in Nat : t = Later(clock, proc[p].at)
  BY <1>1, <1>2, LaterIsNat
<1>5. state' = [proc[p].cur EXCEPT !.errorAt = 0, !.success = t]
  BY <1>4 DEF FinishRestore
<1>6. state' \in States /\ state'.name = state.name /\ state'.required = state.required
  BY <1>2, <1>3, <1>5 DEF States
<1>7. DirectoryTyped' /\ OnRecord(state', files', target')
  BY <1>1, <1>6, StateWritten
<1>8. proc[p].cmd \in BackupCommands /\ proc[p].pc \notin Section
  BY <1>1 DEF BackupCommands, Section
<1>9. QED
  BY <1>1, <1>6, <1>7, <1>8, RowIsDone

LEMMA RecordFailureKeeps ==
    ASSUME DInv, MInv, NEW p \in Procs, RecordFailure(p)
    PROVE  DInv' /\ DirectoryStep(p)
<1>1. /\ proc[p] \in Processes /\ proc[p].pc = "failed"
      /\ proc[p].cmd \in {"cycle", "retention", "restore"}
      /\ Knows(proc[p], state, files, target) /\ clock \in Nat
      /\ UNCHANGED <<files, block, clock, volume>> /\ proc' = [proc EXCEPT ![p] = Done(p)]
  BY TypedRows DEF RecordFailure, At, Staged, MigrationStages, time, DInv, ProcessesTyped
<1>2. proc[p].cur \in States /\ proc[p].at \in Nat /\ proc[p].now \in Nat
  BY <1>1 DEF Processes
<1>3. proc[p].cur.name = state.name /\ proc[p].cur.required = state.required
  BY <1>1 DEF Knows, Informed
<1>4. PICK t \in Nat :
        t = Later(clock, IF Does(p, {"retention"}) THEN proc[p].now ELSE proc[p].at)
  BY <1>1, <1>2, LaterIsNat
<1>5. state' = [proc[p].cur EXCEPT !.errorAt = t]
  BY <1>4 DEF RecordFailure
<1>6. state' \in States /\ state'.name = state.name /\ state'.required = state.required
  BY <1>2, <1>3, <1>5 DEF States
<1>7. DirectoryTyped' /\ OnRecord(state', files', target')
  BY <1>1, <1>6, StateWritten
<1>8. proc[p].cmd \in BackupCommands /\ proc[p].pc \notin Section
  BY <1>1 DEF BackupCommands, Section
<1>9. QED
  BY <1>1, <1>6, <1>7, <1>8, RowIsDone

LEMMA RefusesCommandKeeps ==
    ASSUME DInv, MInv, NEW p \in Procs, RefusesCommand(p)
    PROVE  DInv' /\ DirectoryStep(p)
<1>1. /\ proc[p].pc \in {"select", "locked"} /\ proc[p].cmd \in BackupCommands
      /\ UNCHANGED <<state, files, block, clock, volume>> /\ proc' = [proc EXCEPT ![p] = Done(p)]
  BY TypedRows DEF RefusesCommand, At, Does, Staged, MigrationStages, time, directory,
                   BackupCommands, RestoreStages, CycleStages, RetentionStages
<1>2. DirectoryTyped' /\ OnRecord(state', files', target')
  BY <1>1, StateWritten DEF DInv, DirectoryTyped
<1>3. proc[p].pc \notin Section
  BY <1>1 DEF Section
<1>4. QED
  BY <1>1, <1>2, <1>3, RowIsDone

LEMMA RetentionFailsKeeps ==
    ASSUME DInv, MInv, NEW p \in Procs, RetentionFails(p)
    PROVE  DInv' /\ DirectoryStep(p)
<1>1. /\ proc[p].pc \in {"prune", "recover"} /\ proc[p].cmd \in {"cycle", "retention"}
      /\ UNCHANGED <<state, files, block, clock, volume>> /\ proc' = [proc EXCEPT ![p] = Failed(p)]
  BY TypedRows DEF RetentionFails, At, Does, Staged, MigrationStages, time, directory,
                   RestoreStages
<1>2. DirectoryTyped' /\ OnRecord(state', files', target')
  BY <1>1, StateWritten DEF DInv, DirectoryTyped
<1>3. proc[p].pc \notin Section /\ Informed(proc[p]) /\ proc[p].cmd \in BackupCommands
  BY <1>1 DEF Section, Informed, BackupCommands
<1>4. QED
  BY <1>1, <1>2, <1>3, RowHasFailed

LEMMA BackupFailsKeeps ==
    ASSUME DInv, MInv, NEW p \in Procs, BackupFails(p)
    PROVE  DInv' /\ DirectoryStep(p)
<1>1. /\ proc[p].cmd = "cycle"
      /\ proc[p].pc \in {"recover", "plock", "source", "snapshot", "copying", "barrier", "link",
                         "unlink"}
      /\ Knows(proc[p], state, files, target)
      /\ UNCHANGED <<state, block, clock, volume>> /\ proc' = [proc EXCEPT ![p] = Failed(p)]
  BY TypedRows DEF BackupFails, Does, time
<1>2. DirectoryTyped' /\ OnRecord(state', files', target')
  <2>1. CASE proc[p].pc = "unlink"
    <3>1. files' = Without(proc[p].name) /\ proc[p].name # state.name
      BY <1>1, <2>1 DEF BackupFails, At, Knows
    <3>2. QED
      BY <1>1, <3>1, OneFileLess
  <2>2. CASE proc[p].pc # "unlink"
    <3>1. UNCHANGED files
      BY <2>2 DEF BackupFails, At
    <3>2. QED
      BY <1>1, <3>1, StateWritten DEF DInv, DirectoryTyped
  <2>3. QED
    BY <2>1, <2>2
<1>3. proc[p].pc \notin Section /\ Informed(proc[p]) /\ proc[p].cmd \in BackupCommands
  BY <1>1 DEF Section, Informed, BackupCommands
<1>4. QED
  BY <1>1, <1>2, <1>3, RowHasFailed

LEMMA RefusesBackupKeeps ==
    ASSUME DInv, MInv, NEW p \in Procs, RefusesBackup(p)
    PROVE  DInv' /\ DirectoryStep(p)
<1>1. /\ proc[p].cmd = "cycle" /\ proc[p].pc = "record"
      /\ Knows(proc[p], state, files, target)
      /\ UNCHANGED <<state, block, clock, volume>> /\ proc' = [proc EXCEPT ![p] = Failed(p)]
  BY TypedRows DEF RefusesBackup, At, Staged, RetentionStages, RestoreStages, MigrationStages, time
<1>2. DirectoryTyped' /\ OnRecord(state', files', target')
  <2>1. CASE files' = Without(proc[p].name)
    <3>1. proc[p].name # state.name
      BY <1>1 DEF Knows
    <3>2. QED
      BY <1>1, <2>1, <3>1, OneFileLess
  <2>2. CASE UNCHANGED files
    BY <1>1, <2>2, StateWritten DEF DInv, DirectoryTyped
  <2>3. QED
    BY <2>1, <2>2 DEF RefusesBackup
<1>3. proc[p].pc \notin Section /\ Informed(proc[p]) /\ proc[p].cmd \in BackupCommands
  BY <1>1 DEF Section, Informed, BackupCommands
<1>4. QED
  BY <1>1, <1>2, <1>3, RowHasFailed

-----------------------------------------------------------------------------
(* The first steps of the restore commands.                                *)

LEMMA SelectKeeps ==
    ASSUME DInv, MInv, NEW p \in Procs, NEW n \in DOMAIN files, SelectBackup(p, n)
    PROVE  DInv' /\ DirectoryStep(p)
<1>1. /\ proc[p] \in Processes /\ proc[p].pc = "select" /\ proc[p].cmd = "restore"
      /\ ~proc[p].claimed /\ n \in Names /\ files[n] \in Copies
  BY TypedRows, Unclaimed DEF SelectBackup, Selects, At, Staged, CycleStages, RetentionStages,
     MigrationStages, Section, DInv, DirectoryTyped
<1>2. PICK s : s = RestoredState(p, n)
  OBVIOUS
<1>3. s \in States /\ s.name = n /\ s.required
  <2>1. proc[p].at \in Nat /\ files[n].instance \in Nat
    BY <1>1 DEF Processes, Copies
  <2>2. QED
    BY <1>1, <1>2, <2>1 DEF RestoredState, States
<1>4. PICK c \in Copies : c = files[n]
  BY <1>1
<1>5. PICK r : r = [proc[p] EXCEPT !.pc = "plock", !.copy = c, !.name = n, !.cur = s]
  OBVIOUS
<1>6. /\ r \in Processes /\ r.pc = "plock" /\ r.cmd = "restore" /\ r.cur = s /\ ~r.claimed
  BY <1>1, <1>3, <1>4, <1>5 DEF Processes, Stages, CycleStages
<1>7. Becomes(p, r) /\ state' = s /\ UNCHANGED <<files, block, clock, volume>>
  BY <1>2, <1>4, <1>5 DEF SelectBackup, Selects, Becomes, time
<1>8. VolumeTyped' /\ target' = target /\ DirectoryTyped'
  BY <1>3, <1>7, VolumeStays DEF DInv, volume, DirectoryTyped
<1>9. OnRecord(state', files', target')
  BY <1>3, <1>7 DEF OnRecord
<1>10. Staged(r) /\ Knows(r, state', files', target') /\ proc[p].cmd \in BackupCommands
  BY <1>1, <1>3, <1>6, <1>7 DEF Staged, Knows, Informed, RestoreStages, BackupCommands
<1>11. DInv'
  BY <1>1, <1>6, <1>7, <1>8, <1>9, <1>10, HolderSteps
<1>12. DirectoryStep(p)
  BY <1>1, <1>6, <1>7 DEF DirectoryStep, Section
<1>13. QED
  BY <1>11, <1>12

LEMMA SelectMigrationKeeps ==
    ASSUME DInv, MInv, NEW p \in Procs, SelectMigrationBackup(p)
    PROVE  DInv' /\ DirectoryStep(p)
<1>1. /\ proc[p] \in Processes /\ proc[p].pc = "rest" /\ proc[p].cmd = "none"
      /\ ~proc[p].claimed /\ clock \in Nat /\ block # p
  <2>1. proc[p].pc = "rest" /\ proc[p] \in Processes
    BY TypedRows DEF SelectMigrationBackup, At
  <2>2. proc[p].cmd = "none"
    BY <2>1, TypedRows DEF Staged, CycleStages, RetentionStages, RestoreStages, MigrationStages
  <2>3. QED
    BY <2>1, <2>2, TypedRows, Unclaimed DEF Section, DInv, ProcessesTyped, BackupCommands
<1>2. PICK c \in Copies : c = [NoCopy EXCEPT !.instance = 1]
  BY EmptyRecords DEF Copies
<1>3. PICK r : r = [proc[p] EXCEPT !.pc = "mlock", !.cmd = "migration", !.copy = c]
  OBVIOUS
<1>4. /\ r \in Processes /\ r.pc = "mlock" /\ r.cmd = "migration" /\ ~r.claimed
  BY <1>1, <1>2, <1>3 DEF Processes, Stages, RestoreStages
<1>5. Becomes(p, r) /\ UNCHANGED <<state, files, block, clock, volume>>
  BY <1>2, <1>3 DEF SelectMigrationBackup, Becomes, directory
<1>6. Staged(r) /\ Knows(r, state, files, target) /\ r.cmd \notin BackupCommands
  BY <1>4 DEF Staged, Knows, Informed, MigrationStages, BackupCommands
<1>7. VolumeTyped' /\ target' = target
  BY <1>5, VolumeStays DEF DInv, volume
<1>8. DInv'
  BY <1>1, <1>4, <1>5, <1>6, <1>7, BystanderSteps
<1>9. DirectoryStep(p)
  BY <1>1, <1>4, <1>5 DEF DirectoryStep, Section
<1>10. QED
  BY <1>8, <1>9

-----------------------------------------------------------------------------
(* Steps under the maintenance lock.                                       *)

LEMMA CommandSteps ==
    ASSUME DInv, NEW p \in Procs, NEW r \in Processes, Becomes(p, r),
           r.cmd = proc[p].cmd, Staged(r), UNCHANGED <<state, files, block, clock>>,
           VolumeTyped', target' = NoFile <=> target = NoFile,
           Knows(r, state, files, target)
    PROVE  DInv'
<1>1. block' = p <=> r.cmd \in BackupCommands
  BY TypedRows
<1>2. clock' \in Nat
  BY DEF DInv, ProcessesTyped
<1>3. QED
  BY <1>1, <1>2, BystanderSteps

LEMMA OthersAreOutside ==
    ASSUME DInv, MInv, NEW p \in Procs, NEW r \in Processes, Becomes(p, r),
           mlock \in {p, Free}, mlock' \in {p, Free, Orphan}
    PROVE  /\ proc'[p] = r
           /\ \A q \in Procs : q # p => Maintains(q)'
<1>1. /\ proc'[p] = r
      /\ \A q \in Procs : q # p => proc'[q] = proc[q]
  BY OneMoves DEF DInv, ProcessesTyped
<1>2. ASSUME NEW q \in Procs, q # p PROVE Maintains(q)'
  <2>1. mlock # q /\ mlock' # q
    BY <1>2, LocksAreNotProcs
  <2>2. proc[q].pc \notin Section /\ ~proc[q].claimed
    BY <2>1, Unclaimed DEF MInv, Maintains
  <2>3. QED
    BY <1>1, <1>2, <2>1, <2>2 DEF Maintains, Section
<1>3. QED
  BY <1>1, <1>2

LEMMA InSection ==
    ASSUME DInv, MInv, NEW p \in Procs, proc[p].pc \in Section
    PROVE  mlock = p /\ mlock # Free /\ proc[p].cmd \in {"restore", "migration"}
<1>1. mlock = p
  BY DEF MInv, Maintains
<1>2. proc[p].cmd \in {"restore", "migration"}
  BY TypedRows DEF Staged, Section, CycleStages, RetentionStages
<1>3. QED
  BY <1>1, <1>2, LocksAreNotProcs

LEMMA DatabaseSame ==
    ASSUME DInv, MInv, UNCHANGED <<target, disk, app, acked, kept>>
    PROVE  (\A a \in Apps : AppHeld(a)') /\ NothingLost' /\ (AllDown' <=> AllDown)
BY DEF MInv, AppHeld, NothingLost, AllDown

LEMMA Owned ==
    ASSUME DInv, MInv, target \in Inodes, NEW o \in {"nobody", "maintenance"},
           disk' = [disk EXCEPT ![target].owner = o],
           wal' \in {wal, NoFile}, UNCHANGED <<target, app, acked, kept, instances>>
    PROVE  /\ VolumeTyped'
           /\ \A a \in Apps : AppHeld(a)'
           /\ NothingLost'
           /\ disk'[target].owner = o /\ disk'[target].writes = disk[target].writes
<1>1. disk \in [Inodes -> Contents]
  BY DEF DInv, VolumeTyped
<1>2. PICK c : c = [disk[target] EXCEPT !.owner = o]
  OBVIOUS
<1>3. c \in Contents /\ c.owner = o /\ c.writes = disk[target].writes
  BY <1>1, <1>2 DEF Contents
<1>4. disk' = [disk EXCEPT ![target] = c]
  BY <1>2
<1>5. disk' \in [Inodes -> Contents] /\ disk'[target] = c
      /\ \A i \in Inodes : i # target => disk'[i] = disk[i]
  BY <1>1, <1>3, <1>4
<1>6. VolumeTyped'
  BY <1>5 DEF DInv, VolumeTyped
<1>7. \A a \in Apps : AppHeld(a)'
  BY <1>5 DEF MInv, AppHeld
<1>8. NothingLost'
  BY <1>3, <1>5 DEF MInv, NothingLost
<1>9. QED
  BY <1>3, <1>5, <1>6, <1>7, <1>8

LEMMA AcquireMaintenanceKeeps ==
    ASSUME DInv, MInv, NEW p \in Procs, AcquireMaintenanceLock(p)
    PROVE  DInv' /\ MInv'
<1>1. /\ proc[p].pc = "mlock" /\ proc[p].cmd \in {"restore", "migration"} /\ mlock = Free
      /\ Knows(proc[p], state, files, target) /\ ~proc[p].claimed
  BY TypedRows, Unclaimed DEF AcquireMaintenanceLock, At, Staged, CycleStages, RetentionStages, Section
<1>2. /\ Goes(p, "probe") /\ mlock' = p
      /\ UNCHANGED <<state, files, block, clock, target, disk, wal, app, acked, kept, instances>>
  BY DEF AcquireMaintenanceLock, time, directory
<1>3. PICK r \in Processes : Becomes(p, r) /\ SameBut(r, proc[p], "probe")
  BY <1>2, TypedRows, GoesOn DEF Stages, RestoreStages
<1>4. r.pc = "probe" /\ r.cmd = proc[p].cmd /\ ~r.claimed
  BY <1>1, <1>3 DEF SameBut
<1>5. Staged(r) /\ Knows(r, state, files, target)
  BY <1>1, <1>3 DEF SameBut, Staged, Knows, Informed, RestoreStages, MigrationStages
<1>6. VolumeTyped'
  BY <1>2 DEF DInv, VolumeTyped
<1>7. DInv'
  BY <1>2, <1>3, <1>4, <1>5, <1>6, CommandSteps
<1>8. proc'[p] = r /\ \A q \in Procs : q # p => Maintains(q)'
  BY <1>1, <1>2, <1>3, OthersAreOutside
<1>9. Maintains(p)'
  BY <1>2, <1>4, <1>8 DEF Maintains, Section
<1>10. (\A a \in Apps : AppHeld(a)') /\ NothingLost' /\ (AllDown' <=> AllDown)
  BY <1>2, DatabaseSame
<1>11. WalHeld'
  BY <1>2, <1>10, LocksAreNotProcs DEF MInv, WalHeld
<1>12. QED
  BY <1>7, <1>8, <1>9, <1>10, <1>11 DEF MInv

LEMMA ProbeKeeps ==
    ASSUME DInv, MInv, NEW p \in Procs, Probe(p)
    PROVE  DInv' /\ MInv'
<1>1. /\ proc[p] \in Processes /\ proc[p].pc = "probe" /\ proc[p].cmd \in {"restore", "migration"}
      /\ mlock = p /\ mlock # Free /\ Knows(proc[p], state, files, target) /\ ~proc[p].claimed
  <2>1. proc[p].pc = "probe"
    BY DEF Probe, At
  <2>2. proc[p].pc \in Section /\ ~proc[p].claimed
    BY <2>1 DEF Section, MInv, Maintains
  <2>3. QED
    BY <2>1, <2>2, TypedRows, InSection
<1>2. UNCHANGED <<state, files, block, clock, volume>>
  BY DEF Probe, time, directory
<1>3. UNCHANGED <<target, disk, wal, mlock, app, acked, kept>>
  BY <1>2 DEF volume
<1>4. target \in Inodes \cup {NoFile}
  BY DEF DInv, VolumeTyped
<1>5. \E r \in Processes : /\ Becomes(p, r) /\ r.cmd = proc[p].cmd /\ r.cur = proc[p].cur /\ ~r.claimed
                           /\ r.pc \in {"link target", "claim", "move"}
                           /\ r.pc \in {"link target", "move"} => r.cmd = "restore"
                           /\ r.pc \in {"claim", "move"} => r.ino = target /\ target # NoFile
                           /\ r.pc = "move" => AllDown
  <2>1. CASE Does(p, {"restore"}) /\ Goes(p, "link target")
    <3>1. PICK r \in Processes : Becomes(p, r) /\ SameBut(r, proc[p], "link target")
      BY <2>1, TypedRows, GoesOn DEF Stages, RestoreStages
    <3>2. QED
      BY <1>1, <2>1, <3>1 DEF SameBut, Does
  <2>2. ASSUME NEW pc \in {"claim", "move"}, target # NoFile,
               proc' = [proc EXCEPT ![p].pc = pc, ![p].ino = target],
               pc = "move" => AllDown /\ proc[p].cmd = "restore"
        PROVE  \E r \in Processes :
                  /\ Becomes(p, r) /\ r.cmd = proc[p].cmd /\ r.cur = proc[p].cur /\ ~r.claimed
                  /\ r.pc = pc /\ r.ino = target
    <3>1. PICK r : r = [proc[p] EXCEPT !.pc = pc, !.ino = target]
      OBVIOUS
    <3>2. r \in Processes /\ r.cmd = proc[p].cmd /\ r.cur = proc[p].cur /\ ~r.claimed
          /\ r.pc = pc /\ r.ino = target
      BY <1>1, <1>4, <3>1 DEF Processes, Stages, RestoreStages
    <3>3. Becomes(p, r)
      BY <2>2, <3>1 DEF Becomes
    <3>4. QED
      BY <3>2, <3>3
  <2>3. CASE target # NoFile /\ proc' = [proc EXCEPT ![p].pc = "claim", ![p].ino = target]
    BY <2>2, <2>3
  <2>4. CASE /\ target # NoFile /\ Does(p, {"restore"})
             /\ \A a \in Apps : app[a].pc = "down"
             /\ proc' = [proc EXCEPT ![p].pc = "move", ![p].ino = target]
    BY <2>2, <2>4 DEF Does, AllDown
  <2>5. QED
    BY <2>1, <2>3, <2>4 DEF Probe
<1>6. PICK r \in Processes :
         /\ Becomes(p, r) /\ r.cmd = proc[p].cmd /\ r.cur = proc[p].cur /\ ~r.claimed
         /\ r.pc \in {"link target", "claim", "move"}
         /\ r.pc \in {"link target", "move"} => r.cmd = "restore"
         /\ r.pc \in {"claim", "move"} => r.ino = target /\ target # NoFile
         /\ r.pc = "move" => AllDown
  BY <1>5
<1>7. Staged(r) /\ Knows(r, state, files, target)
  BY <1>1, <1>6 DEF Staged, Knows, Informed, RestoreStages, MigrationStages
<1>8. VolumeTyped' /\ target' = target
  BY <1>2, VolumeStays DEF DInv, volume
<1>9. DInv'
  BY <1>2, <1>6, <1>7, <1>8, CommandSteps
<1>10. proc'[p] = r /\ \A q \in Procs : q # p => Maintains(q)'
  BY <1>1, <1>3, <1>6, OthersAreOutside
<1>11. (\A a \in Apps : AppHeld(a)') /\ NothingLost' /\ (AllDown' <=> AllDown)
  BY <1>3, DatabaseSame
<1>12. Maintains(p)'
  BY <1>1, <1>3, <1>6, <1>10, <1>11 DEF Maintains, Section
<1>13. WalHeld'
  BY <1>3, <1>11 DEF MInv, WalHeld
<1>14. QED
  BY <1>9, <1>10, <1>11, <1>12, <1>13 DEF MInv

LEMMA ClaimKeeps ==
    ASSUME DInv, MInv, NEW p \in Procs, Claim(p)
    PROVE  DInv' /\ MInv'
<1>1. /\ proc[p] \in Processes /\ proc[p].pc = "claim" /\ proc[p].cmd \in {"restore", "migration"}
      /\ mlock = p /\ mlock # Free /\ Knows(proc[p], state, files, target)
      /\ target = proc[p].ino /\ target # NoFile /\ target \in Inodes
  <2>1. proc[p].pc = "claim"
    BY DEF Claim, At
  <2>2. proc[p].pc \in Section /\ target = proc[p].ino /\ target # NoFile
    BY <2>1 DEF Section, MInv, Maintains
  <2>3. QED
    BY <2>1, <2>2, TypedRows, InSection DEF DInv, VolumeTyped
<1>2. /\ disk' = [disk EXCEPT ![target].owner = "maintenance"]
      /\ proc' = [proc EXCEPT ![p].pc = "quiesce", ![p].claimed = TRUE]
      /\ UNCHANGED <<state, files, block, clock, target, wal, mlock, app, acked, kept, instances>>
  BY <1>1 DEF Claim, time, directory
<1>3. \A a \in Apps : ~app[a].writing
  <2>1. ~WriteLocked(target)
    BY <1>1 DEF Claim
  <2>2. QED
    BY <2>1 DEF WriteLocked, MInv, AppHeld
<1>4. PICK r : r = [proc[p] EXCEPT !.pc = "quiesce", !.claimed = TRUE]
  OBVIOUS
<1>5. /\ r \in Processes /\ r.pc = "quiesce" /\ r.cmd = proc[p].cmd /\ r.cur = proc[p].cur
      /\ r.claimed /\ r.ino = proc[p].ino
  BY <1>1, <1>4 DEF Processes, Stages, RestoreStages
<1>6. Becomes(p, r)
  BY <1>2, <1>4 DEF Becomes
<1>7. Staged(r) /\ Knows(r, state, files, target)
  BY <1>1, <1>5 DEF Staged, Knows, Informed, RestoreStages, MigrationStages
<1>8. /\ VolumeTyped'
      /\ \A a \in Apps : AppHeld(a)'
      /\ NothingLost'
      /\ disk'[target].owner = "maintenance"
  BY <1>1, <1>2, Owned
<1>9. DInv'
  BY <1>2, <1>5, <1>6, <1>7, <1>8, CommandSteps
<1>10. proc'[p] = r /\ \A q \in Procs : q # p => Maintains(q)'
  BY <1>1, <1>2, <1>5, <1>6, OthersAreOutside
<1>11. Maintains(p)'
  BY <1>1, <1>2, <1>3, <1>5, <1>8, <1>10 DEF Maintains, Section
<1>12. WalHeld'
  BY <1>1, <1>2 DEF MInv, WalHeld
<1>13. QED
  BY <1>8, <1>9, <1>10, <1>11, <1>12 DEF MInv

LEMMA QuiesceKeeps ==
    ASSUME DInv, MInv, NEW p \in Procs, Quiesce(p)
    PROVE  DInv' /\ MInv'
<1>1. /\ proc[p].pc = "quiesce" /\ mlock = p /\ mlock # Free
      /\ proc[p].cmd \in {"restore", "migration"} /\ Knows(proc[p], state, files, target)
      /\ Maintains(p)
  <2>1. proc[p].pc = "quiesce"
    BY DEF Quiesce, At
  <2>2. proc[p].pc \in Section
    BY <2>1 DEF Section
  <2>3. QED
    BY <2>1, <2>2, TypedRows, InSection DEF MInv
<1>2. /\ Goes(p, "quarantine") /\ wal' = NoFile
      /\ UNCHANGED <<state, files, block, clock, target, disk, mlock, app, acked, kept, instances>>
  BY DEF Quiesce, time, directory
<1>3. PICK r \in Processes : /\ Becomes(p, r) /\ SameBut(r, proc[p], "quarantine")
                             /\ r.ino = proc[p].ino
  BY <1>2, TypedRows, GoesOn DEF Stages, RestoreStages
<1>4. Staged(r) /\ Knows(r, state, files, target) /\ r.cmd = proc[p].cmd
  BY <1>1, <1>3 DEF SameBut, Staged, Knows, Informed, RestoreStages, MigrationStages
<1>5. VolumeTyped'
  BY <1>2 DEF DInv, VolumeTyped
<1>6. DInv'
  BY <1>2, <1>3, <1>4, <1>5, CommandSteps
<1>7. proc'[p] = r /\ \A q \in Procs : q # p => Maintains(q)'
  BY <1>1, <1>2, <1>3, OthersAreOutside
<1>8. \A a \in Apps : app[a].pc \notin {"leased", "up"}
  <2>1. Attached(target) = {}
    BY <1>1 DEF Quiesce, Maintains
  <2>2. QED
    BY <2>1 DEF Attached, MInv, AppHeld
<1>9. Maintains(p)'
  BY <1>1, <1>2, <1>3, <1>7, <1>8 DEF Maintains, Section, SameBut
<1>10. (\A a \in Apps : AppHeld(a)') /\ NothingLost'
  BY <1>2, DatabaseSame
<1>11. WalHeld'
  BY <1>2 DEF WalHeld
<1>12. QED
  BY <1>6, <1>7, <1>9, <1>10, <1>11 DEF MInv

LEMMA QuarantineKeeps ==
    ASSUME DInv, MInv, NEW p \in Procs, Quarantine(p)
    PROVE  DInv' /\ MInv'
<1>1. /\ proc[p].pc = "quarantine" /\ mlock = p /\ mlock # Free
      /\ proc[p].cmd \in {"restore", "migration"} /\ Knows(proc[p], state, files, target)
      /\ Maintains(p)
  <2>1. proc[p].pc = "quarantine"
    BY DEF Quarantine, At
  <2>2. proc[p].pc \in Section
    BY <2>1 DEF Section
  <2>3. QED
    BY <2>1, <2>2, TypedRows, InSection DEF MInv
<1>2. /\ Goes(p, "replace") /\ kept' = kept \cup disk[target].writes
      /\ UNCHANGED <<state, files, block, clock, target, disk, wal, mlock, app, acked, instances>>
  BY DEF Quarantine, time, directory
<1>3. PICK r \in Processes : /\ Becomes(p, r) /\ SameBut(r, proc[p], "replace")
                             /\ r.ino = proc[p].ino
  BY <1>2, TypedRows, GoesOn DEF Stages, RestoreStages
<1>4. Staged(r) /\ Knows(r, state, files, target) /\ r.cmd = proc[p].cmd
  BY <1>1, <1>3 DEF SameBut, Staged, Knows, Informed, RestoreStages, MigrationStages
<1>5. VolumeTyped'
  <2>1. target \in Inodes /\ disk[target] \in Contents
    BY <1>1 DEF Maintains, DInv, VolumeTyped
  <2>2. disk[target].writes \subseteq Writes
    BY <2>1 DEF Contents
  <2>3. QED
    BY <1>2, <2>2 DEF DInv, VolumeTyped
<1>6. DInv'
  BY <1>2, <1>3, <1>4, <1>5, CommandSteps
<1>7. proc'[p] = r /\ \A q \in Procs : q # p => Maintains(q)'
  BY <1>1, <1>2, <1>3, OthersAreOutside
<1>8. Maintains(p)'
  BY <1>1, <1>2, <1>3, <1>7 DEF Maintains, Section, SameBut
<1>9. (\A a \in Apps : AppHeld(a)') /\ NothingLost' /\ WalHeld'
  BY <1>2 DEF MInv, AppHeld, NothingLost, WalHeld, AllDown
<1>10. QED
  BY <1>6, <1>7, <1>8, <1>9 DEF MInv

-----------------------------------------------------------------------------
(* The database is replaced, moved aside and put in place.                 *)

LEMMA OutdatedFiles ==
    ASSUME DirectoryTyped
    PROVE  DOMAIN Outdated = DOMAIN files /\ Outdated \in [DOMAIN files -> Copies]
<1>1. ASSUME NEW n \in DOMAIN files PROVE [files[n] EXCEPT !.of = "replaced"] \in Copies
  <2>1. files[n] \in Copies
    BY DEF DirectoryTyped
  <2>2. QED
    BY <2>1 DEF Copies
<1>2. QED
  BY <1>1 DEF Outdated

LEMMA CreatedTyped ==
    ASSUME NEW w \in SUBSET Writes, NEW i \in Nat
    PROVE  Created(w, i) \in Contents /\ Created(w, i).writes = w
BY DEF Created, Contents

LEMMA FreedKeeps ==
    ASSUME VolumeTyped
    PROVE  /\ Freed(disk, target) \in [Inodes -> Contents]
           /\ \A a \in Apps : app[a].ino \in Inodes =>
                 Freed(disk, target)[app[a].ino] = disk[app[a].ino]
<1>1. Created({}, 1) \in Contents
  BY CreatedTyped
<1>2. disk \in [Inodes -> Contents] /\ target \in Inodes \cup {NoFile}
  BY DEF VolumeTyped
<1>3. Freed(disk, target) = disk
      \/ /\ Freed(disk, target) = [disk EXCEPT ![target] = Created({}, 1)]
         /\ target \in Inodes /\ \A a \in Apps : app[a].ino # target
  BY <1>2 DEF Freed
<1>4. QED
  BY <1>1, <1>2, <1>3

(* The database that was in use goes, another one takes its name.          *)
LEMMA PublishedVolume ==
    ASSUME DInv, MInv, NEW p \in Procs, Published(p, Unused),
           UNCHANGED <<wal, app, acked, kept, instances>>
    PROVE  /\ VolumeTyped' /\ target' \in Inodes /\ target' # NoFile
           /\ \A a \in Apps : app[a].ino # target'
           /\ \A a \in Apps : app[a].ino \in Inodes => disk'[app[a].ino] = disk[app[a].ino]
<1>1. /\ Unused \in Inodes
      /\ \A a \in Apps : app[a].ino # Unused
  BY UnusedInode
<1>2. PICK c : c = Created(proc[p].copy.writes, proc[p].copy.instance)
  OBVIOUS
<1>3. c \in Contents
  <2>1. proc[p].copy \in Copies
    BY TypedRows DEF Processes
  <2>2. proc[p].copy.writes \in SUBSET Writes /\ proc[p].copy.instance \in Nat
    BY <2>1 DEF Copies
  <2>3. QED
    BY <1>2, <2>2, CreatedTyped
<1>4. PICK d : d = Freed(disk, target)
  OBVIOUS
<1>5. /\ d \in [Inodes -> Contents]
      /\ \A a \in Apps : app[a].ino \in Inodes => d[app[a].ino] = disk[app[a].ino]
  BY <1>4, FreedKeeps DEF DInv
<1>6. target' = Unused /\ disk' = [d EXCEPT ![Unused] = c]
  BY <1>2, <1>4 DEF Published
<1>7. disk' \in [Inodes -> Contents]
  BY <1>1, <1>3, <1>5, <1>6
<1>8. VolumeTyped'
  BY <1>1, <1>6, <1>7 DEF DInv, VolumeTyped
<1>9. QED
  BY <1>1, <1>5, <1>6, <1>8, NoFileIsNoInode

(* A restore has the state ask for a new backup before it replaces         *)
(* anything, and holds the backup lock.                                    *)
LEMMA RestoreReplaces ==
    ASSUME DInv, NEW p \in Procs, NEW r \in Processes, Becomes(p, r),
           proc[p].cmd = "restore", r.cmd = "restore", r.cur = proc[p].cur,
           proc[p].pc \in Section, r.pc \in Section, Staged(r),
           UNCHANGED <<state, block, clock>>, files' \in {files, Outdated},
           VolumeTyped'
    PROVE  DInv'
<1>1. Knows(proc[p], state, files, target) /\ Informed(proc[p]) /\ Informed(r)
  BY TypedRows DEF Informed, Section
<1>2. state.required
  BY <1>1 DEF Knows
<1>3. DirectoryTyped' /\ DOMAIN files' = DOMAIN files
  BY OutdatedFiles DEF DInv, DirectoryTyped
<1>4. OnRecord(state', files', target')
  BY <1>2, <1>3 DEF DInv, OnRecord
<1>5. Knows(r, state', files', target') /\ proc[p].cmd \in BackupCommands
  BY <1>1, <1>2 DEF Knows, BackupCommands
<1>6. QED
  BY <1>3, <1>4, <1>5, HolderSteps

(* restore-migration-backup: the database before goes out of use for every *)
(* backup and for every copy that a command has in hand.                   *)
LEMMA RolledBackCopy ==
    ASSUME NEW c \in Copies
    PROVE  /\ RolledBack(c) \in Copies
           /\ c.of # "replaced" => RolledBack(c).of # "replaced"
BY DEF RolledBack, Copies

LEMMA RolledBackRows ==
    ASSUME DInv, NEW p \in Procs, RollBack(p)
    PROVE  /\ proc' \in [Procs -> Processes]
           /\ \A q \in Procs :
                 /\ proc'[q].pc = IF q = p THEN "munlock" ELSE proc[q].pc
                 /\ proc'[q].cmd = proc[q].cmd /\ proc'[q].name = proc[q].name
                 /\ proc'[q].cur = proc[q].cur /\ proc'[q].claimed = proc[q].claimed
                 /\ proc[q].copy.of # "replaced" => proc'[q].copy.of # "replaced"
<1>1. ASSUME NEW q \in Procs
      PROVE  /\ proc'[q] \in Processes
             /\ proc'[q].pc = IF q = p THEN "munlock" ELSE proc[q].pc
             /\ proc'[q].cmd = proc[q].cmd /\ proc'[q].name = proc[q].name
             /\ proc'[q].cur = proc[q].cur /\ proc'[q].claimed = proc[q].claimed
             /\ proc[q].copy.of # "replaced" => proc'[q].copy.of # "replaced"
  <2>1. PICK r : r = proc[q]
    OBVIOUS
  <2>2. r \in Processes
    BY <2>1, TypedRows
  <2>3. PICK pc \in Stages : pc = IF q = p THEN "munlock" ELSE r.pc
    BY <2>2 DEF Processes, Stages, RestoreStages
  <2>4. PICK c : c = RolledBack(r.copy)
    OBVIOUS
  <2>5. c \in Copies /\ (r.copy.of # "replaced" => c.of # "replaced")
    <3>1. r.copy \in Copies
      BY <2>2 DEF Processes
    <3>2. QED
      BY <2>4, <3>1, RolledBackCopy
  <2>6. proc'[q] = [r EXCEPT !.pc = pc, !.copy = c]
    BY <2>1, <2>3, <2>4 DEF RollBack
  <2>7. QED
    BY <2>1, <2>2, <2>3, <2>5, <2>6 DEF Processes
<1>2. proc' = [q \in Procs |-> proc'[q]]
  BY DEF RollBack
<1>3. QED
  BY <1>1, <1>2

LEMMA RollBackKeepsD ==
    ASSUME DInv, NEW p \in Procs, RollBack(p), proc[p].cmd = "migration",
           UNCHANGED <<state, block, clock>>, VolumeTyped', target' # NoFile
    PROVE  DInv'
<1>1. /\ DOMAIN files' = DOMAIN files /\ files' \in [DOMAIN files -> Copies]
      /\ \A n \in DOMAIN files : files[n].of # "replaced" => files'[n].of # "replaced"
  <2>1. ASSUME NEW n \in DOMAIN files
        PROVE  /\ RolledBack(files[n]) \in Copies
               /\ files[n].of # "replaced" => RolledBack(files[n]).of # "replaced"
    BY RolledBackCopy DEF DInv, DirectoryTyped
  <2>2. files' = [n \in DOMAIN files |-> RolledBack(files[n])]
    BY DEF RollBack
  <2>3. QED
    BY <2>1, <2>2
<1>2. DirectoryTyped'
  BY <1>1 DEF DInv, DirectoryTyped
<1>3. OnRecord(state', files', target')
  BY <1>1 DEF DInv, OnRecord
<1>4. ASSUME NEW q \in Procs
      PROVE  Staged(proc'[q]) /\ HoldsBackup(q)' /\ Knows(proc'[q], state', files', target')
  <2>1. Staged(proc[q]) /\ HoldsBackup(q) /\ Knows(proc[q], state, files, target)
    BY DEF DInv, ProcessesTyped
  <2>2. /\ proc'[q].pc = IF q = p THEN "munlock" ELSE proc[q].pc
        /\ proc'[q].cmd = proc[q].cmd /\ proc'[q].name = proc[q].name
        /\ proc'[q].cur = proc[q].cur
        /\ proc[q].copy.of # "replaced" => proc'[q].copy.of # "replaced"
    BY RolledBackRows
  <2>3. HoldsBackup(q)'
    BY <2>1, <2>2 DEF HoldsBackup
  <2>4. Staged(proc'[q])
    BY <2>1, <2>2 DEF Staged, MigrationStages
  <2>5. CASE q = p
    BY <2>2, <2>3, <2>4, <2>5 DEF Knows, Informed
  <2>6. CASE q # p
    <3>1. Informed(proc'[q]) <=> Informed(proc[q])
      BY <2>2, <2>6 DEF Informed
    <3>2. Knows(proc'[q], state', files', target')
      BY <1>1, <2>1, <2>2, <2>6, <3>1 DEF Knows
    <3>3. QED
      BY <2>3, <2>4, <3>2
  <2>7. QED
    BY <2>5, <2>6
<1>5. ProcessesTyped'
  BY <1>4, RolledBackRows DEF DInv, ProcessesTyped
<1>6. QED
  BY <1>2, <1>3, <1>4, <1>5 DEF DInv

LEMMA ReplaceKeeps ==
    ASSUME DInv, MInv, NEW p \in Procs, Replace(p)
    PROVE  DInv' /\ MInv'
<1>1. /\ proc[p].pc = "replace" /\ mlock = p /\ mlock # Free
      /\ proc[p].cmd \in {"restore", "migration"} /\ Knows(proc[p], state, files, target)
      /\ Maintains(p)
  <2>1. proc[p].pc = "replace"
    BY DEF Replace, At
  <2>2. proc[p].pc \in Section
    BY <2>1 DEF Section
  <2>3. QED
    BY <2>1, <2>2, TypedRows, InSection DEF MInv
<1>2. /\ Published(p, Unused) /\ wal = NoFile
      /\ UNCHANGED <<state, block, clock, wal, mlock, app, acked, kept, instances>>
  BY DEF Replace, time
<1>3. /\ VolumeTyped' /\ target' \in Inodes /\ target' # NoFile
      /\ \A a \in Apps : app[a].ino # target'
      /\ \A a \in Apps : app[a].ino \in Inodes => disk'[app[a].ino] = disk[app[a].ino]
  BY <1>2, PublishedVolume
<1>4. /\ target # NoFile /\ target \in Inodes
      /\ disk[target].owner = "maintenance" /\ disk[target].writes \subseteq kept
      /\ \A a \in Apps : app[a].pc \notin {"leased", "up"} /\ ~app[a].writing
  BY <1>1 DEF Maintains, DInv, VolumeTyped
<1>5. /\ DInv' /\ proc'[p].pc = "munlock" /\ \A q \in Procs : q # p => Maintains(q)'
  <2>1. CASE proc[p].cmd = "restore"
    <3>1. Goes(p, "munlock") /\ files' = Outdated
      BY <2>1 DEF Replace, Does
    <3>2. PICK r \in Processes : Becomes(p, r) /\ SameBut(r, proc[p], "munlock")
      BY <3>1, TypedRows, GoesOn DEF Stages, RestoreStages
    <3>3. r.pc \in Section /\ proc[p].pc \in Section
          /\ Staged(r) /\ r.cmd = proc[p].cmd /\ r.cur = proc[p].cur
      BY <1>1, <2>1, <3>2 DEF SameBut, Section, Staged, RestoreStages
    <3>4. DInv'
      BY <1>2, <1>3, <2>1, <3>1, <3>2, <3>3, RestoreReplaces
    <3>5. proc'[p] = r /\ \A q \in Procs : q # p => Maintains(q)'
      BY <1>1, <1>2, <3>2, OthersAreOutside
    <3>6. QED
      BY <3>2, <3>4, <3>5 DEF SameBut
  <2>2. CASE proc[p].cmd = "migration"
    <3>1. RollBack(p)
      BY <2>2 DEF Replace, Does
    <3>2. DInv'
      BY <1>2, <1>3, <2>2, <3>1, RollBackKeepsD
    <3>3. ASSUME NEW q \in Procs, q # p PROVE Maintains(q)'
      <4>1. proc'[q].pc = proc[q].pc /\ proc'[q].claimed = proc[q].claimed
        BY <3>1, <3>3, RolledBackRows
      <4>2. Maintains(q) /\ mlock' # q
        BY <1>1, <1>2, <3>3 DEF MInv
      <4>3. mlock # q /\ proc[q].pc \notin Section
        BY <1>2, <4>2 DEF Maintains
      <4>4. QED
        BY <4>1, <4>2, <4>3 DEF Maintains, Section
    <3>4. QED
      BY <3>1, <3>2, <3>3, RolledBackRows
  <2>3. QED
    BY <1>1, <2>1, <2>2
<1>6. Maintains(p)'
  BY <1>1, <1>2, <1>3, <1>5 DEF Maintains, Section
<1>7. ASSUME NEW a \in Apps PROVE AppHeld(a)'
  BY <1>2, <1>3, <1>4 DEF MInv, AppHeld
<1>8. NothingLost'
  BY <1>2, <1>4 DEF MInv, NothingLost
<1>9. WalHeld'
  BY <1>2, <1>3 DEF WalHeld
<1>10. QED
  BY <1>5, <1>6, <1>7, <1>8, <1>9 DEF MInv

LEMMA MoveDatabaseKeeps ==
    ASSUME DInv, MInv, NEW p \in Procs, MoveDatabase(p)
    PROVE  DInv' /\ MInv'
<1>1. /\ proc[p].pc = "move" /\ mlock = p /\ mlock # Free
      /\ proc[p].cmd = "restore" /\ Maintains(p)
  <2>1. proc[p].pc = "move"
    BY DEF MoveDatabase, At
  <2>2. proc[p].pc \in Section
    BY <2>1 DEF Section
  <2>3. proc[p].cmd # "migration"
    BY <2>1, TypedRows DEF Staged, MigrationStages
  <2>4. QED
    BY <2>1, <2>2, <2>3, InSection DEF MInv
<1>2. /\ Goes(p, "move wal") /\ kept' = kept \cup disk[target].writes
      /\ target' = NoFile /\ disk' = Freed(disk, target)
      /\ UNCHANGED <<state, files, block, clock, wal, mlock, app, acked, instances>>
  BY DEF MoveDatabase, time, directory
<1>3. PICK r \in Processes : Becomes(p, r) /\ SameBut(r, proc[p], "move wal")
  BY <1>2, TypedRows, GoesOn DEF Stages, RestoreStages
<1>4. AllDown /\ target \in Inodes
  BY <1>1 DEF Maintains, DInv, VolumeTyped
<1>5. VolumeTyped'
  <2>1. disk' \in [Inodes -> Contents]
    BY <1>2, FreedKeeps DEF DInv
  <2>2. disk[target].writes \subseteq Writes
    <3>1. disk[target] \in Contents
      BY <1>4 DEF DInv, VolumeTyped
    <3>2. QED
      BY <3>1 DEF Contents
  <2>3. QED
    BY <1>2, <2>1, <2>2 DEF DInv, VolumeTyped
<1>6. DInv'
  <2>1. r.pc \in Section /\ proc[p].pc \in Section /\ Staged(r)
    BY <1>1, <1>3 DEF SameBut, Section, Staged, RestoreStages
  <2>2. QED
    BY <1>1, <1>2, <1>3, <1>5, <2>1, RestoreReplaces DEF SameBut
<1>7. proc'[p] = r /\ \A q \in Procs : q # p => Maintains(q)'
  BY <1>1, <1>2, <1>3, OthersAreOutside
<1>8. AllDown'
  BY <1>2, <1>4 DEF AllDown
<1>9. Maintains(p)'
  BY <1>1, <1>2, <1>3, <1>7, <1>8 DEF Maintains, Section, SameBut
<1>10. ASSUME NEW a \in Apps PROVE AppHeld(a)'
  BY <1>2, <1>4 DEF MInv, AppHeld, AllDown
<1>11. NothingLost'
  BY <1>2 DEF MInv, NothingLost
<1>12. WalHeld'
  BY <1>1, <1>2, <1>8 DEF WalHeld
<1>13. QED
  BY <1>6, <1>7, <1>9, <1>10, <1>11, <1>12 DEF MInv

LEMMA MoveWalKeeps ==
    ASSUME DInv, MInv, NEW p \in Procs, MoveWal(p)
    PROVE  DInv' /\ MInv'
<1>1. /\ proc[p].pc = "move wal" /\ mlock = p /\ mlock # Free
      /\ proc[p].cmd = "restore" /\ Knows(proc[p], state, files, target) /\ Maintains(p)
  <2>1. proc[p].pc = "move wal"
    BY DEF MoveWal, At
  <2>2. proc[p].pc \in Section
    BY <2>1 DEF Section
  <2>3. proc[p].cmd # "migration"
    BY <2>1, TypedRows DEF Staged, MigrationStages
  <2>4. QED
    BY <2>1, <2>2, <2>3, InSection, TypedRows DEF MInv
<1>2. /\ Goes(p, "link target") /\ wal' = NoFile
      /\ UNCHANGED <<state, files, block, clock, target, disk, mlock, app, acked, kept, instances>>
  BY DEF MoveWal, time, directory
<1>3. PICK r \in Processes : Becomes(p, r) /\ SameBut(r, proc[p], "link target")
  BY <1>2, TypedRows, GoesOn DEF Stages, RestoreStages
<1>4. Staged(r) /\ Knows(r, state, files, target) /\ r.cmd = proc[p].cmd
  BY <1>1, <1>3 DEF SameBut, Staged, Knows, Informed, RestoreStages
<1>5. VolumeTyped'
  BY <1>2 DEF DInv, VolumeTyped
<1>6. DInv'
  BY <1>2, <1>3, <1>4, <1>5, CommandSteps
<1>7. proc'[p] = r /\ \A q \in Procs : q # p => Maintains(q)'
  BY <1>1, <1>2, <1>3, OthersAreOutside
<1>8. Maintains(p)'
  BY <1>1, <1>2, <1>3, <1>7 DEF Maintains, Section, SameBut
<1>9. (\A a \in Apps : AppHeld(a)') /\ NothingLost'
  BY <1>2, DatabaseSame
<1>10. WalHeld'
  BY <1>2 DEF WalHeld
<1>11. QED
  BY <1>6, <1>7, <1>8, <1>9, <1>10 DEF MInv

LEMMA LinkTargetKeeps ==
    ASSUME DInv, MInv, NEW p \in Procs, LinkTarget(p)
    PROVE  DInv' /\ MInv'
<1>1. /\ proc[p].pc = "link target" /\ mlock = p /\ mlock # Free
      /\ proc[p].cmd = "restore" /\ Maintains(p)
  <2>1. proc[p].pc = "link target"
    BY DEF LinkTarget, At
  <2>2. proc[p].pc \in Section
    BY <2>1 DEF Section
  <2>3. proc[p].cmd # "migration"
    BY <2>1, TypedRows DEF Staged, MigrationStages
  <2>4. QED
    BY <2>1, <2>2, <2>3, InSection DEF MInv
<1>2. /\ Goes(p, "unstage") /\ Published(p, Unused) /\ wal = NoFile /\ target = NoFile
      /\ files' = Outdated
      /\ UNCHANGED <<state, block, clock, wal, mlock, app, acked, kept, instances>>
  BY DEF LinkTarget, time
<1>3. PICK r \in Processes : Becomes(p, r) /\ SameBut(r, proc[p], "unstage")
  BY <1>2, TypedRows, GoesOn DEF Stages, RestoreStages
<1>4. /\ VolumeTyped' /\ target' \in Inodes /\ target' # NoFile
      /\ \A a \in Apps : app[a].ino # target'
      /\ \A a \in Apps : app[a].ino \in Inodes => disk'[app[a].ino] = disk[app[a].ino]
  BY <1>2, PublishedVolume
<1>5. DInv'
  <2>1. r.pc \in Section /\ proc[p].pc \in Section /\ Staged(r)
    BY <1>1, <1>3 DEF SameBut, Section, Staged, RestoreStages
  <2>2. QED
    BY <1>1, <1>2, <1>3, <1>4, <2>1, RestoreReplaces DEF SameBut
<1>6. proc'[p] = r /\ \A q \in Procs : q # p => Maintains(q)'
  BY <1>1, <1>2, <1>3, OthersAreOutside
<1>7. Maintains(p)'
  BY <1>1, <1>2, <1>3, <1>4, <1>6 DEF Maintains, Section, SameBut
<1>8. ASSUME NEW a \in Apps PROVE AppHeld(a)'
  <2>1. app[a].pc \notin {"leased", "up"}
    BY <1>2, NoFileIsNoInode DEF MInv, AppHeld
  <2>2. QED
    BY <1>2, <1>4, <2>1, NoFileIsNoInode DEF MInv, AppHeld
<1>9. NothingLost'
  BY <1>2 DEF MInv, NothingLost
<1>10. WalHeld'
  BY <1>2, <1>4 DEF WalHeld
<1>11. QED
  BY <1>5, <1>6, <1>7, <1>8, <1>9, <1>10 DEF MInv

LEMMA UnstageKeeps ==
    ASSUME DInv, MInv, NEW p \in Procs, Unstage(p)
    PROVE  DInv' /\ MInv'
<1>1. /\ proc[p].pc = "unstage" /\ mlock = p /\ mlock # Free
      /\ proc[p].cmd = "restore" /\ Knows(proc[p], state, files, target) /\ Maintains(p)
  <2>1. proc[p].pc = "unstage"
    BY DEF Unstage, At
  <2>2. proc[p].pc \in Section
    BY <2>1 DEF Section
  <2>3. proc[p].cmd # "migration"
    BY <2>1, TypedRows DEF Staged, MigrationStages
  <2>4. QED
    BY <2>1, <2>2, <2>3, InSection, TypedRows DEF MInv
<1>2. /\ Goes(p, "munlock")
      /\ UNCHANGED <<state, files, block, clock, target, disk, wal, mlock, app, acked, kept, instances>>
  BY DEF Unstage, time, directory
<1>3. PICK r \in Processes : Becomes(p, r) /\ SameBut(r, proc[p], "munlock")
  BY <1>2, TypedRows, GoesOn DEF Stages, RestoreStages
<1>4. Staged(r) /\ Knows(r, state, files, target) /\ r.cmd = proc[p].cmd
  BY <1>1, <1>3 DEF SameBut, Staged, Knows, Informed, RestoreStages
<1>5. VolumeTyped'
  BY <1>2 DEF DInv, VolumeTyped
<1>6. DInv'
  BY <1>2, <1>3, <1>4, <1>5, CommandSteps
<1>7. proc'[p] = r /\ \A q \in Procs : q # p => Maintains(q)'
  BY <1>1, <1>2, <1>3, OthersAreOutside
<1>8. Maintains(p)'
  BY <1>1, <1>2, <1>3, <1>7 DEF Maintains, Section, SameBut
<1>9. (\A a \in Apps : AppHeld(a)') /\ NothingLost' /\ (AllDown' <=> AllDown)
  BY <1>2, DatabaseSame
<1>10. WalHeld'
  BY <1>2, <1>9 DEF MInv, WalHeld
<1>11. QED
  BY <1>6, <1>7, <1>8, <1>9, <1>10 DEF MInv

LEMMA ReleaseMaintenanceKeeps ==
    ASSUME DInv, MInv, NEW p \in Procs, ReleaseMaintenanceLock(p)
    PROVE  DInv' /\ MInv'
<1>1. /\ proc[p] \in Processes /\ proc[p].pc = "munlock" /\ mlock = p
      /\ proc[p].cmd \in {"restore", "migration"} /\ Knows(proc[p], state, files, target)
      /\ target # NoFile
  <2>1. proc[p].pc = "munlock"
    BY DEF ReleaseMaintenanceLock, At
  <2>2. proc[p].pc \in Section /\ target # NoFile
    BY <2>1 DEF Section, MInv, Maintains
  <2>3. QED
    BY <2>1, <2>2, TypedRows, InSection
<1>2. /\ mlock' = Free
      /\ UNCHANGED <<state, files, block, clock, target, disk, wal, app, acked, kept, instances>>
  BY DEF ReleaseMaintenanceLock, time, directory
<1>3. VolumeTyped'
  BY <1>2 DEF DInv, VolumeTyped
<1>4. \E r \in Processes : Becomes(p, r) /\ r.pc \notin Section /\ ~r.claimed /\ DInv'
  <2>1. CASE proc[p].cmd = "migration"
    <3>1. Becomes(p, Resting)
      BY <2>1 DEF ReleaseMaintenanceLock, Does, Becomes
    <3>2. block # p /\ clock \in Nat
      BY <2>1, TypedRows DEF BackupCommands, DInv, ProcessesTyped
    <3>3. Knows(Resting, state, files, target) /\ Resting.cmd \notin BackupCommands
      BY EmptyRecords DEF Knows, BackupCommands
    <3>4. DInv'
      BY <1>2, <1>3, <3>1, <3>2, <3>3, EmptyRecords, BystanderSteps
    <3>5. QED
      BY <3>1, <3>4, EmptyRecords DEF Section
  <2>2. CASE proc[p].cmd = "restore"
    <3>1. PICK r : r = [proc[p] EXCEPT !.pc = "punlock", !.ino = NoFile, !.claimed = FALSE,
                                       !.copy = NoCopy]
      OBVIOUS
    <3>2. /\ r \in Processes /\ r.pc = "punlock" /\ r.cmd = "restore" /\ r.cur = proc[p].cur
          /\ ~r.claimed
      <4>1. NoCopy \in Copies
        BY EmptyRecords
      <4> HIDE DEF NoCopy
      <4>2. QED
        BY <1>1, <2>2, <3>1, <4>1 DEF Processes, Stages, CycleStages
    <3>3. Becomes(p, r)
      BY <2>2, <3>1 DEF ReleaseMaintenanceLock, Does, Becomes
    <3>4. Staged(r) /\ Knows(r, state, files, target)
      BY <1>1, <2>2, <3>2 DEF Staged, Knows, Informed, RestoreStages
    <3>5. DInv'
      BY <1>2, <1>3, <2>2, <3>2, <3>3, <3>4, CommandSteps
    <3>6. QED
      BY <3>2, <3>3, <3>5 DEF Section
  <2>3. QED
    BY <1>1, <2>1, <2>2
<1>5. PICK r \in Processes : Becomes(p, r) /\ r.pc \notin Section /\ ~r.claimed /\ DInv'
  BY <1>4
<1>6. proc'[p] = r /\ \A q \in Procs : q # p => Maintains(q)'
  BY <1>1, <1>2, <1>5, OthersAreOutside
<1>7. Maintains(p)'
  BY <1>2, <1>5, <1>6, LocksAreNotProcs DEF Maintains, Section
<1>8. (\A a \in Apps : AppHeld(a)') /\ NothingLost'
  BY <1>2, DatabaseSame
<1>9. WalHeld'
  BY <1>1, <1>2 DEF MInv, WalHeld
<1>10. QED
  BY <1>5, <1>6, <1>7, <1>8, <1>9 DEF MInv

-----------------------------------------------------------------------------
(* A restore fails, a process dies.                                        *)

(* A restore that has failed, or a migration's that is over.               *)
LEMMA RestoreEnds ==
    ASSUME DInv, MInv, NEW p \in Procs, RestoreFails(p),
           VolumeTyped', target' = target
    PROVE  /\ DInv'
           /\ \E r \in Processes : Becomes(p, r) /\ r.pc \notin Section /\ ~r.claimed
<1>1. /\ proc[p].cmd \in {"restore", "migration"}
      /\ proc[p].pc \in {"plock", "mlock", "probe", "claim", "quiesce", "quarantine", "replace",
                         "move", "move wal", "link target", "unstage", "munlock"}
      /\ Knows(proc[p], state, files, target)
  BY TypedRows DEF RestoreFails, Does
<1>2. UNCHANGED <<state, files, block, clock>>
  BY DEF RestoreFails, time, directory
<1>3. CASE proc[p].cmd = "migration"
  <2>1. Becomes(p, Resting)
    BY <1>3 DEF RestoreFails, Does, Becomes
  <2>2. block # p /\ clock \in Nat
    BY <1>3, TypedRows DEF BackupCommands, DInv, ProcessesTyped
  <2>3. Knows(Resting, state, files, target) /\ Resting.cmd \notin BackupCommands
    BY EmptyRecords DEF Knows, BackupCommands
  <2>4. DInv'
    BY <1>2, <2>1, <2>2, <2>3, EmptyRecords, BystanderSteps
  <2>5. QED
    BY <2>1, <2>4, EmptyRecords DEF Section
<1>4. CASE proc[p].cmd = "restore"
  <2>1. PICK r : r = Failed(p)
    OBVIOUS
  <2>2. /\ r \in Processes /\ r.pc = "failed" /\ r.cmd = "restore" /\ r.cur = proc[p].cur
        /\ ~r.claimed
    BY <1>4, <2>1, FailedRow, TypedRows
  <2>3. Becomes(p, r)
    BY <1>4, <2>1 DEF RestoreFails, Does, Becomes
  <2>4. Staged(r) /\ Knows(r, state, files, target)
    BY <1>1, <1>4, <2>2 DEF Staged, Knows, Informed, RestoreStages
  <2>5. DInv'
    BY <1>2, <1>4, <2>2, <2>3, <2>4, CommandSteps
  <2>6. QED
    BY <2>2, <2>3, <2>5 DEF Section
<1>5. QED
  BY <1>1, <1>3, <1>4

LEMMA RestoreFailsKeeps ==
    ASSUME DInv, MInv, NEW p \in Procs, RestoreFails(p)
    PROVE  DInv' /\ MInv'
<1>1. UNCHANGED <<target, wal, app, acked, kept, instances, twoLinks>>
  BY DEF RestoreFails
<1>2. /\ proc[p].pc \in {"plock", "mlock", "probe", "claim", "quiesce", "quarantine", "replace",
                         "move", "move wal", "link target", "unstage", "munlock"}
      /\ Maintains(p)
  BY DEF RestoreFails, MInv
<1>3. CASE proc[p].pc \in {"plock", "mlock"}
  <2>1. mlock # p /\ ~proc[p].claimed
    BY <1>2, <1>3 DEF Maintains, Section
  <2>2. UNCHANGED volume
    BY <1>1, <1>3, <2>1 DEF RestoreFails, volume
  <2>3. VolumeTyped' /\ target' = target
    BY <2>2, VolumeStays DEF DInv, volume
  <2>4. DInv' /\ \E r \in Processes : Becomes(p, r) /\ r.pc \notin Section /\ ~r.claimed
    BY <2>3, RestoreEnds
  <2>5. DirectoryStep(p)
    BY <1>3, <2>2, <2>4 DEF DirectoryStep, Section
  <2>6. QED
    BY <2>4, <2>5, DirectoryKeepsM
<1>4. CASE proc[p].pc \in Section
  <2>1. mlock = p /\ mlock # Free
    BY <1>4, InSection
  <2>2. /\ mlock' \in {Free, Orphan}
        /\ target = NoFile /\ wal # NoFile => mlock' = Orphan
    BY <1>2, <1>4, <2>1 DEF RestoreFails, Maintains, Section
  <2>3. /\ VolumeTyped'
        /\ \A a \in Apps : AppHeld(a)'
        /\ NothingLost'
    <3>1. CASE UNCHANGED disk
      BY <1>1, <3>1, DatabaseSame DEF DInv, VolumeTyped
    <3>2. CASE /\ proc[p].claimed /\ proc[p].pc # "munlock"
               /\ disk' = [disk EXCEPT ![proc[p].ino].owner = "nobody"]
      <4>1. target = proc[p].ino /\ target \in Inodes
        BY <1>2, <3>2 DEF Maintains, DInv, VolumeTyped
      <4>2. QED
        BY <1>1, <3>2, <4>1, Owned
    <3>3. QED
      BY <3>1, <3>2 DEF RestoreFails
  <2>4. DInv' /\ \E r \in Processes : Becomes(p, r) /\ r.pc \notin Section /\ ~r.claimed
    BY <1>1, <2>3, RestoreEnds
  <2>5. PICK r \in Processes : Becomes(p, r) /\ r.pc \notin Section /\ ~r.claimed
    BY <2>4
  <2>6. proc'[p] = r /\ \A q \in Procs : q # p => Maintains(q)'
    BY <2>1, <2>2, <2>5, OthersAreOutside
  <2>7. Maintains(p)'
    BY <2>2, <2>5, <2>6, LocksAreNotProcs DEF Maintains, Section
  <2>8. WalHeld'
    <3>1. Orphan # Free
      BY DEF Orphan, Free
    <3>2. AllDown' <=> AllDown
      BY <1>1 DEF AllDown
    <3>3. QED
      BY <1>1, <2>1, <2>2, <3>1, <3>2 DEF MInv, WalHeld
  <2>9. QED
    BY <2>3, <2>4, <2>6, <2>7, <2>8 DEF MInv
<1>5. QED
  BY <1>2, <1>3, <1>4 DEF Section

LEMMA ProcDiesKeeps ==
    ASSUME DInv, MInv, NEW p \in Procs, ProcDies(p)
    PROVE  DInv' /\ MInv'
<1>1. /\ Becomes(p, Resting)
      /\ block' = IF block = p THEN Orphan ELSE block
      /\ mlock' \in Abandoned(mlock, p, "mlock")
      /\ UNCHANGED <<state, files, clock, target, disk, wal, app, acked, kept, instances>>
  BY DEF ProcDies, Becomes, directory
<1>2. /\ mlock' # p
      /\ \A q \in Procs : q # p => (mlock' = q <=> mlock = q)
      /\ mlock # Free => mlock' # Free
  BY <1>1, LocksAreNotProcs DEF Abandoned, Orphan, Unreadable, Free
<1>3. VolumeTyped'
  BY <1>1 DEF DInv, VolumeTyped
<1>4. DInv'
  <2>1. Knows(Resting, state, files, target) /\ Resting.cmd \notin BackupCommands
    BY EmptyRecords DEF Knows, BackupCommands
  <2>2. block' # p /\ \A q \in Procs \ {p} : block' = q <=> block = q
    BY <1>1, LocksAreNotProcs
  <2>3. clock' \in Nat
    BY <1>1 DEF DInv, ProcessesTyped
  <2>4. QED
    BY <1>1, <1>3, <2>1, <2>2, <2>3, EmptyRecords, BystanderSteps
<1>5. proc'[p] = Resting /\ \A q \in Procs : q # p => proc'[q] = proc[q]
  BY <1>1, OneMoves, EmptyRecords DEF DInv, ProcessesTyped
<1>6. (\A a \in Apps : AppHeld(a)') /\ NothingLost' /\ (AllDown' <=> AllDown)
  BY <1>1, DatabaseSame
<1>7. ASSUME NEW q \in Procs PROVE Maintains(q)'
  <2>1. CASE q = p
    <3>1. proc'[q].pc = "rest" /\ ~proc'[q].claimed
      BY <1>5, <2>1, EmptyRecords
    <3>2. QED
      BY <1>2, <2>1, <3>1 DEF Maintains, Section
  <2>2. CASE q # p
    BY <1>1, <1>2, <1>5, <1>6, <2>2 DEF Maintains, MInv
  <2>3. QED
    BY <2>1, <2>2
<1>8. WalHeld'
  BY <1>1, <1>2, <1>6 DEF MInv, WalHeld
<1>9. QED
  BY <1>4, <1>6, <1>7, <1>8 DEF MInv

-----------------------------------------------------------------------------
(* The operator's clear commands, and the clock.                           *)

LEMMA StoppedRows ==
    ASSUME DInv, MInv, AllStopped, NEW p \in Procs
    PROVE  /\ proc[p].pc = "rest" /\ proc[p].cmd \notin BackupCommands
           /\ block # p /\ mlock # p /\ ~proc[p].claimed
<1>1. proc[p].pc = "rest"
  BY DEF AllStopped, At
<1>2. proc[p].cmd = "none"
  BY <1>1, TypedRows DEF Staged, CycleStages, RetentionStages, RestoreStages, MigrationStages
<1>3. QED
  BY <1>1, <1>2, TypedRows DEF BackupCommands, MInv, Maintains, Section

LEMMA SameCommands ==
    ASSUME DInv, UNCHANGED <<state, files, target, proc>>, VolumeTyped', clock' \in Nat,
           \A p \in Procs : block' = p <=> block = p
    PROVE  DInv'
BY DEF DInv, DirectoryTyped, ProcessesTyped, HoldsBackup

LEMMA OperatorKeeps ==
    ASSUME DInv, MInv, OperatorStep
    PROVE  DInv' /\ MInv'
<1>1. AllStopped
  BY DEF OperatorStep, ClearBackupLock, ClearPublicationLock, FinalizeFreshRestore,
         ClearMaintenanceLock, ClearUnreadableMaintenanceLock
<1>2. UNCHANGED <<state, files, target, proc, clock, app, acked, kept, instances>>
  BY DEF OperatorStep, ClearBackupLock, ClearPublicationLock, FinalizeFreshRestore,
         ClearMaintenanceLock, ClearUnreadableMaintenanceLock, volume, directory, time
<1>3. \A p \in Procs : block' = p <=> block = p
  BY LocksAreNotProcs
  DEF OperatorStep, ClearBackupLock, ClearPublicationLock, FinalizeFreshRestore,
         ClearMaintenanceLock, ClearUnreadableMaintenanceLock
<1>4. clock' \in Nat
  BY <1>2 DEF DInv, ProcessesTyped
<1>5. /\ mlock' \in {mlock, Free} /\ wal' \in {wal, NoFile}
      /\ mlock' = mlock \/ target # NoFile \/ wal' = NoFile
  BY DEF OperatorStep, ClearBackupLock, ClearPublicationLock, FinalizeFreshRestore,
         ClearMaintenanceLock, ClearUnreadableMaintenanceLock, volume, SidecarsGone
<1>6. /\ VolumeTyped'
      /\ \A a \in Apps : AppHeld(a)'
      /\ NothingLost'
  <2>1. CASE UNCHANGED disk
    BY <1>2, <1>5, <2>1, DatabaseSame DEF DInv, VolumeTyped
  <2>2. CASE target # NoFile /\ disk' = [disk EXCEPT ![target].owner = "nobody"]
    <3>1. target \in Inodes
      BY <2>2 DEF DInv, VolumeTyped
    <3>2. QED
      BY <1>2, <1>5, <2>2, <3>1, Owned
  <2>3. QED
    BY <2>1, <2>2
    DEF OperatorStep, ClearBackupLock, ClearPublicationLock, FinalizeFreshRestore,
         ClearMaintenanceLock, ClearUnreadableMaintenanceLock, volume
<1>7. ASSUME NEW p \in Procs PROVE Maintains(p)'
  BY <1>1, <1>2, <1>5, StoppedRows, LocksAreNotProcs DEF Maintains, Section
<1>8. WalHeld'
  <2>1. AllDown' <=> AllDown
    BY <1>2 DEF AllDown
  <2>2. QED
    BY <1>2, <1>5, <2>1 DEF MInv, WalHeld
<1>9. DInv'
  BY <1>2, <1>3, <1>4, <1>6, SameCommands
<1>10. QED
  BY <1>6, <1>7, <1>8, <1>9 DEF MInv

LEMMA ClockKeeps ==
    ASSUME DInv, MInv, ClockMoves
    PROVE  DInv' /\ MInv'
<1>1. UNCHANGED <<block, state, files, volume, proc>> /\ clock' \in Nat
  BY BackupAssumption DEF ClockMoves, directory
<1>2. VolumeTyped' /\ target' = target
  BY <1>1, VolumeStays DEF DInv, volume
<1>3. DInv'
  BY <1>1, <1>2, SameCommands
<1>4. MInv'
  BY <1>1 DEF MInv, AppHeld, WalHeld, Maintains, NothingLost, AllDown, volume
<1>5. QED
  BY <1>3, <1>4

-----------------------------------------------------------------------------
(* The applications.                                                       *)

LEMMA ApplicationKeepsD ==
    ASSUME DInv, UNCHANGED <<state, block, clock, proc>>, VolumeTyped',
           target # NoFile => target' = target,
           files' = IF target = NoFile /\ target' # NoFile THEN Outdated ELSE files
    PROVE  DInv'
<1>1. DirectoryTyped' /\ DOMAIN files' = DOMAIN files
  BY OutdatedFiles DEF DInv, DirectoryTyped
<1>2. OnRecord(state', files', target')
  BY <1>1 DEF DInv, OnRecord
<1>3. ASSUME NEW p \in Procs PROVE Knows(proc[p], state', files', target')
  BY DEF DInv, Knows
<1>4. ProcessesTyped'
  BY DEF DInv, ProcessesTyped, HoldsBackup
<1>5. QED
  BY <1>1, <1>2, <1>3, <1>4 DEF DInv

(* The step of one application: what it may not do is to take the lease    *)
(* from maintenance, to begin anything under the maintenance lock, or to   *)
(* change a database it does not hold.                                     *)
LEMMA OneApplication ==
    ASSUME DInv, MInv, NEW a \in Apps, NEW r \in Applications, app' = [app EXCEPT ![a] = r],
           UNCHANGED <<mlock, kept, proc>>,
           \/ target' = target
           \/ target = NoFile /\ target' \in Inodes /\ \A b \in Apps : app[b].ino # target',
           app[a].pc # "down" \/ mlock = Free,
           r.writing => app[a].writing \/ mlock = Free,
           r.pc \in {"leased", "up"} =>
              app[a].pc \in {"leased", "up"} \/ disk[target].owner # "maintenance",
           \A i \in Inodes : disk[i].owner = "maintenance" /\ i # target' =>
              disk'[i].owner = "maintenance",
           target # NoFile =>
              /\ disk[target].owner = "maintenance" => disk'[target].owner = "maintenance"
              /\ disk'[target].writes = disk[target].writes \/ app[a].writing
              /\ disk[target].writes \subseteq disk'[target].writes,
           acked' \subseteq acked \cup (IF target = NoFile THEN {} ELSE disk'[target].writes),
           AppHeld(a)',
           wal' \in {wal, NoFile} \/ (target # NoFile /\ wal' = target)
    PROVE  MInv'
<1>1. app'[a] = r /\ \A b \in Apps : b # a => app'[b] = app[b]
  BY DEF DInv, VolumeTyped
<1>2. ASSUME NEW b \in Apps PROVE AppHeld(b)'
  <2>1. CASE b = a
    BY <2>1
  <2>2. CASE b # a
    <3>1. app'[b] = app[b] /\ AppHeld(b)
      BY <1>1, <2>2 DEF MInv
    <3>2. app[b].pc \in {"leased", "up"} => app[b].ino = target'
      BY <3>1, NoFileIsNoInode DEF AppHeld
    <3>3. app[b].pc \in {"connected", "idle"} /\ app[b].ino # target' =>
             disk'[app[b].ino].owner = "maintenance"
      BY <3>1, NoFileIsNoInode DEF AppHeld
    <3>4. QED
      BY <3>1, <3>2, <3>3 DEF AppHeld
  <2>3. QED
    BY <2>1, <2>2
<1>3. AllDown => mlock = Free
  BY DEF AllDown
<1>4. ASSUME NEW p \in Procs PROVE Maintains(p)'
  <2>1. Maintains(p)
    BY DEF MInv
  <2>2. CASE mlock = Free
    <3>1. proc[p].pc \notin Section
      BY <2>1, <2>2, LocksAreNotProcs DEF Maintains
    <3>2. QED
      BY <2>1, <3>1 DEF Maintains, Section
  <2>3. CASE mlock # Free
    <3>1. proc[p].pc \in {"claim", "quiesce", "quarantine", "replace", "move"} =>
             target' = proc[p].ino /\ target' # NoFile /\ target' = target
      BY <2>1 DEF Maintains
    <3>2. proc[p].pc \in {"quiesce", "quarantine", "replace"} =>
             /\ disk'[target'].owner = "maintenance"
             /\ \A b \in Apps : ~app'[b].writing
      BY <1>1, <2>1, <2>3, <3>1 DEF Maintains
    <3>3. proc[p].pc \in {"quarantine", "replace"} =>
             \A b \in Apps : app'[b].pc \notin {"leased", "up"}
      BY <1>1, <2>1, <2>3, <3>1 DEF Maintains
    <3>4. proc[p].pc = "replace" => disk'[target'].writes \subseteq kept'
      BY <2>1, <3>1 DEF Maintains
    <3>5. proc[p].pc \notin {"move", "move wal"}
      BY <1>3, <2>1, <2>3 DEF Maintains
    <3>6. proc[p].pc \in {"unstage", "munlock"} => target' # NoFile
      BY <2>1 DEF Maintains
    <3>7. QED
      BY <2>1, <3>1, <3>2, <3>3, <3>4, <3>5, <3>6 DEF Maintains
  <2>4. QED
    BY <2>2, <2>3
<1>5. WalHeld'
  BY <1>3, NoFileIsNoInode DEF MInv, WalHeld
<1>6. NothingLost'
  <2>1. CASE target = NoFile
    BY <2>1 DEF MInv, NothingLost
  <2>2. CASE target # NoFile
    BY <2>2 DEF MInv, NothingLost
  <2>3. QED
    BY <2>1, <2>2
<1>7. QED
  BY <1>2, <1>4, <1>5, <1>6 DEF MInv

LEMMA AppRow ==
    ASSUME DInv, MInv, NEW a \in Apps
    PROVE  /\ app[a] \in Applications /\ app \in [Apps -> Applications] /\ AppHeld(a)
           /\ disk \in [Inodes -> Contents] /\ target \in Inodes \cup {NoFile}
           /\ wal \in Inodes \cup {NoFile}
BY DEF DInv, VolumeTyped, MInv

LEMMA DownRow ==
    /\ Down \in Applications /\ Down.pc = "down" /\ Down.ino = NoFile /\ Down.writing = FALSE
BY DEF Down, Applications

(* The step of an application that leaves all databases alone.             *)
LEMMA OnlyTheApplication ==
    ASSUME DInv, MInv, NEW a \in Apps, NEW r \in Applications, app' = [app EXCEPT ![a] = r],
           UNCHANGED <<target, disk, wal, mlock, acked, kept, instances, proc>>,
           app[a].pc # "down" \/ mlock = Free,
           r.writing => app[a].writing \/ mlock = Free,
           r.pc \in {"leased", "up"} => app[a].pc \in {"leased", "up"},
           AppHeld(a)'
    PROVE  VolumeTyped' /\ MInv'
<1>1. VolumeTyped'
  BY DEF DInv, VolumeTyped
<1>2. MInv'
  BY OneApplication
<1>3. QED
  BY <1>1, <1>2

LEMMA StartsKeeps ==
    ASSUME DInv, MInv, NEW a \in Apps, Starts(a), UNCHANGED proc
    PROVE  VolumeTyped' /\ MInv' /\ (target # NoFile => target' = target)
<1>1. PICK r : r = [app[a] EXCEPT !.pc = "checked"]
  OBVIOUS
<1>2. /\ r \in Applications /\ r.pc = "checked" /\ r.ino = app[a].ino /\ r.writing = app[a].writing
  BY <1>1, AppRow DEF Applications
<1>3. app' = [app EXCEPT ![a] = r] /\ app'[a] = r
  BY <1>1, AppRow DEF Starts
<1>4. AppHeld(a)'
  BY <1>2, <1>3, AppRow DEF AppHeld, Starts
<1>5. QED
  BY <1>2, <1>3, <1>4, OnlyTheApplication DEF Starts

LEMMA ConnectsKeeps ==
    ASSUME DInv, MInv, NEW a \in Apps, Connects(a, Unused), UNCHANGED proc
    PROVE  VolumeTyped' /\ MInv' /\ (target # NoFile => target' = target)
<1>1. app[a].pc = "checked" /\ ~app[a].writing
  BY AppRow DEF Connects, AppHeld
<1>2. CASE target # NoFile
  <2>1. PICK r : r = [app[a] EXCEPT !.pc = "connected", !.ino = target]
    OBVIOUS
  <2>2. /\ r \in Applications /\ r.pc = "connected" /\ r.ino = target /\ ~r.writing
    BY <1>1, <2>1, AppRow DEF Applications
  <2>3. app' = [app EXCEPT ![a] = r] /\ app'[a] = r
    BY <1>2, <2>1, AppRow DEF Connects
  <2>4. AppHeld(a)'
    BY <1>2, <2>2, <2>3, AppRow DEF AppHeld, Connects
  <2>5. QED
    BY <1>1, <1>2, <2>2, <2>3, <2>4, OnlyTheApplication DEF Connects
<1>3. CASE target = NoFile
  <2>1. /\ Unused \in Inodes
        /\ \A b \in Apps : app[b].ino # Unused
    BY UnusedInode
  <2>2. PICK u : u = Unused
    OBVIOUS
  <2>3. PICK r : r = [app[a] EXCEPT !.pc = "connected", !.ino = u]
    OBVIOUS
  <2>4. /\ r \in Applications /\ r.pc = "connected" /\ r.ino = u /\ ~r.writing
    BY <1>1, <2>1, <2>2, <2>3, AppRow DEF Applications
  <2>5. app' = [app EXCEPT ![a] = r] /\ app'[a] = r /\ target' = u
    BY <1>3, <2>2, <2>3, AppRow DEF Connects
  <2>6. instances' \in Nat
    BY <1>3 DEF Connects, DInv, VolumeTyped
  <2>7. PICK c \in Contents : c = Created({}, instances')
    BY <2>6, CreatedTyped
  <2>8. disk' = [disk EXCEPT ![u] = c]
    BY <1>3, <2>2, <2>7 DEF Connects
  <2>9. disk' \in [Inodes -> Contents] /\ \A i \in Inodes : i # u => disk'[i] = disk[i]
    BY <2>1, <2>2, <2>7, <2>8, AppRow
  <2>10. UNCHANGED <<wal, mlock, acked, kept>>
    BY DEF Connects
  <2>11. VolumeTyped'
    BY <2>1, <2>2, <2>4, <2>5, <2>6, <2>9, <2>10 DEF DInv, VolumeTyped
  <2>12. AppHeld(a)'
    BY <2>1, <2>2, <2>4, <2>5 DEF AppHeld
  <2>13. MInv'
    BY <1>1, <1>3, <2>1, <2>2, <2>4, <2>5, <2>9, <2>10, <2>12, OneApplication
  <2>14. QED
    BY <1>3, <2>11, <2>13
<1>4. QED
  BY <1>2, <1>3

LEMMA GoesDown ==
    ASSUME DInv, MInv, NEW a \in Apps, app' = [app EXCEPT ![a] = Down]
    PROVE  /\ app'[a] = Down /\ AppHeld(a)'
<1>1. app'[a] = Down
  BY AppRow
<1>2. QED
  BY <1>1, DownRow DEF AppHeld

LEMMA ChecksAgainKeeps ==
    ASSUME DInv, MInv, NEW a \in Apps, ChecksAgain(a), UNCHANGED proc
    PROVE  VolumeTyped' /\ MInv' /\ (target # NoFile => target' = target)
<1>1. /\ app[a].pc = "connected" /\ ~app[a].writing
      /\ UNCHANGED <<target, disk, wal, mlock, acked, kept, instances>>
  BY AppRow DEF ChecksAgain, AppHeld
<1>2. CASE mlock = Free
  <2>1. PICK r : r = [app[a] EXCEPT !.pc = "idle"]
    OBVIOUS
  <2>2. /\ r \in Applications /\ r.pc = "idle" /\ r.ino = app[a].ino /\ ~r.writing
    BY <1>1, <2>1, AppRow DEF Applications
  <2>3. app' = [app EXCEPT ![a] = r] /\ app'[a] = r
    BY <1>2, <2>1, AppRow DEF ChecksAgain
  <2>4. AppHeld(a)'
    BY <1>1, <2>2, <2>3, AppRow DEF AppHeld
  <2>5. QED
    BY <1>1, <2>2, <2>3, <2>4, OnlyTheApplication
<1>3. CASE mlock # Free
  <2>1. app' = [app EXCEPT ![a] = Down]
    BY <1>3 DEF ChecksAgain
  <2>2. AppHeld(a)'
    BY <2>1, GoesDown
  <2>3. QED
    BY <1>1, <2>1, <2>2, DownRow, OnlyTheApplication
<1>4. QED
  BY <1>2, <1>3

LEMMA TakesLeaseKeeps ==
    ASSUME DInv, MInv, NEW a \in Apps, TakesLease(a), UNCHANGED proc
    PROVE  VolumeTyped' /\ MInv' /\ (target # NoFile => target' = target)
<1>1. PICK i : i = app[a].ino
  OBVIOUS
<1>2. /\ app[a].pc = "idle" /\ ~app[a].writing /\ i \in Inodes
      /\ UNCHANGED <<target, mlock, acked, kept, instances>>
  BY <1>1, AppRow DEF TakesLease, AppHeld
<1>3. CASE app' = [app EXCEPT ![a] = Down] /\ UNCHANGED <<disk, wal>>
  <2>1. AppHeld(a)'
    BY <1>3, GoesDown
  <2>2. QED
    BY <1>2, <1>3, <2>1, DownRow, OnlyTheApplication
<1>4. CASE /\ TRUE \in LeaseExpired(i)
           /\ app' = [app EXCEPT ![a].pc = "leased"]
           /\ disk' = [disk EXCEPT ![i].owner = a]
           /\ wal' = IF i = target THEN i ELSE wal
  <2>1. disk[i].owner # "maintenance"
    BY <1>4 DEF LeaseExpired
  <2>2. i = target /\ target # NoFile
    BY <1>1, <1>2, <2>1, AppRow, NoFileIsNoInode DEF AppHeld
  <2>3. PICK r : r = [app[a] EXCEPT !.pc = "leased"]
    OBVIOUS
  <2>4. /\ r \in Applications /\ r.pc = "leased" /\ r.ino = i /\ ~r.writing
    BY <1>1, <1>2, <2>3, AppRow DEF Applications
  <2>5. app' = [app EXCEPT ![a] = r] /\ app'[a] = r
    BY <1>4, <2>3, AppRow
  <2>6. PICK c : c = [disk[i] EXCEPT !.owner = a]
    OBVIOUS
  <2>7. c \in Contents /\ c.writes = disk[i].writes
    <3>1. disk[i] \in Contents
      BY <1>2, AppRow
    <3>2. QED
      BY <2>6, <3>1 DEF Contents
  <2>8. disk' = [disk EXCEPT ![i] = c]
    BY <1>4, <2>6
  <2>9. /\ disk' \in [Inodes -> Contents] /\ disk'[i] = c
        /\ \A j \in Inodes : j # i => disk'[j] = disk[j]
    BY <1>2, <2>7, <2>8, AppRow
  <2>10. VolumeTyped'
    BY <1>2, <1>4, <2>2, <2>4, <2>5, <2>9 DEF DInv, VolumeTyped
  <2>11. AppHeld(a)'
    BY <1>2, <2>2, <2>4, <2>5 DEF AppHeld
  <2>12. MInv'
    BY <1>2, <1>4, <2>1, <2>2, <2>4, <2>5, <2>7, <2>9, <2>11, OneApplication
  <2>13. QED
    BY <1>2, <2>10, <2>12
<1>5. QED
  BY <1>1, <1>3, <1>4 DEF TakesLease

(* The leases of an application change hands.                              *)
LEMMA LeasesGo ==
    ASSUME DInv, MInv, NEW a \in Apps, NEW o \in {"nobody", "gone"},
           disk' = [i \in Inodes |-> IF disk[i].owner = a
                                     THEN [disk[i] EXCEPT !.owner = o] ELSE disk[i]]
    PROVE  /\ disk' \in [Inodes -> Contents]
           /\ \A i \in Inodes : /\ disk'[i].writes = disk[i].writes
                                /\ disk[i].owner = "maintenance" => disk'[i].owner = "maintenance"
<1>1. ASSUME NEW i \in Inodes
      PROVE  /\ [disk[i] EXCEPT !.owner = o] \in Contents
             /\ [disk[i] EXCEPT !.owner = o].writes = disk[i].writes
  <2>1. disk[i] \in Contents
    BY AppRow
  <2>2. QED
    BY <2>1 DEF Contents
<1>2. a # "maintenance"
  BY VolumeAssumption
<1>3. QED
  BY <1>1, <1>2, AppRow

LEMMA ClosingKeeps ==
    ASSUME DInv, MInv, NEW a \in Apps, app[a].pc # "down", NEW o \in {"nobody", "gone"},
           app' = [app EXCEPT ![a] = Down],
           disk' = [i \in Inodes |-> IF disk[i].owner = a
                                     THEN [disk[i] EXCEPT !.owner = o] ELSE disk[i]],
           wal' \in {wal, NoFile},
           UNCHANGED <<target, mlock, acked, kept, instances, proc>>
    PROVE  VolumeTyped' /\ MInv' /\ (target # NoFile => target' = target)
<1>1. /\ disk' \in [Inodes -> Contents]
      /\ \A i \in Inodes : /\ disk'[i].writes = disk[i].writes
                           /\ disk[i].owner = "maintenance" => disk'[i].owner = "maintenance"
  BY LeasesGo
<1>2. AppHeld(a)' /\ Down \in Applications /\ Down.pc = "down" /\ ~Down.writing
  BY GoesDown, DownRow
<1>3. VolumeTyped'
  BY <1>1, <1>2 DEF DInv, VolumeTyped
<1>4. target # NoFile => target \in Inodes
  BY AppRow
<1>5. MInv'
  BY <1>1, <1>2, <1>4, OneApplication
<1>6. QED
  BY <1>3, <1>5

LEMMA OpensKeeps ==
    ASSUME DInv, MInv, NEW a \in Apps, Opens(a), UNCHANGED proc
    PROVE  VolumeTyped' /\ MInv' /\ (target # NoFile => target' = target)
<1>1. /\ app[a].pc = "leased" /\ ~app[a].writing
      /\ UNCHANGED <<target, mlock, acked, kept, instances>>
  BY AppRow DEF Opens, AppHeld
<1>2. CASE app' = [app EXCEPT ![a].pc = "up"] /\ UNCHANGED <<disk, wal>>
  <2>1. PICK r : r = [app[a] EXCEPT !.pc = "up"]
    OBVIOUS
  <2>2. /\ r \in Applications /\ r.pc = "up" /\ r.ino = app[a].ino /\ ~r.writing
    BY <1>1, <2>1, AppRow DEF Applications
  <2>3. app' = [app EXCEPT ![a] = r] /\ app'[a] = r
    BY <1>2, <2>1, AppRow
  <2>4. AppHeld(a)'
    BY <1>1, <2>2, <2>3, AppRow DEF AppHeld
  <2>5. QED
    BY <1>1, <1>2, <2>2, <2>3, <2>4, OnlyTheApplication
<1>3. CASE app' = [app EXCEPT ![a] = Down] /\ disk' = LeaseReleased(a) /\ wal' = WalWithout(a)
  BY <1>1, <1>3, ClosingKeeps DEF LeaseReleased, WalWithout
<1>4. QED
  BY <1>2, <1>3 DEF Opens

LEMMA BeginsKeeps ==
    ASSUME DInv, MInv, NEW a \in Apps, Begins(a), UNCHANGED proc
    PROVE  VolumeTyped' /\ MInv' /\ (target # NoFile => target' = target)
<1>1. /\ app[a].pc = "up" /\ mlock = Free
      /\ UNCHANGED <<target, disk, wal, mlock, acked, kept, instances>>
  BY DEF Begins
<1>2. PICK r : /\ app' = [app EXCEPT ![a] = r]
               /\ r \in {[app[a] EXCEPT !.writing = TRUE], [app[a] EXCEPT !.lost = TRUE]}
  BY DEF Begins
<1>3. /\ r \in Applications /\ r.pc = "up" /\ r.ino = app[a].ino
  BY <1>1, <1>2, AppRow DEF Applications
<1>4. app'[a] = r
  BY <1>2, AppRow
<1>5. AppHeld(a)'
  BY <1>1, <1>3, <1>4, AppRow DEF AppHeld
<1>6. QED
  BY <1>1, <1>2, <1>3, <1>5, OnlyTheApplication

LEMMA RenewsKeeps ==
    ASSUME DInv, MInv, NEW a \in Apps, Renews(a), UNCHANGED proc
    PROVE  VolumeTyped' /\ MInv' /\ (target # NoFile => target' = target)
<1>1. /\ app[a].pc = "up"
      /\ UNCHANGED <<target, disk, wal, mlock, acked, kept, instances>>
  BY DEF Renews
<1>2. PICK r : r = [app[a] EXCEPT !.lost = TRUE]
  OBVIOUS
<1>3. /\ r \in Applications /\ r.pc = "up" /\ r.ino = app[a].ino /\ r.writing = app[a].writing
  BY <1>1, <1>2, AppRow DEF Applications
<1>4. app' = [app EXCEPT ![a] = r] /\ app'[a] = r
  BY <1>2, AppRow DEF Renews
<1>5. AppHeld(a)'
  BY <1>1, <1>3, <1>4, AppRow DEF AppHeld
<1>6. QED
  BY <1>1, <1>3, <1>4, <1>5, OnlyTheApplication

LEMMA CommitsKeeps ==
    ASSUME DInv, MInv, NEW a \in Apps, Commits(a), UNCHANGED proc
    PROVE  VolumeTyped' /\ MInv' /\ (target # NoFile => target' = target)
<1>1. PICK i : i = app[a].ino
  OBVIOUS
<1>2. /\ app[a].pc = "up" /\ app[a].writing /\ i = target /\ i \in Inodes /\ target # NoFile
      /\ UNCHANGED <<target, wal, mlock, kept, instances>>
  BY <1>1, AppRow, NoFileIsNoInode DEF Commits, AppHeld
<1>3. PICK w \in Writes : /\ acked' = acked \cup {w}
                          /\ disk' = [disk EXCEPT ![i].writes = disk[i].writes \cup {w}]
  BY <1>1 DEF Commits
<1>4. PICK c : c = [disk[i] EXCEPT !.writes = disk[i].writes \cup {w}]
  OBVIOUS
<1>5. c \in Contents /\ c.writes = disk[i].writes \cup {w} /\ c.owner = disk[i].owner
  <2>1. disk[i] \in Contents
    BY <1>2, AppRow
  <2>2. QED
    BY <1>4, <2>1 DEF Contents
<1>6. disk' = [disk EXCEPT ![i] = c]
  BY <1>3, <1>4
<1>7. /\ disk' \in [Inodes -> Contents] /\ disk'[i] = c
      /\ \A j \in Inodes : j # i => disk'[j] = disk[j]
  BY <1>2, <1>5, <1>6, AppRow
<1>8. PICK r : r = [app[a] EXCEPT !.writing = FALSE]
  OBVIOUS
<1>9. /\ r \in Applications /\ r.pc = "up" /\ r.ino = i /\ ~r.writing
  BY <1>1, <1>2, <1>8, AppRow DEF Applications
<1>10. app' = [app EXCEPT ![a] = r] /\ app'[a] = r
  BY <1>8, AppRow DEF Commits
<1>11. VolumeTyped'
  BY <1>2, <1>3, <1>7, <1>9, <1>10 DEF DInv, VolumeTyped
<1>12. AppHeld(a)'
  BY <1>2, <1>9, <1>10 DEF AppHeld
<1>13. /\ disk'[target].owner = disk[target].owner
       /\ disk[target].writes \subseteq disk'[target].writes
       /\ acked' \subseteq acked \cup disk'[target].writes
  BY <1>2, <1>3, <1>5, <1>7
<1>14. MInv'
  BY <1>2, <1>7, <1>9, <1>10, <1>12, <1>13, OneApplication
<1>15. QED
  BY <1>2, <1>11, <1>14

LEMMA DamageKeeps ==
    ASSUME DInv, MInv, Damage, UNCHANGED proc
    PROVE  VolumeTyped' /\ MInv' /\ (target # NoFile => target' = target)
<1>1. /\ target \in Inodes /\ disk \in [Inodes -> Contents]
      /\ UNCHANGED <<target, wal, mlock, app, acked, kept, instances>>
  BY DEF Damage, DInv, VolumeTyped
<1>2. PICK c : c = [disk[target] EXCEPT !.sound = FALSE]
  OBVIOUS
<1>3. c \in Contents /\ c.owner = disk[target].owner /\ c.writes = disk[target].writes
  BY <1>1, <1>2 DEF Contents
<1>4. disk' = [disk EXCEPT ![target] = c]
  BY <1>2 DEF Damage
<1>5. /\ disk' \in [Inodes -> Contents] /\ disk'[target] = c
      /\ \A i \in Inodes : i # target => disk'[i] = disk[i]
  BY <1>1, <1>3, <1>4
<1>6. VolumeTyped'
  BY <1>1, <1>5 DEF DInv, VolumeTyped
<1>7. MInv'
  BY <1>1, <1>3, <1>5 DEF MInv, AppHeld, WalHeld, Maintains, NothingLost, AllDown
<1>8. QED
  BY <1>1, <1>6, <1>7

LEMMA ApplicationKeeps ==
    ASSUME DInv, MInv, Application
    PROVE  DInv' /\ MInv'
<1>1. UNCHANGED <<state, block, clock, proc>>
  BY DEF Application, time
<1>2. VolumeTyped' /\ MInv' /\ (target # NoFile => target' = target)
  <2>1. CASE Damage
    BY <1>1, <2>1, DamageKeeps
  <2>2. ASSUME NEW a \in Apps, AppStep(a, Unused)
        PROVE  VolumeTyped' /\ MInv' /\ (target # NoFile => target' = target)
    <3>1. CASE Closes(a)
      <4>1. app[a].pc # "down"
        BY <3>1 DEF Closes
      <4>2. QED
        BY <1>1, <3>1, <4>1, ClosingKeeps DEF Closes, LeaseReleased, WalWithout
    <3>2. CASE Dies(a)
      BY <1>1, <3>2, ClosingKeeps DEF Dies
    <3>3. QED
      BY <1>1, <2>2, <3>1, <3>2, StartsKeeps, ConnectsKeeps, ChecksAgainKeeps, TakesLeaseKeeps,
         OpensKeeps, BeginsKeeps, CommitsKeeps, RenewsKeeps DEF AppStep
  <2>3. QED
    BY <2>1, <2>2 DEF Application
<1>3. files' = IF target = NoFile /\ target' # NoFile THEN Outdated ELSE files
  BY DEF Application
<1>4. QED
  BY <1>1, <1>2, <1>3, ApplicationKeepsD

-----------------------------------------------------------------------------
(* The invariant of the specification.                                     *)

LEMMA InitD == Init => DInv /\ MInv
<1> SUFFICES ASSUME Init PROVE DInv /\ MInv
  OBVIOUS
<1>1. PICK i \in Inodes : target = i
  BY VolumeAssumption DEF Init, VolumeInit
<1>2. /\ disk = [j \in Inodes |-> Created({}, 1)] /\ wal = NoFile /\ mlock = Free
      /\ app = [a \in Apps |-> Down] /\ acked = {} /\ kept = {} /\ instances = 1
      /\ proc = [p \in Procs |-> Resting] /\ block = Free /\ clock = MaxClock
  BY DEF Init, VolumeInit
<1>3. VolumeTyped
  <2>1. Created({}, 1) \in Contents
    BY CreatedTyped
  <2>2. disk \in [Inodes -> Contents] /\ app \in [Apps -> Applications]
    BY <1>2, <2>1, DownRow
  <2>3. QED
    BY <1>1, <1>2, <2>2 DEF VolumeTyped
<1>4. target # NoFile
  BY <1>1, NoFileIsNoInode
<1>5. DirectoryTyped /\ OnRecord(state, files, target)
  <2>1. CASE state = NoState /\ files = [n \in {} |-> NoCopy]
    <3>1. NoState.name = NoName
      BY DEF NoState
    <3>2. QED
      BY <2>1, <3>1, EmptyRecords DEF DirectoryTyped, OnRecord
  <2>2. CASE /\ state = [name |-> <<1, 1>>, required |-> FALSE, instance |-> 1,
                         attempt |-> 1, success |-> 1, errorAt |-> 0]
             /\ files = [n \in {<<1, 1>>} |-> [writes |-> {}, instance |-> 1, of |-> "live"]]
    <3>1. state \in States
      BY <2>2, NoNameIsNoName DEF States
    <3>2. [writes |-> {}, instance |-> 1, of |-> "live"] \in Copies
      BY DEF Copies
    <3>3. /\ DOMAIN files = {<<1, 1>>}
          /\ files[<<1, 1>>] = [writes |-> {}, instance |-> 1, of |-> "live"]
      BY <2>2
    <3>4. DirectoryTyped
      BY <2>2, <3>1, <3>2, <3>3, NoNameIsNoName DEF DirectoryTyped
    <3>5. OnRecord(state, files, target)
      BY <1>4, <2>2, <3>3 DEF OnRecord
    <3>6. QED
      BY <3>4, <3>5
  <2>3. QED
    BY <2>1, <2>2 DEF Init
<1>6. ASSUME NEW p \in Procs
      PROVE  /\ proc[p] = Resting /\ Staged(proc[p]) /\ HoldsBackup(p)
             /\ Knows(proc[p], state, files, target)
             /\ Maintains(p)
  <2>1. proc[p] = Resting /\ block # p /\ mlock # p
    BY <1>2, LocksAreNotProcs
  <2>2. Maintains(p) /\ HoldsBackup(p) /\ Knows(proc[p], state, files, target)
    BY <2>1, EmptyRecords DEF Maintains, Section, HoldsBackup, BackupCommands, Knows
  <2>3. QED
    BY <2>1, <2>2, EmptyRecords
<1>7. ProcessesTyped
  BY <1>2, <1>6, EmptyRecords, BackupAssumption DEF ProcessesTyped
<1>8. ASSUME NEW a \in Apps PROVE AppHeld(a)
  BY <1>2, DownRow DEF AppHeld
<1>9. WalHeld /\ NothingLost
  BY <1>2 DEF WalHeld, NothingLost
<1>10. QED
  BY <1>3, <1>5, <1>6, <1>7, <1>8, <1>9 DEF DInv, MInv

LEMMA NextKeepsD == DInv /\ MInv /\ [Next]_vars => DInv' /\ MInv'
<1> SUFFICES ASSUME DInv, MInv, [Next]_vars PROVE DInv' /\ MInv'
  OBVIOUS
<1>1. CASE UNCHANGED vars
  <2>1. UNCHANGED <<block, state, files, clock, volume, proc>>
    BY <1>1 DEF vars, time, directory
  <2>2. VolumeTyped' /\ target' = target
    BY <2>1, VolumeStays DEF DInv, volume
  <2>3. clock' \in Nat
    BY <2>1 DEF DInv, ProcessesTyped
  <2>4. DInv'
    BY <2>1, <2>2, <2>3, SameCommands
  <2>5. MInv'
    BY <2>1 DEF MInv, AppHeld, WalHeld, Maintains, NothingLost, AllDown, volume
  <2>6. QED
    BY <2>4, <2>5
<1>2. ASSUME NEW p \in Procs, BackupStep(p) PROVE DInv' /\ MInv'
  <2>1. DInv' /\ DirectoryStep(p)
    BY <1>2, AcquireBackupKeeps, ReleaseBackupKeeps, PrepareKeeps, RecoverKeeps,
       AcquirePublicationKeeps, InspectSourceKeeps, TakeSnapshotKeeps, CopiedKeeps,
       CheckBarrierKeeps, LinkBackupKeeps, UnlinkStagingKeeps, ReleasePublicationKeeps,
       RecordKeeps, PruneOneKeeps, PruneDoneKeeps, DeleteKeeps DEF BackupStep
  <2>2. QED
    BY <2>1, DirectoryKeepsM
<1>3. ASSUME NEW p \in Procs, RestoreStep(p) PROVE DInv' /\ MInv'
  <2>1. CASE \/ \E n \in DOMAIN files : SelectBackup(p, n)
             \/ SelectMigrationBackup(p) \/ FinishRestore(p)
    <3>1. DInv' /\ DirectoryStep(p)
      BY <2>1, SelectKeeps, SelectMigrationKeeps, FinishKeeps
    <3>2. QED
      BY <3>1, DirectoryKeepsM
  <2>2. CASE \/ AcquireMaintenanceLock(p) \/ Probe(p) \/ Claim(p)
             \/ Quiesce(p) \/ Quarantine(p) \/ Replace(p) \/ MoveDatabase(p) \/ MoveWal(p)
             \/ LinkTarget(p) \/ Unstage(p) \/ ReleaseMaintenanceLock(p)
    BY <2>2, AcquireMaintenanceKeeps, ProbeKeeps, ClaimKeeps, QuiesceKeeps, QuarantineKeeps,
       ReplaceKeeps, MoveDatabaseKeeps, MoveWalKeeps, LinkTargetKeeps, UnstageKeeps,
       ReleaseMaintenanceKeeps
  <2>3. QED
    BY <1>3, <2>1, <2>2 DEF RestoreStep
<1>4. ASSUME NEW p \in Procs, FailureStep(p) PROVE DInv' /\ MInv'
  <2>1. CASE \/ BackupFails(p) \/ RefusesBackup(p) \/ RetentionFails(p)
             \/ RefusesCommand(p) \/ RecordFailure(p)
    <3>1. DInv' /\ DirectoryStep(p)
      BY <2>1, BackupFailsKeeps, RefusesBackupKeeps, RetentionFailsKeeps, RefusesCommandKeeps,
         RecordFailureKeeps
    <3>2. QED
      BY <3>1, DirectoryKeepsM
  <2>2. CASE RestoreFails(p) \/ ProcDies(p)
    BY <2>2, RestoreFailsKeeps, ProcDiesKeeps
  <2>3. QED
    BY <1>4, <2>1, <2>2 DEF FailureStep
<1>5. QED
  BY <1>1, <1>2, <1>3, <1>4, ApplicationKeeps, OperatorKeeps, ClockKeeps DEF Next

(* The backup directory and the database with the processes that work on   *)
(* them, for any number of them, along every interruption.                 *)
THEOREM BackupInvariant == Spec => [](DInv /\ MInv)
BY InitD, NextKeepsD, PTL DEF Spec

(* No write AppDatabase.write acknowledged is lost: not in a restore that  *)
(* meets an application, not by one that dies between quiescing and         *)
(* replacing the database, not when its lock is cleared.                   *)
THEOREM NothingIsEverLost == Spec => []NothingLost
<1>1. MInv => NothingLost
  BY DEF MInv
<1>2. QED
  BY <1>1, BackupInvariant, PTL

(* A -wal file that lies beside the database is the database's own, at     *)
(* every step of a restore and after every death (restoreOperationalBackup  *)
(* and the assertions of the clear commands).                              *)
THEOREM WalIsItsOwn == Spec => []OwnWalOnly
<1>1. MInv => OwnWalOnly
  BY NoFileIsNoInode DEF MInv, WalHeld, AppHeld, OwnWalOnly
<1>2. QED
  BY <1>1, BackupInvariant, PTL

(* Neither retention nor a deletion nor a failed cycle takes away the      *)
(* backup the state names (pruneLocalBackups, executeTrackedCycle).        *)
THEOREM RecoveryPointStays == Spec => []RecoveryPointKept
<1>1. DInv => RecoveryPointKept
  BY DEF DInv, OnRecord, RecoveryPointKept
<1>2. QED
  BY <1>1, BackupInvariant, PTL

(* A healthy report is about a backup of the database in use, or, after    *)
(* restore-migration-backup, of the one before it, and never of one that a *)
(* restore has replaced (inspectBackupHealth).                             *)
THEOREM HealthyIsNotReplaced == Spec => []HealthyBackupIsNotOfReplaced
<1>1. DInv => HealthyBackupIsNotOfReplaced
  BY DEF DInv, OnRecord, HealthyBackupIsNotOfReplaced, HealthOk
<1>2. QED
  BY <1>1, BackupInvariant, PTL

=============================================================================

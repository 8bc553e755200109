---------------------------- MODULE VaultStorage ----------------------------
(***************************************************************************)
(* vault/storage.rs: readers and writers of one vault path that coordinate *)
(* through an advisory lock on a sidecar file, the transactional writer    *)
(* with a failure at any of its steps, processes that are killed and power *)
(* losses.                                                                 *)
(*                                                                         *)
(* The bytes of a write are represented by the number of the file (inode)  *)
(* it creates.  The file system is external: a file's content survives a   *)
(* power loss once the file was synced, a directory entry once the         *)
(* directory was; without that, either the old or the new one does.        *)
(***************************************************************************)
EXTENDS Naturals

CONSTANTS
    Procs,      \* processes or threads: each opens the lock file by itself
    MaxWrites,  \* bound on the number of temporary files created
    Dir         \* the parent directory of the path, "" for a bare file name

ASSUME StorageAssumption == MaxWrites \in Nat

File == 1..MaxWrites
NoFile == 0

WriterPCs == {"create", "write", "sync", "rename", "syncdir", "cleanup", "unlock_write"}
ReaderPCs == {"open", "read", "unlock_read"}
PCs == {"idle", "lock_exclusive", "lock_shared"} \cup WriterPCs \cup ReaderPCs

VARIABLES
    pc, ino, result,
                \* a call's progress, the file it made or opened, its result
    faulted,    \* history: a system call of this call failed by chance
    before,     \* history: the target when the call got the lock
    created,    \* the number of files created so far
    content,    \* bytes of a file: "none", "torn" or "full"
    synced,     \* files whose content is on disk
    temps,      \* files that have a temporary name
    leaked,     \* history: files left by a kill, a power loss or a failed removal
    target,     \* the file the vault path names
    durable,    \* the files the path may name after a power loss
    acked       \* history: the file of the last write that returned Ok

calls == <<pc, ino, result, faulted, before>>
disk == <<created, content, synced, temps, leaked, target, durable>>
vars == <<calls, disk, acked>>

Init ==
    /\ pc = [p \in Procs |-> "idle"]
    /\ ino = [p \in Procs |-> NoFile]
    /\ result = [p \in Procs |-> "none"]
    /\ faulted = [p \in Procs |-> FALSE]
    /\ before = [p \in Procs |-> NoFile]
    /\ created = 0
    /\ content = [f \in File |-> "none"]
    /\ synced = {}
    /\ temps = {}
    /\ leaked = {}
    /\ target = NoFile
    /\ durable = {NoFile}
    /\ acked = NoFile

Exclusive(p) == pc[p] \in WriterPCs
Shared(p) == pc[p] \in ReaderPCs

Goto(p, l) == pc' = [pc EXCEPT ![p] = l]

\* A step that succeeds, one that fails and so leads to label l with an
\* error, and one that fails by chance.
Succeed(p, l) == Goto(p, l) /\ UNCHANGED <<ino, result, faulted, before>>
Fail(p, l) ==
    /\ Goto(p, l)
    /\ result' = [result EXCEPT ![p] = "err"]
    /\ UNCHANGED <<ino, before>>
Fault(p, l) == Fail(p, l) /\ faulted' = [faulted EXCEPT ![p] = TRUE]

----------------------------------------------------------------------------
(* VaultFileLock.  The guard is dropped when the call returns.             *)

\* Both calls compute the lock path, open or create the lock file and wait
\* for the lock; the writer first creates the missing directories.
Begin(p) ==
    /\ pc[p] = "idle"
    /\ \E l \in {"lock_exclusive", "lock_shared"} : Goto(p, l)
    /\ ino' = [ino EXCEPT ![p] = NoFile]
    /\ result' = [result EXCEPT ![p] = "none"]
    /\ faulted' = [faulted EXCEPT ![p] = FALSE]
    /\ before' = [before EXCEPT ![p] = NoFile]
    /\ UNCHANGED <<disk, acked>>

\* InvalidPath, or an error of create_dir_all, open_lock_file or flock.
Refuse(p) ==
    /\ pc[p] \in {"lock_exclusive", "lock_shared"}
    /\ Fault(p, "idle")
    /\ UNCHANGED <<disk, acked>>

\* Mutant: the vault file itself is locked, which the rename replaces.
exclusive_free_always(p) == TRUE

\* Mutant: the writer does not wait for readers.
exclusive_free_of_writers(p) == \A q \in Procs : ~Exclusive(q)

exclusive_free(p) == \A q \in Procs : ~Exclusive(q) /\ ~Shared(q)

shared_free(p) == \A q \in Procs : ~Exclusive(q)

LockExclusive(p) ==
    /\ pc[p] = "lock_exclusive"
    /\ exclusive_free(p)
    /\ Goto(p, "create")
    /\ before' = [before EXCEPT ![p] = target]
    /\ UNCHANGED <<ino, result, faulted, disk, acked>>

LockShared(p) ==
    /\ pc[p] = "lock_shared"
    /\ shared_free(p)
    /\ Goto(p, "open")
    /\ before' = [before EXCEPT ![p] = target]
    /\ UNCHANGED <<ino, result, faulted, disk, acked>>

----------------------------------------------------------------------------
(* write_vault_atomic_with_backend                                         *)

\* A fresh name and a new file.
CreateTemp(p) ==
    /\ pc[p] = "create"
    /\ created < MaxWrites
    /\ created' = created + 1
    /\ temps' = temps \cup {created + 1}
    /\ ino' = [ino EXCEPT ![p] = created + 1]
    /\ Goto(p, "write")
    /\ UNCHANGED <<result, faulted, before, content, synced, leaked, target, durable, acked>>

CreateTempFails(p) ==
    /\ pc[p] = "create"
    /\ Fault(p, "cleanup")
    /\ UNCHANGED <<disk, acked>>

WriteAll(p) ==
    /\ pc[p] = "write"
    /\ \/ /\ content' = [content EXCEPT ![ino[p]] = "full"]
          /\ Succeed(p, "sync")
       \/ /\ content' = [content EXCEPT ![ino[p]] = "torn"]
          /\ Fault(p, "cleanup")
    /\ UNCHANGED <<created, synced, temps, leaked, target, durable, acked>>

\* Mutant: the temporary file is not synced.
synced_by_sync_not(f) == synced

synced_by_sync(f) == synced \cup {f}

SyncTempFile(p) ==
    /\ pc[p] = "sync"
    /\ \/ synced' = synced_by_sync(ino[p]) /\ Succeed(p, "rename")
       \/ UNCHANGED synced /\ Fault(p, "cleanup")
    /\ UNCHANGED <<created, content, temps, leaked, target, durable, acked>>

Rename(p) ==
    /\ pc[p] = "rename"
    /\ \/ /\ target' = ino[p]
          /\ durable' = durable \cup {ino[p]}
          /\ temps' = temps \ {ino[p]}
          /\ Succeed(p, "syncdir")
       \/ /\ UNCHANGED <<target, durable, temps>>
          /\ Fault(p, "cleanup")
    /\ UNCHANGED <<created, content, synced, leaked, acked>>

\* Mutant: the directory is synced before the rename.
durable_after_dir_sync_early == durable \ {target}

\* Mutant: the directory is opened but not synced.
durable_after_dir_sync_not == durable

durable_after_dir_sync == {target}

\* File::open of the parent of the vault path; the empty path, which is the
\* parent of a bare file name, does not name a directory.
parent_opens == Dir # ""

\* File::open(dir), then sync_all.
SyncParentDir(p) ==
    /\ pc[p] = "syncdir"
    /\ \/ parent_opens /\ durable' = durable_after_dir_sync /\ Succeed(p, "unlock_write")
       \/ /\ UNCHANGED durable
          /\ Fail(p, "cleanup")
          /\ faulted' = [faulted EXCEPT ![p] = @ \/ parent_opens]
    /\ UNCHANGED <<created, content, synced, temps, leaked, target, acked>>

\* Mutant: an error returns at once.
temps_after_cleanup_not(f) == temps

temps_after_cleanup(f) == temps \ {f}

\* The temporary file is removed; the result of the removal is ignored.
Cleanup(p) ==
    /\ pc[p] = "cleanup"
    /\ \/ temps' = temps_after_cleanup(ino[p]) /\ UNCHANGED leaked
       \/ UNCHANGED temps /\ leaked' = leaked \cup {ino[p]}
    /\ Succeed(p, "unlock_write")
    /\ UNCHANGED <<created, content, synced, target, durable, acked>>

Outcome(p) == IF result[p] = "err" THEN "err" ELSE "ok"

\* Mutant: the guard is forgotten on the error path.
UnlockWriteOnOk(p) ==
    /\ pc[p] = "unlock_write"
    /\ Outcome(p) = "ok"
    /\ Goto(p, "idle")
    /\ result' = [result EXCEPT ![p] = "ok"]
    /\ acked' = ino[p]
    /\ UNCHANGED <<ino, faulted, before, disk>>

\* The function returns and the guard is dropped.
UnlockWrite(p) ==
    /\ pc[p] = "unlock_write"
    /\ Goto(p, "idle")
    /\ result' = [result EXCEPT ![p] = Outcome(p)]
    /\ acked' = IF Outcome(p) = "ok" THEN ino[p] ELSE acked
    /\ UNCHANGED <<ino, faulted, before, disk>>

----------------------------------------------------------------------------
(* read_vault_bytes                                                        *)

Open(p) ==
    /\ pc[p] = "open"
    /\ \/ /\ target # NoFile
          /\ ino' = [ino EXCEPT ![p] = target]
          /\ Goto(p, "read")
          /\ UNCHANGED <<result, faulted, before>>
       \/ target = NoFile /\ UNCHANGED faulted /\ Fail(p, "unlock_read")
       \/ Fault(p, "unlock_read")
    /\ UNCHANGED <<disk, acked>>

Read(p) ==
    /\ pc[p] = "read"
    /\ \/ /\ result' = [result EXCEPT ![p] = content[ino[p]]]
          /\ Goto(p, "unlock_read")
          /\ UNCHANGED <<ino, faulted, before>>
       \/ Fault(p, "unlock_read")
    /\ UNCHANGED <<disk, acked>>

UnlockRead(p) ==
    /\ pc[p] = "unlock_read"
    /\ Succeed(p, "idle")
    /\ UNCHANGED <<disk, acked>>

----------------------------------------------------------------------------
(* Kills and power losses.                                                 *)

\* Temporary names of the files that calls in progress made.
InProgress(p) == temps \cap {ino[p]}

\* The system closes the lock file of a killed process.
Kill(p) ==
    /\ pc[p] # "idle"
    /\ Goto(p, "idle")
    /\ result' = [result EXCEPT ![p] = "none"]
    /\ leaked' = leaked \cup InProgress(p)
    /\ UNCHANGED <<ino, faulted, before, created, content, synced, temps, target, durable, acked>>

\* Every process ends; what was not synced may be lost.
PowerLoss ==
    /\ pc' = [p \in Procs |-> "idle"]
    /\ result' = [p \in Procs |-> "none"]
    /\ target' \in durable
    /\ durable' = {target'}
    /\ \E lost \in SUBSET (File \ synced) :
          content' = [f \in File |-> IF f \in lost THEN "torn" ELSE content[f]]
    /\ leaked' = leaked \cup temps
    /\ UNCHANGED <<ino, faulted, before, created, synced, temps, acked>>

----------------------------------------------------------------------------
Writer(p) ==
    \/ LockExclusive(p) \/ CreateTemp(p) \/ CreateTempFails(p) \/ WriteAll(p)
    \/ SyncTempFile(p) \/ Rename(p) \/ SyncParentDir(p) \/ Cleanup(p) \/ UnlockWrite(p)

Reader(p) == LockShared(p) \/ Open(p) \/ Read(p) \/ UnlockRead(p)

Next ==
    \/ \E p \in Procs : Begin(p) \/ Refuse(p) \/ Writer(p) \/ Reader(p) \/ Kill(p)
    \/ PowerLoss

Spec == Init /\ [][Next]_vars

\* A system call returns, with success or an error; a call that waits for the
\* lock is granted it when the lock stays free.
Fairness == \A p \in Procs : WF_vars(Writer(p)) /\ WF_vars(Reader(p))

FairSpec == Spec /\ Fairness

----------------------------------------------------------------------------
(* Properties.                                                             *)

\* Every variable has its type; what the path names now is among what it may
\* name after a power loss.
TypeOK ==
    /\ pc \in [Procs -> PCs]
    /\ ino \in [Procs -> File \cup {NoFile}]
    /\ result \in [Procs -> {"none", "ok", "err", "torn", "full"}]
    /\ faulted \in [Procs -> BOOLEAN]
    /\ before \in [Procs -> File \cup {NoFile}]
    /\ created \in 0..MaxWrites
    /\ content \in [File -> {"none", "torn", "full"}]
    /\ synced \subseteq File
    /\ temps \subseteq File
    /\ leaked \subseteq File \cup {NoFile}
    /\ target \in File \cup {NoFile}
    /\ durable \subseteq File \cup {NoFile} /\ target \in durable
    /\ acked \in File \cup {NoFile}

\* "If any step fails": whichever steps fail, and wherever a kill or a power
\* loss strikes, the path names no file or one whose bytes are complete and
\* on disk, and so does every entry a power loss may bring back.
TargetIntact ==
    \A f \in durable \cup {target} : f # NoFile => content[f] = "full" /\ f \in synced

\* "Data is written [...], synced and then atomically renamed": a write that
\* returned Ok is never undone, not even by a power loss after it returned;
\* what the path shows, or may show, is that write or a later one.
AckedSurvives == \A f \in durable \cup {target} : f >= acked

\* A writer that holds the lock is alone with the path: until its own rename
\* the target is the one it found, and when it fails afterwards the target is
\* either that one or its own file.
WriterIsolated ==
    \A p \in Procs :
        /\ pc[p] \in {"create", "write", "sync", "rename"} => target = before[p]
        /\ pc[p] \in {"cleanup", "unlock_write"} => target \in {before[p], ino[p]}

\* A locked read returns all the bytes of the file the path named throughout
\* the call; it never sees a replacement in progress.
ReadIsCurrent ==
    \A p \in Procs :
        pc[p] \in {"read", "unlock_read"} /\ result[p] # "err" =>
            /\ ino[p] = target /\ target = before[p]
            /\ pc[p] = "unlock_read" => result[p] = "full"

\* "On failure, the temporary file is removed on a best-effort basis": a
\* temporary name that no call in progress owns was left by a kill, a power
\* loss or a failed removal.
NoStrayTemps ==
    \A f \in temps : f \in leaked \/ \E p \in Procs : Exclusive(p) /\ ino[p] = f

\* A call returns its lock on every path, the error paths included.
LockReleased == \A p \in Procs : (Exclusive(p) \/ Shared(p)) ~> ~(Exclusive(p) \/ Shared(p))

\* A write reports an error only when one of its system calls failed by chance,
\* whatever the vault path: "plain relative file name remains a valid vault
\* path", says a test of storage.rs.  For a bare file name, Dir = "", the parent
\* is the empty path, which File::open refuses after the rename.
WriteWithoutFaultSucceeds ==
    \A p \in Procs :
        pc[p] = "unlock_write" /\ ~faulted[p] => Outcome(p) = "ok"

\* The path behaves like an atomic, durable register of whole writes.
Torn == MaxWrites + 1
Shown(f) == IF f = NoFile \/ content[f] = "full" THEN f ELSE Torn

Register == INSTANCE AtomicVaultFile WITH
    Writes <- File,
    content <- Shown(target),
    stable <- {Shown(f) : f \in durable}

RefinesAtomicFile == Register!Spec
============================================================================

------------------------- MODULE VaultStorageProofs -------------------------
(***************************************************************************)
(* The safety properties of VaultStorage, for any number of processes and  *)
(* writes: an inductive invariant, the invariants that follow from it and  *)
(* the refinement of AtomicVaultFile.                                      *)
(***************************************************************************)
EXTENDS VaultStorage, TLAPS

\* Part of the inductive invariant: the holder of the exclusive lock is alone.
Locks ==
    \A p, q \in Procs : Exclusive(p) /\ p # q => ~Exclusive(q) /\ ~Shared(q)

\* Part of the inductive invariant: the path names only files that exist.
Bounded == \A f \in durable : f <= created

\* What is known of a writer at each of its steps.
Writing(p) ==
    /\ pc[p] \in {"lock_exclusive", "create"} => ino[p] = NoFile
    /\ pc[p] \in {"create", "write", "sync", "rename"} => target = before[p]
    /\ pc[p] \in {"write", "sync", "rename"} =>
         /\ ino[p] \in File /\ ino[p] <= created
         /\ \A f \in durable : f < ino[p]
    /\ pc[p] \in {"sync", "rename"} => content[ino[p]] = "full"
    /\ pc[p] = "rename" => ino[p] \in synced
    /\ pc[p] = "syncdir" => target = ino[p] /\ ino[p] \notin temps
    /\ pc[p] = "cleanup" => result[p] = "err"
    /\ pc[p] \in {"cleanup", "unlock_write"} => target \in {before[p], ino[p]}
    /\ pc[p] = "unlock_write" =>
         /\ ino[p] \notin temps \/ ino[p] \in leaked
         /\ result[p] # "err" => durable = {ino[p]}

\* What is known of a reader at each of its steps.
Reading(p) ==
    /\ Shared(p) => target = before[p]
    /\ pc[p] = "read" => ino[p] = target /\ ino[p] \in File
    /\ pc[p] = "unlock_read" /\ result[p] # "err" =>
         ino[p] = target /\ result[p] = "full"

\* Part of the inductive invariant: every call is where its steps led it.
Calls == \A p \in Procs : Writing(p) /\ Reading(p)

Disk == Bounded /\ TargetIntact /\ AckedSurvives

IInv == TypeOK /\ Locks /\ Calls /\ Disk /\ NoStrayTemps

----------------------------------------------------------------------------
(* The actions of one process.                                             *)

Step(p) == Begin(p) \/ Refuse(p) \/ Writer(p) \/ Reader(p) \/ Kill(p)

LEMMA NextSteps == Next <=> (\E p \in Procs : Step(p)) \/ PowerLoss
BY DEF Next, Step

\* A step of p leaves the calls of the others alone.
Others(p) ==
    \A q \in Procs \ {p} :
        pc'[q] = pc[q] /\ ino'[q] = ino[q] /\ result'[q] = result[q] /\ before'[q] = before[q]

LEMMA OthersUntouched ==
    ASSUME TypeOK, NEW p \in Procs, Step(p)
    PROVE  Others(p)
<1>1. Begin(p) => Others(p)
  BY DEF TypeOK, Begin, Goto, Others
<1>2. Refuse(p) => Others(p)
  BY DEF TypeOK, Refuse, Fault, Fail, Goto, Others
<1>3. LockExclusive(p) \/ LockShared(p) => Others(p)
  BY DEF TypeOK, LockExclusive, LockShared, Goto, Others
<1>4. CreateTemp(p) \/ CreateTempFails(p) => Others(p)
  BY DEF TypeOK, CreateTemp, CreateTempFails, Fault, Fail, Goto, Others
<1>5. WriteAll(p) \/ SyncTempFile(p) \/ Rename(p) => Others(p)
  BY DEF TypeOK, WriteAll, SyncTempFile, Rename, Succeed, Fault, Fail, Goto, Others
<1>6. SyncParentDir(p) \/ Cleanup(p) \/ UnlockWrite(p) => Others(p)
  BY DEF TypeOK, SyncParentDir, Cleanup, UnlockWrite, Succeed, Fail, Goto, Others
<1>7. Open(p) \/ Read(p) \/ UnlockRead(p) => Others(p)
  BY DEF TypeOK, Open, Read, UnlockRead, Succeed, Fault, Fail, Goto, Others
<1>8. Kill(p) => Others(p)
  BY DEF TypeOK, Kill, Goto, Others
<1>. QED
  BY <1>1, <1>2, <1>3, <1>4, <1>5, <1>6, <1>7, <1>8 DEF Step, Writer, Reader

----------------------------------------------------------------------------
(* Type correctness.                                                       *)

LEMMA TypeInit == Init => TypeOK
BY StorageAssumption DEF Init, TypeOK, PCs, File, NoFile

LEMMA TypeStep == IInv /\ [Next]_vars => TypeOK'
<1>. SUFFICES ASSUME IInv, [Next]_vars
              PROVE  TypeOK'
  OBVIOUS
<1>. USE DEF NoFile
<1>u. CASE UNCHANGED vars
  BY <1>u DEF IInv, TypeOK, vars, calls, disk
<1>l. CASE PowerLoss
  <2>1. PICK lost \in SUBSET (File \ synced) :
          content' = [f \in File |-> IF f \in lost THEN "torn" ELSE content[f]]
    BY <1>l DEF PowerLoss
  <2>2. content' \in [File -> {"none", "torn", "full"}]
    BY <2>1 DEF IInv, TypeOK
  <2>. QED BY <1>l, <2>2 DEF PowerLoss, IInv, TypeOK, PCs
<1>s. ASSUME NEW p \in Procs, Step(p)
      PROVE  TypeOK'
  <2>1. CASE Begin(p)
    BY <2>1 DEF IInv, TypeOK, Begin, Goto, disk, PCs
  <2>2. CASE Refuse(p)
    BY <2>2 DEF IInv, TypeOK, Refuse, Fault, Fail, Goto, disk, PCs
  <2>3. CASE LockExclusive(p)
    BY <2>3 DEF IInv, TypeOK, LockExclusive, Goto, disk, PCs, WriterPCs
  <2>4. CASE LockShared(p)
    BY <2>4 DEF IInv, TypeOK, LockShared, Goto, disk, PCs, ReaderPCs
  <2>5. CASE CreateTemp(p)
    <3>1. created + 1 \in File
      BY <2>5, StorageAssumption DEF IInv, TypeOK, CreateTemp, File
    <3>. QED BY <2>5, <3>1, StorageAssumption DEF IInv, TypeOK, CreateTemp, Goto, PCs, WriterPCs
  <2>6. CASE CreateTempFails(p)
    BY <2>6 DEF IInv, TypeOK, CreateTempFails, Fault, Fail, Goto, disk, PCs, WriterPCs
  <2>7. CASE WriteAll(p)
    BY <2>7 DEF IInv, TypeOK, WriteAll, Succeed, Fault, Fail, Goto, PCs, WriterPCs
  <2>8. CASE SyncTempFile(p)
    <3>1. ino[p] \in File
      BY <2>8 DEF IInv, Calls, Writing, SyncTempFile
    <3>. QED
      BY <2>8, <3>1 DEF IInv, TypeOK, SyncTempFile, synced_by_sync, Succeed, Fault, Fail, Goto,
                        PCs, WriterPCs
  <2>9. CASE Rename(p)
    BY <2>9 DEF IInv, TypeOK, Rename, Succeed, Fault, Fail, Goto, PCs, WriterPCs
  <2>10. CASE SyncParentDir(p)
    <3>1. faulted' \in [Procs -> BOOLEAN]
      BY <2>10 DEF IInv, TypeOK, SyncParentDir, Succeed
    <3>. QED
      BY <2>10, <3>1 DEF IInv, TypeOK, SyncParentDir, durable_after_dir_sync, Succeed, Fail, Goto,
                         PCs, WriterPCs
  <2>11. CASE Cleanup(p)
    BY <2>11 DEF IInv, TypeOK, Cleanup, temps_after_cleanup, Succeed, Goto, PCs, WriterPCs
  <2>12. CASE UnlockWrite(p)
    BY <2>12 DEF IInv, TypeOK, UnlockWrite, Outcome, Goto, disk, PCs
  <2>13. CASE Open(p)
    BY <2>13 DEF IInv, TypeOK, Open, Fault, Fail, Goto, disk, PCs, ReaderPCs
  <2>14. CASE Read(p)
    <3>1. ino[p] \in File
      BY <2>14 DEF IInv, Calls, Reading, Read
    <3>. QED BY <2>14, <3>1 DEF IInv, TypeOK, Read, Fault, Fail, Goto, disk, PCs, ReaderPCs
  <2>15. CASE UnlockRead(p)
    BY <2>15 DEF IInv, TypeOK, UnlockRead, Succeed, Goto, disk, PCs
  <2>16. CASE Kill(p)
    BY <2>16 DEF IInv, TypeOK, Kill, InProgress, Goto, PCs
  <2>. QED
    BY <1>s, <2>1, <2>2, <2>3, <2>4, <2>5, <2>6, <2>7, <2>8, <2>9, <2>10, <2>11, <2>12, <2>13,
       <2>14, <2>15, <2>16 DEF Step, Writer, Reader
<1>. QED BY <1>u, <1>l, <1>s, NextSteps

----------------------------------------------------------------------------
(* The lock.                                                               *)

LEMMA LocksInit == Init => Locks
BY DEF Init, Locks, Exclusive, WriterPCs

\* A step of p that stays on its side of the lock, or leaves it.
LEMMA LocksFrame ==
    ASSUME TypeOK, Locks, NEW p \in Procs, Others(p),
           pc'[p] \in WriterPCs => pc[p] \in WriterPCs,
           pc'[p] \in ReaderPCs => pc[p] \in ReaderPCs
    PROVE  Locks'
BY DEF TypeOK, Locks, Exclusive, Shared, Others

LEMMA LocksStep == IInv /\ [Next]_vars => Locks'
<1>. SUFFICES ASSUME IInv, [Next]_vars
              PROVE  Locks'
  OBVIOUS
<1>t. TypeOK /\ Locks
  BY DEF IInv
<1>u. CASE UNCHANGED vars
  BY <1>t, <1>u DEF Locks, Exclusive, Shared, vars, calls
<1>l. CASE PowerLoss
  BY <1>l DEF PowerLoss, Locks, Exclusive, Shared, WriterPCs, ReaderPCs
<1>s. ASSUME NEW p \in Procs, Step(p)
      PROVE  Locks'
  <2>o. Others(p)
    BY <1>t, <1>s, OthersUntouched
  <2>1. CASE LockExclusive(p)
    <3>1. pc'[p] = "create" /\ \A q \in Procs : ~Exclusive(q) /\ ~Shared(q)
      BY <1>t, <2>1 DEF LockExclusive, Goto, exclusive_free, TypeOK
    <3>. QED BY <2>o, <3>1 DEF Locks, Exclusive, Shared, Others, WriterPCs, ReaderPCs
  <2>2. CASE LockShared(p)
    <3>1. pc'[p] = "open" /\ \A q \in Procs : ~Exclusive(q)
      BY <1>t, <2>2 DEF LockShared, Goto, shared_free, TypeOK
    <3>. QED BY <2>o, <3>1 DEF Locks, Exclusive, Shared, Others, WriterPCs, ReaderPCs
  <2>3. CASE ~LockExclusive(p) /\ ~LockShared(p)
    <3>1. Begin(p) \/ Refuse(p) \/ Kill(p) => pc'[p] \notin WriterPCs \cup ReaderPCs
      BY <1>t DEF TypeOK, Begin, Refuse, Kill, Fault, Fail, Goto, WriterPCs, ReaderPCs
    <3>2. Writer(p) => pc[p] \in WriterPCs /\ pc'[p] \notin ReaderPCs
      BY <1>t, <2>3 DEF TypeOK, Writer, CreateTemp, CreateTempFails, WriteAll, SyncTempFile, Rename,
         SyncParentDir, Cleanup, UnlockWrite, Succeed, Fault, Fail, Goto, WriterPCs, ReaderPCs
    <3>3. Reader(p) => pc[p] \in ReaderPCs /\ pc'[p] \notin WriterPCs
      BY <1>t, <2>3 DEF TypeOK, Reader, Open, Read, UnlockRead, Succeed, Fault, Fail, Goto,
         WriterPCs, ReaderPCs
    <3>. QED BY <1>t, <1>s, <2>o, <3>1, <3>2, <3>3, LocksFrame DEF Step
  <2>. QED BY <2>1, <2>2, <2>3
<1>. QED BY <1>u, <1>l, <1>s, NextSteps

----------------------------------------------------------------------------
(* The calls.                                                              *)

LEMMA CallsInit == Init => Calls
BY DEF Init, Calls, Writing, Reading, Shared, ReaderPCs

\* The other calls do not notice a step that leaves the files alone.
LEMMA QuietStep ==
    ASSUME Calls, NEW p \in Procs, Others(p),
           UNCHANGED <<created, content, synced, temps, target, durable>>,
           leaked \subseteq leaked'
    PROVE  \A q \in Procs \ {p} : Writing(q)' /\ Reading(q)'
BY DEF Calls, Others, Writing, Reading, Shared

\* A writer is alone: the others are outside or waiting.
LEMMA OwnerStep ==
    ASSUME TypeOK, Locks, Calls, NEW p \in Procs, Others(p), Exclusive(p)
    PROVE  \A q \in Procs \ {p} : Writing(q)' /\ Reading(q)'
<1>. SUFFICES ASSUME NEW q \in Procs \ {p}
              PROVE  Writing(q)' /\ Reading(q)'
  OBVIOUS
<1>1. pc'[q] = pc[q] /\ ino'[q] = ino[q]
  BY DEF Others
<1>2. pc[q] \notin WriterPCs \cup ReaderPCs
  BY DEF Locks, Exclusive, Shared
<1>3. pc[q] = "lock_exclusive" => ino[q] = NoFile
  BY DEF Calls, Writing
<1>. QED BY <1>1, <1>2, <1>3 DEF Writing, Reading, Shared, WriterPCs, ReaderPCs

LEMMA CallsStep == IInv /\ [Next]_vars => Calls'
<1>. SUFFICES ASSUME IInv, [Next]_vars
              PROVE  Calls'
  OBVIOUS
<1>t. TypeOK /\ Locks /\ Calls
  BY DEF IInv
<1>u. CASE UNCHANGED vars
  BY <1>t, <1>u DEF Calls, Writing, Reading, Shared, vars, calls, disk
<1>l. CASE PowerLoss
  BY <1>l DEF PowerLoss, Calls, Writing, Reading, Shared, ReaderPCs
<1>s. ASSUME NEW p \in Procs, Step(p)
      PROVE  Calls'
  <2>o. Others(p)
    BY <1>t, <1>s, OthersUntouched
  <2>w. Writing(p) /\ Reading(p)
    BY <1>t DEF Calls
  <2>q. CASE Begin(p) \/ Refuse(p) \/ LockExclusive(p) \/ LockShared(p) \/ CreateTempFails(p)
             \/ UnlockWrite(p) \/ Reader(p) \/ Kill(p)
    <3>1. /\ UNCHANGED <<created, content, synced, temps, target, durable>>
          /\ leaked \subseteq leaked'
      BY <2>q DEF Begin, Refuse, LockExclusive, LockShared, CreateTempFails, UnlockWrite, Reader,
                  Open, Read, UnlockRead, Kill, disk
    <3>2. \A q \in Procs \ {p} : Writing(q)' /\ Reading(q)'
      BY <1>t, <2>o, <3>1, QuietStep
    <3>3. CASE Begin(p)
      BY <1>t, <3>2, <3>3 DEF TypeOK, Begin, Goto, Calls, Writing, Reading, Shared, ReaderPCs
    <3>4. CASE Refuse(p) \/ Kill(p)
      <4>1. pc'[p] = "idle"
        BY <1>t, <3>4 DEF TypeOK, Refuse, Kill, Fault, Fail, Goto
      <4>. QED BY <3>2, <4>1 DEF Calls, Writing, Reading, Shared, ReaderPCs
    <3>5. CASE LockExclusive(p)
      BY <1>t, <2>w, <3>2, <3>5
      DEF TypeOK, LockExclusive, Goto, disk, Calls, Writing, Reading, Shared, ReaderPCs
    <3>6. CASE LockShared(p)
      BY <1>t, <2>w, <3>2, <3>6
      DEF TypeOK, LockShared, Goto, disk, Calls, Writing, Reading, Shared, ReaderPCs
    <3>7. CASE CreateTempFails(p)
      BY <1>t, <2>w, <3>2, <3>7
      DEF TypeOK, CreateTempFails, Fault, Fail, Goto, disk, Calls, Writing, Reading, Shared, ReaderPCs
    <3>8. CASE UnlockWrite(p)
      BY <1>t, <3>2, <3>8 DEF TypeOK, UnlockWrite, Goto, Calls, Writing, Reading, Shared, ReaderPCs
    <3>9. CASE Open(p)
      BY <1>t, <2>w, <3>2, <3>9
      DEF TypeOK, Open, Fault, Fail, Goto, disk, NoFile, Calls, Writing, Reading, Shared, ReaderPCs
    <3>10. CASE Read(p)
      <4>1. ino[p] = target /\ content[ino[p]] = "full"
        BY <2>w, <3>10 DEF Read, Reading, IInv, Disk, TargetIntact, File, NoFile
      <4>. QED
        BY <1>t, <2>w, <3>2, <3>10, <4>1
        DEF TypeOK, Read, Fault, Fail, Goto, disk, Calls, Writing, Reading, Shared, ReaderPCs
    <3>11. CASE UnlockRead(p)
      BY <1>t, <3>2, <3>11
      DEF TypeOK, UnlockRead, Succeed, Goto, Calls, Writing, Reading, Shared, ReaderPCs
    <3>. QED BY <2>q, <3>3, <3>4, <3>5, <3>6, <3>7, <3>8, <3>9, <3>10, <3>11 DEF Reader
  <2>e. CASE CreateTemp(p) \/ WriteAll(p) \/ SyncTempFile(p) \/ Rename(p) \/ SyncParentDir(p)
             \/ Cleanup(p)
    <3>1. Exclusive(p)
      BY <2>e DEF CreateTemp, WriteAll, SyncTempFile, Rename, SyncParentDir, Cleanup, Exclusive,
                  WriterPCs
    <3>2. \A q \in Procs \ {p} : Writing(q)' /\ Reading(q)'
      BY <1>t, <2>o, <3>1, OwnerStep
    <3>3. CASE CreateTemp(p)
      <4>1. created + 1 \in File /\ \A f \in durable : f < created + 1
        BY <1>t, <3>3, StorageAssumption DEF IInv, Disk, Bounded, TypeOK, CreateTemp, File, NoFile
      <4>2. pc'[p] = "write" /\ ino'[p] = created + 1 /\ target = before'[p]
        BY <1>t, <2>w, <3>3 DEF TypeOK, CreateTemp, Goto, Writing
      <4>3. created' = created + 1 /\ UNCHANGED <<durable, target>>
        BY <3>3 DEF CreateTemp
      <4>4. created' \in Nat
        BY <1>t, <4>3 DEF TypeOK
      <4>5. Writing(p)'
        BY <4>1, <4>2, <4>3, <4>4 DEF Writing
      <4>6. Reading(p)'
        BY <4>2 DEF Reading, Shared, ReaderPCs
      <4>. QED BY <3>2, <4>5, <4>6 DEF Calls
    <3>4. CASE WriteAll(p)
      BY <1>t, <2>w, <3>2, <3>4
      DEF TypeOK, WriteAll, Succeed, Fault, Fail, Goto, Calls, Writing, Reading, Shared, ReaderPCs
    <3>5. CASE SyncTempFile(p)
      BY <1>t, <2>w, <3>2, <3>5
      DEF TypeOK, SyncTempFile, synced_by_sync, Succeed, Fault, Fail, Goto, Calls, Writing, Reading,
          Shared, ReaderPCs
    <3>6. CASE Rename(p)
      BY <1>t, <2>w, <3>2, <3>6
      DEF TypeOK, Rename, Succeed, Fault, Fail, Goto, Calls, Writing, Reading, Shared, ReaderPCs
    <3>7. CASE SyncParentDir(p)
      <4>1. target = ino[p] /\ ino[p] \notin temps /\ UNCHANGED <<target, temps, ino>>
        BY <2>w, <3>7 DEF SyncParentDir, Writing, Succeed, Fail
      <4>2. \/ pc'[p] = "unlock_write" /\ durable' = {target}
            \/ pc'[p] = "cleanup" /\ result'[p] = "err"
        BY <1>t, <3>7 DEF TypeOK, SyncParentDir, durable_after_dir_sync, Succeed, Fail, Goto
      <4>. QED BY <3>2, <4>1, <4>2 DEF Calls, Writing, Reading, Shared, ReaderPCs
    <3>8. CASE Cleanup(p)
      BY <1>t, <2>w, <3>2, <3>8
      DEF TypeOK, Cleanup, temps_after_cleanup, Succeed, Goto, Calls, Writing, Reading,
          Shared, ReaderPCs
    <3>. QED BY <2>e, <3>3, <3>4, <3>5, <3>6, <3>7, <3>8
  <2>. QED BY <1>s, <2>q, <2>e DEF Step, Writer, Reader
<1>. QED BY <1>u, <1>l, <1>s, NextSteps

----------------------------------------------------------------------------
(* The disk.                                                               *)

LEMMA DiskInit == Init => Disk
BY DEF Init, Disk, Bounded, TargetIntact, AckedSurvives, NoFile

\* A step that changes neither what the path names nor the files it names.
LEMMA DiskFrame ==
    ASSUME Disk, TypeOK, UNCHANGED <<target, durable, acked>>, created' \in Nat, created <= created',
           \A f \in durable \cup {target} : f \in File => content'[f] = content[f],
           synced \subseteq synced'
    PROVE  Disk'
BY DEF Disk, TypeOK, Bounded, TargetIntact, AckedSurvives, File, NoFile

LEMMA DiskStep == IInv /\ [Next]_vars => Disk'
<1>. SUFFICES ASSUME IInv, [Next]_vars
              PROVE  Disk'
  OBVIOUS
<1>t. TypeOK /\ Disk
  BY DEF IInv
<1>n. created \in Nat /\ target \in durable
  BY <1>t DEF TypeOK
<1>u. CASE UNCHANGED vars
  BY <1>t, <1>u DEF Disk, Bounded, TargetIntact, AckedSurvives, vars, disk
<1>l. CASE PowerLoss
  <2>1. target' \in durable /\ durable' = {target'} /\ UNCHANGED <<created, synced, acked>>
    BY <1>l DEF PowerLoss
  <2>2. PICK lost \in SUBSET (File \ synced) :
          content' = [f \in File |-> IF f \in lost THEN "torn" ELSE content[f]]
    BY <1>l DEF PowerLoss
  <2>3. target' # NoFile => content'[target'] = "full" /\ target' \in synced
    BY <1>t, <2>1, <2>2 DEF TypeOK, Disk, TargetIntact
  <2>. QED BY <1>t, <2>1, <2>3 DEF Disk, Bounded, TargetIntact, AckedSurvives
<1>s. ASSUME NEW p \in Procs, Step(p)
      PROVE  Disk'
  <2>w. Writing(p)
    BY DEF IInv, Calls
  <2>q. CASE Begin(p) \/ Refuse(p) \/ LockExclusive(p) \/ CreateTempFails(p) \/ Cleanup(p)
             \/ Reader(p) \/ Kill(p)
    <3>1. UNCHANGED <<target, durable, acked, created, content, synced>>
      BY <2>q DEF Begin, Refuse, LockExclusive, CreateTempFails, Cleanup, Reader, LockShared, Open,
                  Read, UnlockRead, Kill, disk
    <3>. QED BY <1>t, <1>n, <3>1, DiskFrame
  <2>1. CASE CreateTemp(p)
    <3>1. created' = created + 1 /\ UNCHANGED <<target, durable, acked, content, synced>>
      BY <2>1 DEF CreateTemp
    <3>. QED BY <1>t, <1>n, <3>1, DiskFrame
  <2>2. CASE WriteAll(p)
    <3>1. \A f \in durable \cup {target} : f # ino[p]
      BY <1>t, <1>n, <2>w, <2>2 DEF WriteAll, Writing, TypeOK, File, NoFile
    <3>2. \A f \in File : f # ino[p] => content'[f] = content[f]
      BY <1>t, <2>2 DEF WriteAll, TypeOK
    <3>3. UNCHANGED <<target, durable, acked, created, synced>>
      BY <2>2 DEF WriteAll
    <3>. QED BY <1>t, <1>n, <3>1, <3>2, <3>3, DiskFrame
  <2>3. CASE SyncTempFile(p)
    <3>1. UNCHANGED <<target, durable, acked, created, content>> /\ synced \subseteq synced'
      BY <2>3 DEF SyncTempFile, synced_by_sync
    <3>. QED BY <1>t, <1>n, <3>1, DiskFrame
  <2>4. CASE Rename(p)
    <3>1. UNCHANGED <<acked, created, content, synced>>
      BY <2>4 DEF Rename
    <3>2. CASE UNCHANGED <<target, durable>>
      BY <1>t, <1>n, <3>1, <3>2, DiskFrame
    <3>3. CASE target' = ino[p] /\ durable' = durable \cup {ino[p]}
      <4>1. /\ ino[p] \in File /\ ino[p] <= created /\ target < ino[p]
            /\ content[ino[p]] = "full" /\ ino[p] \in synced
        BY <1>n, <2>w, <2>4 DEF Rename, Writing
      <4>2. ino[p] >= acked
        BY <1>t, <1>n, <4>1 DEF Disk, AckedSurvives, TypeOK, File, NoFile
      <4>. QED BY <1>t, <3>1, <3>3, <4>1, <4>2 DEF Disk, Bounded, TargetIntact, AckedSurvives
    <3>. QED BY <2>4, <3>2, <3>3 DEF Rename
  <2>5. CASE SyncParentDir(p)
    <3>1. /\ UNCHANGED <<target, acked, created, content, synced>>
          /\ durable' = durable \/ durable' = {target}
      BY <2>5 DEF SyncParentDir, durable_after_dir_sync
    <3>. QED BY <1>t, <1>n, <3>1 DEF Disk, Bounded, TargetIntact, AckedSurvives
  <2>6. CASE UnlockWrite(p)
    <3>1. UNCHANGED <<target, durable, created, content, synced>>
      BY <2>6 DEF UnlockWrite, disk
    <3>2. acked' = acked \/ (acked' = ino[p] /\ durable = {ino[p]})
      BY <2>w, <2>6 DEF UnlockWrite, Outcome, Writing
    <3>3. \A f \in durable \cup {target} : f \in Nat
      BY <1>t DEF TypeOK, File, NoFile
    <3>. QED BY <1>t, <1>n, <3>1, <3>2, <3>3 DEF Disk, Bounded, TargetIntact, AckedSurvives
  <2>. QED BY <1>s, <2>q, <2>1, <2>2, <2>3, <2>4, <2>5, <2>6 DEF Step, Writer
<1>. QED BY <1>u, <1>l, <1>s, NextSteps

----------------------------------------------------------------------------
(* Temporary files.                                                        *)

LEMMA TempsInit == Init => NoStrayTemps
BY DEF Init, NoStrayTemps

\* The owner of a temporary file stays its owner, or its file is accounted for.
LEMMA TempsFrame ==
    ASSUME NoStrayTemps, NEW p \in Procs, Others(p), leaked \subseteq leaked',
           \A f \in temps' : f \in temps \/ (Exclusive(p)' /\ ino'[p] = f),
           Exclusive(p) /\ ino[p] \in temps' =>
              (Exclusive(p)' /\ ino'[p] = ino[p]) \/ ino[p] \in leaked'
    PROVE  NoStrayTemps'
<1>. SUFFICES ASSUME NEW f \in temps', f \notin leaked'
              PROVE  \E q \in Procs : Exclusive(q)' /\ ino'[q] = f
  BY DEF NoStrayTemps, Exclusive
<1>1. CASE f \notin temps
  BY <1>1
<1>2. CASE f \in temps
  <2>1. PICK q \in Procs : Exclusive(q) /\ ino[q] = f
    BY <1>2 DEF NoStrayTemps
  <2>2. CASE q = p
    BY <2>1, <2>2
  <2>3. CASE q # p
    BY <2>1, <2>3 DEF Others, Exclusive
  <2>. QED BY <2>2, <2>3
<1>. QED BY <1>1, <1>2

LEMMA TempsStep == IInv /\ [Next]_vars => NoStrayTemps'
<1>. SUFFICES ASSUME IInv, [Next]_vars
              PROVE  NoStrayTemps'
  OBVIOUS
<1>t. TypeOK /\ NoStrayTemps
  BY DEF IInv
<1>u. CASE UNCHANGED vars
  BY <1>t, <1>u DEF NoStrayTemps, Exclusive, vars, calls, disk
<1>l. CASE PowerLoss
  BY <1>l DEF PowerLoss, NoStrayTemps
<1>s. ASSUME NEW p \in Procs, Step(p)
      PROVE  NoStrayTemps'
  <2>o. Others(p)
    BY <1>t, <1>s, OthersUntouched
  <2>w. Writing(p)
    BY DEF IInv, Calls
  <2>z. NoFile \notin temps
    BY <1>t DEF TypeOK, File, NoFile
  <2>1. CASE Begin(p) \/ Refuse(p) \/ LockExclusive(p) \/ Reader(p)
    <3>1. ~Exclusive(p) /\ UNCHANGED <<temps, leaked>>
      BY <2>1 DEF Begin, Refuse, LockExclusive, Reader, LockShared, Open, Read, UnlockRead, disk,
                  Exclusive, WriterPCs
    <3>. QED BY <1>t, <2>o, <3>1, TempsFrame
  <2>2. CASE CreateTemp(p)
    <3>1. ino[p] \notin temps /\ ino[p] = NoFile /\ leaked' = leaked
      BY <2>2, <2>w, <2>z DEF CreateTemp, Writing
    <3>2. temps' = temps \cup {created + 1} /\ ino'[p] = created + 1 /\ pc'[p] = "write"
      BY <1>t, <2>2 DEF CreateTemp, Goto, TypeOK
    <3>3. created \in Nat /\ ino[p] \notin temps'
      BY <1>t, <3>1, <3>2 DEF TypeOK, NoFile
    <3>. QED BY <1>t, <2>o, <3>1, <3>2, <3>3, TempsFrame DEF Exclusive, WriterPCs
  <2>3. CASE CreateTempFails(p) \/ WriteAll(p) \/ SyncTempFile(p)
    <3>1. Exclusive(p)' /\ ino' = ino /\ UNCHANGED <<temps, leaked>>
      BY <1>t, <2>3 DEF TypeOK, CreateTempFails, WriteAll, SyncTempFile, Succeed, Fault, Fail, Goto,
                        disk, Exclusive, WriterPCs
    <3>. QED BY <1>t, <2>o, <3>1, TempsFrame
  <2>4. CASE Rename(p) \/ SyncParentDir(p) \/ Cleanup(p)
    <3>1. Exclusive(p)' /\ ino' = ino
      BY <1>t, <2>4 DEF TypeOK, Rename, SyncParentDir, Cleanup, Succeed, Fault, Fail, Goto,
                        Exclusive, WriterPCs
    <3>2. temps' \subseteq temps /\ leaked \subseteq leaked'
      BY <2>4 DEF Rename, SyncParentDir, Cleanup, temps_after_cleanup
    <3>. QED BY <1>t, <2>o, <3>1, <3>2, TempsFrame
  <2>5. CASE UnlockWrite(p)
    <3>1. ino[p] \notin temps \/ ino[p] \in leaked
      BY <2>5, <2>w DEF UnlockWrite, Writing
    <3>2. UNCHANGED <<temps, leaked>>
      BY <2>5 DEF UnlockWrite, disk
    <3>. QED BY <1>t, <2>o, <3>1, <3>2, TempsFrame
  <2>6. CASE Kill(p)
    <3>1. UNCHANGED temps /\ leaked' = leaked \cup (temps \cap {ino[p]})
      BY <2>6 DEF Kill, InProgress
    <3>. QED BY <1>t, <2>o, <3>1, TempsFrame
  <2>. QED BY <1>s, <2>1, <2>2, <2>3, <2>4, <2>5, <2>6 DEF Step, Writer
<1>. QED BY <1>u, <1>l, <1>s, NextSteps

----------------------------------------------------------------------------
(* The theorems.                                                           *)

LEMMA Invariance == Spec => []IInv
<1>1. Init => IInv
  BY TypeInit, LocksInit, CallsInit, DiskInit, TempsInit DEF IInv
<1>2. IInv /\ [Next]_vars => IInv'
  BY TypeStep, LocksStep, CallsStep, DiskStep, TempsStep DEF IInv
<1>. QED BY <1>1, <1>2, PTL DEF Spec

\* Every variable of the storage model has its type, and what the path names
\* now is among what it may name after a power loss.
THEOREM TypeCorrect == Spec => []TypeOK
<1>1. IInv => TypeOK
  BY DEF IInv
<1>. QED BY <1>1, Invariance, PTL

\* Whatever fails, is killed or loses power in write_vault_atomic, the path
\* names complete and synced bytes or no file.
THEOREM NeverTorn == Spec => []TargetIntact
<1>1. IInv => TargetIntact
  BY DEF IInv, Disk
<1>. QED BY <1>1, Invariance, PTL

\* A write that write_vault_atomic acknowledged is never undone.
THEOREM Durability == Spec => []AckedSurvives
<1>1. IInv => AckedSurvives
  BY DEF IInv, Disk
<1>. QED BY <1>1, Invariance, PTL

\* The holder of the exclusive lock (VaultFileLock) is alone with the path.
THEOREM Isolation == Spec => []WriterIsolated
<1>1. IInv => WriterIsolated
  BY DEF IInv, Calls, Writing, WriterIsolated
<1>. QED BY <1>1, Invariance, PTL

\* A read_vault_locked returns all the bytes of the file that the path names
\* throughout the call.
THEOREM CurrentReads == Spec => []ReadIsCurrent
<1>1. IInv => ReadIsCurrent
  BY DEF IInv, Calls, Reading, ReadIsCurrent, Shared, ReaderPCs
<1>. QED BY <1>1, Invariance, PTL

\* Only kills, power losses and failed removals leave temporary files behind.
THEOREM TempsAccountedFor == Spec => []NoStrayTemps
<1>1. IInv => NoStrayTemps
  BY DEF IInv
<1>. QED BY <1>1, Invariance, PTL

----------------------------------------------------------------------------
(* Refinement of AtomicVaultFile.                                          *)

\* Where the files are intact the register shows the files themselves.
LEMMA ShownIntact ==
    ASSUME TargetIntact
    PROVE  Shown(target) = target /\ {Shown(f) : f \in durable} = durable
<1>1. \A f \in durable \cup {target} : Shown(f) = f
  BY DEF TargetIntact, Shown
<1>. QED BY <1>1

LEMMA ShownIntactNext ==
    ASSUME TargetIntact'
    PROVE  Shown(target)' = target' /\ {Shown(f) : f \in durable}' = durable'
<1>1. \A f \in durable' \cup {target'} : (f = NoFile \/ content'[f] = "full")
  BY DEF TargetIntact
<1>. QED BY <1>1 DEF Shown

\* Every step of the storage is a step of the register or does not change it.
LEMMA RegisterStep == IInv /\ IInv' /\ [Next]_vars => [Register!Next]_(Register!vars)
<1>. SUFFICES ASSUME IInv, IInv', [Next]_vars
              PROVE  Register!Next \/ UNCHANGED <<Shown(target), {Shown(f) : f \in durable}, acked>>
  BY DEF Register!vars
<1>1. Shown(target) = target /\ {Shown(f) : f \in durable} = durable
  BY ShownIntact DEF IInv, Disk
<1>2. Shown(target)' = target' /\ {Shown(f) : f \in durable}' = durable'
  BY ShownIntactNext DEF IInv, Disk
<1>t. TypeOK
  BY DEF IInv
<1>q. CASE UNCHANGED <<target, durable, acked>>
  BY <1>1, <1>2, <1>q
<1>l. CASE PowerLoss
  BY <1>1, <1>2, <1>l DEF PowerLoss, Register!Next, Register!PowerLoss
<1>s. ASSUME NEW p \in Procs, Step(p)
      PROVE  Register!Next \/ UNCHANGED <<target, durable, acked>>
  <2>w. Writing(p)
    BY DEF IInv, Calls
  <2>1. CASE Rename(p)
    <3>1. ino[p] \in File /\ target < ino[p]
      BY <1>t, <2>1, <2>w DEF Rename, Writing, TypeOK
    <3>2. ino[p] > target
      BY <1>t, <3>1 DEF TypeOK, File, NoFile
    <3>3. CASE target' = ino[p] /\ durable' = durable \cup {ino[p]} /\ UNCHANGED acked
      BY <1>1, <1>2, <3>1, <3>2, <3>3 DEF Register!Next, Register!Replace
    <3>. QED BY <2>1, <3>3 DEF Rename
  <2>2. CASE SyncParentDir(p)
    <3>1. UNCHANGED <<target, acked>> /\ (durable' = durable \/ durable' = {target})
      BY <2>2 DEF SyncParentDir, durable_after_dir_sync
    <3>. QED BY <1>1, <1>2, <3>1 DEF Register!Next, Register!Flush
  <2>3. CASE UnlockWrite(p)
    <3>1. UNCHANGED <<target, durable>>
      BY <2>3 DEF UnlockWrite, disk
    <3>2. acked' = acked \/ (acked' = ino[p] /\ durable = {ino[p]})
      BY <2>w, <2>3 DEF UnlockWrite, Outcome, Writing
    <3>3. target \in durable
      BY <1>t DEF TypeOK
    <3>. QED BY <1>1, <1>2, <3>1, <3>2, <3>3 DEF Register!Next, Register!Acknowledge
  <2>4. CASE ~Rename(p) /\ ~SyncParentDir(p) /\ ~UnlockWrite(p)
    BY <1>s, <2>4
    DEF Step, Writer, Reader, Begin, Refuse, LockExclusive, CreateTemp, CreateTempFails, WriteAll,
        SyncTempFile, Cleanup, LockShared, Open, Read, UnlockRead, Kill, disk
  <2>. QED BY <2>1, <2>2, <2>3, <2>4
<1>u. CASE UNCHANGED vars
  BY <1>u, <1>q DEF vars, disk
<1>. QED BY <1>q, <1>l, <1>s, <1>u, NextSteps

\* vault/storage.rs implements an atomic, durable register of whole writes.
THEOREM Refinement == Spec => RefinesAtomicFile
<1>1. Init => Register!Init
  BY DEF Init, Register!Init, Shown, NoFile
<1>. QED BY <1>1, RegisterStep, Invariance, PTL DEF Spec, RefinesAtomicFile, Register!Spec
=============================================================================

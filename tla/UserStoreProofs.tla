-------------------------- MODULE UserStoreProofs --------------------------
(***************************************************************************)
(* Theorems about the user store, for every set of users, seed and number  *)
(* of concurrent requests.                                                 *)
(***************************************************************************)
EXTENDS UserStore, TLAPS

Writing == {"create", "write", "sync", "rename", "dirsync", "commit", "swap"}
Synced(S) == [st |-> "synced", data |-> S]

\* A request that has not been answered is about a user.
TypeIInv == TypeOK /\ \A t \in Tasks : pc[t] # "idle" => op[t].user \in Users

\* The lock is held exactly by the process between Decide (or SeedFile) and
\* the end of its call.
LockInv ==
    /\ \A p \in Procs : lock = p <=> pc[p] \in Writing
    /\ pc[Boot] # "wait"
    /\ mode = "boot" <=> lock = Boot
    /\ mode # "up" => \A t \in Tasks : pc[t] = "idle"

\* The candidate reaches the temp file before the rename.
TmpInv ==
    \A p \in Procs : /\ pc[p] = "sync" => tmp.data = cand[p]
                     /\ pc[p] = "rename" => tmp = Synced(cand[p])

\* Only fsync'd contents are ever renamed over the store.
FileInv ==
    /\ file = Absent \/ file.st = "synced"
    /\ durable = Absent \/ durable.st = "synced"

\* A candidate differs from the snapshot in the request's user only.
OpInv ==
    /\ \A t \in Tasks : pc[t] \in Writing =>
         cand[t] = IF op[t].kind = "add" THEN handle \cup {op[t].user}
                                         ELSE handle \ {op[t].user}
    /\ pc[Boot] \in Writing => cand[Boot] = Seed

\* Records and snapshot agree except between Commit and Swap.
MemInv ==
    /\ \A p \in Procs : pc[p] = "swap" => records = cand[p]
    /\ mode = "up" /\ (\A p \in Procs : pc[p] # "swap") => handle = records

\* The file holds the records, or the candidate once it is renamed.
DiskInv ==
    /\ mode = "up" /\ lock = None => file = Synced(records)
    /\ \A p \in Procs :
         /\ pc[p] \in {"create", "write", "sync", "rename"} =>
              file = IF p = Boot THEN Absent ELSE Synced(records)
         /\ pc[p] \in {"dirsync", "commit", "swap"} => file = Synced(cand[p])

FileIInv == TypeIInv /\ LockInv /\ TmpInv /\ FileInv
Base == FileIInv /\ OpInv /\ MemInv /\ DiskInv

\* No kill and no failing directory fsync: the disk lags behind the file
\* only between the rename and the directory's fsync.
NoLag == "kill" \notin Crashes /\ ~DirSyncMayFail
DurableInv ==
    /\ (\A p \in Procs : pc[p] # "dirsync") => durable = file
    /\ \A p \in Procs : pc[p] = "dirsync" =>
         durable = IF p = Boot THEN Absent ELSE Synced(records)

\* A promise is kept by every copy a later boot may load, and by the snapshot.
PromiseInv ==
    \A u \in Users : promised[u] # "free" =>
        /\ file.st = "synced" /\ (u \in file.data <=> promised[u] = "in")
        /\ "power" \in Crashes =>
             durable.st = "synced" /\ (u \in durable.data <=> promised[u] = "in")
        /\ mode = "up" => (u \in handle <=> promised[u] = "in")
        /\ \A t \in Tasks : pc[t] # "idle" => op[t].user # u

DurableIInv == Base /\ DurableInv

\* Power losses come neither with kills nor with failing directory fsyncs.
SafeCrashes == "power" \in Crashes => NoLag
PromiseIInv == Base /\ ("power" \in Crashes => DurableInv) /\ PromiseInv

-----------------------------------------------------------------------------
\* The store starts with every variable of its type.
LEMMA TypeInit == Init => TypeIInv
    BY StoreAssumption, SMTT(30) DEF Init, TypeIInv, TypeOK, Procs, File, Absent, NoOp, Kinds, Steps

\* Every step keeps the types.
LEMMA TypeStep == TypeIInv /\ [Next]_vars => TypeIInv'
<1> SUFFICES ASSUME TypeIInv, [Next]_vars PROVE TypeIInv'
    BY Zenon
<1> USE StoreAssumption DEF TypeIInv, TypeOK, Procs, File, Absent, NoOp, Kinds, Steps
<1>1. CASE LoadFile
    BY <1>1, Zenon DEF LoadFile
<1>2. CASE SeedFile
    BY <1>2, ZenonT(60) DEF SeedFile
<1>3. CASE Killed
    BY <1>3, Zenon DEF Killed, Stop, fsVars
<1>4. CASE PowerLoss
    BY <1>4 DEF PowerLoss, Stop, AfterPowerLoss
<1>5. ASSUME NEW t \in Tasks, Decide(t) PROVE TypeIInv'
    BY <1>5, SMTT(30) DEF Decide, Settled, Reply, Return
<1>6. ASSUME NEW t \in Tasks, NEW k \in Kinds, NEW u \in Users, Request(t, k, u)
      PROVE TypeIInv'
    BY <1>6 DEF Request, Kinds
<1>7. ASSUME NEW p \in Procs, Create(p) PROVE TypeIInv'
    BY <1>7, Zenon DEF Create
<1>8. ASSUME NEW p \in Procs, WriteAll(p) PROVE TypeIInv'
    BY <1>8, Zenon DEF WriteAll
<1>9. ASSUME NEW p \in Procs, SyncTmp(p) PROVE TypeIInv'
    BY <1>9, Zenon DEF SyncTmp
<1>10. ASSUME NEW p \in Procs, Rename(p) PROVE TypeIInv'
    BY <1>10, Zenon DEF Rename
<1>11. ASSUME NEW p \in Procs, PersistFails(p) PROVE TypeIInv'
    BY <1>11, Zenon DEF PersistFails, Return
<1>12. ASSUME NEW p \in Procs, SyncDir(p) PROVE TypeIInv'
    BY <1>12 DEF SyncDir
<1>13. ASSUME NEW p \in Procs, Commit(p) PROVE TypeIInv'
    BY <1>13 DEF Commit
<1>14. ASSUME NEW p \in Procs, Swap(p) PROVE TypeIInv'
    BY <1>14, Zenon DEF Swap, Reply, Return
<1>15. CASE UNCHANGED vars
    BY <1>15 DEF vars
<1> HIDE DEF TypeIInv, TypeOK, Procs, File, Absent, NoOp, Kinds, Steps
<1> QED
    BY <1>1, <1>2, <1>3, <1>4, <1>5, <1>6, <1>7, <1>8, <1>9, <1>10, <1>11, <1>12, <1>13, <1>14,
       <1>15, ZenonT(60) DEF Next

\* Every variable keeps its type, whatever crashes happen (users.rs).
THEOREM TypeCorrect == Spec => []TypeOK
<1>1. TypeIInv => TypeOK
    BY Zenon DEF TypeIInv
<1> QED
    BY TypeInit, TypeStep, <1>1, PTL DEF Spec

-----------------------------------------------------------------------------
\* The file invariant holds at the start.
LEMMA FileInit == Init => FileIInv
    BY TypeInit, StoreAssumption DEF Init, FileIInv, LockInv, TmpInv, FileInv, Writing, Procs,
       Absent

\* Every step keeps the file invariant.
LEMMA FileStep == FileIInv /\ [Next]_vars => FileIInv'
<1> SUFFICES ASSUME FileIInv, [Next]_vars PROVE FileIInv'
    OBVIOUS
<1>0. TypeIInv'
    BY TypeStep, Zenon DEF FileIInv
<1> USE StoreAssumption DEF FileIInv, LockInv, TmpInv, FileInv, Writing, Synced, TypeIInv, TypeOK,
    Procs, File, Absent, NoOp, Kinds, Steps
<1>1. ASSUME LoadFile PROVE (LockInv /\ TmpInv /\ FileInv)'
    BY <1>1, Zenon DEF LoadFile
<1>2. ASSUME SeedFile PROVE (LockInv /\ TmpInv /\ FileInv)'
    BY <1>2 DEF SeedFile
<1>3. ASSUME Killed PROVE (LockInv /\ TmpInv /\ FileInv)'
    BY <1>3 DEF Killed, Stop, fsVars
<1>4. ASSUME PowerLoss PROVE (LockInv /\ TmpInv /\ FileInv)'
    BY <1>4 DEF PowerLoss, Stop, AfterPowerLoss
<1>5. ASSUME NEW t \in Tasks, Decide(t) PROVE (LockInv /\ TmpInv /\ FileInv)'
    BY <1>5 DEF Decide, Settled, Reply, Return
<1>6. ASSUME NEW t \in Tasks, NEW k \in Kinds, NEW u \in Users, Request(t, k, u)
      PROVE (LockInv /\ TmpInv /\ FileInv)'
    BY <1>6 DEF Request, Kinds
<1>7. ASSUME NEW p \in Procs, Create(p) PROVE (LockInv /\ TmpInv /\ FileInv)'
    BY <1>7 DEF Create
<1>8. ASSUME NEW p \in Procs, WriteAll(p) PROVE (LockInv /\ TmpInv /\ FileInv)'
    BY <1>8 DEF WriteAll
<1>9. ASSUME NEW p \in Procs, SyncTmp(p) PROVE (LockInv /\ TmpInv /\ FileInv)'
    BY <1>9 DEF SyncTmp
<1>10. ASSUME NEW p \in Procs, Rename(p) PROVE (LockInv /\ TmpInv /\ FileInv)'
    BY <1>10 DEF Rename
<1>11. ASSUME NEW p \in Procs, PersistFails(p) PROVE (LockInv /\ TmpInv /\ FileInv)'
  <2>1. pc' = [pc EXCEPT ![p] = "idle"] /\ lock' = None /\ lock = p
    BY <1>11, Zenon DEF PersistFails, Return
  <2>2. LockInv'
    BY <1>11, <2>1 DEF PersistFails
  <2>3. TmpInv' /\ FileInv'
    BY <1>11, <2>1 DEF PersistFails, Return
  <2> QED
    BY <2>2, <2>3, Zenon
<1>12. ASSUME NEW p \in Procs, SyncDir(p) PROVE (LockInv /\ TmpInv /\ FileInv)'
    BY <1>12, Zenon DEF SyncDir
<1>13. ASSUME NEW p \in Procs, Commit(p) PROVE (LockInv /\ TmpInv /\ FileInv)'
    BY <1>13, Zenon DEF Commit
<1>14. ASSUME NEW p \in Procs, Swap(p) PROVE (LockInv /\ TmpInv /\ FileInv)'
    BY <1>14 DEF Swap, Reply, Return
<1>15. ASSUME UNCHANGED vars PROVE (LockInv /\ TmpInv /\ FileInv)'
    BY <1>15, Zenon DEF vars
<1> HIDE DEF FileIInv, LockInv, TmpInv, FileInv, Writing, Synced, TypeIInv, TypeOK, Procs, File,
    Absent, NoOp, Kinds, Steps
<1> QED
    BY <1>0, <1>1, <1>2, <1>3, <1>4, <1>5, <1>6, <1>7, <1>8, <1>9, <1>10, <1>11, <1>12, <1>13,
       <1>14, <1>15, Zenon DEF Next, FileIInv

\* No interleaving of requests, failures and crashes leaves a store the next
\* boot cannot parse (persist fsyncs the sibling before the rename).
THEOREM StoreLoads == Spec => []StoreAlwaysLoads
<1>1. FileIInv => StoreAlwaysLoads
    BY DEF FileIInv, FileInv, StoreAlwaysLoads, Absent
<1> QED
    BY FileInit, FileStep, <1>1, PTL DEF Spec

-----------------------------------------------------------------------------
\* The invariant of operations, memory and disk holds at the start.
LEMMA BaseInit == Init => Base
    BY FileInit, StoreAssumption, Zenon DEF Init, Base, OpInv, MemInv, DiskInv, Writing, Procs,
       Absent

\* Every step keeps the invariant of operations, memory and disk.
LEMMA BaseStep == Base /\ [Next]_vars => Base'
<1> SUFFICES ASSUME Base, [Next]_vars PROVE Base'
    OBVIOUS
<1>0. FileIInv'
    BY FileStep, Zenon DEF Base
<1> USE StoreAssumption DEF Base, OpInv, MemInv, DiskInv, FileIInv, LockInv, TmpInv, FileInv,
    Writing, Synced, TypeIInv, TypeOK, Procs, File, Absent, NoOp, Kinds, Steps
<1>1. ASSUME LoadFile PROVE (OpInv /\ MemInv /\ DiskInv)'
    BY <1>1 DEF LoadFile
<1>2. ASSUME SeedFile PROVE (OpInv /\ MemInv /\ DiskInv)'
    BY <1>2 DEF SeedFile
<1>3. ASSUME Killed PROVE (OpInv /\ MemInv /\ DiskInv)'
    BY <1>3, Zenon DEF Killed, Stop, fsVars
<1>4. ASSUME PowerLoss PROVE (OpInv /\ MemInv /\ DiskInv)'
    BY <1>4, Zenon DEF PowerLoss, Stop, AfterPowerLoss
<1>5. ASSUME NEW t \in Tasks, Decide(t) PROVE (OpInv /\ MemInv /\ DiskInv)'
  <2>1. mode = "up" /\ handle = records /\ file = Synced(records) /\ pc[t] = "wait"
    BY <1>5 DEF Decide
  <2>2. \A p \in Procs : pc[p] \notin Writing
    BY <1>5 DEF Decide
  <2>3. UNCHANGED <<mode, records, handle, tmp, file, durable>>
    BY <1>5, Zenon DEF Decide
  <2>4. CASE Settled(t)
    <3>1. pc' = [pc EXCEPT ![t] = "idle"] /\ lock' = lock
      BY <1>5, <2>4, Zenon DEF Decide, Return
    <3> QED
      BY <2>1, <2>2, <2>3, <3>1
  <2>5. CASE ~Settled(t)
    <3>1. /\ pc' = [pc EXCEPT ![t] = "create"] /\ lock' = t /\ op' = op
          /\ cand' = [cand EXCEPT ![t] =
                        IF op[t].kind = "add" THEN records \cup {op[t].user}
                                              ELSE records \ {op[t].user}]
      BY <1>5, <2>5, Zenon DEF Decide
    <3>2. OpInv'
      BY <2>1, <2>2, <2>3, <3>1, ZenonT(60)
    <3>3. MemInv' /\ DiskInv'
      BY <2>1, <2>2, <2>3, <3>1
    <3> QED
      BY <3>2, <3>3, Zenon
  <2> QED
    BY <2>4, <2>5, ZenonT(40)
<1>6. ASSUME NEW t \in Tasks, NEW k \in Kinds, NEW u \in Users, Request(t, k, u)
      PROVE (OpInv /\ MemInv /\ DiskInv)'
    BY <1>6 DEF Request, Kinds
<1>7. ASSUME NEW p \in Procs, Create(p) PROVE (OpInv /\ MemInv /\ DiskInv)'
    BY <1>7 DEF Create
<1>8. ASSUME NEW p \in Procs, WriteAll(p) PROVE (OpInv /\ MemInv /\ DiskInv)'
    BY <1>8 DEF WriteAll
<1>9. ASSUME NEW p \in Procs, SyncTmp(p) PROVE (OpInv /\ MemInv /\ DiskInv)'
    BY <1>9 DEF SyncTmp
<1>10. ASSUME NEW p \in Procs, Rename(p) PROVE (OpInv /\ MemInv /\ DiskInv)'
    BY <1>10 DEF Rename
<1>11. ASSUME NEW p \in Procs, PersistFails(p) PROVE (OpInv /\ MemInv /\ DiskInv)'
    BY <1>11 DEF PersistFails, Return
<1>12. ASSUME NEW p \in Procs, SyncDir(p) PROVE (OpInv /\ MemInv /\ DiskInv)'
    BY <1>12 DEF SyncDir
<1>13. ASSUME NEW p \in Procs, Commit(p) PROVE (OpInv /\ MemInv /\ DiskInv)'
    BY <1>13, SMTT(30) DEF Commit
<1>14. ASSUME NEW p \in Procs, Swap(p) PROVE (OpInv /\ MemInv /\ DiskInv)'
    BY <1>14, SMTT(30) DEF Swap, Reply, Return
<1>15. ASSUME UNCHANGED vars PROVE (OpInv /\ MemInv /\ DiskInv)'
    BY <1>15, ZenonT(60) DEF vars
<1> HIDE DEF Base, OpInv, MemInv, DiskInv, FileIInv, LockInv, TmpInv, FileInv, Writing, Synced,
    TypeIInv, TypeOK, Procs, File, Absent, NoOp, Kinds, Steps
<1> QED
    BY <1>0, <1>1, <1>2, <1>3, <1>4, <1>5, <1>6, <1>7, <1>8, <1>9, <1>10, <1>11, <1>12, <1>13,
       <1>14, <1>15, Zenon DEF Next, Base

-----------------------------------------------------------------------------
\* The durable file agrees with the promise at the start.
LEMMA DurableInit == Init => DurableIInv
    BY BaseInit, Zenon DEF Init, DurableIInv, DurableInv, Procs

\* Every step keeps it where the directory does not lag.
LEMMA DurableStep == NoLag /\ DurableIInv /\ [Next]_vars => DurableIInv'
<1> SUFFICES ASSUME NoLag, DurableIInv, [Next]_vars PROVE DurableIInv'
    BY Zenon
<1>0. Base'
    BY BaseStep, Zenon DEF DurableIInv
<1> USE StoreAssumption DEF DurableIInv, DurableInv, NoLag, Base, OpInv, MemInv, DiskInv,
    FileIInv, LockInv, TmpInv, FileInv, Writing, Synced, TypeIInv, TypeOK, Procs, File, Absent,
    NoOp, Kinds, Steps
<1>1. ASSUME LoadFile PROVE DurableInv'
    BY <1>1, Zenon DEF LoadFile
<1>2. ASSUME SeedFile PROVE DurableInv'
    BY <1>2, Zenon DEF SeedFile
<1>3. ASSUME Killed PROVE DurableInv'
    BY <1>3, Zenon DEF Killed, Stop, fsVars
<1>4. ASSUME PowerLoss PROVE DurableInv'
    BY <1>4, ZenonT(60) DEF PowerLoss, Stop, AfterPowerLoss
<1>5. ASSUME NEW t \in Tasks, Decide(t) PROVE DurableInv'
    BY <1>5, SMTT(30) DEF Decide, Settled, Reply, Return
<1>6. ASSUME NEW t \in Tasks, NEW k \in Kinds, NEW u \in Users, Request(t, k, u)
      PROVE DurableInv'
    BY <1>6, ZenonT(60) DEF Request, Kinds
<1>7. ASSUME NEW p \in Procs, Create(p) PROVE DurableInv'
    BY <1>7 DEF Create
<1>8. ASSUME NEW p \in Procs, WriteAll(p) PROVE DurableInv'
    BY <1>8 DEF WriteAll
<1>9. ASSUME NEW p \in Procs, SyncTmp(p) PROVE DurableInv'
    BY <1>9 DEF SyncTmp
<1>10. ASSUME NEW p \in Procs, Rename(p) PROVE DurableInv'
    BY <1>10 DEF Rename
<1>11. ASSUME NEW p \in Procs, PersistFails(p) PROVE DurableInv'
    BY <1>11 DEF PersistFails, Return
<1>12. ASSUME NEW p \in Procs, SyncDir(p) PROVE DurableInv'
    BY <1>12 DEF SyncDir
<1>13. ASSUME NEW p \in Procs, Commit(p) PROVE DurableInv'
    BY <1>13, SMTT(30) DEF Commit
<1>14. ASSUME NEW p \in Procs, Swap(p) PROVE DurableInv'
    BY <1>14, SMTT(30) DEF Swap, Reply, Return
<1>15. ASSUME UNCHANGED vars PROVE DurableInv'
    BY <1>15, ZenonT(60) DEF vars
<1> HIDE DEF DurableIInv, DurableInv, NoLag, Base, OpInv, MemInv, DiskInv, FileIInv, LockInv,
    TmpInv, FileInv, Writing, Synced, TypeIInv, TypeOK, Procs, File, Absent, NoOp, Kinds, Steps
<1> QED
    BY <1>0, <1>1, <1>2, <1>3, <1>4, <1>5, <1>6, <1>7, <1>8, <1>9, <1>10, <1>11, <1>12, <1>13,
       <1>14, <1>15, Zenon DEF Next, DurableIInv

\* The snapshot never runs ahead of the disk (add and remove persist first),
\* as long as no kill and no failed directory fsync leaves a rename volatile.
THEOREM SnapshotDurable == ASSUME NoLag PROVE Spec => []SnapshotIsDurable
<1>1. DurableIInv => SnapshotIsDurable
  <2> SUFFICES ASSUME DurableIInv, mode = "up", NEW u \in Users,
                      (u \in handle) # (u \in durable.data)
               PROVE \E t \in Tasks : pc[t] \in {"commit", "swap"} /\ op[t].user = u
    BY Zenon DEF SnapshotIsDurable
  <2> USE StoreAssumption DEF DurableIInv, DurableInv, NoLag, Base, OpInv, MemInv, DiskInv,
      FileIInv, LockInv, TmpInv, FileInv, Writing, Synced, TypeIInv, TypeOK, Procs, File, Absent,
      NoOp, Kinds, Steps
  <2>1. lock # None
    OBVIOUS
  <2>2. PICK t \in Tasks : lock = t
    BY <2>1, Zenon
  <2>3. pc[t] \in {"commit", "swap"}
    BY <2>2
  <2>4. durable.data = cand[t]
    BY <2>2, <2>3
  <2>5. op[t].user = u
    BY <2>2, <2>3, <2>4
  <2> QED
    BY <2>3, <2>5, Zenon
<1>2. DurableIInv /\ [Next]_vars => DurableIInv'
    BY DurableStep, Zenon
<1> QED
    BY DurableInit, <1>1, <1>2, PTL DEF Spec

\* A step of the store is a step of the set or leaves it alone.
LEMMA SetStep == NoLag /\ DurableIInv /\ [Next]_vars => [Abstract!Next]_OnDisk
<1> SUFFICES ASSUME NoLag, DurableIInv, [Next]_vars PROVE [Abstract!Next]_OnDisk
    BY Zenon
<1>1. durable' = durable \/ durable' = file
    BY StoreAssumption DEF DurableIInv, DurableInv, NoLag, Base, OpInv, MemInv, DiskInv, FileIInv,
       LockInv, TmpInv, FileInv, Writing, Synced, TypeIInv, TypeOK, Procs, File, Absent, NoOp,
       Kinds, Steps, Next, vars, fsVars,
       LoadFile, SeedFile, Killed, PowerLoss, Stop, AfterPowerLoss, Decide, Request, Create,
       WriteAll, SyncTmp, Rename, PersistFails, SyncDir, Commit, Swap
<1>2. CASE durable' = durable \/ durable = file
    BY <1>1, <1>2, Zenon DEF OnDisk
<1>3. CASE durable' = file /\ durable # file
  <2>1. PICK p \in Procs : pc[p] = "dirsync"
    BY <1>3, Zenon DEF DurableIInv, DurableInv
  <2>2. file = Synced(cand[p])
    BY <2>1, Zenon DEF DurableIInv, DurableInv, NoLag, Base, OpInv, MemInv, DiskInv, FileIInv,
       LockInv, TmpInv, FileInv, Writing, Synced, TypeIInv, TypeOK, Procs, File, Absent, NoOp,
       Kinds, Steps
  <2>3. CASE p = Boot
    <3>1. OnDisk = Seed /\ OnDisk' = Seed
      BY <1>3, <2>1, <2>2, <2>3 DEF OnDisk, DurableIInv, DurableInv, NoLag, Base, OpInv, MemInv,
         DiskInv, FileIInv, LockInv, TmpInv, FileInv, Writing, Synced, TypeIInv, TypeOK, Procs,
         File, Absent, NoOp, Kinds, Steps
    <3> QED
      BY <3>1, Zenon
  <2>4. CASE p \in Tasks
    <3>1. durable = Synced(records) /\ handle = records
      BY <2>1, <2>4, StoreAssumption DEF DurableIInv, DurableInv, NoLag, Base, OpInv, MemInv,
         DiskInv, FileIInv, LockInv, TmpInv, FileInv, Writing, Synced, TypeIInv, TypeOK, Procs,
         File, Absent, NoOp, Kinds, Steps
    <3>2. OnDisk = handle /\ OnDisk' = cand[p]
      BY <1>3, <2>2, <3>1, Zenon DEF OnDisk, Synced
    <3>3. op[p].user \in Users /\ op[p].kind \in Kinds
      BY <2>1, <2>4, Zenon DEF DurableIInv, DurableInv, NoLag, Base, OpInv, MemInv, DiskInv,
         FileIInv, LockInv, TmpInv, FileInv, Writing, Synced, TypeIInv, TypeOK, Procs, File,
         Absent, NoOp, Kinds, Steps
    <3>4. cand[p] = IF op[p].kind = "add" THEN handle \cup {op[p].user}
                                          ELSE handle \ {op[p].user}
      BY <2>1, <2>4, Zenon DEF DurableIInv, DurableInv, NoLag, Base, OpInv, MemInv, DiskInv,
         FileIInv, LockInv, TmpInv, FileInv, Writing, Synced, TypeIInv, TypeOK, Procs, File,
         Absent, NoOp, Kinds, Steps
    <3> QED
      BY <3>2, <3>3, <3>4 DEF Abstract!Next, Abstract!Add, Abstract!Remove
  <2> QED
    BY <2>3, <2>4, Zenon DEF Procs
<1> QED
    BY <1>1, <1>2, <1>3, Zenon

\* The store on the disk goes through one-user changes only: the detailed
\* store implements the abstract set of users.
THEOREM StoreImplementsSet == ASSUME NoLag PROVE Spec => ImplementsUserSet
<1>1. Init => Abstract!Init
    BY DEF Init, Abstract!Init, OnDisk, Absent
<1>2. DurableIInv /\ [Next]_vars => DurableIInv'
    BY DurableStep
<1>3. DurableIInv /\ [Next]_vars => [Abstract!Next]_OnDisk
    BY SetStep, Zenon
<1> QED
    BY <1>1, <1>2, <1>3, DurableInit, PTL DEF Spec, ImplementsUserSet, Abstract!Spec

-----------------------------------------------------------------------------
\* No promise has been made at the start.
LEMMA PromiseInit == Init => PromiseIInv
    BY BaseInit, Zenon DEF Init, PromiseIInv, PromiseInv, DurableInv, Procs

\* Every step keeps the promises made.
LEMMA PromiseStep == SafeCrashes /\ PromiseIInv /\ [Next]_vars => PromiseIInv'
<1> SUFFICES ASSUME SafeCrashes, PromiseIInv, [Next]_vars PROVE PromiseIInv'
    OBVIOUS
<1>0. Base' /\ ("power" \in Crashes => DurableInv')
    BY BaseStep, DurableStep, Zenon DEF PromiseIInv, DurableIInv, SafeCrashes
<1> USE StoreAssumption DEF PromiseIInv, PromiseInv, DurableInv, Base, OpInv, MemInv, DiskInv,
    FileIInv, LockInv, TmpInv, FileInv, Writing, Synced, TypeIInv, TypeOK, Procs, File, Absent,
    NoOp, Kinds, Steps
<1>1. ASSUME LoadFile PROVE PromiseInv'
    BY <1>1, Zenon DEF LoadFile
<1>2. ASSUME SeedFile PROVE PromiseInv'
    BY <1>2, Zenon DEF SeedFile
<1>3. ASSUME Killed PROVE PromiseInv'
    BY <1>3, ZenonT(60) DEF Killed, Stop, fsVars
<1>4. ASSUME PowerLoss PROVE PromiseInv'
    BY <1>4, SMTT(30) DEF PowerLoss, Stop, AfterPowerLoss
<1>5. ASSUME NEW t \in Tasks, Decide(t) PROVE PromiseInv'
    BY <1>5, SMTT(30) DEF Decide, Settled, Reply, Return, PendingOn
<1>6. ASSUME NEW t \in Tasks, NEW k \in Kinds, NEW u \in Users, Request(t, k, u)
      PROVE PromiseInv'
    BY <1>6, SMTT(30) DEF Request, Kinds
<1>7. ASSUME NEW p \in Procs, Create(p) PROVE PromiseInv'
    BY <1>7, SMTT(30) DEF Create
<1>8. ASSUME NEW p \in Procs, WriteAll(p) PROVE PromiseInv'
    BY <1>8 DEF WriteAll
<1>9. ASSUME NEW p \in Procs, SyncTmp(p) PROVE PromiseInv'
    BY <1>9, SMTT(30) DEF SyncTmp
<1>10. ASSUME NEW p \in Procs, Rename(p) PROVE PromiseInv'
    BY <1>10, SMTT(30) DEF Rename
<1>11. ASSUME NEW p \in Procs, PersistFails(p) PROVE PromiseInv'
    BY <1>11 DEF PersistFails, Return
<1>12. ASSUME NEW p \in Procs, SyncDir(p) PROVE PromiseInv'
    BY <1>12, SMTT(30) DEF SyncDir
<1>13. ASSUME NEW p \in Procs, Commit(p) PROVE PromiseInv'
    BY <1>13, SMTT(30) DEF Commit
<1>14. ASSUME NEW p \in Procs, Swap(p) PROVE PromiseInv'
    BY <1>14 DEF Swap, Reply, Return, PendingOn
<1>15. ASSUME UNCHANGED vars PROVE PromiseInv'
    BY <1>15 DEF vars
<1> HIDE DEF PromiseIInv, PromiseInv, DurableInv, Base, OpInv, MemInv, DiskInv, FileIInv, LockInv,
    TmpInv, FileInv, Writing, Synced, TypeIInv, TypeOK, Procs, File, Absent, NoOp, Kinds, Steps
<1> QED
    BY <1>0, <1>1, <1>2, <1>3, <1>4, <1>5, <1>6, <1>7, <1>8, <1>9, <1>10, <1>11, <1>12, <1>13,
       <1>14, <1>15, Zenon DEF Next, PromiseIInv

\* What the admin API confirmed stays in force across restarts, until the next
\* request about that user: after kills alone even when the directory's fsync
\* fails, after power losses alone when it does not (add, remove, persist and
\* load_or_seed).
THEOREM PromisesKept == ASSUME SafeCrashes PROVE Spec => []PromiseKept
<1>1. PromiseIInv => PromiseKept
    BY Zenon DEF PromiseIInv, PromiseInv, PromiseKept
<1>2. PromiseIInv /\ [Next]_vars => PromiseIInv'
    BY PromiseStep
<1> QED
    BY PromiseInit, <1>1, <1>2, PTL DEF Spec

=============================================================================

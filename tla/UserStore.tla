----------------------------- MODULE UserStore -----------------------------
(***************************************************************************)
(* The durable user store of donut-server (crates/donut-server/src/        *)
(* users.rs): a JSON file that is the source of truth, the records guarded *)
(* by a tokio Mutex, and the hot-swapped snapshot (AuthHandle) that every  *)
(* session reads without the lock.                                         *)
(*                                                                         *)
(* A process of the model is one admin request, or the boot sequence.  The *)
(* file system keeps two views of the directory entry: `file', what the    *)
(* running system sees, and `durable', what a power loss cannot undo.      *)
(***************************************************************************)
EXTENDS Naturals

CONSTANTS
    Users,           \* the UUIDs that may appear
    Seed,            \* inbound.users of the config
    Tasks,           \* concurrent admin requests
    Boot,            \* the boot sequence, a process of its own
    None,            \* nobody holds the mutex
    Crashes,         \* the crashes considered: "kill", "power"
    DirSyncMayFail   \* the directory's fsync may fail (its result is ignored)

ASSUME StoreAssumption ==
    /\ Seed \subseteq Users
    /\ Boot \notin Tasks
    /\ None \notin Tasks \cup {Boot}
    /\ Crashes \subseteq {"kill", "power"}
    /\ DirSyncMayFail \in BOOLEAN

Procs == Tasks \cup {Boot}

VARIABLES
    mode,       \* "down", "boot" or "up"
    lock,       \* the holder of UserStore::inner, or None
    pc,         \* the step each process is at
    op,         \* the request of each process
    cand,       \* its candidate record set
    records,    \* Inner::records
    handle,     \* the snapshot the proxy reads
    tmp,        \* the sibling temp file
    file,       \* the store's path, as the running system sees it
    durable,    \* the store's path, as it is on the disk
    promised    \* history: what the admin was last told about each user

vars == <<mode, lock, pc, op, cand, records, handle, tmp, file, durable, promised>>
fsVars == <<tmp, file, durable>>

Kinds == {"add", "remove"}
Steps == {"idle", "wait", "create", "write", "sync", "rename", "dirsync", "commit", "swap"}

(***************************************************************************)
(* A directory entry: absent; written but not fsync'd ("dirty"); fsync'd;  *)
(* or torn, which is what dirty contents may become when the power fails.  *)
(***************************************************************************)
File == [st : {"absent", "dirty", "synced", "torn"}, data : SUBSET Users]
Absent == [st |-> "absent", data |-> {}]
AfterPowerLoss(f) ==
    IF f.st = "dirty"
    THEN {[st |-> "synced", data |-> f.data], [st |-> "torn", data |-> {}]}
    ELSE {f}

NoOp == [kind |-> "add", user |-> None]

Init ==
    /\ mode = "down" /\ lock = None
    /\ pc = [p \in Procs |-> "idle"]
    /\ op = [p \in Procs |-> NoOp]
    /\ cand = [p \in Procs |-> {}]
    /\ records = {} /\ handle = {}
    /\ tmp = Absent /\ file = Absent /\ durable = Absent
    /\ promised = [u \in Users |-> "free"]

-----------------------------------------------------------------------------
(***************************************************************************)
(* load_or_seed: the file wins when it is there and parses; otherwise the  *)
(* seed is persisted before the store exists.  A torn file is a parse      *)
(* error, and the server does not start.                                   *)
(***************************************************************************)
LoadFile ==
    /\ mode = "down" /\ file.st \in {"dirty", "synced"}
    /\ records' = file.data
    /\ handle' = file.data
    /\ mode' = "up"
    /\ UNCHANGED <<lock, pc, op, cand, tmp, file, durable, promised>>

SeedFile ==
    /\ mode = "down" /\ file.st = "absent"
    /\ mode' = "boot" /\ lock' = Boot
    /\ pc' = [pc EXCEPT ![Boot] = "create"]
    /\ cand' = [cand EXCEPT ![Boot] = Seed]
    /\ UNCHANGED <<op, records, handle, tmp, file, durable, promised>>

(***************************************************************************)
(* A request to add or to remove u reaches the store and queues for the    *)
(* mutex.  From here on its outcome is open, so the promise lapses.        *)
(***************************************************************************)
Request(t, k, u) ==
    /\ mode = "up" /\ pc[t] = "idle"
    /\ op' = [op EXCEPT ![t] = [kind |-> k, user |-> u]]
    /\ pc' = [pc EXCEPT ![t] = "wait"]
    /\ promised' = [promised EXCEPT ![u] = "free"]
    /\ UNCHANGED <<mode, lock, cand, records, handle, tmp, file, durable>>

\* The call returns: its locals are gone.
Return(p) ==
    /\ pc' = [pc EXCEPT ![p] = "idle"]
    /\ op' = [op EXCEPT ![p] = NoOp]
    /\ cand' = [cand EXCEPT ![p] = {}]

\* A request on u, other than t's, whose reply has not been sent.
PendingOn(u, t) == \E s \in Tasks \ {t} : pc[s] # "idle" /\ op[s].user = u

\* What the reply to t's request entitles the admin to rely on.
Reply(t, v) ==
    promised' = IF PendingOn(op[t].user, t) THEN promised
                ELSE [promised EXCEPT ![op[t].user] = v]

(***************************************************************************)
(* add and remove up to the call of persist: with the lock held, the       *)
(* request is either settled by the records (Duplicate, Ok(false)) or a    *)
(* candidate is built.                                                     *)
(***************************************************************************)
Settled(t) ==
    IF op[t].kind = "add" THEN op[t].user \in records ELSE op[t].user \notin records

\* Faulty variant: the mutex is not taken into account.
DecideUnlocked(t) ==
    /\ pc[t] = "wait" /\ ~Settled(t)
    /\ lock' = t
    /\ cand' = [cand EXCEPT ![t] =
                  IF op[t].kind = "add" THEN records \cup {op[t].user}
                                        ELSE records \ {op[t].user}]
    /\ pc' = [pc EXCEPT ![t] = "create"]
    /\ UNCHANGED <<mode, op, records, handle, tmp, file, durable, promised>>

Decide(t) ==
    /\ pc[t] = "wait" /\ lock = None
    /\ \/ /\ Settled(t)
          /\ Reply(t, IF op[t].kind = "add" THEN "in" ELSE "out")
          /\ Return(t)
          /\ UNCHANGED lock
       \/ /\ ~Settled(t)
          /\ lock' = t
          /\ cand' = [cand EXCEPT ![t] =
                        IF op[t].kind = "add" THEN records \cup {op[t].user}
                                              ELSE records \ {op[t].user}]
          /\ pc' = [pc EXCEPT ![t] = "create"]
          /\ UNCHANGED <<op, promised>>
    /\ UNCHANGED <<mode, records, handle, tmp, file, durable>>

(***************************************************************************)
(* persist, one system call at a time.  Each of the first four may fail;   *)
(* the caller then returns the error and releases the lock.                *)
(***************************************************************************)
Create(p) ==
    /\ pc[p] = "create"
    /\ tmp' = [st |-> "dirty", data |-> {}]
    /\ pc' = [pc EXCEPT ![p] = "write"]
    /\ UNCHANGED <<mode, lock, op, cand, records, handle, file, durable, promised>>

WriteAll(p) ==
    /\ pc[p] = "write"
    /\ tmp' = [st |-> "dirty", data |-> cand[p]]
    /\ pc' = [pc EXCEPT ![p] = "sync"]
    /\ UNCHANGED <<mode, lock, op, cand, records, handle, file, durable, promised>>

SyncTmp(p) ==
    /\ pc[p] = "sync"
    /\ tmp' = [tmp EXCEPT !.st = "synced"]
    /\ pc' = [pc EXCEPT ![p] = "rename"]
    /\ UNCHANGED <<mode, lock, op, cand, records, handle, file, durable, promised>>

Rename(p) ==
    /\ pc[p] = "rename"
    /\ file' = tmp /\ tmp' = Absent
    /\ pc' = [pc EXCEPT ![p] = "dirsync"]
    /\ UNCHANGED <<mode, lock, op, cand, records, handle, durable, promised>>

\* Faulty variant: the error path keeps the lock.
PersistFailsLocked(p) ==
    /\ pc[p] \in {"create", "write", "sync", "rename"}
    /\ Return(p)
    /\ mode' = IF p = Boot THEN "down" ELSE mode
    /\ UNCHANGED <<lock, records, handle, tmp, file, durable, promised>>

PersistFails(p) ==
    /\ pc[p] \in {"create", "write", "sync", "rename"}
    /\ Return(p)
    /\ lock' = None
    /\ mode' = IF p = Boot THEN "down" ELSE mode
    /\ UNCHANGED <<records, handle, tmp, file, durable, promised>>

\* Faulty variant: the directory is not fsync'd.
SyncDirSkipped(p) ==
    /\ pc[p] = "dirsync"
    /\ pc' = [pc EXCEPT ![p] = "commit"]
    /\ UNCHANGED <<mode, lock, op, cand, records, handle, fsVars, promised>>

\* Faulty variant: a failed fsync removes the file, and the request goes on.
SyncDirCleansUp(p) ==
    /\ pc[p] = "dirsync"
    /\ \/ durable' = file /\ UNCHANGED file
       \/ DirSyncMayFail /\ file' = Absent /\ UNCHANGED durable
    /\ pc' = [pc EXCEPT ![p] = "commit"]
    /\ UNCHANGED <<mode, lock, op, cand, records, handle, tmp, promised>>

SyncDir(p) ==
    /\ pc[p] = "dirsync"
    /\ \/ durable' = file
       \/ DirSyncMayFail /\ UNCHANGED durable
    /\ pc' = [pc EXCEPT ![p] = "commit"]
    /\ UNCHANGED <<mode, lock, op, cand, records, handle, tmp, file, promised>>

(***************************************************************************)
(* The rest of add and remove: the records, then the snapshot, the reply.  *)
(* For the boot sequence: the store is built and the server starts.        *)
(***************************************************************************)
Commit(p) ==
    /\ pc[p] = "commit"
    /\ records' = cand[p]
    /\ pc' = [pc EXCEPT ![p] = "swap"]
    /\ UNCHANGED <<mode, lock, op, cand, handle, tmp, file, durable, promised>>

Swap(p) ==
    /\ pc[p] = "swap"
    /\ handle' = records
    /\ lock' = None /\ mode' = "up"
    /\ Return(p)
    /\ IF p = Boot THEN UNCHANGED promised
       ELSE Reply(p, IF op[p].kind = "add" THEN "in" ELSE "out")
    /\ UNCHANGED <<records, tmp, file, durable>>

-----------------------------------------------------------------------------
(***************************************************************************)
(* The environment: the process is killed, or the machine loses power.  A  *)
(* power loss may or may not keep a rename that was not yet fsync'd.       *)
(***************************************************************************)
Stop ==
    /\ mode' = "down" /\ lock' = None
    /\ pc' = [p \in Procs |-> "idle"]
    /\ op' = [p \in Procs |-> NoOp]
    /\ cand' = [p \in Procs |-> {}]
    /\ records' = {} /\ handle' = {}
    /\ UNCHANGED promised

Killed == "kill" \in Crashes /\ mode # "down" /\ Stop /\ UNCHANGED fsVars

PowerLoss ==
    /\ "power" \in Crashes /\ Stop
    /\ \E f \in {file, durable} : \E g \in AfterPowerLoss(f) :
          file' = g /\ durable' = g
    /\ tmp' = Absent

Next ==
    \/ LoadFile \/ SeedFile \/ Killed \/ PowerLoss
    \/ \E t \in Tasks : Decide(t) \/ \E k \in Kinds, u \in Users : Request(t, k, u)
    \/ \E p \in Procs : \/ Create(p) \/ WriteAll(p) \/ SyncTmp(p) \/ Rename(p)
                        \/ PersistFails(p) \/ SyncDir(p) \/ Commit(p) \/ Swap(p)

Spec == Init /\ [][Next]_vars

(***************************************************************************)
(* Fairness: a task that can run is run (the tokio scheduler), and a task  *)
(* queued on the mutex gets it in turn (tokio::sync::Mutex is FIFO).  No   *)
(* system call is forced to fail or to succeed, no crash is forced.        *)
(***************************************************************************)
Persist(p) == Create(p) \/ WriteAll(p) \/ SyncTmp(p) \/ Rename(p) \/ PersistFails(p)
                 \/ SyncDir(p) \/ Commit(p) \/ Swap(p)
Fairness ==
    /\ \A p \in Procs : WF_vars(Persist(p))
    /\ \A t \in Tasks : SF_vars(Decide(t))
FairSpec == Spec /\ Fairness

-----------------------------------------------------------------------------
TypeOK ==
    /\ mode \in {"down", "boot", "up"}
    /\ lock \in Procs \cup {None}
    /\ pc \in [Procs -> Steps]
    /\ op \in [Procs -> [kind : Kinds, user : Users \cup {None}]]
    /\ cand \in [Procs -> SUBSET Users]
    /\ records \in SUBSET Users /\ handle \in SUBSET Users
    /\ tmp \in File /\ file \in File /\ durable \in File
    /\ promised \in [Users -> {"in", "out", "free"}]

(***************************************************************************)
(* What the admin API answered holds from then on, through kills and power *)
(* losses: a user whose addition was confirmed is authorised whenever the  *)
(* server is up, one whose removal was confirmed is not, until the next    *)
(* request about that user (users.rs add, remove and load_or_seed).        *)
(***************************************************************************)
PromiseKept ==
    mode = "up" => \A u \in Users : /\ promised[u] = "in" => u \in handle
                                    /\ promised[u] = "out" => u \notin handle

(***************************************************************************)
(* No session races ahead of durability: the snapshot the proxy reads      *)
(* differs from what a power loss would leave on the disk only in the user *)
(* of a request that has been made durable and is about to be swapped in   *)
(* (add and remove persist before they store the snapshot).                *)
(***************************************************************************)
SnapshotIsDurable ==
    mode = "up" => \A u \in Users :
        (u \in handle) # (u \in durable.data) =>
            \E t \in Tasks : pc[t] \in {"commit", "swap"} /\ op[t].user = u

(***************************************************************************)
(* No crash leaves a store the next boot cannot parse (persist writes and  *)
(* fsyncs a sibling file before it renames it over the store).             *)
(***************************************************************************)
StoreAlwaysLoads == file.st # "torn"

(***************************************************************************)
(* On the disk the store goes through one-user changes only: however the   *)
(* requests, failures and crashes interleave, what a reboot would load     *)
(* differs from what it would have loaded before by at most one user.      *)
(***************************************************************************)
OnDisk == IF durable.st = "absent" THEN Seed ELSE durable.data
Abstract == INSTANCE UserSet WITH set <- OnDisk
ImplementsUserSet == Abstract!Spec

(***************************************************************************)
(* Every request is answered, unless the process dies: the mutex is        *)
(* released on each path out of add and remove.                            *)
(***************************************************************************)
RequestsAnswered == \A t \in Tasks : pc[t] = "wait" ~> pc[t] = "idle"

=============================================================================

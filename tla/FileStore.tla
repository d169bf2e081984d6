------------------------------ MODULE FileStore ------------------------------
(***************************************************************************)
(* FileStore, the file-backed authority: every mutation is applied to the  *)
(* embedded MemoryStore and then the whole snapshot replaces the state file*)
(* (durablefile.Replace: temp file, fsync, rename, fsync of the directory).*)
(* Any of these steps may fail, in which case the memory is restored to the*)
(* snapshot taken before the call; the process may die between any two of  *)
(* them, and so may the machine, which loses whatever was not synced.      *)
(*                                                                         *)
(* A method of MemoryStore that returns an error may have changed the      *)
(* memory all the same: NextTenantTask fails a delete whose lease has run  *)
(* out and finds no task.  Most wrappers then return at once, with neither *)
(* persist nor Restore; a few persist first and return the error after.    *)
(*                                                                         *)
(* Readers are left out: they take only MemoryStore's own lock, change     *)
(* nothing and may see a mutation that is taken back later.  So are calls  *)
(* that replay an earlier one: they have no effect of their own.           *)
(*                                                                         *)
(* A mutating call is an element of Calls, the contents of the store the   *)
(* set of calls whose effect it holds.  A file is its contents and whether *)
(* they are on the disk (SYNCED), only in the page cache (DIRTY) or have   *)
(* been lost (TORN); path is the directory entry as the running system     *)
(* sees it, stable the one on the disk.                                    *)
(***************************************************************************)
EXTENDS FiniteSets

CONSTANTS
  Calls,   \* mutating calls, each issued once
  NoCall,  \* nobody holds writeMu
  Unsaved, \* those whose method may change the memory and return an error, which the
           \* wrapper passes on (NextTenantTask, NextBaselineTask, QueueTenantAction,
           \* NextProviderClusterTask)
  Saved    \* those whose wrapper persists in spite of an error (NextVirtualClusterTask,
           \* NextClusterMaintenanceTask, ClaimNextOperationCompensationStep)

ASSUME FileStoreAssumption == NoCall \notin Calls /\ Unsaved \subseteq Calls /\ Saved \subseteq Calls

VARIABLES
  up,      \* the process is running (OpenFileStore succeeded)
  mem,     \* contents of MemoryStore
  writer,  \* the call that holds writeMu
  pc,      \* how far it has come
  before,  \* the snapshot it took first
  reply,   \* what MemoryStore answered it
  temp,    \* the temporary file
  path,    \* the state file, as the system sees it
  stable,  \* the state file, as a power loss would leave it
  result   \* what each caller was told

vars == <<up, mem, writer, pc, before, reply, temp, path, stable, result>>

File(data, disk) == [data |-> data, disk |-> disk]

\* A missing state file opens as the empty store.
Init ==
  /\ up = TRUE
  /\ mem = {}
  /\ writer = NoCall /\ pc = "IDLE" /\ before = {} /\ reply = "OK"
  /\ temp = File({}, "SYNCED") /\ path = File({}, "SYNCED") /\ stable = File({}, "SYNCED")
  /\ result = [c \in Calls |-> "NOT_CALLED"]

-----------------------------------------------------------------------------
(* mutate: the calls queue on writeMu. *)

Call(c) ==
  /\ up
  /\ result[c] = "NOT_CALLED"
  /\ result' = [result EXCEPT ![c] = "PENDING"]
  /\ UNCHANGED <<up, mem, writer, pc, before, reply, temp, path, stable>>

Acquire(c) ==
  /\ up
  /\ result[c] = "PENDING"
  /\ writer = NoCall
  /\ writer' = c
  /\ before' = mem
  /\ pc' = "CALL"
  /\ UNCHANGED <<up, mem, reply, temp, path, stable, result>>

AnswerKeepsLock(outcome) ==
  /\ result' = [result EXCEPT ![writer] = outcome]
  /\ writer' = writer
  /\ pc' = "IDLE"

Answer(outcome) ==
  /\ result' = [result EXCEPT ![writer] = outcome]
  /\ writer' = NoCall
  /\ pc' = "IDLE"

RefuseEndsUnanswered ==
  /\ pc = "CALL"
  /\ writer' = NoCall
  /\ pc' = "IDLE"
  /\ UNCHANGED <<up, mem, before, reply, temp, path, stable, result>>

\* MemoryStore refuses the call: nothing is persisted.
Refuse ==
  /\ pc = "CALL"
  /\ Answer("REFUSED")
  /\ UNCHANGED <<up, mem, before, reply, temp, path, stable>>

\* It refuses the call after it has changed the memory; nothing is persisted and
\* nothing taken back.
RefuseUnsaved ==
  /\ pc = "CALL" /\ writer \in Unsaved
  /\ mem' = mem \cup {writer}
  /\ Answer("REFUSED")
  /\ UNCHANGED <<up, before, reply, temp, path, stable>>

\* The error waits until the snapshot, changed or not, is on the disk.
RefuseSaved ==
  /\ pc = "CALL" /\ writer \in Saved
  /\ mem' \in {mem, mem \cup {writer}}
  /\ reply' = "REFUSED"
  /\ pc' = "APPLIED"
  /\ UNCHANGED <<up, writer, before, temp, path, stable, result>>

Apply ==
  /\ pc = "CALL"
  /\ mem' = mem \cup {writer}
  /\ reply' = "OK"
  /\ pc' = "APPLIED"
  /\ UNCHANGED <<up, writer, before, temp, path, stable, result>>

-----------------------------------------------------------------------------
(* persist: durablefile.Replace. *)

\* CreateTemp, Chmod and Write of the marshalled snapshot.
WriteTemp ==
  /\ pc = "APPLIED"
  /\ temp' = File(mem, "DIRTY")
  /\ pc' = "WRITTEN"
  /\ UNCHANGED <<up, mem, writer, before, reply, path, stable, result>>

SyncTempSkipped ==
  /\ pc = "WRITTEN"
  /\ pc' = "SYNCED"
  /\ UNCHANGED <<up, mem, writer, before, reply, temp, path, stable, result>>

SyncTemp ==
  /\ pc = "WRITTEN"
  /\ temp' = File(temp.data, "SYNCED")
  /\ pc' = "SYNCED"
  /\ UNCHANGED <<up, mem, writer, before, reply, path, stable, result>>

Rename ==
  /\ pc = "SYNCED"
  /\ path' = temp
  /\ pc' = "RENAMED"
  /\ UNCHANGED <<up, mem, writer, before, reply, temp, stable, result>>

SyncDir ==
  /\ pc = "RENAMED"
  /\ stable' = path
  /\ pc' = "DURABLE"
  /\ UNCHANGED <<up, mem, writer, before, reply, temp, path, result>>

Return ==
  /\ pc = "DURABLE"
  /\ Answer(reply)
  /\ UNCHANGED <<up, mem, before, reply, temp, path, stable>>

\* The stages at which a step of persist is still to come; after the directory was
\* synced it is the close of its handle.
Persisting == {"APPLIED", "WRITTEN", "SYNCED", "RENAMED", "DURABLE"}

PersistFailsWithoutRestore ==
  /\ pc \in Persisting
  /\ Answer("FAILED")
  /\ UNCHANGED <<up, mem, before, reply, temp, path, stable>>

\* The step after pc fails: the memory goes back to the snapshot.  When it was the
\* directory that could not be synced or closed, the new file is already in place.
PersistFails ==
  /\ pc \in Persisting
  /\ mem' = before
  /\ Answer("FAILED")
  /\ UNCHANGED <<up, before, reply, temp, path, stable>>

-----------------------------------------------------------------------------
(* Crashes and recovery. *)

\* Callers in flight never hear of their call again.
LoseCallers ==
  result' = [c \in Calls |-> IF result[c] = "PENDING" THEN "UNANSWERED" ELSE result[c]]

Crash ==
  /\ up
  /\ up' = FALSE
  /\ mem' = {} /\ writer' = NoCall /\ pc' = "IDLE" /\ before' = {} /\ reply' = "OK"
  /\ LoseCallers
  /\ UNCHANGED <<temp, path, stable>>

\* The entry that survives is the synced one or the renamed one; data that was
\* never synced may be gone.
PowerLoss ==
  \E entry \in {stable, path} :
    \E disk \in IF entry.disk = "DIRTY" THEN {"SYNCED", "TORN"} ELSE {entry.disk} :
      /\ path' = File(entry.data, disk)
      /\ stable' = path'
      /\ up' = FALSE
      /\ mem' = {} /\ writer' = NoCall /\ pc' = "IDLE" /\ before' = {} /\ reply' = "OK"
      /\ LoseCallers
      /\ UNCHANGED temp

OpenFileStoreEmpty ==
  /\ ~up
  /\ path.disk # "TORN"
  /\ up' = TRUE
  /\ mem' = {}
  /\ UNCHANGED <<writer, pc, before, reply, temp, path, stable, result>>

\* A file that does not decode, or fails its checksum, is refused.
OpenFileStore ==
  /\ ~up
  /\ path.disk # "TORN"
  /\ up' = TRUE
  /\ mem' = path.data
  /\ UNCHANGED <<writer, pc, before, reply, temp, path, stable, result>>

-----------------------------------------------------------------------------

Step == Refuse \/ RefuseUnsaved \/ RefuseSaved \/ Apply \/ WriteTemp \/ SyncTemp \/ Rename \/ SyncDir \/ Return \/ PersistFails

Next ==
  \/ \E c \in Calls : Call(c) \/ Acquire(c)
  \/ Step
  \/ Crash \/ PowerLoss \/ OpenFileStore

\* The goroutine inside mutate is scheduled, a waiting one gets the mutex, and
\* the supervisor restarts a stopped process.
Spec ==
  /\ Init /\ [][Next]_vars
  /\ WF_vars(Step) /\ WF_vars(OpenFileStore)
  /\ \A c \in Calls : WF_vars(Acquire(c))

-----------------------------------------------------------------------------
(* Properties. *)

Files == [data : SUBSET Calls, disk : {"SYNCED", "DIRTY", "TORN"}]

\* The fields of FileStore and the files of durablefile.Replace keep their types,
\* and writeMu is held exactly by the pending call between Lock and Unlock.
TypeOK ==
  /\ up \in BOOLEAN
  /\ mem \subseteq Calls /\ before \subseteq Calls
  /\ writer \in Calls \cup {NoCall}
  /\ pc \in {"IDLE", "CALL"} \cup Persisting
  /\ reply \in {"OK", "REFUSED"}
  /\ temp \in Files /\ path \in Files /\ stable \in Files
  /\ result \in [Calls -> {"NOT_CALLED", "PENDING", "OK", "REFUSED", "FAILED", "UNANSWERED"}]
  /\ pc = "IDLE" <=> writer = NoCall
  /\ writer # NoCall => up /\ result[writer] = "PENDING"

Acknowledged == {c \in Calls : result[c] = "OK"}

\* Durability: whichever of the two directory entries a crash leaves, and whatever
\* later calls did or failed to do, the state file a restart reads is whole and
\* holds every acknowledged call ("does not report success until both the file
\* contents and the parent-directory rename are durably synchronized").
AcknowledgedIsDurable ==
  \A entry \in {path, stable} :
    entry.disk = "SYNCED" /\ Acknowledged \subseteq entry.data

\* Between calls the running store holds every acknowledged call, and beyond the file
\* it would restart from only what a refused call left behind unsaved: neither a
\* persist that failed nor its Restore adds to that.
ServesWhatItSaved ==
  up /\ pc = "IDLE" =>
    /\ Acknowledged \subseteq mem
    /\ mem \ path.data \subseteq {c \in Unsaved : result[c] = "REFUSED"}

\* As long as the process lives, a call whose persist failed has no effect and gets
\* none later: Restore(before) takes it back, and neither another call's snapshot nor
\* another call's failure brings it in again.
FailedStaysOut ==
  [][up /\ up' => \A c \in Calls :
       result'[c] = "FAILED" /\ c \in mem' => result[c] = "FAILED" /\ c \in mem]_vars

\* Every call is answered unless the process dies: writeMu is always released.
EveryCallEnds == \A c \in Calls : result[c] = "PENDING" ~> result[c] # "PENDING"

(* Statements of the repository that the code does not keep. *)

\* file_store.go:17 "It atomically persists a checksummed authoritative snapshot after
\* each successful mutation": a mutation that failed is in no state the store opens
\* with.  It is when the directory could not be synced after the rename.
FailedIsNeverServed ==
  \A c \in Calls : result[c] = "FAILED" /\ up => c \notin mem

\* cluster_maintenance_file_store.go:79 "Persist that authoritative failure transition
\* instead of losing it on restart": what a store at rest holds, a restart finds.  It
\* does not after mutate has passed on the error of a method that changed the memory.
ServedSurvivesRestart == up /\ pc = "IDLE" => mem \subseteq path.data
=============================================================================

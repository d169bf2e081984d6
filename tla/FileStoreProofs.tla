--------------------------- MODULE FileStoreProofs ---------------------------
(***************************************************************************)
(* Proofs about FileStore for every set of calls, whatever crashes and     *)
(* however often.  Durability is not inductive: an acknowledged call must  *)
(* already be in the memory that the next snapshot is written from, and in *)
(* the snapshot a failed call restores, so Pipeline follows the contents   *)
(* from the memory through the temporary file to the directory entry.      *)
(* What a refused call left in memory unsaved travels along with it.       *)
(***************************************************************************)
EXTENDS FileStore, TLAPS

\* A call without effect yet: nobody has applied it.
Unapplied(c) ==
  \/ result[c] = "NOT_CALLED"
  \/ result[c] = "PENDING" /\ (c # writer \/ pc = "CALL")

\* What refused calls may have left in memory without saving it.
Strays == {c \in Unsaved : result[c] = "REFUSED"}

\* What each stage of persist holds.
Pipeline ==
  /\ up /\ pc = "IDLE" => Acknowledged \subseteq mem /\ mem \ path.data \subseteq Strays
  /\ pc # "IDLE" => Acknowledged \subseteq before /\ before \ path.data \subseteq Strays /\ writer \notin before
  /\ pc = "CALL" => mem = before
  /\ pc \in Persisting => mem \in {before, before \cup {writer}} /\ (reply = "OK" => writer \in mem)
  /\ pc \in {"WRITTEN", "SYNCED"} => temp.data = mem
  /\ pc = "SYNCED" => temp.disk = "SYNCED"
  /\ pc \in {"RENAMED", "DURABLE"} => path.data = mem
  /\ pc = "DURABLE" => stable = path

\* A call nobody has applied is in no copy of the contents.
UnappliedIsNowhere ==
  \A c \in Calls : Unapplied(c) => c \notin mem \cup path.data \cup stable.data

\* The inductive invariant.
StoreInv == TypeOK /\ AcknowledgedIsDurable /\ Pipeline /\ UnappliedIsNowhere

\* An empty store, as a first start leaves it, satisfies it.
LEMMA StoreInit == Init => StoreInv
BY FileStoreAssumption
   DEF Init, StoreInv, TypeOK, File, Files, AcknowledgedIsDurable, Acknowledged, Pipeline, Strays, UnappliedIsNowhere, Unapplied, Persisting

\* Every step of a caller, of persist, of a crash and of recovery preserves it.
LEMMA StoreStep == StoreInv /\ [Next]_vars => StoreInv'
<1> SUFFICES ASSUME StoreInv, [Next]_vars PROVE StoreInv'
  OBVIOUS
<1> USE FileStoreAssumption
<1> USE DEF StoreInv, TypeOK, File, Files, AcknowledgedIsDurable, Acknowledged, Pipeline, Strays, UnappliedIsNowhere, Unapplied, Persisting
<1>1. ASSUME NEW c \in Calls, Call(c) PROVE StoreInv'
  BY <1>1 DEF Call
<1>2. ASSUME NEW c \in Calls, Acquire(c) PROVE StoreInv'
  BY <1>2 DEF Acquire
<1>3. CASE Refuse
  BY <1>3 DEF Refuse, Answer
<1>3a. CASE RefuseUnsaved
  BY <1>3a DEF RefuseUnsaved, Answer
<1>3b. CASE RefuseSaved
  BY <1>3b DEF RefuseSaved
<1>4. CASE Apply
  BY <1>4 DEF Apply
<1>5. CASE WriteTemp
  BY <1>5 DEF WriteTemp
<1>6. CASE SyncTemp
  BY <1>6 DEF SyncTemp
<1>7. CASE Rename
  BY <1>7 DEF Rename
<1>8. CASE SyncDir
  BY <1>8 DEF SyncDir
<1>9. CASE Return
  BY <1>9 DEF Return, Answer
<1>10. CASE PersistFails
  BY <1>10 DEF PersistFails, Answer
<1>11. CASE Crash
  BY <1>11 DEF Crash, LoseCallers
<1>12. CASE PowerLoss
  <2>1. PICK entry \in {stable, path} :
          /\ path' = entry /\ stable' = entry
          /\ up' = FALSE /\ mem' = {} /\ writer' = NoCall /\ pc' = "IDLE" /\ before' = {} /\ reply' = "OK"
          /\ LoseCallers /\ UNCHANGED temp
    BY <1>12 DEF PowerLoss
  <2>2. Acknowledged' = Acknowledged
    BY <2>1 DEF LoseCallers
  <2>3. entry \in Files /\ entry.disk = "SYNCED" /\ Acknowledged \subseteq entry.data
    OBVIOUS
  <2>4. TypeOK'
    BY <2>1, <2>3 DEF LoseCallers
  <2>5. AcknowledgedIsDurable'
    BY <2>1, <2>2, <2>3
  <2>6. Pipeline'
    BY <2>1
  <2>7. UnappliedIsNowhere'
    BY <2>1, <2>3 DEF LoseCallers
  <2> QED
    BY <2>4, <2>5, <2>6, <2>7
<1>13. CASE OpenFileStore
  BY <1>13 DEF OpenFileStore
<1>14. CASE UNCHANGED vars
  BY <1>14 DEF vars
<1> QED
  BY <1>1, <1>2, <1>3, <1>4, <1>5, <1>6, <1>7, <1>8, <1>9, <1>10, <1>11, <1>12, <1>13, <1>14, <1>3a, <1>3b
     DEF Next, Step

\* The invariant of the file-backed authority.
THEOREM StoreInvariant == Spec => []StoreInv
BY StoreInit, StoreStep, PTL DEF Spec

\* The store, its files and the callers' answers keep their types; a call holds the
\* store's lock exactly while its mutation is on its way to the disk.
THEOREM StoreTypes == Spec => []TypeOK
BY StoreInvariant, PTL DEF StoreInv

\* durablefile.Replace under FileStore.mutate keeps every acknowledged mutation
\* through process crashes and power losses.
THEOREM Durability == Spec => []AcknowledgedIsDurable
BY StoreInvariant, PTL DEF StoreInv

\* Between mutations MemoryStore holds what was acknowledged, and nothing that the state
\* file lacks except what refused calls of Unsaved left.
THEOREM Serving == Spec => []ServesWhatItSaved
<1>1. StoreInv => ServesWhatItSaved
  BY DEF StoreInv, Pipeline, Strays, ServesWhatItSaved
<1> QED
  BY <1>1, StoreInvariant, PTL

\* mutate's Restore(before) keeps a mutation whose persist failed out for the life of
\* the process.
THEOREM FailureIsAtomic == Spec => FailedStaysOut
<1> DEFINE Stays == up /\ up' => \A c \in Calls :
       result'[c] = "FAILED" /\ c \in mem' => result[c] = "FAILED" /\ c \in mem
<1>1. StoreInv /\ [Next]_vars => [Stays]_vars
  <2> SUFFICES ASSUME StoreInv, Next, up, up',
                      NEW c \in Calls, result'[c] = "FAILED", c \in mem'
               PROVE  result[c] = "FAILED" /\ c \in mem
    OBVIOUS
  <2> USE DEF StoreInv, TypeOK, Pipeline, Strays, UnappliedIsNowhere, Unapplied, Persisting
  <2>1. ASSUME NEW d \in Calls, Call(d) \/ Acquire(d) PROVE result[c] = "FAILED" /\ c \in mem
    BY <2>1 DEF Call, Acquire
  <2>2. CASE Refuse \/ RefuseUnsaved \/ PersistFails \/ Return
    BY <2>2 DEF Refuse, RefuseUnsaved, PersistFails, Return, Answer
  <2>3. CASE RefuseSaved \/ Apply \/ WriteTemp \/ SyncTemp \/ Rename \/ SyncDir
    BY <2>3 DEF RefuseSaved, Apply, WriteTemp, SyncTemp, Rename, SyncDir
  <2>4. CASE Crash \/ PowerLoss \/ OpenFileStore
    BY <2>4 DEF Crash, PowerLoss, OpenFileStore
  <2> QED
    BY <2>1, <2>2, <2>3, <2>4 DEF Next, Step
<1> QED
  BY <1>1, StoreInvariant, PTL DEF Spec, FailedStaysOut


\* The snapshot is whole: an acknowledged mutation takes everything before it to the
\* disk, what a refused call left unsaved included.
THEOREM AcknowledgementSavesAll ==
  Spec => [][\A c \in Calls : result[c] = "PENDING" /\ result'[c] = "OK"
               => mem' \subseteq path'.data \cap stable'.data]_vars
<1>1. ASSUME StoreInv, Next, NEW c \in Calls, result[c] = "PENDING", result'[c] = "OK"
      PROVE  mem' \subseteq path'.data \cap stable'.data
  <2> USE <1>1 DEF StoreInv, TypeOK, Pipeline, Persisting
  <2>1. ASSUME NEW d \in Calls, Call(d) \/ Acquire(d) PROVE FALSE
    BY <2>1 DEF Call, Acquire
  <2>2. CASE Refuse \/ RefuseUnsaved \/ PersistFails
    BY <2>2 DEF Refuse, RefuseUnsaved, PersistFails, Answer
  <2>3. CASE RefuseSaved \/ Apply \/ WriteTemp \/ SyncTemp \/ Rename \/ SyncDir
    BY <2>3 DEF RefuseSaved, Apply, WriteTemp, SyncTemp, Rename, SyncDir
  <2>4. CASE Crash \/ PowerLoss \/ OpenFileStore
    BY <2>4 DEF Crash, PowerLoss, LoseCallers, OpenFileStore
  <2>5. CASE Return
    BY <2>5 DEF Return, Answer
  <2> QED
    BY <2>1, <2>2, <2>3, <2>4, <2>5 DEF Next, Step
<1>2. StoreInv /\ [Next]_vars
        => [\A c \in Calls : result[c] = "PENDING" /\ result'[c] = "OK"
              => mem' \subseteq path'.data \cap stable'.data]_vars
  BY <1>1
<1> QED
  BY <1>2, StoreInvariant, PTL DEF Spec
=============================================================================

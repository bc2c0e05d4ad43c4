--------------------------- MODULE JobServerProofs ---------------------------
(***************************************************************************)
(* Theorems about JobServer, for every set of calls, keys and fetches and   *)
(* every bound.                                                             *)
(***************************************************************************)
EXTENDS JobServer, FiniteSetTheorems, TLAPS

USE DEF Tools, Keyed, Alive, faultVars

-----------------------------------------------------------------------------
(* Store operations preserve the store's types.                             *)

LEMMA CountIsNat == \A S \in SUBSET Calls : Cardinality(S) \in Nat
  BY StoreAssumption, FS_Subset, FS_CardinalityType

LEMMA SpawnType ==
  ASSUME StoreTypeOK, NEW c \in Calls, Spawn(c), req' = req,
         index' \in [Tools -> [Keys -> Entries]]
  PROVE  StoreTypeOK'
<1>1. Cardinality({j \in Calls : worker[j] # "none"}) + 1 \in Nat
  BY CountIsNat
<1>2. startedAt' \in [Calls -> Nat]
  BY <1>1 DEF Spawn, StoreTypeOK
<1>3. /\ record' \in [Calls -> {"none", "live", "gone"}]
      /\ removedBy' \in [Calls -> {"none", "ttl", "cap", "consume"}]
      /\ worker' \in [Calls -> {"none", "alive", "exited"}]
  BY DEF Spawn, StoreTypeOK
<1>. QED  BY <1>2, <1>3 DEF Spawn, StoreTypeOK

LEMMA CancelType ==
  ASSUME StoreTypeOK, NEW j \in Calls, NEW who \in {"client", "waiter", "cleanup"},
         Cancel(j, who), req' = req
  PROVE  StoreTypeOK'
  BY DEF Cancel, StoreTypeOK

LEMMA PollType ==
  ASSUME StoreTypeOK, NEW j \in Calls, Poll(j), req' = req
  PROVE  StoreTypeOK'
  BY DEF Poll, Reap, StoreTypeOK

LEMMA RemoveType ==
  ASSUME StoreTypeOK, NEW j \in Calls, NEW why \in {"ttl", "cap", "consume"},
         Remove(j, why), req' = req
  PROVE  StoreTypeOK'
  BY DEF Remove, StoreTypeOK

LEMMA SameStoreType ==
  ASSUME StoreTypeOK, UNCHANGED <<req, storeVars>>
  PROVE  StoreTypeOK'
  BY DEF storeVars, StoreTypeOK

LEMMA EntryType ==
  ASSUME StoreTypeOK, NEW t \in Tools, NEW k \in Keys, NEW e \in Entries
  PROVE  [index EXCEPT ![t][k] = e] \in [Tools -> [Keys -> Entries]]
  BY DEF StoreTypeOK

LEMMA EntryStored ==
  ASSUME StoreTypeOK, NEW t \in Tools, NEW k \in Keys, NEW e,
         index' = [index EXCEPT ![t][k] = e], e.state # "none" => e.job \in Calls,
         \A u \in Tools, l \in Keys : index[u][l].state # "none" => index[u][l].job \in Calls
  PROVE  \A u \in Tools, l \in Keys :
           index'[u][l].state # "none" => index'[u][l].job \in Calls
<1>1. \A u \in Tools, l \in Keys :
         index'[u][l] = IF u = t /\ l = k THEN e ELSE index[u][l]
  BY DEF StoreTypeOK
<1>. QED  BY <1>1

-----------------------------------------------------------------------------
(* Type correctness                                                         *)

LEMMA EnvelopeType ==
  ASSUME NEW state, NEW payload
  PROVE  FinishedEnvelope(state, payload) \in
           [code : EnvelopeCodes, delivered : BOOLEAN]
<1>1. StateError(state) \in {"job_running", "job_cancelled", "job_timeout",
                             "job_failed"}
  BY DEF StateError, StateToError
<1>2. Unreadable(payload) \in {"job_result_incompatible", "internal_error"}
  BY DEF Unreadable
<1>. QED  BY <1>1, <1>2 DEF FinishedEnvelope, EnvelopeCodes, Validates

(* Entries of the index name calls, only a keyed start reserves, and a      *)
(* handler that polls, reads or snapshots is attached to a run.             *)
Attached ==
  /\ \A t \in Tools, k \in Keys :
       index[t][k].state # "none" => index[t][k].job \in Calls
  /\ \A c \in Calls :
       /\ start[c] = "replay" => run[c] \in Calls
       /\ start[c] = "reserved" => Keyed(c)
       /\ pc[c] \in {"snapshot", "awaiting", "expiring", "finished"} =>
            run[c] \in Calls
  /\ \A f \in Fetches : fetch[f].phase # "idle" => fetch[f].job \in Calls
  /\ \A f \in Fetches : fetch[f].pending => fetch[f].job \in Calls

TypeInv == TypeOK /\ Attached

LEMMA InitType == Init => TypeInv
  BY StoreAssumption, ServerAssumption
     DEF Init, StoreInit, TypeInv, TypeOK, StoreTypeOK, Attached, Phases, Starts,
         Replies, FetchRecords, FetchPhases, Discards, IdleFetch, Entries,
         NoEntry

LEMMA ThreadType ==
  ASSUME TypeInv, NEW c \in Calls, Thread(c)
  PROVE  TypeInv'
<1>. USE DEF TypeInv, TypeOK, Attached, Starts, Outcomes
<1>1. CASE StartThread(c)
  <2>1. StoreTypeOK'
    <3>1. CASE Spawn(c) /\ UNCHANGED index
      <4>1. req' = req /\ index' \in [Tools -> [Keys -> Entries]]
        BY <1>1, <3>1 DEF StartThread, StoreTypeOK
      <4>. QED  BY <3>1, <4>1, SpawnType
    <3>2. CASE UNCHANGED storeVars
      BY <1>1, <3>2, SameStoreType DEF StartThread
    <3>. QED  BY <1>1, <3>1, <3>2 DEF StartThread
  <2>. QED  BY <1>1, <2>1 DEF StartThread, storeVars
<1>2. CASE IdemReserve(c)
  <2>1. req[c].tool \in Tools /\ req[c].key \in Keys
    BY <1>2, StoreAssumption DEF IdemReserve, StoreTypeOK
  <2>2. index' \in [Tools -> [Keys -> Entries]]
    BY <1>2, <2>1, EntryType DEF IdemReserve, SetEntry, Entries
  <2>3. StoreTypeOK'
    BY <1>2, <2>2 DEF IdemReserve, StoreTypeOK
  <2>4. TypeOK'
    BY <1>2, <2>3 DEF IdemReserve
  <2>5. \A t \in Tools, k \in Keys :
          index'[t][k].state # "none" => index'[t][k].job \in Calls
    <3>. DEFINE e == [state |-> "reserved", job |-> c]
    <3>1. index' = [index EXCEPT ![req[c].tool][req[c].key] = e]
      BY <1>2 DEF IdemReserve, SetEntry
    <3>2. e.state # "none" => e.job \in Calls
      OBVIOUS
    <3>3. StoreTypeOK /\ \A t \in Tools, k \in Keys :
                            index[t][k].state # "none" => index[t][k].job \in Calls
      OBVIOUS
    <3>. HIDE DEF e
    <3>. QED  BY ONLY <2>1, <3>1, <3>2, <3>3, EntryStored
  <2>6. Keyed(c)
    BY <1>2 DEF IdemReserve
  <2>. QED  BY <1>2, <2>4, <2>5, <2>6 DEF IdemReserve
<1>3. CASE IdemAnswer(c)
  <2>1. req[c].tool \in Tools /\ req[c].key \in Keys
    BY <1>3, StoreAssumption DEF IdemAnswer, StoreTypeOK
  <2>2. EntryOf(c).state # "none" => EntryOf(c).job \in Calls
    BY <2>1 DEF EntryOf
  <2>3. IdemOutcome(c) \in Outcomes
    BY DEF IdemOutcome
  <2>4. StoreTypeOK'
    BY <1>3, SameStoreType DEF IdemAnswer
  <2>5. start' \in [Calls -> Starts] /\ run' \in [Calls -> Calls \cup {NoJob}]
    <3>1. CASE EntryOf(c).state # "none"
      BY <1>3, <2>2, <2>3, <3>1 DEF IdemAnswer
    <3>. QED  BY <1>3, <2>2, <2>3, <3>1 DEF IdemAnswer
  <2>6. Attached'
    <3>1. /\ start'[c] = "replay" => run'[c] \in Calls
          /\ Keyed(c)
      BY <1>3, <2>2 DEF IdemAnswer
    <3>2. \A d \in Calls : d # c => start'[d] = start[d] /\ run'[d] = run[d]
      BY <1>3 DEF IdemAnswer
    <3>3. run[c] \in Calls => run'[c] \in Calls
      BY <1>3, <2>2 DEF IdemAnswer
    <3>4. UNCHANGED <<req, index, pc, fetch>>
      BY <1>3 DEF IdemAnswer, storeVars
    <3>. QED  BY <3>1, <3>2, <3>3, <3>4
  <2>. QED  BY <1>3, <2>4, <2>5, <2>6 DEF IdemAnswer
<1>4. CASE IdemPublish(c)
  <2>1. req[c].tool \in Tools /\ req[c].key \in Keys
    BY <1>4, StoreAssumption DEF IdemPublish, StoreTypeOK
  <2>a. index' \in [Tools -> [Keys -> Entries]]
    <3>1. [state |-> "published", job |-> c] \in Entries /\ NoEntry \in Entries
      BY DEF Entries, NoEntry
    <3>2. PICK e \in {[state |-> "published", job |-> c], NoEntry} :
            \/ index' = [index EXCEPT ![req[c].tool][req[c].key] = e]
            \/ index' = index
      BY <1>4 DEF IdemPublish, SetEntry
    <3>3. StoreTypeOK
      OBVIOUS
    <3>. QED  BY ONLY <2>1, <3>1, <3>2, <3>3, EntryType DEF StoreTypeOK
  <2>2. StoreTypeOK'
    <3>1. CASE Spawn(c)
      BY <1>4, <2>a, <3>1, SpawnType DEF IdemPublish
    <3>. QED  BY <1>4, <2>a, <3>1 DEF IdemPublish, StoreTypeOK
  <2>3. \A t \in Tools, k \in Keys :
          index'[t][k].state # "none" => index'[t][k].job \in Calls
    BY <1>4 DEF IdemPublish, SetEntry, StoreTypeOK, NoEntry
  <2>. QED  BY <1>4, <2>2, <2>3 DEF IdemPublish
<1>. QED  BY <1>1, <1>2, <1>3, <1>4 DEF Thread

LEMMA HandlerType ==
  ASSUME TypeInv, NEW c \in Calls, Handler(c)
  PROVE  TypeInv'
<1>. USE DEF TypeInv, TypeOK, Attached, Phases, Replies, AwaitReply, Reply, Goto
<1>1. CASE Started(c)
  BY <1>1, SameStoreType DEF Started, storeVars
<1>2. CASE Replay(c)
  BY <1>2, SameStoreType DEF Replay, storeVars
<1>3. CASE StartRefused(c)
  BY <1>3, SameStoreType DEF StartRefused, storeVars
<1>4. CASE StartTransient(c)
  BY <1>4, SameStoreType DEF StartTransient, storeVars, Starts
<1>5. CASE Snapshot(c)
  <2>1. StoreTypeOK' /\ index' = index
    BY <1>5, PollType, SameStoreType DEF Snapshot, Poll, storeVars
  <2>. QED  BY <1>5, <2>1 DEF Snapshot
<1>6. CASE AwaitPoll(c)
  <2>1. StoreTypeOK' /\ index' = index
    BY <1>6, PollType, SameStoreType DEF AwaitPoll, Poll, storeVars
  <2>2. /\ pc' \in [Calls -> Phases]
        /\ reply' \in [Calls -> Replies]
        /\ replayed' \in [Calls -> BOOLEAN]
    <3>1. CASE record[run[c]] # "live"
      BY <1>6, <3>1 DEF AwaitPoll
    <3>2. CASE record[run[c]] = "live" /\ pc' = [pc EXCEPT ![c] = "finished"]
               /\ UNCHANGED <<reply, replayed>>
      BY <3>2
    <3>3. CASE record[run[c]] = "live" /\ pc' = [pc EXCEPT ![c] = "expiring"]
               /\ UNCHANGED <<reply, replayed>>
      BY <3>3
    <3>4. CASE AwaitReply(c, "timeout_poll")
      BY <3>4
    <3>. QED  BY <1>6, <3>1, <3>2, <3>3, <3>4 DEF AwaitPoll
  <2>3. /\ run[c] \in Calls
        /\ \A d \in Calls : d # c => pc'[d] = pc[d]
    BY <1>6, pc \in [Calls -> Phases] DEF AwaitPoll
  <2>. QED  BY <1>6, <2>1, <2>2, <2>3 DEF AwaitPoll
<1>7. CASE AwaitExpire(c)
  <2>1. StoreTypeOK' /\ index' = index
    BY <1>7, CancelType DEF AwaitExpire, Cancel
  <2>. QED  BY <1>7, <2>1 DEF AwaitExpire
<1>8. CASE ReadResult(c)
  <2>1. FinishedEnvelope(Polled(run[c]), stored[run[c]]).code \in EnvelopeCodes
    BY EnvelopeType
  <2>. QED  BY <1>8, <2>1, SameStoreType DEF ReadResult, storeVars
<1>. QED
  BY <1>1, <1>2, <1>3, <1>4, <1>5, <1>6, <1>7, <1>8 DEF Handler

LEMMA ClientType ==
  ASSUME TypeInv, NEW c \in Calls, ClientCancels(c) \/ StopOrphanedStart(c)
                                     \/ Issue(c) \/ WaitExpires(c)
                                     \/ StoreRaises(c)
  PROVE  TypeInv'
<1>. USE DEF TypeInv, TypeOK, Attached, Phases, Starts, Goto
<1>1. CASE CancelStarting(c)
  BY <1>1, SameStoreType DEF CancelStarting, StopsRun, storeVars
<1>2. CASE CancelAwaiting(c)
  <2>1. StoreTypeOK' /\ index' = index
    BY <1>2, CancelType, SameStoreType DEF CancelAwaiting, Cancel, storeVars
  <2>. QED  BY <1>2, <2>1 DEF CancelAwaiting
<1>3. CASE CancelReading(c)
  BY <1>3, SameStoreType DEF CancelReading, storeVars
<1>4. CASE StopOrphanedStart(c)
  <2>1. StoreTypeOK' /\ index' = index
    BY <1>4, CancelType, SameStoreType DEF StopOrphanedStart, Cancel, storeVars
  <2>. QED  BY <1>4, <2>1 DEF StopOrphanedStart
<1>5. CASE Issue(c)
  BY <1>5, SameStoreType DEF Issue, storeVars
<1>6. CASE WaitExpires(c)
  BY <1>6, SameStoreType DEF WaitExpires, storeVars
<1>7. CASE HandlerRaises(c)
  BY <1>7, SameStoreType DEF HandlerRaises, Reply, Replies, storeVars
<1>8. CASE StopRaises(c)
  BY <1>8, SameStoreType DEF StopRaises, storeVars
<1>. QED
  BY <1>1, <1>2, <1>3, <1>4, <1>5, <1>6, <1>7, <1>8 DEF ClientCancels, StoreRaises

LEMMA RecordType ==
  ASSUME TypeInv, NEW j \in Calls,
         JobStatus(j) \/ JobCancel(j) \/ Expire(j) \/ World(j)
  PROVE  TypeInv'
<1>1. StoreTypeOK' /\ index' = index
  <2>. USE DEF TypeInv, TypeOK
  <2>1. CASE JobStatus(j)
    BY <2>1, PollType DEF JobStatus, Poll
  <2>2. CASE JobCancel(j)
    BY <2>2, CancelType DEF JobCancel, Cancel
  <2>3. CASE Expire(j)
    BY <2>3, RemoveType DEF Expire, Remove
  <2>4. CASE World(j)
    <3>1. CASE WorkerFinishes(j)
      BY <2>4, <3>1 DEF World, WorkerFinishes, StoreTypeOK
    <3>2. CASE WorkerDies(j)
      BY <2>4, <3>2 DEF World, WorkerDies, StoreTypeOK
    <3>3. CASE DeadlinePasses(j)
      BY <2>4, <3>3 DEF World, DeadlinePasses, StoreTypeOK
    <3>. QED  BY <2>4, <3>1, <3>2, <3>3 DEF World
  <2>. QED  BY <2>1, <2>2, <2>3, <2>4
<1>2. UNCHANGED <<req, callVars, fetch, faultVars>>
  BY DEF JobStatus, JobCancel, Expire, World
<1>. QED  BY <1>1, <1>2 DEF TypeInv, TypeOK, Attached, callVars

LEMMA FetchType ==
  ASSUME TypeInv, NEW f \in Fetches,
         \/ \E j \in Calls, consume \in BOOLEAN : FetchRead(f, j, consume)
         \/ Discard(f) \/ FetchReply(f) \/ FetchDropped(f)
  PROVE  TypeInv'
<1>. USE DEF TypeInv, TypeOK, FetchPhases, Discards
<1>1. ASSUME NEW j \in Calls, NEW consume \in BOOLEAN, FetchRead(f, j, consume)
      PROVE  TypeInv'
  <2>1. StoreTypeOK' /\ index' = index
    BY <1>1, PollType, SameStoreType DEF FetchRead, Poll, storeVars
  <2>2. FinishedEnvelope(Polled(j), stored[j])
          \in [code : EnvelopeCodes, delivered : BOOLEAN]
    BY EnvelopeType
  <2>3. fetch' \in [Fetches -> FetchRecords]
    BY <1>1, <2>2 DEF FetchRead, FetchRecords, Consumes
  <2>4. fetch'[f].job = j /\ \A g \in Fetches : g # f => fetch'[g] = fetch[g]
    BY <1>1 DEF FetchRead
  <2>5. UNCHANGED <<req, callVars, faultVars>>
    BY <1>1 DEF FetchRead
  <2>. QED  BY <2>1, <2>3, <2>4, <2>5 DEF Attached, callVars
<1>2. CASE Discard(f)
  <2>1. StoreTypeOK' /\ index' = index
    BY <1>2, RemoveType, SameStoreType DEF Discard, Remove, storeVars, Attached
  <2>2. PICK o \in DiscardOutcomes(fetch[f].job) :
          fetch' = [fetch EXCEPT
                     ![f] = Become(f, fetch[f].phase, fetch[f].reply, FALSE, o)]
    BY <1>2 DEF Discard
  <2>3. fetch' \in [Fetches -> FetchRecords]
    BY <2>2 DEF DiscardOutcomes, FetchRecords, Become
  <2>4. UNCHANGED <<req, callVars, faultVars>>
    BY <1>2 DEF Discard
  <2>. QED  BY <2>1, <2>2, <2>3, <2>4 DEF Attached, callVars, Become, FetchRecords
<1>3. CASE FetchReply(f)
  BY <1>3, SameStoreType
     DEF FetchReply, Become, FetchRecords, LostRace, Attached, callVars, storeVars
<1>4. CASE FetchDropped(f)
  BY <1>4, SameStoreType
     DEF FetchDropped, Become, FetchRecords, Attached, callVars, storeVars
<1>. QED  BY <1>1, <1>2, <1>3, <1>4

LEMMA SweepType ==
  ASSUME TypeInv, NEW t \in Tools, NEW k \in Keys, SweepIndex(t, k)
  PROVE  TypeInv'
<1>1. index' = [index EXCEPT ![t][k] = NoEntry]
  BY DEF SweepIndex, Sweep
<1>2. NoEntry \in Entries
  BY DEF NoEntry, Entries
<1>3. StoreTypeOK'
  BY <1>1, <1>2 DEF SweepIndex, Sweep, StoreTypeOK, TypeInv, TypeOK
<1>4. Attached'
  BY <1>1 DEF SweepIndex, Attached, callVars, NoEntry, TypeInv, TypeOK, StoreTypeOK
<1>. QED  BY <1>3, <1>4 DEF SweepIndex, callVars, TypeInv, TypeOK

LEMMA CrashType ==
  ASSUME TypeInv, Crash
  PROVE  TypeInv'
<1>. USE DEF TypeInv, TypeOK, Attached, Phases, Starts, Ended
<1>1. StoreTypeOK'
  BY SameStoreType DEF Crash
<1>2. fetch' \in [Fetches -> FetchRecords]
  BY DEF Crash, Become, FetchRecords, FetchPhases
<1>3. \A f \in Fetches : /\ fetch'[f].job = fetch[f].job
                         /\ ~fetch'[f].pending
                         /\ fetch'[f].phase # "idle" => fetch[f].phase # "idle"
  BY DEF Crash, Become, FetchRecords
<1>4. \A c \in Calls : /\ start'[c] = "replay" => start[c] = "replay"
                       /\ start'[c] # "reserved"
                       /\ pc'[c] \in Phases
                       /\ pc'[c] # pc[c] => pc'[c] = "lost"
  BY DEF Crash
<1>5. pc' \in [Calls -> Phases] /\ start' \in [Calls -> Starts]
  BY DEF Crash
<1>6. UNCHANGED <<req, run, index, late, reply, replayed, raised>>
  BY DEF Crash, storeVars
<1>7. orphan' \in [Calls -> BOOLEAN] /\ crashes' \in Nat
  BY ServerAssumption DEF Crash
<1>. QED  BY <1>1, <1>2, <1>3, <1>4, <1>5, <1>6, <1>7

(* The handlers and the store keep every variable in its type.              *)
THEOREM TypeCorrect == Spec => []TypeOK
<1>1. Init => TypeInv
  BY InitType
<1>2. TypeInv /\ [Next]_vars => TypeInv'
  <2>1. ASSUME TypeInv, Next  PROVE TypeInv'
    BY <2>1, ThreadType, HandlerType, ClientType, RecordType, FetchType,
       SweepType, CrashType DEF Next
  <2>2. ASSUME TypeInv, UNCHANGED vars  PROVE TypeInv'
    BY <2>2 DEF vars, storeVars, callVars, TypeInv, TypeOK, StoreTypeOK, Attached
  <2>. QED  BY <2>1, <2>2
<1>3. TypeInv => TypeOK
  BY DEF TypeInv
<1>. QED  BY <1>1, <1>2, <1>3, PTL DEF Spec
=============================================================================

------------------------------ MODULE JobStore ------------------------------
(***************************************************************************)
(* The disk-backed job store as the MCP server uses it.  The store itself   *)
(* (pontonier's JobStore) is a library outside the repository: each         *)
(* operation is modelled from its calls in server.py, from the retention    *)
(* rules the lifecycle tools document and from the outcomes the handlers    *)
(* distinguish.  One action stands for one store call, which the store      *)
(* serialises with its own locks.                                           *)
(*                                                                          *)
(* A run is named by the tool call that spawned it: a call spawns at most   *)
(* one run, so Calls is also the set of job ids.                            *)
(***************************************************************************)
EXTENDS Naturals, FiniteSets

CONSTANTS
  Calls,     \* tool calls, and the ids of the runs they spawn
  Keys,      \* idempotency keys
  NoKey,     \* a call without idempotency_key
  NoJob,     \* no run
  Args,      \* argument hashes
  Requests,  \* the requests calls may carry: concrete tool, key, arguments
  Payloads,  \* kinds of result.json a worker can leave
  Overruns,  \* bound: the runs that may outlast their wall-clock deadline
  MaxCount   \* CODEX_IN_CLAUDE_JOB_MAX_COUNT, at least 1

Tools == {"sync", "async"}

ASSUME StoreAssumption ==
  /\ IsFiniteSet(Calls)
  /\ NoKey \notin Keys
  /\ NoJob \notin Calls
  /\ Requests \subseteq [tool : Tools, key : Keys \cup {NoKey}, args : Args]
  /\ Payloads \subseteq {"success", "error", "foreign", "corrupt"}
  /\ Overruns \subseteq Calls
  /\ MaxCount \in Nat \ {0}

VARIABLES
  req,        \* the request each call carries
  record,     \* job directory: "none" (never created), "live" or "gone"
  worker,     \* worker process: "none", "alive" or "exited"
  stored,     \* kind of result.json the worker left, or "none"
  mark,       \* terminal state the store itself wrote, or "none"
  overdue,    \* the wall-clock deadline has passed
  startedAt,  \* start order of the runs, 0 before the start
  index,      \* idempotency index, per concrete tool and key
  cancelledBy,\* history: who had a running job cancelled
  removedBy   \* history: what removed the record

storeVars == <<record, worker, stored, mark, overdue, startedAt, index,
               cancelledBy, removedBy>>

Entries == [state : {"none", "reserved", "published"},
            job : Calls \cup {NoJob}]
NoEntry == [state |-> "none", job |-> NoJob]

StoreTypeOK ==
  /\ req \in [Calls -> Requests]
  /\ record \in [Calls -> {"none", "live", "gone"}]
  /\ worker \in [Calls -> {"none", "alive", "exited"}]
  /\ stored \in [Calls -> Payloads \cup {"none"}]
  /\ mark \in [Calls -> {"none", "cancelled", "timeout"}]
  /\ overdue \in [Calls -> BOOLEAN]
  /\ startedAt \in [Calls -> Nat]
  /\ index \in [Tools -> [Keys -> Entries]]
  /\ cancelledBy \in [Calls -> {"none", "client", "waiter", "cleanup"}]
  /\ removedBy \in [Calls -> {"none", "ttl", "cap", "consume"}]

StoreInit ==
  /\ req \in [Calls -> Requests]
  /\ record = [j \in Calls |-> "none"]
  /\ worker = [j \in Calls |-> "none"]
  /\ stored = [j \in Calls |-> "none"]
  /\ mark = [j \in Calls |-> "none"]
  /\ overdue = [j \in Calls |-> FALSE]
  /\ startedAt = [j \in Calls |-> 0]
  /\ index = [t \in Tools |-> [k \in Keys |-> NoEntry]]
  /\ cancelledBy = [j \in Calls |-> "none"]
  /\ removedBy = [j \in Calls |-> "none"]

-----------------------------------------------------------------------------
(* What a record reports                                                    *)

Alive(j) == worker[j] = "alive"
Keyed(j) == req[j].key # NoKey
EntryOf(c) == index[req[c].tool][req[c].key]

(* The lifecycle state of a record: a mark the store wrote wins, a live     *)
(* worker is running, and an exited one is done exactly if it left a        *)
(* result.json.                                                             *)
Status(j) ==
  IF mark[j] # "none" THEN mark[j]
  ELSE IF Alive(j) THEN "running"
  ELSE IF stored[j] # "none" THEN "done"
  ELSE "failed"

(* A poll past the deadline reaps the worker first, then reports.           *)
Polled(j) == IF Alive(j) /\ overdue[j] THEN "timeout" ELSE Status(j)

Reap(j) ==
  IF Alive(j) /\ overdue[j]
  THEN /\ worker' = [worker EXCEPT ![j] = "exited"]
       /\ mark' = [mark EXCEPT ![j] = "timeout"]
  ELSE UNCHANGED <<worker, mark>>

Retained == {j \in Calls : record[j] = "live"}
Terminal == {j \in Retained : ~Alive(j)}

(* The records a start evicts: the oldest terminal ones, as many as bring   *)
(* the workspace back to MaxCount; running records are never evicted.       *)
Excess == Cardinality(Retained) + 1 - MaxCount
Evicted ==
  {j \in Terminal :
     Cardinality({i \in Terminal : startedAt[i] < startedAt[j]}) < Excess}

-----------------------------------------------------------------------------
(* Store operations                                                         *)

(* store.start: spawn the worker, persist the record, apply the count cap.  *)
Spawn(c) ==
  /\ record' = [j \in Calls |-> IF j = c THEN "live"
                                ELSE IF j \in Evicted THEN "gone"
                                ELSE record[j]]
  /\ removedBy' = [j \in Calls |-> IF j \in Evicted THEN "cap"
                                   ELSE removedBy[j]]
  /\ worker' = [worker EXCEPT ![c] = "alive"]
  /\ startedAt' = [startedAt EXCEPT
                     ![c] = Cardinality({j \in Calls : worker[j] # "none"}) + 1]
  /\ UNCHANGED <<stored, mark, overdue, cancelledBy>>

(* Mutated: a cancel that does not look at what the record became.          *)
Cancel_Unchecked(j, who) ==
  /\ worker' = [worker EXCEPT ![j] = "exited"]
  /\ mark' = [mark EXCEPT ![j] = "cancelled"]
  /\ cancelledBy' = [cancelledBy EXCEPT ![j] = who]
  /\ UNCHANGED <<record, stored, overdue, startedAt, index, removedBy>>

(* store.cancel: stop a running worker and mark the record; a terminal or   *)
(* missing record is left as it is.                                         *)
Cancel(j, who) ==
  /\ IF Alive(j)
     THEN /\ worker' = [worker EXCEPT ![j] = "exited"]
          /\ mark' = [mark EXCEPT ![j] = "cancelled"]
          /\ cancelledBy' = [cancelledBy EXCEPT ![j] = who]
     ELSE UNCHANGED <<worker, mark, cancelledBy>>
  /\ UNCHANGED <<record, stored, overdue, startedAt, index, removedBy>>

(* store.status and the reap a poll past the deadline performs.             *)
Poll(j) ==
  /\ Reap(j)
  /\ UNCHANGED <<record, stored, overdue, startedAt, index, cancelledBy,
                 removedBy>>

(* Removal of a terminal record.                                            *)
Remove(j, why) ==
  /\ record' = [record EXCEPT ![j] = "gone"]
  /\ removedBy' = [removedBy EXCEPT ![j] = why]
  /\ UNCHANGED <<worker, stored, mark, overdue, startedAt, index, cancelledBy>>

-----------------------------------------------------------------------------
(* Worker processes and time, as the store observes them                    *)

WorkerFinishes(j) ==
  /\ Alive(j)
  /\ \E p \in Payloads : stored' = [stored EXCEPT ![j] = p]
  /\ worker' = [worker EXCEPT ![j] = "exited"]
  /\ UNCHANGED <<record, mark, overdue, startedAt, index, cancelledBy,
                 removedBy>>

WorkerDies(j) ==
  /\ Alive(j)
  /\ worker' = [worker EXCEPT ![j] = "exited"]
  /\ UNCHANGED <<record, stored, mark, overdue, startedAt, index, cancelledBy,
                 removedBy>>

DeadlinePasses(j) ==
  /\ j \in Overruns
  /\ Alive(j)
  /\ ~overdue[j]
  /\ overdue' = [overdue EXCEPT ![j] = TRUE]
  /\ UNCHANGED <<record, worker, stored, mark, startedAt, index, cancelledBy,
                 removedBy>>

(* The index sweep drops an entry whose run can no longer be replayed: its  *)
(* record is gone, or it is a reservation nobody is publishing.  Retention  *)
(* of an entry exceeds every run's deadline, so no worker of it is alive.   *)
Sweep(t, k, publishing) ==
  /\ \/ /\ index[t][k].state = "published"
        /\ record[index[t][k].job] = "gone"
     \/ /\ index[t][k].state = "reserved"
        /\ ~publishing
  /\ \A j \in Calls : Alive(j) => ~(req[j].tool = t /\ req[j].key = k)
  /\ index' = [index EXCEPT ![t][k] = NoEntry]
  /\ UNCHANGED <<record, worker, stored, mark, overdue, startedAt, cancelledBy,
                 removedBy>>
=============================================================================

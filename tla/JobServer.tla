------------------------------ MODULE JobServer ------------------------------
(***************************************************************************)
(* The server's job handlers: synchronous and asynchronous tool calls that  *)
(* start, attach to and await detached runs, and the lifecycle tools that   *)
(* poll, cancel and consume them.  Every await is a point where other       *)
(* handlers, workers and clients take steps.                                *)
(***************************************************************************)
EXTENDS JobStore, JobEnvelope

CONSTANTS
  Fetches,     \* codex_job_result and codex_job_consume_result calls
  MaxCrashes,  \* bound on server crashes
  Flaky        \* bound: the calls whose store operations may raise

ASSUME ServerAssumption == MaxCrashes \in Nat /\ Flaky \subseteq Calls

VARIABLES
  pc,        \* where a tool call's handler stands
  start,     \* outcome of its store.start / start_idempotent thread
  run,       \* the run the handler is attached to
  late,      \* the deadline of the handler's current wait has passed
  orphan,    \* its start is in _PENDING_START_CLEANUPS
  reply,     \* what the caller was answered
  replayed,  \* meta.idempotency_replayed of that answer
  fetch,     \* per fetch: phase, job, consume flag, envelope, discard outcome
  crashes,   \* server crashes so far
  raised     \* history: a store operation raised under this call

callVars == <<pc, start, run, late, orphan, reply, replayed>>
faultVars == <<crashes, raised>>
vars == <<req, storeVars, callVars, fetch, faultVars>>

Phases == {"idle", "starting", "snapshot", "awaiting", "expiring", "finished",
           "replied", "cancelled", "lost"}
Ended == {"replied", "cancelled", "lost"}

Outcomes == {"started", "failed", "replay", "conflict", "unavailable",
             "in_progress", "io_error"}
Starts == {"none", "queued", "reserved"} \cup Outcomes

Replies == {"none", "handle", "spawn_failed", "conflict", "unavailable",
            "in_progress", "io_error", "record_lost", "timeout_cancelled",
            "timeout_poll", "guarded"} \cup EnvelopeCodes

FetchPhases == {"idle", "discarding", "discarded", "replied", "dropped", "lost"}
Discards == {"none", "REMOVED", "MISSING", "NOT_DONE", "DELETE_FAILED"}
FetchRecords ==
  [phase : FetchPhases, job : Calls \cup {NoJob}, consume : BOOLEAN,
   reply : {"none", "job_not_found"} \cup EnvelopeCodes,
   pending : BOOLEAN, outcome : Discards]
IdleFetch == [phase |-> "idle", job |-> NoJob, consume |-> FALSE,
              reply |-> "none", pending |-> FALSE, outcome |-> "none"]

TypeOK ==
  /\ StoreTypeOK
  /\ pc \in [Calls -> Phases]
  /\ start \in [Calls -> Starts]
  /\ run \in [Calls -> Calls \cup {NoJob}]
  /\ late \in [Calls -> BOOLEAN]
  /\ orphan \in [Calls -> BOOLEAN]
  /\ reply \in [Calls -> Replies]
  /\ replayed \in [Calls -> BOOLEAN]
  /\ fetch \in [Fetches -> FetchRecords]
  /\ crashes \in Nat
  /\ raised \in [Calls -> BOOLEAN]

Init ==
  /\ StoreInit
  /\ pc = [c \in Calls |-> "idle"]
  /\ start = [c \in Calls |-> "none"]
  /\ run = [c \in Calls |-> NoJob]
  /\ late = [c \in Calls |-> FALSE]
  /\ orphan = [c \in Calls |-> FALSE]
  /\ reply = [c \in Calls |-> "none"]
  /\ replayed = [c \in Calls |-> FALSE]
  /\ fetch = [f \in Fetches |-> IdleFetch]
  /\ crashes = 0
  /\ raised = [c \in Calls |-> FALSE]

-----------------------------------------------------------------------------
(* Handler steps                                                            *)

Goto(c, phase) == pc' = [pc EXCEPT ![c] = phase]

Reply(c, r) ==
  /\ Goto(c, "replied")
  /\ reply' = [reply EXCEPT ![c] = r]

(* A tool call arrives; its pre-spend checks passed and the handler hands   *)
(* the start to a thread.                                                   *)
Issue(c) ==
  /\ pc[c] = "idle"
  /\ Goto(c, "starting")
  /\ start' = [start EXCEPT ![c] = "queued"]
  /\ UNCHANGED <<req, storeVars, run, late, orphan, reply, replayed, fetch,
                 faultVars>>

(* The thread of an unkeyed start: store.start spawns, or raises OSError.   *)
(* It runs whether or not the handler still waits for it.                   *)
StartThread(c) ==
  /\ start[c] = "queued"
  /\ ~Keyed(c)
  /\ \/ /\ start' = [start EXCEPT ![c] = "started"]
        /\ Spawn(c)
        /\ UNCHANGED index
     \/ /\ start' = [start EXCEPT ![c] = "failed"]
        /\ UNCHANGED storeVars
  /\ UNCHANGED <<req, pc, run, late, orphan, reply, replayed, fetch, faultVars>>

(* The thread of a keyed start, under the index lock: reserve the key, or   *)
(* answer from its entry.  A contended lock and a failed read answer        *)
(* in_progress and io_error whatever the entry says.                        *)
SetEntry(c, state) ==
  index' = [index EXCEPT ![req[c].tool][req[c].key] =
              [state |-> state, job |-> c]]

IdemReserve(c) ==
  /\ start[c] = "queued"
  /\ Keyed(c)
  /\ EntryOf(c).state = "none"
  /\ SetEntry(c, "reserved")
  /\ start' = [start EXCEPT ![c] = "reserved"]
  /\ UNCHANGED <<req, record, worker, stored, mark, overdue, startedAt,
                 cancelledBy, removedBy, pc, run, late, orphan, reply,
                 replayed, fetch, faultVars>>

IdemOutcome(c) ==
  LET e == EntryOf(c) IN
  IF req[e.job].args # req[c].args THEN "conflict"
  ELSE IF e.state = "reserved" THEN "in_progress"
  ELSE IF record[e.job] = "live" THEN "replay"
  ELSE "unavailable"

IdemAnswer(c) ==
  /\ start[c] = "queued"
  /\ Keyed(c)
  /\ \/ /\ EntryOf(c).state # "none"
        /\ start' = [start EXCEPT ![c] = IdemOutcome(c)]
        /\ run' = IF IdemOutcome(c) = "replay"
                  THEN [run EXCEPT ![c] = EntryOf(c).job] ELSE run
     \/ /\ \E o \in {"in_progress", "io_error"} :
             start' = [start EXCEPT ![c] = o]
        /\ UNCHANGED run
  /\ UNCHANGED <<req, storeVars, pc, late, orphan, reply, replayed, fetch,
                 faultVars>>

(* Mutated: a publish that fails after the spawn frees the key (#200).      *)
IdemPublish_FreesKey(c) ==
  /\ start[c] = "reserved"
  /\ start' = [start EXCEPT ![c] = "started"]
  /\ Spawn(c)
  /\ \/ SetEntry(c, "published")
     \/ index' = [index EXCEPT ![req[c].tool][req[c].key] = NoEntry]
  /\ UNCHANGED <<req, pc, run, late, orphan, reply, replayed, fetch, faultVars>>

(* Spawn, then publish the run under the key.  A publish that fails after   *)
(* the spawn still answers the real run, and leaves the reservation; a      *)
(* failed spawn rolls the reservation back.                                 *)
IdemPublish(c) ==
  /\ start[c] = "reserved"
  /\ \/ /\ start' = [start EXCEPT ![c] = "started"]
        /\ Spawn(c)
        /\ SetEntry(c, "published") \/ UNCHANGED index
     \/ /\ start' = [start EXCEPT ![c] = "failed"]
        /\ index' = [index EXCEPT ![req[c].tool][req[c].key] = NoEntry]
        /\ UNCHANGED <<record, worker, stored, mark, overdue, startedAt,
                       cancelledBy, removedBy>>
  /\ UNCHANGED <<req, pc, run, late, orphan, reply, replayed, fetch, faultVars>>

(* The handler resumes with the thread's outcome.                           *)
Started(c) ==
  /\ pc[c] = "starting"
  /\ start[c] = "started"
  /\ run' = [run EXCEPT ![c] = c]
  /\ IF req[c].tool = "async"
     THEN Reply(c, "handle") /\ UNCHANGED late
     ELSE /\ Goto(c, "awaiting")
          /\ late' = [late EXCEPT ![c] = FALSE]
          /\ UNCHANGED reply
  /\ UNCHANGED <<req, storeVars, start, orphan, replayed, fetch, faultVars>>

Replay(c) ==
  /\ pc[c] = "starting"
  /\ start[c] = "replay"
  /\ IF req[c].tool = "async"
     THEN Goto(c, "snapshot") /\ UNCHANGED late
     ELSE Goto(c, "awaiting") /\ late' = [late EXCEPT ![c] = FALSE]
  /\ UNCHANGED <<req, storeVars, start, run, orphan, reply, replayed, fetch,
                 faultVars>>

StartRefused(c) ==
  /\ pc[c] = "starting"
  /\ start[c] \in {"failed", "conflict", "unavailable"}
  /\ Reply(c, IF start[c] = "failed" THEN "spawn_failed" ELSE start[c])
  /\ UNCHANGED <<req, storeVars, start, run, late, orphan, replayed, fetch,
                 faultVars>>

(* Mutated: a sync call never gives up on a busy key.                       *)
StartTransient_Forever(c) ==
  /\ pc[c] = "starting"
  /\ start[c] \in {"in_progress", "io_error"}
  /\ IF req[c].tool = "async"
     THEN Reply(c, start[c]) /\ UNCHANGED start
     ELSE /\ start' = [start EXCEPT ![c] = "queued"]
          /\ UNCHANGED <<pc, reply>>
  /\ UNCHANGED <<req, storeVars, run, late, orphan, replayed, fetch, faultVars>>

(* An _async call reports a transient outcome at once; a sync call asks     *)
(* again until its wait deadline.                                           *)
StartTransient(c) ==
  /\ pc[c] = "starting"
  /\ start[c] \in {"in_progress", "io_error"}
  /\ IF req[c].tool = "async" \/ late[c]
     THEN Reply(c, start[c]) /\ UNCHANGED start
     ELSE /\ start' = [start EXCEPT ![c] = "queued"]
          /\ UNCHANGED <<pc, reply>>
  /\ UNCHANGED <<req, storeVars, run, late, orphan, replayed, fetch, faultVars>>

(* _start_async on a replay: the handle reports the run's own status.       *)
Snapshot(c) ==
  /\ pc[c] = "snapshot"
  /\ IF record[run[c]] = "live"
     THEN /\ Poll(run[c])
          /\ Reply(c, "handle")
          /\ replayed' = [replayed EXCEPT ![c] = TRUE]
     ELSE Reply(c, "unavailable") /\ UNCHANGED <<storeVars, replayed>>
  /\ UNCHANGED <<req, start, run, late, orphan, fetch, faultVars>>

-----------------------------------------------------------------------------
(* _await_job_result                                                        *)

(* Mutated: every awaited answer is marked replayed.                        *)
AwaitReply_MarksAll(c, r) ==
  /\ Reply(c, r)
  /\ replayed' = [replayed EXCEPT ![c] = TRUE]

(* The answer of an awaited run; _run_sync marks it when the run was        *)
(* another call's.                                                          *)
AwaitReply(c, r) ==
  /\ Reply(c, r)
  /\ replayed' = [replayed EXCEPT ![c] = run[c] # c]

(* Mutated: a keyed waiter takes the run with it; an unkeyed one leaves it. *)
StopsRun_Always(c) == TRUE
StopsRun_Never(c) == FALSE

(* Whether a waiter that gives up takes its run with it: a keyed run may be *)
(* shared and is left alone.                                                *)
StopsRun(c) == ~Keyed(c)

(* One turn of the poll loop.  A run seen running before the deadline lets  *)
(* the handler sleep and poll again, which changes nothing.                 *)
AwaitPoll(c) ==
  /\ pc[c] = "awaiting"
  /\ IF record[run[c]] # "live"
     THEN AwaitReply(c, "record_lost") /\ UNCHANGED storeVars
     ELSE /\ Poll(run[c])
          /\ \/ /\ Polled(run[c]) # "running"
                /\ Goto(c, "finished")
                /\ UNCHANGED <<reply, replayed>>
             \/ /\ Polled(run[c]) = "running"
                /\ late[c]
                /\ IF StopsRun(c)
                   THEN Goto(c, "expiring") /\ UNCHANGED <<reply, replayed>>
                   ELSE AwaitReply(c, "timeout_poll")
  /\ UNCHANGED <<req, start, run, late, orphan, fetch, faultVars>>

(* Mutated: the timeout is answered, the run is not stopped.                *)
AwaitExpire_OnlyAnswers(c) ==
  /\ pc[c] = "expiring"
  /\ AwaitReply(c, "timeout_cancelled")
  /\ UNCHANGED <<req, storeVars, start, run, late, orphan, fetch, faultVars>>

(* The unkeyed timeout path cancels the run on what the poll saw earlier.   *)
AwaitExpire(c) ==
  /\ pc[c] = "expiring"
  /\ Cancel(run[c], "waiter")
  /\ AwaitReply(c, "timeout_cancelled")
  /\ UNCHANGED <<req, start, run, late, orphan, fetch, faultVars>>

ReadResult(c) ==
  /\ pc[c] = "finished"
  /\ IF record[run[c]] # "live"
     THEN AwaitReply(c, "record_lost")
     ELSE AwaitReply(c, FinishedEnvelope(Polled(run[c]), stored[run[c]]).code)
  /\ UNCHANGED <<req, storeVars, start, run, late, orphan, fetch, faultVars>>

-----------------------------------------------------------------------------
(* Cancellation of a tool call by its client                                *)

(* Cancelled inside the shielded spawn: the run, if it starts, has no       *)
(* waiter, so its stop is left to a done-callback.  A keyed start is        *)
(* durable.                                                                 *)
CancelStarting(c) ==
  /\ pc[c] = "starting"
  /\ Goto(c, "cancelled")
  /\ orphan' = [orphan EXCEPT ![c] = StopsRun(c)]
  /\ UNCHANGED <<req, storeVars, start, run, late, reply, replayed, fetch,
                 faultVars>>

(* Cancelled while awaiting: an unkeyed run is stopped before the           *)
(* cancellation propagates.                                                 *)
CancelAwaiting(c) ==
  /\ pc[c] \in {"awaiting", "expiring"}
  /\ Goto(c, "cancelled")
  /\ IF StopsRun(c) THEN Cancel(run[c], "waiter") ELSE UNCHANGED storeVars
  /\ UNCHANGED <<req, start, run, late, orphan, reply, replayed, fetch,
                 faultVars>>

CancelReading(c) ==
  /\ pc[c] \in {"snapshot", "finished"}
  /\ Goto(c, "cancelled")
  /\ UNCHANGED <<req, storeVars, start, run, late, orphan, reply, replayed,
                 fetch, faultVars>>

(* Mutated: the callback only forgets the future.                           *)
StopOrphanedStart_Forgets(c) ==
  /\ orphan[c]
  /\ start[c] \in {"started", "failed"}
  /\ orphan' = [orphan EXCEPT ![c] = FALSE]
  /\ UNCHANGED <<req, storeVars, pc, start, run, late, reply, replayed, fetch,
                 faultVars>>

(* The done-callback of an orphaned start.                                  *)
StopOrphanedStart(c) ==
  /\ orphan[c]
  /\ start[c] \in {"started", "failed"}
  /\ orphan' = [orphan EXCEPT ![c] = FALSE]
  /\ IF start[c] = "started" THEN Cancel(c, "cleanup") ELSE UNCHANGED storeVars
  /\ UNCHANGED <<req, pc, start, run, late, reply, replayed, fetch, faultVars>>

(* A store operation raises under the handler: _guard answers              *)
(* internal_error and knows nothing of the run, which goes on.              *)
HandlerRaises(c) ==
  /\ c \in Flaky
  /\ pc[c] \in {"snapshot", "awaiting", "expiring", "finished"}
  /\ Reply(c, "guarded")
  /\ raised' = [raised EXCEPT ![c] = TRUE]
  /\ UNCHANGED <<req, storeVars, start, run, late, orphan, replayed, fetch,
                 crashes>>

(* The stop that a cancellation owes is best effort, in the handler and in  *)
(* the callback: a store.cancel that raises is suppressed.                  *)
StopRaises(c) ==
  /\ c \in Flaky
  /\ raised' = [raised EXCEPT ![c] = TRUE]
  /\ \/ /\ pc[c] \in {"awaiting", "expiring"}
        /\ StopsRun(c)
        /\ Goto(c, "cancelled")
        /\ UNCHANGED orphan
     \/ /\ orphan[c]
        /\ start[c] = "started"
        /\ orphan' = [orphan EXCEPT ![c] = FALSE]
        /\ UNCHANGED pc
  /\ UNCHANGED <<req, storeVars, start, run, late, reply, replayed, fetch,
                 crashes>>

-----------------------------------------------------------------------------
(* Lifecycle tools                                                          *)

(* codex_job_status, codex_job_list and any other poll of a record.         *)
JobStatus(j) ==
  /\ record[j] = "live"
  /\ Poll(j)
  /\ UNCHANGED <<req, callVars, fetch, faultVars>>

JobCancel(j) ==
  /\ record[j] = "live"
  /\ Cancel(j, "client")
  /\ UNCHANGED <<req, callVars, fetch, faultVars>>

(* Mutated: a consume deletes before the payload is known to be readable.   *)
Consumes_Always(consume, envelope) == consume

(* A fetch reads the payload.  Only a consume whose envelope delivers it    *)
(* goes on to delete the record.                                            *)
Consumes(consume, envelope) == consume /\ envelope.delivered

FetchRead(f, j, consume) ==
  LET envelope == FinishedEnvelope(Polled(j), stored[j])
      goesOn == record[j] = "live" /\ Consumes(consume, envelope)
  IN
  /\ fetch[f].phase = "idle"
  /\ record[j] # "none"
  /\ IF record[j] = "live" THEN Poll(j) ELSE UNCHANGED storeVars
  /\ fetch' = [fetch EXCEPT ![f] =
       [phase |-> IF goesOn THEN "discarding" ELSE "replied",
        job |-> j, consume |-> consume,
        reply |-> IF record[j] = "live" THEN envelope.code ELSE "job_not_found",
        pending |-> goesOn, outcome |-> "none"]]
  /\ UNCHANGED <<req, callVars, faultVars>>

(* What a fetch becomes: the payload and the flags it was called with stay. *)
Become(f, phase, answer, pending, outcome) ==
  [phase |-> phase, job |-> fetch[f].job, consume |-> fetch[f].consume,
   reply |-> answer, pending |-> pending, outcome |-> outcome]

(* store.discard in its thread; it runs even if the fetch was cancelled.    *)
DiscardOutcomes(j) ==
  IF record[j] = "gone" THEN {"MISSING"}
  ELSE IF Status(j) # "done" THEN {"NOT_DONE"}
  ELSE {"REMOVED", "DELETE_FAILED"}

Discard(f) ==
  /\ fetch[f].pending
  /\ \E o \in DiscardOutcomes(fetch[f].job) :
       /\ fetch' = [fetch EXCEPT
                    ![f] = Become(f, fetch[f].phase, fetch[f].reply, FALSE, o)]
       /\ IF o = "REMOVED" THEN Remove(fetch[f].job, "consume")
          ELSE UNCHANGED storeVars
  /\ UNCHANGED <<req, callVars, faultVars>>

(* Mutated: the loser of a race delivers its copy too.                      *)
LostRace_Never(outcome) == FALSE

(* The consume answers: a lost race reports job_not_found, anything else    *)
(* delivers the envelope it holds.                                          *)
LostRace(outcome) == outcome = "MISSING"

FetchReply(f) ==
  /\ fetch[f].phase = "discarding"
  /\ ~fetch[f].pending
  /\ LET answer == IF LostRace(fetch[f].outcome) THEN "job_not_found"
                   ELSE fetch[f].reply
     IN  fetch' = [fetch EXCEPT
                     ![f] = Become(f, "replied", answer, FALSE, fetch[f].outcome)]
  /\ UNCHANGED <<req, storeVars, callVars, faultVars>>

FetchDropped(f) ==
  /\ fetch[f].phase = "discarding"
  /\ fetch' = [fetch EXCEPT ![f] = Become(f, "dropped", fetch[f].reply,
                                           fetch[f].pending, fetch[f].outcome)]
  /\ UNCHANGED <<req, storeVars, callVars, faultVars>>

-----------------------------------------------------------------------------
(* Time, retention, workers and the server's own death                      *)

WaitExpires(c) ==
  /\ pc[c] \in {"starting", "awaiting"}
  /\ ~late[c]
  /\ late' = [late EXCEPT ![c] = TRUE]
  /\ UNCHANGED <<req, storeVars, pc, start, run, orphan, reply, replayed, fetch,
                 faultVars>>

(* TTL reaping of a finished record.  The TTL is at least a minute and a    *)
(* waiter polls four times a second, so the call that started a run and     *)
(* awaits it sees the run finish before the TTL of its record ends.         *)
Expire(j) ==
  /\ j \in Terminal
  /\ ~(run[j] = j /\ pc[j] \in {"awaiting", "finished"})
  /\ Remove(j, "ttl")
  /\ UNCHANGED <<req, callVars, fetch, faultVars>>

SweepIndex(t, k) ==
  /\ Sweep(t, k, \E c \in Calls : /\ start[c] = "reserved"
                                  /\ req[c].tool = t
                                  /\ req[c].key = k)
  /\ UNCHANGED <<req, callVars, fetch, faultVars>>

World(j) ==
  /\ WorkerFinishes(j) \/ WorkerDies(j) \/ DeadlinePasses(j)
  /\ UNCHANGED <<req, callVars, fetch, faultVars>>

(* The server process dies and a new one takes over: threads, futures and   *)
(* callbacks are gone; workers and the store's files survive.               *)
Crash ==
  /\ crashes < MaxCrashes
  /\ crashes' = crashes + 1
  /\ pc' = [c \in Calls |->
              IF pc[c] \in Ended \cup {"idle"} /\ ~orphan[c] THEN pc[c]
              ELSE "lost"]
  /\ start' = [c \in Calls |->
                 IF start[c] \in {"queued", "reserved"} THEN "none"
                 ELSE start[c]]
  /\ orphan' = [c \in Calls |-> FALSE]
  /\ fetch' = [f \in Fetches |->
                 Become(f, IF fetch[f].phase = "discarding" THEN "lost"
                           ELSE fetch[f].phase,
                        fetch[f].reply, FALSE, fetch[f].outcome)]
  /\ UNCHANGED <<req, storeVars, run, late, reply, replayed, raised>>

-----------------------------------------------------------------------------

Thread(c) == StartThread(c) \/ IdemReserve(c) \/ IdemAnswer(c) \/ IdemPublish(c)

Handler(c) ==
  \/ Started(c) \/ Replay(c) \/ StartRefused(c) \/ StartTransient(c)
  \/ Snapshot(c) \/ AwaitPoll(c) \/ AwaitExpire(c) \/ ReadResult(c)

ClientCancels(c) == CancelStarting(c) \/ CancelAwaiting(c) \/ CancelReading(c)

StoreRaises(c) == HandlerRaises(c) \/ StopRaises(c)

Next ==
  \/ \E c \in Calls :
       \/ Issue(c) \/ Thread(c) \/ Handler(c) \/ ClientCancels(c)
       \/ StoreRaises(c)
       \/ StopOrphanedStart(c) \/ WaitExpires(c)
       \/ JobStatus(c) \/ JobCancel(c) \/ Expire(c) \/ World(c)
  \/ \E f \in Fetches :
       \/ \E j \in Calls, consume \in BOOLEAN : FetchRead(f, j, consume)
       \/ Discard(f) \/ FetchReply(f) \/ FetchDropped(f)
  \/ \E t \in Tools, k \in Keys : SweepIndex(t, k)
  \/ Crash

Spec == Init /\ [][Next]_vars

(* The event loop, its threads and its callbacks keep running and a wait's  *)
(* clock keeps ticking.  Nothing is assumed of workers, clients, retention  *)
(* or crashes.                                                              *)
Fairness ==
  \A c \in Calls :
    /\ WF_vars(Thread(c))
    /\ WF_vars(Handler(c))
    /\ WF_vars(StopOrphanedStart(c))
    /\ WF_vars(WaitExpires(c))
  /\ \A f \in Fetches : WF_vars(Discard(f)) /\ WF_vars(FetchReply(f))

FairSpec == Spec /\ Fairness

-----------------------------------------------------------------------------
(* Properties                                                               *)

(* No paid run without someone who can stop it or read it: while an unkeyed *)
(* run's worker lives, its record is listed and the call that started it    *)
(* awaits it, has handed out its id, is about to be told of it, or has its  *)
(* stop scheduled (_start_job, _stop_orphaned_start); only the death of the *)
(* server, or a store that raised under the call, leaves it to              *)
(* codex_job_list.                                                          *)
NoOrphanedSpend ==
  \A c \in Calls :
    Alive(c) =>
      /\ record[c] = "live"
      /\ Keyed(c) \/ \/ pc[c] = "starting"
                     \/ pc[c] \in {"awaiting", "expiring"} /\ run[c] = c
                     \/ pc[c] = "replied" /\ reply[c] = "handle"
                     \/ pc[c] = "cancelled" /\ orphan[c]
                     \/ pc[c] = "lost"
                     \/ pc[c] \in Ended /\ raised[c]

(* A keyed run is durable: whatever its waiters do - time out, be cancelled *)
(* during the spawn or during the await - only codex_job_cancel stops it.   *)
KeyedRunIsDurable ==
  \A j \in Calls :
    Keyed(j) => cancelledBy[j] \in {"none", "client"}

(* A key never pays twice at once: two live workers of one tool and key are *)
(* the same run, whatever crashes and sweeps did to the index between.      *)
OneLiveRunPerKey ==
  \A i, j \in Calls :
    (/\ Alive(i) /\ Alive(j) /\ Keyed(i)
     /\ req[i].key = req[j].key /\ req[i].tool = req[j].tool) => i = j

(* meta.idempotency_replayed is honest: a call answered with it started no  *)
(* worker, and its answer is about another call's run with equal arguments. *)
ReplayedMeansNoSpend ==
  \A c \in Calls :
    replayed[c] => /\ worker[c] = "none"
                   /\ run[c] # c
                   /\ req[run[c]] = req[c]

(* Two consumes never both hand out one stored result, unless a discard of  *)
(* it failed and left the record behind (#306).                             *)
Deliveries(j) ==
  {f \in Fetches : /\ fetch[f].phase = "replied" /\ fetch[f].consume
                   /\ fetch[f].job = j
                   /\ fetch[f].reply \in {"success", "error"}}
ConsumedOnce ==
  \A j \in Calls : \A f, g \in Deliveries(j) :
    \/ f = g
    \/ "DELETE_FAILED" \in {fetch[f].outcome, fetch[g].outcome}

(* A consume destroys a result only while it holds it: a record removed by  *)
(* a consume had a readable payload, and some consume read it before.       *)
ConsumeKeepsTheUnread ==
  \A j \in Calls :
    removedBy[j] = "consume" =>
      \E f \in Fetches :
        /\ fetch[f].job = j /\ fetch[f].consume
        /\ fetch[f].outcome = "REMOVED"
        /\ fetch[f].reply = stored[j]
        /\ stored[j] \in {"success", "error"}

(* Callers attached to one run are told one story: two envelopes handed out *)
(* for it agree, whenever and through whichever call each was read.         *)
SharedRunSameAnswer ==
  \A c, d \in Calls :
    (run[c] = run[d] /\ {reply[c], reply[d]} \subseteq EnvelopeCodes)
      => reply[c] = reply[d]

(* The state a consume checked before its await still holds at the discard: *)
(* the store never answers NOT_DONE, so no lifecycle error is delivered as  *)
(* if it were a result.                                                     *)
DiscardSeesDone == \A f \in Fetches : fetch[f].outcome # "NOT_DONE"

(* Cancelling an unkeyed call stops its spend even if the run would go on   *)
(* forever, wherever in the start or the await the cancellation lands - but *)
(* for a server that dies and a stop that raises.                           *)
CancelStopsSpend ==
  \A c \in Calls :
    (pc[c] = "cancelled" /\ ~Keyed(c)) ~> (~Alive(c) \/ crashes > 0 \/ raised[c])

(* Every call is answered although its run may never end.                   *)
EveryCallEnds == \A c \in Calls : (pc[c] # "idle") ~> (pc[c] \in Ended)

(* test_sync_call_returns_envelope_even_under_eviction: every sync call     *)
(* whose run produced a result returns it, however small the count cap.     *)
SyncCallGetsItsEnvelope ==
  \A c \in Calls :
    (stored[c] # "none" /\ mark[c] = "none") => reply[c] # "record_lost"

(* server.py on the unkeyed timeout: the run is gone, so re-running is the  *)
(* right recovery.  No such call leaves a completed run behind.             *)
TimeoutMeansRunGone ==
  \A c \in Calls :
    reply[c] = "timeout_cancelled" => stored[c] = "none"

(* What holds in place of the two claims above: a caller told that its      *)
(* run's record disappeared, or that its run timed out and is gone, may     *)
(* start it again without paying for two at once - the run it was attached  *)
(* to spends no more, and a run given up on was unkeyed and its own.        *)
ToldGoneMeansNoSpend ==
  \A c \in Calls :
    /\ reply[c] \in {"record_lost", "timeout_cancelled"} => worker[run[c]] = "exited"
    /\ reply[c] = "record_lost" => record[run[c]] = "gone"
    /\ reply[c] = "timeout_cancelled" => run[c] = c /\ ~Keyed(c)

-----------------------------------------------------------------------------
(* The handlers implement RunLedger: a consume's two store calls count as   *)
(* one Take, at its discard.                                                *)
Phase(j) ==
  IF record[j] = "none" THEN "absent"
  ELSE IF record[j] = "gone" THEN "removed"
  ELSE Status(j)
Takers(j) == {f \in Fetches : fetch[f].job = j /\ fetch[f].outcome = "REMOVED"}

Ledger == INSTANCE RunLedger
            WITH phase <- [j \in Calls |-> Phase(j)],
                 takers <- [j \in Calls |-> Takers(j)]

(* Every step of the handlers is a step RunLedger allows, or none.          *)
ImplementsLedger == Ledger!Spec

(* What was once said of a finished run is never taken back: its state may  *)
(* only give way to the removal of its record, and a removed run stays so.  *)
OutcomesAreFinal ==
  [][\A j \in Calls :
       Phase(j) \in Ledger!Final \cup {"removed"} =>
         Phase(j)' \in {Phase(j), "removed"}]_vars
=============================================================================

-------------------------- MODULE JobCustodyProofs --------------------------
(***************************************************************************)
(* What holds of the handlers for every set of calls, keys and fetches: no  *)
(* run is without someone who holds it, a keyed run is durable, a key has   *)
(* one live run, callers of one run are told one story, a result is         *)
(* consumed once by who read it - and the handlers implement RunLedger.     *)
(* One inductive invariant, JobInv, in five parts: who holds a run          *)
(* (InCustody), what a record says of it (RunShape), whose the index        *)
(* entries are (KeyInv), what callers were told (AnswerInv) and what a      *)
(* consume holds (FetchInv).  What was said of runs that are gone (GoneInv) *)
(* is an invariant on top of it.                                            *)
(***************************************************************************)
EXTENDS JobServerProofs

USE DEF Tools, Keyed, Alive, faultVars

-----------------------------------------------------------------------------
(* Custody: who holds the run a call started, at every point of the call    *)

(* A spawned worker belongs to a started call and a run the store marked   *)
(* has none; a start still in its thread  *)
(* has a waiting handler or a scheduled stop; an unkeyed call only ever     *)
(* waits for its own run; only unkeyed calls stop runs.                     *)
Custody(c) ==
  /\ worker[c] # "none" => start[c] = "started"
  /\ mark[c] # "none" => worker[c] = "exited"
  /\ pc[c] = "idle" => start[c] = "none"
  /\ orphan[c] => ~Keyed(c)
  /\ pc[c] = "expiring" => ~Keyed(c)
  /\ ~Keyed(c) =>
       /\ start[c] \notin {"replay", "reserved"}
       /\ pc[c] # "snapshot"
       /\ start[c] = "queued" => \/ pc[c] = "starting"
                                 \/ pc[c] = "cancelled" /\ orphan[c]
       /\ pc[c] \in {"awaiting", "expiring", "finished"} => run[c] = c
       /\ pc[c] = "finished" => ~Alive(c)
  /\ Keyed(c) => cancelledBy[c] \in {"none", "client"}
  /\ Alive(c) =>
       /\ record[c] = "live"
       /\ Keyed(c) \/ \/ pc[c] = "starting"
                      \/ pc[c] \in {"awaiting", "expiring"} /\ run[c] = c
                      \/ pc[c] = "replied" /\ reply[c] = "handle"
                      \/ pc[c] = "cancelled" /\ orphan[c]
                      \/ pc[c] = "lost"
                      \/ pc[c] \in Ended /\ raised[c]

InCustody == TypeInv /\ \A c \in Calls : Custody(c)

(* A step leaves call d alone: its handler stands still, its run at most    *)
(* ends, and a run that ended may lose its record.                          *)
Undisturbed(d) ==
  /\ req' = req
  /\ pc'[d] = pc[d] /\ start'[d] = start[d] /\ run'[d] = run[d]
  /\ orphan'[d] = orphan[d] /\ reply'[d] = reply[d] /\ raised'[d] = raised[d]
  /\ worker'[d] = worker[d] \/ (worker'[d] = "exited" /\ worker[d] # "none")
  /\ mark'[d] = mark[d] \/ worker'[d] = "exited"
  /\ record'[d] = record[d] \/ ~Alive(d)
  /\ cancelledBy'[d] = cancelledBy[d] \/ cancelledBy'[d] = "client" \/ ~Keyed(d)

LEMMA UndisturbedCustody ==
  ASSUME NEW d \in Calls, Custody(d), Undisturbed(d)
  PROVE  Custody(d)'
  BY DEF Custody, Undisturbed

(* Every store operation the handlers call at most ends runs.               *)
LEMMA EvictedEnded == \A d \in Evicted : ~Alive(d)
  BY DEF Evicted, Terminal

LEMMA ThreadCustody ==
  ASSUME InCustody, NEW c \in Calls, Thread(c)
  PROVE  \A d \in Calls : Custody(d)'
<1>. USE DEF InCustody, TypeInv, TypeOK
<1>1. CASE StartThread(c)
  <2>1. ASSUME NEW d \in Calls, d # c  PROVE Undisturbed(d)
    BY <1>1, <2>1, EvictedEnded
       DEF StartThread, Undisturbed, Spawn, storeVars, StoreTypeOK
  <2>2. Custody(c)'
    BY <1>1 DEF StartThread, Custody, Spawn, storeVars, StoreTypeOK
  <2>. QED  BY <2>1, <2>2, UndisturbedCustody
<1>2. CASE IdemReserve(c)
  <2>1. ASSUME NEW d \in Calls, d # c  PROVE Undisturbed(d)
    BY <1>2, <2>1 DEF IdemReserve, Undisturbed
  <2>2. Custody(c)'
    BY <1>2 DEF IdemReserve, Custody
  <2>. QED  BY <2>1, <2>2, UndisturbedCustody
<1>3. CASE IdemAnswer(c)
  <2>1. ASSUME NEW d \in Calls, d # c  PROVE Undisturbed(d)
    BY <1>3, <2>1 DEF IdemAnswer, Undisturbed, storeVars
  <2>2. Custody(c)'
    BY <1>3 DEF IdemAnswer, Custody, storeVars
  <2>. QED  BY <2>1, <2>2, UndisturbedCustody
<1>4. CASE IdemPublish(c)
  <2>1. ASSUME NEW d \in Calls, d # c  PROVE Undisturbed(d)
    BY <1>4, <2>1, EvictedEnded
       DEF IdemPublish, Undisturbed, Spawn, StoreTypeOK
  <2>2. Keyed(c)
    BY <1>4 DEF Attached, IdemPublish
  <2>3. Custody(c)'
    BY <1>4, <2>2 DEF IdemPublish, Custody, Spawn, StoreTypeOK
  <2>. QED  BY <2>1, <2>3, UndisturbedCustody
<1>. QED  BY <1>1, <1>2, <1>3, <1>4 DEF Thread

LEMMA HandlerCustody ==
  ASSUME InCustody, NEW c \in Calls, Handler(c)
  PROVE  \A d \in Calls : Custody(d)'
<1>. USE DEF InCustody, TypeInv, TypeOK, Undisturbed, AwaitReply, Reply, Goto
<1>1. CASE Started(c)
  <2>1. ASSUME NEW d \in Calls, d # c  PROVE Undisturbed(d)
    BY <1>1, <2>1 DEF Started, storeVars
  <2>2. Custody(c)'
    BY <1>1 DEF Started, Custody, storeVars
  <2>. QED  BY <2>1, <2>2, UndisturbedCustody
<1>2. CASE Replay(c)
  <2>1. ASSUME NEW d \in Calls, d # c  PROVE Undisturbed(d)
    BY <1>2, <2>1 DEF Replay, storeVars
  <2>2. Custody(c)'
    BY <1>2 DEF Replay, Custody, storeVars
  <2>. QED  BY <2>1, <2>2, UndisturbedCustody
<1>3. CASE StartRefused(c)
  <2>1. ASSUME NEW d \in Calls, d # c  PROVE Undisturbed(d)
    BY <1>3, <2>1 DEF StartRefused, storeVars
  <2>2. Custody(c)'
    BY <1>3 DEF StartRefused, Custody, storeVars
  <2>. QED  BY <2>1, <2>2, UndisturbedCustody
<1>4. CASE StartTransient(c)
  <2>1. ASSUME NEW d \in Calls, d # c  PROVE Undisturbed(d)
    BY <1>4, <2>1 DEF StartTransient, storeVars
  <2>2. Custody(c)'
    BY <1>4 DEF StartTransient, Custody, storeVars
  <2>. QED  BY <2>1, <2>2, UndisturbedCustody
<1>5. CASE Snapshot(c)
  <2>1. ASSUME NEW d \in Calls
        PROVE  /\ \/ worker'[d] = worker[d]
                  \/ worker'[d] = "exited" /\ worker[d] # "none"
               /\ mark'[d] = mark[d] \/ worker'[d] = "exited"
    BY <1>5 DEF Snapshot, Poll, Reap, storeVars, StoreTypeOK
  <2>2. UNCHANGED <<req, start, run, orphan, record, cancelledBy>>
    BY <1>5 DEF Snapshot, Poll, storeVars
  <2>3. ASSUME NEW d \in Calls, d # c  PROVE Undisturbed(d)
    BY <1>5, <2>1, <2>2, <2>3 DEF Snapshot
  <2>4. Custody(c)'
    BY <1>5, <2>1, <2>2 DEF Snapshot, Custody
  <2>. QED  BY <2>3, <2>4, UndisturbedCustody
<1>6. CASE AwaitPoll(c)
  <2>1. ASSUME NEW d \in Calls
        PROVE  /\ \/ worker'[d] = worker[d]
                  \/ worker'[d] = "exited" /\ worker[d] # "none"
               /\ mark'[d] = mark[d] \/ worker'[d] = "exited"
    BY <1>6 DEF AwaitPoll, Poll, Reap, storeVars, StoreTypeOK
  <2>2. UNCHANGED <<req, start, run, orphan, record, cancelledBy>>
    BY <1>6 DEF AwaitPoll, Poll, storeVars
  <2>3. ASSUME NEW d \in Calls, d # c  PROVE Undisturbed(d)
    BY <1>6, <2>1, <2>2, <2>3 DEF AwaitPoll
  <2>4. Custody(c)'
    <3>1. CASE record[run[c]] # "live"
      BY <1>6, <2>1, <2>2, <3>1 DEF AwaitPoll, Custody
    <3>2. CASE Poll(run[c]) /\ Polled(run[c]) # "running" /\ Goto(c, "finished")
      <4>1. ASSUME ~Keyed(c)  PROVE ~(Alive(c)')
        <5>1. run[c] = c
          BY <1>6, <4>1 DEF AwaitPoll, Custody
        <5>2. CASE Alive(c) /\ overdue[c]
          BY <3>2, <5>1, <5>2 DEF Poll, Reap, StoreTypeOK
        <5>3. CASE ~(Alive(c) /\ overdue[c])
          <6>1. worker' = worker /\ Status(c) # "running"
            BY <3>2, <5>1, <5>3 DEF Poll, Reap, Polled
          <6>. QED  BY <6>1 DEF Status, Custody
        <5>. QED  BY <5>2, <5>3
      <4>. QED  BY <1>6, <2>1, <2>2, <3>2, <4>1 DEF AwaitPoll, Custody
    <3>3. CASE StopsRun(c) /\ Goto(c, "expiring") /\ UNCHANGED reply
      BY <1>6, <2>1, <2>2, <3>3 DEF AwaitPoll, StopsRun, Custody
    <3>4. CASE ~StopsRun(c) /\ AwaitReply(c, "timeout_poll")
      BY <1>6, <2>1, <2>2, <3>4 DEF AwaitPoll, StopsRun, Custody
    <3>. QED  BY <1>6, <3>1, <3>2, <3>3, <3>4 DEF AwaitPoll
  <2>. QED  BY <2>3, <2>4, UndisturbedCustody
<1>7. CASE AwaitExpire(c)
  <2>1. ~Keyed(c) /\ run[c] = c
    BY <1>7 DEF AwaitExpire, Custody
  <2>2. ASSUME NEW d \in Calls, d # c  PROVE Undisturbed(d)
    BY <1>7, <2>1, <2>2 DEF AwaitExpire, Cancel, StoreTypeOK
  <2>3. Custody(c)'
    BY <1>7, <2>1 DEF AwaitExpire, Cancel, Custody, StoreTypeOK
  <2>. QED  BY <2>2, <2>3, UndisturbedCustody
<1>8. CASE ReadResult(c)
  <2>1. ASSUME NEW d \in Calls, d # c  PROVE Undisturbed(d)
    BY <1>8, <2>1 DEF ReadResult, storeVars
  <2>2. Custody(c)'
    <3>1. PICK r : AwaitReply(c, r)
      BY <1>8 DEF ReadResult
    <3>. QED  BY <1>8, <3>1 DEF ReadResult, Custody, storeVars
  <2>. QED  BY <2>1, <2>2, UndisturbedCustody
<1>. QED
  BY <1>1, <1>2, <1>3, <1>4, <1>5, <1>6, <1>7, <1>8 DEF Handler

LEMMA ClientCustody ==
  ASSUME InCustody, NEW c \in Calls, ClientCancels(c) \/ StopOrphanedStart(c)
                                       \/ Issue(c) \/ WaitExpires(c)
                                       \/ StoreRaises(c)
  PROVE  \A d \in Calls : Custody(d)'
<1>. USE DEF InCustody, TypeInv, TypeOK, Undisturbed, Goto
<1>1. CASE CancelStarting(c)
  <2>1. ASSUME NEW d \in Calls, d # c  PROVE Undisturbed(d)
    BY <1>1, <2>1 DEF CancelStarting, storeVars
  <2>2. Custody(c)'
    BY <1>1 DEF CancelStarting, StopsRun, Custody, storeVars
  <2>. QED  BY <2>1, <2>2, UndisturbedCustody
<1>2. CASE CancelAwaiting(c)
  <2>1. ~Keyed(c) => run[c] = c
    BY <1>2 DEF CancelAwaiting, Custody
  <2>2. ASSUME NEW d \in Calls, d # c  PROVE Undisturbed(d)
    BY <1>2, <2>1, <2>2
       DEF CancelAwaiting, StopsRun, Cancel, storeVars, StoreTypeOK
  <2>3. Custody(c)'
    BY <1>2, <2>1
       DEF CancelAwaiting, StopsRun, Cancel, Custody, storeVars, StoreTypeOK
  <2>. QED  BY <2>2, <2>3, UndisturbedCustody
<1>3. CASE CancelReading(c)
  <2>1. ASSUME NEW d \in Calls, d # c  PROVE Undisturbed(d)
    BY <1>3, <2>1 DEF CancelReading, storeVars
  <2>2. Custody(c)'
    BY <1>3 DEF CancelReading, Custody, storeVars
  <2>. QED  BY <2>1, <2>2, UndisturbedCustody
<1>4. CASE StopOrphanedStart(c)
  <2>1. ~Keyed(c)
    BY <1>4 DEF StopOrphanedStart, Custody
  <2>2. ASSUME NEW d \in Calls, d # c  PROVE Undisturbed(d)
    BY <1>4, <2>2 DEF StopOrphanedStart, Cancel, storeVars, StoreTypeOK
  <2>3. Custody(c)'
    BY <1>4, <2>1
       DEF StopOrphanedStart, Cancel, Custody, storeVars, StoreTypeOK
  <2>. QED  BY <2>2, <2>3, UndisturbedCustody
<1>5. CASE Issue(c)
  <2>1. ASSUME NEW d \in Calls, d # c  PROVE Undisturbed(d)
    BY <1>5, <2>1 DEF Issue, storeVars
  <2>2. Custody(c)'
    BY <1>5 DEF Issue, Custody, storeVars
  <2>. QED  BY <2>1, <2>2, UndisturbedCustody
<1>6. CASE WaitExpires(c)
  <2>1. ASSUME NEW d \in Calls  PROVE Undisturbed(d)
    BY <1>6 DEF WaitExpires, storeVars
  <2>. QED  BY <2>1, UndisturbedCustody
<1>7. CASE HandlerRaises(c)
  <2>1. ASSUME NEW d \in Calls, d # c  PROVE Undisturbed(d)
    BY <1>7, <2>1 DEF HandlerRaises, Reply, storeVars
  <2>2. Custody(c)'
    BY <1>7 DEF HandlerRaises, Reply, Custody, Ended, storeVars
  <2>. QED  BY <2>1, <2>2, UndisturbedCustody
<1>8. CASE StopRaises(c)
  <2>1. ASSUME NEW d \in Calls, d # c  PROVE Undisturbed(d)
    BY <1>8, <2>1 DEF StopRaises, storeVars
  <2>2. Custody(c)'
    BY <1>8 DEF StopRaises, StopsRun, Custody, Ended, storeVars
  <2>. QED  BY <2>1, <2>2, UndisturbedCustody
<1>. QED
  BY <1>1, <1>2, <1>3, <1>4, <1>5, <1>6, <1>7, <1>8 DEF ClientCancels, StoreRaises

LEMMA RecordCustody ==
  ASSUME InCustody, NEW j \in Calls,
         JobStatus(j) \/ JobCancel(j) \/ Expire(j) \/ World(j)
  PROVE  \A d \in Calls : Custody(d)'
<1>. USE DEF InCustody, TypeInv, TypeOK, StoreTypeOK, Undisturbed, callVars
<1>1. ASSUME NEW d \in Calls  PROVE Undisturbed(d)
  <2>1. CASE JobStatus(j)
    BY <2>1 DEF JobStatus, Poll, Reap
  <2>2. CASE JobCancel(j)
    BY <2>2 DEF JobCancel, Cancel
  <2>3. CASE Expire(j)
    BY <2>3 DEF Expire, Remove, Terminal
  <2>4. CASE World(j)
    BY <2>4 DEF World, WorkerFinishes, WorkerDies, DeadlinePasses
  <2>. QED  BY <2>1, <2>2, <2>3, <2>4
<1>. QED  BY <1>1, UndisturbedCustody

LEMMA FetchCustody ==
  ASSUME InCustody, NEW f \in Fetches,
         \/ \E j \in Calls, consume \in BOOLEAN : FetchRead(f, j, consume)
         \/ Discard(f) \/ FetchReply(f) \/ FetchDropped(f)
  PROVE  \A d \in Calls : Custody(d)'
<1>. USE DEF InCustody, TypeInv, TypeOK, StoreTypeOK, Undisturbed, callVars
<1>1. ASSUME NEW d \in Calls  PROVE Undisturbed(d)
  <2>1. ASSUME NEW j \in Calls, NEW consume \in BOOLEAN,
               FetchRead(f, j, consume)
        PROVE  Undisturbed(d)
    BY <2>1 DEF FetchRead, Poll, Reap, storeVars
  <2>2. CASE Discard(f)
    <3>1. fetch[f].job \in Calls
      BY <2>2 DEF Discard, Attached
    <3>2. CASE UNCHANGED storeVars
      BY <2>2, <3>2 DEF Discard, storeVars
    <3>3. CASE Remove(fetch[f].job, "consume") /\ Status(fetch[f].job) = "done"
      <4>1. ~Alive(fetch[f].job)
        BY <3>1, <3>3 DEF Status
      <4>. QED  BY <2>2, <3>1, <3>3, <4>1 DEF Discard, Remove
    <3>. QED  BY <2>2, <3>2, <3>3 DEF Discard, DiscardOutcomes
  <2>3. CASE FetchReply(f) \/ FetchDropped(f)
    BY <2>3 DEF FetchReply, FetchDropped, storeVars
  <2>. QED  BY <2>1, <2>2, <2>3
<1>. QED  BY <1>1, UndisturbedCustody

LEMMA CrashCustody ==
  ASSUME InCustody, Crash
  PROVE  \A d \in Calls : Custody(d)'
<1>. SUFFICES ASSUME NEW d \in Calls PROVE Custody(d)'
  OBVIOUS
<1>1. /\ pc'[d] = IF pc[d] \in Ended \cup {"idle"} /\ ~orphan[d] THEN pc[d]
                  ELSE "lost"
      /\ start'[d] = IF start[d] \in {"queued", "reserved"} THEN "none"
                     ELSE start[d]
      /\ ~orphan'[d]
  BY DEF Crash
<1>2. UNCHANGED <<req, run, reply, worker, mark, record, cancelledBy, raised>>
  BY DEF Crash, storeVars
<1>. QED  BY <1>1, <1>2 DEF InCustody, Custody, Ended

(* No step ends custody.                                                    *)
LEMMA CustodyStays == InCustody /\ [Next]_vars => InCustody'
<1>1. ASSUME InCustody, Next  PROVE TypeInv'
  BY <1>1, ThreadType, HandlerType, ClientType, RecordType, FetchType,
     SweepType, CrashType DEF Next, InCustody
<1>2. ASSUME InCustody, Next  PROVE \A d \in Calls : Custody(d)'
  <2>1. ASSUME NEW t \in Tools, NEW k \in Keys, SweepIndex(t, k)
        PROVE  \A d \in Calls : Custody(d)'
    <3>1. UNCHANGED <<req, callVars, worker, mark, record, cancelledBy, raised>>
      BY <2>1 DEF SweepIndex, Sweep
    <3>. QED  BY <1>2, <3>1 DEF InCustody, Custody, callVars
  <2>. QED
    BY <1>2, <2>1, ThreadCustody, HandlerCustody, ClientCustody,
       RecordCustody, FetchCustody, CrashCustody DEF Next
<1>3. ASSUME InCustody, UNCHANGED vars  PROVE InCustody'
  <2>1. TypeInv'
    BY <1>3 DEF vars, storeVars, callVars, InCustody, TypeInv, TypeOK,
                StoreTypeOK, Attached
  <2>. QED  BY <1>3, <2>1 DEF vars, storeVars, callVars, InCustody, Custody
<1>. QED  BY <1>1, <1>2, <1>3 DEF InCustody

(* Custody is an invariant of the handlers.                                 *)
THEOREM CustodyInvariant == Spec => []InCustody
<1>1. Init => InCustody
  BY InitType DEF Init, StoreInit, InCustody, Custody
<1>. QED  BY <1>1, CustodyStays, PTL DEF Spec

(* No paid run is left without someone who can stop it or read it.          *)
THEOREM NoSpendIsOrphaned == Spec => []NoOrphanedSpend
<1>1. InCustody => NoOrphanedSpend
  BY DEF InCustody, Custody, NoOrphanedSpend
<1>. QED  BY <1>1, CustodyInvariant, PTL

(* Only codex_job_cancel stops a keyed run.                                 *)
THEOREM KeyedRunsAreDurable == Spec => []KeyedRunIsDurable
<1>1. InCustody => KeyedRunIsDurable
  BY DEF InCustody, Custody, KeyedRunIsDurable
<1>. QED  BY <1>1, CustodyInvariant, PTL
-----------------------------------------------------------------------------
(* What a step may do to runs: nothing, start one (evicting records of runs *)
(* that ended), end one, or drop the record of one that ended.              *)

Quiet == UNCHANGED <<record, worker, stored, mark, removedBy>>

StartsRun(c) ==
  /\ start[c] \in {"queued", "reserved"} /\ start'[c] = "started"
  /\ Spawn(c)

EndsRun(j) ==
  /\ Alive(j) /\ worker' = [worker EXCEPT ![j] = "exited"]
  /\ record' = record /\ removedBy' = removedBy
  /\ \/ mark' = mark /\ stored' = stored
     \/ mark' = mark /\ \E p \in Payloads : stored' = [stored EXCEPT ![j] = p]
     \/ /\ stored' = stored
        /\ \E m \in {"cancelled", "timeout"} : mark' = [mark EXCEPT ![j] = m]

DropsRecord(j) ==
  /\ record[j] = "live" /\ ~Alive(j)
  /\ record' = [record EXCEPT ![j] = "gone"]
  /\ UNCHANGED <<worker, stored, mark>>
  /\ \/ removedBy' = [removedBy EXCEPT ![j] = "ttl"]
     \/ \E f \in Fetches : Discard(f)

MovesRuns ==
  Quiet \/ \E j \in Calls : StartsRun(j) \/ EndsRun(j) \/ DropsRecord(j)

(* A run has a record once it was spawned, and a result once it ended.      *)
RunShape ==
  \A j \in Calls : /\ worker[j] = "none" <=> record[j] = "none"
                   /\ stored[j] # "none" => worker[j] = "exited"

LEMMA PollMoves ==
  ASSUME StoreTypeOK, NEW j \in Calls, Poll(j)
  PROVE  MovesRuns
  BY DEF Poll, Reap, StoreTypeOK, MovesRuns, Quiet, EndsRun

LEMMA CancelMoves ==
  ASSUME StoreTypeOK, NEW j \in Calls, NEW who, Cancel(j, who)
  PROVE  MovesRuns
  BY DEF Cancel, StoreTypeOK, MovesRuns, Quiet, EndsRun

LEMMA StoreMoves ==
  ASSUME InCustody, RunShape, Next
  PROVE  MovesRuns
<1>. USE DEF InCustody, TypeInv, TypeOK
<1>1. ASSUME NEW c \in Calls, Thread(c)  PROVE MovesRuns
  <2>1. CASE StartThread(c)
    BY <2>1 DEF StartThread, MovesRuns, StartsRun, Quiet, storeVars
  <2>2. CASE IdemReserve(c) \/ IdemAnswer(c)
    BY <2>2 DEF IdemReserve, IdemAnswer, MovesRuns, Quiet, storeVars
  <2>3. CASE IdemPublish(c)
    BY <2>3 DEF IdemPublish, MovesRuns, StartsRun, Quiet
  <2>. QED  BY <1>1, <2>1, <2>2, <2>3 DEF Thread
<1>2. ASSUME NEW c \in Calls, Handler(c)  PROVE MovesRuns
  <2>1. CASE Started(c) \/ Replay(c) \/ StartRefused(c) \/ StartTransient(c)
             \/ ReadResult(c)
    BY <2>1 DEF Started, Replay, StartRefused, StartTransient, ReadResult,
                MovesRuns, Quiet, storeVars
  <2>2. CASE Snapshot(c)
    <3>1. run[c] \in Calls
      BY <2>2 DEF Snapshot, Attached
    <3>. QED  BY <2>2, <3>1, PollMoves DEF Snapshot, MovesRuns, Quiet, storeVars
  <2>3. CASE AwaitPoll(c)
    <3>1. run[c] \in Calls
      BY <2>3 DEF AwaitPoll, Attached
    <3>. QED  BY <2>3, <3>1, PollMoves DEF AwaitPoll, MovesRuns, Quiet, storeVars
  <2>4. CASE AwaitExpire(c)
    <3>1. run[c] \in Calls
      BY <2>4 DEF AwaitExpire, Attached
    <3>. QED  BY <2>4, <3>1, CancelMoves DEF AwaitExpire
  <2>. QED  BY <1>2, <2>1, <2>2, <2>3, <2>4 DEF Handler
<1>3. ASSUME NEW c \in Calls, ClientCancels(c)  PROVE MovesRuns
  <2>1. CASE CancelAwaiting(c)
    <3>1. run[c] \in Calls
      BY <2>1 DEF CancelAwaiting, Attached
    <3>. QED
      BY <2>1, <3>1, CancelMoves DEF CancelAwaiting, MovesRuns, Quiet, storeVars
  <2>. QED
    BY <1>3, <2>1 DEF ClientCancels, CancelStarting, CancelReading, MovesRuns,
                      Quiet, storeVars
<1>4. ASSUME NEW c \in Calls,
             StopOrphanedStart(c) \/ Issue(c) \/ WaitExpires(c) \/ StoreRaises(c)
      PROVE  MovesRuns
  <2>1. CASE StopOrphanedStart(c)
    BY <2>1, CancelMoves DEF StopOrphanedStart, MovesRuns, Quiet, storeVars
  <2>. QED
    BY <1>4, <2>1 DEF Issue, WaitExpires, StoreRaises, HandlerRaises, StopRaises,
                      MovesRuns, Quiet, storeVars
<1>5. ASSUME NEW j \in Calls, JobStatus(j) \/ JobCancel(j) \/ Expire(j) \/ World(j)
      PROVE  MovesRuns
  <2>1. CASE JobStatus(j)
    BY <2>1, PollMoves DEF JobStatus
  <2>2. CASE JobCancel(j)
    BY <2>2, CancelMoves DEF JobCancel
  <2>3. CASE Expire(j)
    BY <2>3 DEF Expire, Remove, Terminal, Retained, MovesRuns, DropsRecord
  <2>4. CASE World(j)
    BY <2>4 DEF World, WorkerFinishes, WorkerDies, DeadlinePasses, MovesRuns,
                EndsRun, Quiet
  <2>. QED  BY <1>5, <2>1, <2>2, <2>3, <2>4
<1>6. ASSUME NEW f \in Fetches, Discard(f)  PROVE MovesRuns
  <2>1. fetch[f].job \in Calls
    BY <1>6 DEF Discard, Attached
  <2>2. CASE UNCHANGED storeVars
    BY <2>2 DEF MovesRuns, Quiet, storeVars
  <2>3. CASE /\ Remove(fetch[f].job, "consume")
             /\ record[fetch[f].job] # "gone" /\ Status(fetch[f].job) = "done"
    <3>1. ~Alive(fetch[f].job) /\ stored[fetch[f].job] # "none"
      BY <2>1, <2>3 DEF Status, StoreTypeOK
    <3>2. record[fetch[f].job] = "live"
      BY <2>1, <2>3, <3>1 DEF RunShape, StoreTypeOK
    <3>. QED  BY <1>6, <2>1, <2>3, <3>1, <3>2 DEF Remove, MovesRuns, DropsRecord
  <2>. QED  BY <1>6, <2>2, <2>3 DEF Discard, DiscardOutcomes
<1>7. ASSUME NEW f \in Fetches,
             \/ \E j \in Calls, consume \in BOOLEAN : FetchRead(f, j, consume)
             \/ FetchReply(f) \/ FetchDropped(f)
      PROVE  MovesRuns
  <2>1. ASSUME NEW j \in Calls, NEW consume \in BOOLEAN, FetchRead(f, j, consume)
        PROVE  MovesRuns
    BY <2>1, PollMoves DEF FetchRead, MovesRuns, Quiet, storeVars
  <2>. QED
    BY <1>7, <2>1 DEF FetchReply, FetchDropped, MovesRuns, Quiet, storeVars
<1>8. ASSUME NEW t \in Tools, NEW k \in Keys, SweepIndex(t, k)  PROVE MovesRuns
  BY <1>8 DEF SweepIndex, Sweep, MovesRuns, Quiet
<1>9. CASE Crash
  BY <1>9 DEF Crash, MovesRuns, Quiet, storeVars
<1>. QED
  BY <1>1, <1>2, <1>3, <1>4, <1>5, <1>6, <1>7, <1>8, <1>9 DEF Next

(* What is said of a run that ended stays so: worker, outcome and result.   *)
Settled(j) ==
  worker[j] = "exited" =>
    worker'[j] = "exited" /\ mark'[j] = mark[j] /\ stored'[j] = stored[j]

LEMMA RunsSettle ==
  ASSUME InCustody, RunShape, MovesRuns, NEW j \in Calls
  PROVE  /\ Settled(j)
         /\ worker[j] # "none" => worker'[j] # "none"
         /\ record[j] = "gone" => record'[j] = "gone"
<1>. USE DEF InCustody, TypeInv, TypeOK, StoreTypeOK, Settled
<1>1. CASE Quiet
  BY <1>1 DEF Quiet
<1>2. ASSUME NEW c \in Calls, StartsRun(c)  PROVE worker[c] = "none"
  BY <1>2 DEF StartsRun, Custody
<1>3. ASSUME NEW c \in Calls, StartsRun(c) \/ EndsRun(c) \/ DropsRecord(c)
      PROVE  /\ Settled(j)
             /\ worker[j] # "none" => worker'[j] # "none"
             /\ record[j] = "gone" => record'[j] = "gone"
  <2>1. CASE StartsRun(c)
    BY <1>2, <2>1 DEF StartsRun, Spawn, RunShape
  <2>2. CASE EndsRun(c)
    BY <2>2 DEF EndsRun
  <2>3. CASE DropsRecord(c)
    BY <2>3 DEF DropsRecord
  <2>. QED  BY <1>3, <2>1, <2>2, <2>3
<1>. QED  BY <1>1, <1>3 DEF MovesRuns

LEMMA ShapeStays ==
  ASSUME InCustody, RunShape, MovesRuns
  PROVE  RunShape'
<1>. USE DEF InCustody, TypeInv, TypeOK, StoreTypeOK, RunShape
<1>. SUFFICES ASSUME NEW d \in Calls
              PROVE  /\ worker'[d] = "none" <=> record'[d] = "none"
                     /\ stored'[d] # "none" => worker'[d] = "exited"
  OBVIOUS
<1>1. CASE Quiet
  BY <1>1 DEF Quiet
<1>2. ASSUME NEW c \in Calls, StartsRun(c)  PROVE worker[c] = "none"
  BY <1>2 DEF StartsRun, Custody
<1>3. ASSUME NEW c \in Calls, StartsRun(c)
      PROVE  /\ worker'[d] = "none" <=> record'[d] = "none"
             /\ stored'[d] # "none" => worker'[d] = "exited"
  BY <1>2, <1>3 DEF StartsRun, Spawn, Evicted, Terminal, Retained
<1>4. ASSUME NEW c \in Calls, EndsRun(c) \/ DropsRecord(c)
      PROVE  /\ worker'[d] = "none" <=> record'[d] = "none"
             /\ stored'[d] # "none" => worker'[d] = "exited"
  BY <1>4 DEF EndsRun, DropsRecord
<1>. QED  BY <1>1, <1>3, <1>4 DEF MovesRuns

-----------------------------------------------------------------------------
(* The index and the workers of a key                                       *)

(* An entry names a call of its tool and key; whoever is publishing holds   *)
(* the reservation; and a live keyed run is the one its entry names, which  *)
(* is why no start on the key gets past the entry.                          *)
KeyInv ==
  /\ \A t \in Tools, k \in Keys :
       index[t][k].state # "none" => /\ req[index[t][k].job].tool = t
                                     /\ req[index[t][k].job].key = k
  /\ \A c \in Calls :
       /\ start[c] = "reserved" => EntryOf(c) = [state |-> "reserved", job |-> c]
       /\ Alive(c) /\ Keyed(c) => EntryOf(c).state # "none" /\ EntryOf(c).job = c

LEMMA EntryNames ==
  ASSUME KeyInv, Attached, NEW c \in Calls, req[c].tool \in Tools, req[c].key \in Keys,
         EntryOf(c).state # "none"
  PROVE  /\ EntryOf(c).job \in Calls
         /\ req[EntryOf(c).job].tool = req[c].tool /\ req[EntryOf(c).job].key = req[c].key
<1>. DEFINE t == req[c].tool
            k == req[c].key
<1>1. EntryOf(c) = index[t][k] /\ t \in Tools /\ k \in Keys
  BY DEF EntryOf
<1>. HIDE DEF t, k
<1>2. index[t][k].job \in Calls
  BY <1>1 DEF Attached
<1>3. req[index[t][k].job].tool = t /\ req[index[t][k].job].key = k
  BY <1>1 DEF KeyInv
<1>. QED  BY <1>1, <1>2, <1>3 DEF t, k

LEMMA KeyOfKeyed ==
  ASSUME StoreTypeOK, NEW c \in Calls
  PROVE  /\ req[c].tool \in Tools /\ req[c].key \in Keys \cup {NoKey}
         /\ req[c] = [tool |-> req[c].tool, key |-> req[c].key, args |-> req[c].args]
  BY StoreAssumption DEF StoreTypeOK

(* Steps that leave the index alone, reserve nothing and bring no keyed     *)
(* worker to life.                                                          *)
LEMMA SameIndex ==
  ASSUME KeyInv, req' = req, index' = index,
         \A c \in Calls : start'[c] = "reserved" => start[c] = "reserved",
         \A c \in Calls : Alive(c)' /\ Keyed(c) => Alive(c)
  PROVE  KeyInv'
<1>1. ASSUME NEW t \in Tools, NEW k \in Keys, index'[t][k].state # "none"
      PROVE  req'[index'[t][k].job].tool = t /\ req'[index'[t][k].job].key = k
  BY <1>1 DEF KeyInv
<1>2. ASSUME NEW c \in Calls
      PROVE  /\ start'[c] = "reserved" => EntryOf(c)' = [state |-> "reserved", job |-> c]
             /\ Alive(c)' /\ Keyed(c)' => EntryOf(c)'.state # "none" /\ EntryOf(c)'.job = c
  <2>1. EntryOf(c)' = EntryOf(c) /\ Keyed(c)' = Keyed(c)
    BY DEF EntryOf, Keyed
  <2>. QED  BY <2>1 DEF KeyInv
<1>. QED  BY <1>1, <1>2 DEF KeyInv

(* Steps that leave the index alone and begin no start.                     *)
LEMMA KeyStays ==
  ASSUME InCustody, KeyInv, MovesRuns, req' = req, index' = index,
         \A c \in Calls : start'[c] \in {"reserved", "started"} => start'[c] = start[c]
  PROVE  KeyInv'
<1>. USE DEF InCustody, TypeInv, TypeOK, StoreTypeOK
<1>1. ASSUME NEW c \in Calls, Alive(c)'  PROVE Alive(c)
  BY <1>1 DEF MovesRuns, Quiet, StartsRun, EndsRun, DropsRecord
<1>. QED  BY <1>1, SameIndex

LEMMA ThreadKeys ==
  ASSUME InCustody, RunShape, KeyInv, NEW c \in Calls, Thread(c), MovesRuns
  PROVE  KeyInv'
<1>. USE DEF InCustody, TypeInv, TypeOK
<1>1. CASE StartThread(c)
  <2>1. ASSUME NEW d \in Calls, Alive(d)', Keyed(d)  PROVE Alive(d)
    BY <1>1, <2>1 DEF StartThread, Spawn, StoreTypeOK, storeVars
  <2>2. req' = req /\ index' = index
    BY <1>1 DEF StartThread, storeVars
  <2>3. ASSUME NEW d \in Calls, start'[d] = "reserved"  PROVE start[d] = "reserved"
    BY <1>1, <2>3 DEF StartThread
  <2>. QED  BY <2>1, <2>2, <2>3, SameIndex
<1>2. CASE IdemAnswer(c)
  <2>1. IdemOutcome(c) \notin {"reserved", "started"}
    BY DEF IdemOutcome
  <2>2. \A d \in Calls :
           start'[d] \in {"reserved", "started"} => start'[d] = start[d]
    BY <1>2, <2>1 DEF IdemAnswer
  <2>. QED  BY <1>2, <2>2, KeyStays DEF IdemAnswer, storeVars
<1>3. CASE IdemReserve(c) \/ IdemPublish(c)
  <2>. DEFINE t == req[c].tool
             k == req[c].key
  <2>1. Keyed(c) /\ t \in Tools /\ k \in Keys
    BY <1>3, KeyOfKeyed DEF IdemReserve, IdemPublish, Attached
  <2>2. EntryOf(c) = index[t][k]
    BY DEF EntryOf
  <2>3. req' = req
    BY <1>3 DEF IdemReserve, IdemPublish
  <2>4. PICK e \in Entries :
           /\ index' = [index EXCEPT ![t][k] = e]
           /\ \/ IdemReserve(c) /\ e = [state |-> "reserved", job |-> c]
              \/ IdemPublish(c) /\ start'[c] = "started" /\ e.state # "none" /\ e.job = c
              \/ IdemPublish(c) /\ start'[c] = "failed" /\ e = NoEntry
    <3>1. [state |-> "reserved", job |-> c] \in Entries
          /\ [state |-> "published", job |-> c] \in Entries /\ NoEntry \in Entries
      BY DEF Entries, NoEntry
    <3>2. CASE IdemReserve(c)
      BY <3>1, <3>2 DEF IdemReserve, SetEntry
    <3>3. CASE IdemPublish(c)
      <4>1. index[t][k] = [state |-> "reserved", job |-> c]
        BY <2>2, <3>3 DEF IdemPublish, KeyInv
      <4>2. index = [index EXCEPT ![t][k] = [state |-> "reserved", job |-> c]]
        BY <2>1, <4>1 DEF StoreTypeOK
      <4>. QED  BY <3>1, <3>3, <4>2 DEF IdemPublish, SetEntry
    <3>. QED  BY <1>3, <3>2, <3>3
  <2>5. \A u \in Tools, l \in Keys :
           index'[u][l] = IF u = t /\ l = k THEN e ELSE index[u][l]
    BY <2>1, <2>4 DEF StoreTypeOK
  <2>6. ASSUME NEW d \in Calls, d # c
        PROVE  /\ start'[d] = start[d]
               /\ Alive(d)' => Alive(d)
               /\ Alive(d) /\ req[d].tool = t => req[d].key # k
               /\ start[d] = "reserved" /\ req[d].tool = t => req[d].key # k
    <3>1. start'[d] = start[d] /\ (Alive(d)' => Alive(d))
      BY <1>3, <2>6 DEF IdemReserve, IdemPublish, Spawn, StoreTypeOK
    <3>2. index[t][k].state = "none" \/ index[t][k].job = c
      <4>1. CASE IdemReserve(c)
        BY <2>2, <4>1 DEF IdemReserve
      <4>2. CASE IdemPublish(c)
        <5>1. start[c] = "reserved"
          BY <4>2 DEF IdemPublish
        <5>. QED  BY <2>2, <5>1 DEF KeyInv
      <4>. QED  BY <1>3, <4>1, <4>2
    <3>3. ASSUME Alive(d) \/ start[d] = "reserved", req[d].tool = t, req[d].key = k
          PROVE  FALSE
      <4>1. Keyed(d) /\ EntryOf(d) = index[t][k]
        BY <2>1, <3>3, StoreAssumption DEF EntryOf
      <4>. QED  BY <2>6, <3>2, <3>3, <4>1 DEF KeyInv
    <3>. QED  BY <3>1, <3>3
  <2>7. ASSUME NEW u \in Tools, NEW l \in Keys, index'[u][l].state # "none"
        PROVE  /\ req'[index'[u][l].job].tool = u
               /\ req'[index'[u][l].job].key = l
    <3>1. CASE u = t /\ l = k
      <4>1. index'[u][l] = e /\ e.state # "none"
        BY <2>5, <2>7, <3>1
      <4>2. e.job = c
        BY ONLY <2>4, <4>1 DEF NoEntry
      <4>. QED  BY <2>3, <3>1, <4>1, <4>2
    <3>2. CASE ~(u = t /\ l = k)
      <4>1. index'[u][l] = index[u][l]
        BY <2>5, <3>2
      <4>. QED  BY <2>3, <2>7, <4>1 DEF KeyInv
    <3>. QED  BY <3>1, <3>2
  <2>8. ASSUME NEW d \in Calls
        PROVE  /\ start'[d] = "reserved" =>
                    EntryOf(d)' = [state |-> "reserved", job |-> d]
               /\ Alive(d)' /\ Keyed(d)' =>
                    EntryOf(d)'.state # "none" /\ EntryOf(d)'.job = d
    <3>1. CASE d # c
      <4>1. ASSUME start'[d] = "reserved" \/ (Alive(d)' /\ Keyed(d)')
            PROVE  EntryOf(d)' = EntryOf(d)
        <5>1. Keyed(d) /\ (start[d] = "reserved" \/ Alive(d))
          BY <2>3, <2>6, <3>1, <4>1 DEF Attached
        <5>2. req[d].tool \in Tools /\ req[d].key \in Keys
          BY <5>1, KeyOfKeyed
        <5>3. ~(req[d].tool = t /\ req[d].key = k)
          BY <2>6, <3>1, <5>1
        <5>. QED  BY <2>3, <2>5, <5>2, <5>3 DEF EntryOf
      <4>. QED  BY <2>3, <2>6, <3>1, <4>1 DEF KeyInv
    <3>2. CASE d = c
      <4>1. EntryOf(c)' = e
        BY <2>1, <2>3, <2>5 DEF EntryOf
      <4>2. CASE IdemReserve(c)
        <5>1. e = [state |-> "reserved", job |-> c]
          BY <2>4, <4>2 DEF IdemReserve, IdemPublish
        <5>. QED  BY <3>2, <4>1, <5>1
      <4>3. CASE IdemPublish(c)
        <5>1. start'[c] # "reserved"
          BY <4>3 DEF IdemPublish
        <5>2. start[c] # "started" /\ start[c] # "queued"
          BY <4>3 DEF IdemPublish
        <5>3. ASSUME start'[c] = "failed"  PROVE ~(Alive(c)')
          <6>1. worker[c] = "none"
            BY <5>2 DEF Custody
          <6>2. worker' = worker
            BY <4>3, <5>3 DEF IdemPublish
          <6>. QED  BY <6>1, <6>2
        <5>4. start'[c] # "failed" => e.state # "none" /\ e.job = c
          BY <2>4, <4>3, <5>2 DEF IdemReserve
        <5>. QED  BY <3>2, <4>1, <5>1, <5>3, <5>4
      <4>. QED  BY <1>3, <4>2, <4>3
    <3>. QED  BY <3>1, <3>2
  <2>. QED  BY <2>7, <2>8 DEF KeyInv
<1>. QED  BY <1>1, <1>2, <1>3 DEF Thread

LEMMA SweepKeys ==
  ASSUME InCustody, KeyInv, NEW t \in Tools, NEW k \in Keys, SweepIndex(t, k)
  PROVE  KeyInv'
<1>. USE DEF InCustody, TypeInv, TypeOK
<1>1. UNCHANGED <<req, start, worker>>
  BY DEF SweepIndex, Sweep, callVars
<1>2. \A u \in Tools, l \in Keys :
         index'[u][l] = IF u = t /\ l = k THEN NoEntry ELSE index[u][l]
  BY DEF SweepIndex, Sweep, StoreTypeOK
<1>3. ASSUME NEW d \in Calls, Keyed(d), start[d] = "reserved" \/ Alive(d)
      PROVE  EntryOf(d)' = EntryOf(d)
  <2>1. req[d].tool \in Tools /\ req[d].key \in Keys
    BY <1>3, KeyOfKeyed
  <2>2. ~(req[d].tool = t /\ req[d].key = k)
    <3>1. CASE Alive(d)
      BY <3>1 DEF SweepIndex, Sweep
    <3>2. CASE start[d] = "reserved"
      <4>1. EntryOf(d).state = "reserved"
        BY <3>2 DEF KeyInv
      <4>2. ~(\E c \in Calls : /\ start[c] = "reserved"
                               /\ req[c].tool = t /\ req[c].key = k)
            \/ index[t][k].state = "published"
        BY DEF SweepIndex, Sweep
      <4>. QED  BY <3>2, <4>1, <4>2 DEF EntryOf
    <3>. QED  BY <1>3, <3>1, <3>2
  <2>. QED  BY <1>1, <1>2, <2>1, <2>2 DEF EntryOf
<1>. QED  BY <1>1, <1>2, <1>3 DEF KeyInv, Attached, NoEntry

LEMMA KeysHold ==
  ASSUME InCustody, RunShape, KeyInv, Next, MovesRuns
  PROVE  KeyInv'
<1>. USE DEF InCustody, TypeInv, TypeOK
<1>1. ASSUME NEW c \in Calls, Handler(c)  PROVE KeyInv'
  <2>1. req' = req /\ index' = index
    BY <1>1 DEF Handler, Started, Replay, StartRefused, StartTransient, Snapshot,
                AwaitPoll, AwaitExpire, ReadResult, Poll, Cancel, storeVars
  <2>2. \A d \in Calls :
           start'[d] \in {"reserved", "started"} => start'[d] = start[d]
    BY <1>1 DEF Handler, Started, Replay, StartRefused, StartTransient, Snapshot,
                AwaitPoll, AwaitExpire, ReadResult
  <2>. QED  BY <2>1, <2>2, KeyStays
<1>2. ASSUME NEW c \in Calls,
             ClientCancels(c) \/ StoreRaises(c) \/ StopOrphanedStart(c)
               \/ Issue(c) \/ WaitExpires(c)
      PROVE  KeyInv'
  <2>1. req' = req /\ index' = index
    BY <1>2 DEF ClientCancels, CancelStarting, CancelAwaiting, CancelReading,
                StoreRaises, HandlerRaises, StopRaises, StopOrphanedStart, Issue,
                WaitExpires, Cancel, storeVars
  <2>2. \A d \in Calls :
           start'[d] \in {"reserved", "started"} => start'[d] = start[d]
    BY <1>2 DEF ClientCancels, CancelStarting, CancelAwaiting, CancelReading,
                StoreRaises, HandlerRaises, StopRaises, StopOrphanedStart, Issue,
                WaitExpires
  <2>. QED  BY <2>1, <2>2, KeyStays
<1>3. ASSUME NEW j \in Calls, JobStatus(j) \/ JobCancel(j) \/ Expire(j) \/ World(j)
      PROVE  KeyInv'
  <2>1. req' = req /\ index' = index /\ start' = start
    BY <1>3 DEF JobStatus, JobCancel, Expire, World, Poll, Cancel, Remove,
                WorkerFinishes, WorkerDies, DeadlinePasses, callVars
  <2>. QED  BY <2>1, KeyStays
<1>4. ASSUME NEW f \in Fetches,
             \/ \E j \in Calls, consume \in BOOLEAN : FetchRead(f, j, consume)
             \/ Discard(f) \/ FetchReply(f) \/ FetchDropped(f)
      PROVE  KeyInv'
  <2>1. req' = req /\ index' = index /\ start' = start
    BY <1>4 DEF FetchRead, Discard, FetchReply, FetchDropped, Poll, Remove,
                callVars, storeVars
  <2>. QED  BY <2>1, KeyStays
<1>5. CASE Crash
  <2>1. req' = req /\ index' = index
    BY <1>5 DEF Crash, storeVars
  <2>2. \A d \in Calls :
           start'[d] \in {"reserved", "started"} => start'[d] = start[d]
    BY <1>5 DEF Crash
  <2>. QED  BY <2>1, <2>2, KeyStays
<1>. QED
  BY <1>1, <1>2, <1>3, <1>4, <1>5, ThreadKeys, SweepKeys DEF Next

-----------------------------------------------------------------------------
(* What callers attached to a run are told of it                            *)

(* A call is attached to its own run or, as a replay, to one of equal       *)
(* arguments that was spawned before; an envelope it handed out is that of  *)
(* the run, which had ended and stays as it ended.                          *)
OutcomeOf(j) == FinishedEnvelope(Status(j), stored[j]).code

Told(c) ==
  /\ run[c] \notin {NoJob, c} => /\ start[c] = "replay"
                                 /\ worker[run[c]] # "none"
                                 /\ req[run[c]] = req[c]
  /\ start[c] = "replay" => run[c] # c
  /\ pc[c] = "snapshot" \/ replayed[c] => start[c] = "replay"
  /\ pc[c] \in {"awaiting", "expiring", "finished"} =>
       start[c] \in {"started", "replay"}
  /\ pc[c] = "finished" => worker[run[c]] = "exited"
  /\ reply[c] \in EnvelopeCodes =>
       /\ start[c] \in {"started", "replay"} /\ pc[c] \in {"replied", "lost"}
       /\ run[c] \in Calls /\ worker[run[c]] = "exited"
       /\ \A j \in Calls : run[c] = j => reply[c] = OutcomeOf(j)

AnswerInv == \A c \in Calls : Told(c)

(* What was told of a run stays true of it when it does.                    *)
LEMMA ToldStays ==
  ASSUME InCustody, RunShape, MovesRuns, NEW d \in Calls, Told(d), req' = req,
         run'[d] = run[d], start'[d] = start[d], replayed'[d] = replayed[d],
         reply'[d] = reply[d],
         pc'[d] = pc[d] \/ pc'[d] = "lost" \/ (pc'[d] = "cancelled" /\ pc[d] \notin Ended)
  PROVE  Told(d)'
<1>. USE DEF InCustody, TypeInv, TypeOK
<1>1. run[d] \in Calls => /\ Settled(run[d])
                          /\ worker[run[d]] # "none" => worker'[run[d]] # "none"
  BY RunsSettle
<1>2. ASSUME NEW j \in Calls, worker[j] = "exited"  PROVE OutcomeOf(j)' = OutcomeOf(j)
  BY <1>2, RunsSettle DEF Settled, OutcomeOf, Status
<1>3. run[d] \in Calls \cup {NoJob}
  OBVIOUS
<1>4. pc[d] = "finished" => run[d] \in Calls
  BY DEF Attached
<1>. QED  BY <1>1, <1>2, <1>3, <1>4 DEF Told, Ended, Settled

LEMMA ThreadTells ==
  ASSUME InCustody, RunShape, KeyInv, AnswerInv, NEW c \in Calls, Thread(c), MovesRuns
  PROVE  AnswerInv'
<1>0. req[c].tool \in Tools /\ req[c].key \in Keys /\ EntryOf(c).state # "none"
        => /\ EntryOf(c).job \in Calls
           /\ req[EntryOf(c).job].tool = req[c].tool
           /\ req[EntryOf(c).job].key = req[c].key
  BY EntryNames DEF InCustody, TypeInv
<1>. USE DEF InCustody, TypeInv, TypeOK
<1>1. ASSUME NEW d \in Calls, d # c  PROVE Told(d)'
  <2>1. /\ UNCHANGED <<req, pc, reply, replayed>>
        /\ run'[d] = run[d] /\ start'[d] = start[d]
    BY <1>1 DEF Thread, StartThread, IdemReserve, IdemAnswer, IdemPublish
  <2>. QED  BY <2>1, ToldStays DEF AnswerInv
<1>2. Told(c)'
  <2>1. start[c] \in {"queued", "reserved"} /\ UNCHANGED <<req, pc, reply, replayed>>
    BY DEF Thread, StartThread, IdemReserve, IdemAnswer, IdemPublish
  <2>2. /\ run[c] \in {NoJob, c} /\ ~replayed[c] /\ reply[c] \notin EnvelopeCodes
        /\ pc[c] \notin {"snapshot", "awaiting", "expiring", "finished"}
    BY <2>1 DEF AnswerInv, Told
  <2>3. CASE start'[c] # "replay" /\ run' = run
    BY <2>1, <2>2, <2>3 DEF Told
  <2>4. CASE /\ IdemAnswer(c) /\ EntryOf(c).state # "none"
             /\ IdemOutcome(c) = "replay" /\ start'[c] = "replay"
             /\ run'[c] = EntryOf(c).job
    <3>. DEFINE j == EntryOf(c).job
    <3>1. req[c].tool \in Tools /\ req[c].key \in Keys
      BY <2>4, KeyOfKeyed DEF IdemAnswer
    <3>2. j \in Calls /\ req[j].tool = req[c].tool /\ req[j].key = req[c].key
      BY ONLY <1>0, <2>4, <3>1
    <3>3. req[j].args = req[c].args /\ record[j] = "live"
      BY <2>4 DEF IdemOutcome
    <3>4. req[j] = req[c]
      BY <3>2, <3>3, KeyOfKeyed
    <3>5. worker[j] # "none" /\ j # c
      <4>1. worker[j] # "none"
        BY <3>2, <3>3 DEF RunShape
      <4>2. start[j] = "started"
        BY <3>2, <4>1 DEF Custody
      <4>. QED  BY <2>1, <4>1, <4>2
    <3>6. worker' = worker
      BY <2>4 DEF IdemAnswer, storeVars
    <3>. QED  BY <2>1, <2>2, <2>4, <3>4, <3>5, <3>6 DEF Told
  <2>5. CASE IdemAnswer(c)
    BY <2>3, <2>4, <2>5 DEF IdemAnswer
  <2>6. CASE ~IdemAnswer(c)
    BY <2>3, <2>6 DEF Thread, StartThread, IdemReserve, IdemPublish
  <2>. QED  BY <2>5, <2>6
<1>. QED  BY <1>1, <1>2 DEF AnswerInv

(* A poll that does not see a running run leaves an ended one.              *)
LEMMA PolledEnds ==
  ASSUME InCustody, RunShape, NEW j \in Calls, record[j] = "live", Poll(j),
         Polled(j) # "running"
  PROVE  worker'[j] = "exited"
<1>. USE DEF InCustody, TypeInv, TypeOK, StoreTypeOK
<1>1. CASE Alive(j) /\ overdue[j]
  BY <1>1 DEF Poll, Reap
<1>2. CASE ~(Alive(j) /\ overdue[j])
  <2>1. worker' = worker /\ Status(j) # "running"
    BY <1>2 DEF Poll, Reap, Polled
  <2>2. worker[j] # "alive"
    BY <2>1 DEF Status, Custody
  <2>. QED  BY <2>1, <2>2 DEF RunShape
<1>. QED  BY <1>1, <1>2

LEMMA HandlerTells ==
  ASSUME InCustody, RunShape, AnswerInv, NEW c \in Calls, Handler(c), MovesRuns
  PROVE  AnswerInv'
<1>. USE DEF InCustody, TypeInv, TypeOK, Goto, Reply, AwaitReply
<1>0. UNCHANGED <<req, orphan, fetch>>
  BY DEF Handler, Started, Replay, StartRefused, StartTransient, Snapshot,
         AwaitPoll, AwaitExpire, ReadResult
<1>1. ASSUME NEW d \in Calls, d # c  PROVE Told(d)'
  <2>1. /\ pc'[d] = pc[d] /\ reply'[d] = reply[d] /\ replayed'[d] = replayed[d]
        /\ run'[d] = run[d] /\ start'[d] = start[d]
    BY <1>1 DEF Handler, Started, Replay, StartRefused, StartTransient, Snapshot,
                AwaitPoll, AwaitExpire, ReadResult
  <2>. QED  BY <1>0, <2>1, ToldStays DEF AnswerInv
<1>. SUFFICES Told(c)'
  BY <1>1 DEF AnswerInv
<1>. USE DEF Told
<1>2. Told(c)
  BY DEF AnswerInv
<1>3. pc[c] \notin {"replied", "lost"} => reply[c] \notin EnvelopeCodes
  BY <1>2
<1>4. run[c] \in Calls => (worker[run[c]] # "none" => worker'[run[c]] # "none")
  BY RunsSettle
<1>5. CASE Started(c)
  BY <1>0, <1>2, <1>3, <1>5 DEF Started, EnvelopeCodes
<1>6. CASE Replay(c)
  BY <1>0, <1>2, <1>3, <1>4, <1>6 DEF Replay, EnvelopeCodes
<1>7. CASE StartRefused(c) \/ StartTransient(c)
  <2>1. start[c] # "replay" /\ run[c] \in {NoJob, c} /\ ~replayed[c]
    BY <1>2, <1>7 DEF StartRefused, StartTransient
  <2>2. /\ run' = run /\ replayed' = replayed
        /\ start'[c] # "replay"
        /\ pc'[c] \in {"starting", "replied"}
        /\ reply'[c] \notin EnvelopeCodes
    BY <1>3, <1>7, <2>1 DEF StartRefused, StartTransient, EnvelopeCodes
  <2>. QED  BY <1>0, <2>1, <2>2
<1>8. CASE Snapshot(c)
  BY <1>0, <1>2, <1>3, <1>4, <1>8 DEF Snapshot, EnvelopeCodes, Attached
<1>9. CASE AwaitPoll(c)
  <2>1. run[c] \in Calls /\ start[c] \in {"started", "replay"}
        /\ UNCHANGED <<run, start>>
    BY <1>2, <1>9 DEF AwaitPoll, Attached
  <2>2. CASE Poll(run[c]) /\ record[run[c]] = "live" /\ pc'[c] = "finished"
             /\ Polled(run[c]) # "running" /\ UNCHANGED <<reply, replayed>>
    <3>1. worker'[run[c]] = "exited"
      BY <2>1, <2>2, PolledEnds
    <3>. QED  BY <1>0, <1>2, <1>3, <1>4, <1>9, <2>1, <2>2, <3>1 DEF AwaitPoll
  <2>3. CASE pc'[c] = "expiring" /\ UNCHANGED <<reply, replayed>>
    BY <1>0, <1>2, <1>3, <1>4, <1>9, <2>1, <2>3 DEF AwaitPoll
  <2>4. CASE /\ pc'[c] = "replied" /\ reply'[c] \in {"record_lost", "timeout_poll"}
             /\ replayed'[c] = (run[c] # c)
    <3>1. run[c] # c => start[c] = "replay"
      BY <1>2, <2>1, StoreAssumption
    <3>. QED  BY <1>0, <1>2, <1>4, <2>1, <2>4, <3>1 DEF EnvelopeCodes
  <2>. QED  BY <1>9, <2>2, <2>3, <2>4 DEF AwaitPoll
<1>10. CASE AwaitExpire(c)
  <2>1. run[c] \in Calls /\ start[c] \in {"started", "replay"}
        /\ UNCHANGED <<run, start>>
    BY <1>2, <1>10 DEF AwaitExpire, Attached
  <2>2. run[c] # c => start[c] = "replay"
    BY <1>2, <2>1, StoreAssumption
  <2>3. /\ pc'[c] = "replied" /\ reply'[c] = "timeout_cancelled"
        /\ replayed'[c] = (run[c] # c)
    BY <1>10 DEF AwaitExpire
  <2>. QED  BY <1>0, <1>2, <1>4, <2>1, <2>2, <2>3 DEF EnvelopeCodes
<1>11. CASE ReadResult(c)
  <2>1. /\ run[c] \in Calls /\ start[c] \in {"started", "replay"}
        /\ worker[run[c]] = "exited" /\ UNCHANGED <<run, start, storeVars>>
    BY <1>2, <1>11 DEF ReadResult, Attached
  <2>2. run[c] # c => start[c] = "replay"
    BY <1>2, <2>1, StoreAssumption
  <2>3. /\ pc'[c] = "replied" /\ replayed'[c] = (run[c] # c)
        /\ \/ reply'[c] = "record_lost"
           \/ reply'[c] = OutcomeOf(run[c])
    BY <1>11, <2>1 DEF ReadResult, Polled, OutcomeOf
  <2>4. ASSUME NEW j \in Calls  PROVE OutcomeOf(j)' = OutcomeOf(j)
    BY <2>1 DEF OutcomeOf, Status, storeVars
  <2>. QED
    BY <1>0, <1>2, <2>1, <2>2, <2>3, <2>4 DEF EnvelopeCodes, storeVars
<1>. QED
  BY <1>5, <1>6, <1>7, <1>8, <1>9, <1>10, <1>11 DEF Handler

LEMMA AnswersHold ==
  ASSUME InCustody, RunShape, KeyInv, AnswerInv, Next, MovesRuns
  PROVE  AnswerInv'
<1>. USE DEF InCustody, TypeInv, TypeOK
<1>1. ASSUME NEW c \in Calls, ClientCancels(c) \/ StopOrphanedStart(c)
                                \/ WaitExpires(c)
      PROVE  AnswerInv'
  <2>1. ASSUME NEW d \in Calls  PROVE Told(d)'
    <3>1. /\ UNCHANGED <<req, start, run, reply, replayed>>
          /\ pc'[d] = pc[d] \/ (pc'[d] = "cancelled" /\ pc[d] \notin Ended)
      BY <1>1 DEF ClientCancels, CancelStarting, CancelAwaiting, CancelReading,
                  StopOrphanedStart, WaitExpires, Goto, Ended
    <3>. QED  BY <3>1, ToldStays DEF AnswerInv
  <2>. QED  BY <2>1 DEF AnswerInv
<1>2. ASSUME NEW c \in Calls, Issue(c)  PROVE AnswerInv'
  <2>1. ASSUME NEW d \in Calls, d # c  PROVE Told(d)'
    BY <1>2, <2>1, ToldStays DEF AnswerInv, Issue, Goto
  <2>2. Told(c)'
    BY <1>2 DEF AnswerInv, Told, Custody, Issue, Goto, storeVars
  <2>. QED  BY <2>1, <2>2 DEF AnswerInv
<1>3. ASSUME NEW c \in Calls, StoreRaises(c)  PROVE AnswerInv'
  <2>1. CASE StopRaises(c)
    <3>1. ASSUME NEW d \in Calls  PROVE Told(d)'
      <4>1. /\ UNCHANGED <<req, start, run, reply, replayed>>
            /\ pc'[d] = pc[d] \/ (pc'[d] = "cancelled" /\ pc[d] \notin Ended)
        BY <2>1 DEF StopRaises, Goto, Ended
      <4>. QED  BY <4>1, ToldStays DEF AnswerInv
    <3>. QED  BY <3>1 DEF AnswerInv
  <2>2. CASE HandlerRaises(c)
    <3>1. ASSUME NEW d \in Calls, d # c  PROVE Told(d)'
      BY <2>2, <3>1, ToldStays DEF AnswerInv, HandlerRaises, Reply, Goto
    <3>2. Told(c)'
      BY <2>2 DEF AnswerInv, Told, HandlerRaises, Reply, Goto, storeVars,
                  EnvelopeCodes
    <3>. QED  BY <3>1, <3>2 DEF AnswerInv
  <2>. QED  BY <1>3, <2>1, <2>2 DEF StoreRaises
<1>4. ASSUME NEW j \in Calls, JobStatus(j) \/ JobCancel(j) \/ Expire(j) \/ World(j)
      PROVE  AnswerInv'
  <2>1. UNCHANGED <<req, callVars>>
    BY <1>4 DEF JobStatus, JobCancel, Expire, World
  <2>. QED  BY <2>1, ToldStays DEF AnswerInv, callVars
<1>5. ASSUME NEW f \in Fetches,
             \/ \E j \in Calls, consume \in BOOLEAN : FetchRead(f, j, consume)
             \/ Discard(f) \/ FetchReply(f) \/ FetchDropped(f)
      PROVE  AnswerInv'
  <2>1. UNCHANGED <<req, callVars>>
    BY <1>5 DEF FetchRead, Discard, FetchReply, FetchDropped
  <2>. QED  BY <2>1, ToldStays DEF AnswerInv, callVars
<1>6. ASSUME NEW t \in Tools, NEW k \in Keys, SweepIndex(t, k)  PROVE AnswerInv'
  <2>1. UNCHANGED <<req, callVars>>
    BY <1>6 DEF SweepIndex
  <2>. QED  BY <2>1, ToldStays DEF AnswerInv, callVars
<1>7. CASE Crash
  <2>1. ASSUME NEW d \in Calls  PROVE Told(d)'
    <3>1. UNCHANGED <<req, run, reply, replayed, worker, stored, mark>>
      BY <1>7 DEF Crash, storeVars
    <3>2. /\ \/ pc'[d] = pc[d] /\ pc[d] \in Ended \cup {"idle"}
             \/ pc'[d] = "lost"
          /\ \/ start'[d] = start[d]
             \/ start[d] \in {"queued", "reserved"} /\ start'[d] = "none"
      BY <1>7 DEF Crash
    <3>3. ASSUME NEW j \in Calls  PROVE OutcomeOf(j)' = OutcomeOf(j)
      BY <3>1 DEF OutcomeOf, Status
    <3>. QED  BY <3>1, <3>2, <3>3 DEF AnswerInv, Told, Ended
  <2>. QED  BY <2>1 DEF AnswerInv
<1>. QED
  BY <1>1, <1>2, <1>3, <1>4, <1>5, <1>6, <1>7, ThreadTells, HandlerTells DEF Next

-----------------------------------------------------------------------------
(* Fetches: what a consume holds while it goes on to delete                 *)

(* A consume that goes on holds the readable payload of a run that is done. *)
Holds(f, j) ==
  /\ fetch[f].consume /\ worker[j] = "exited" /\ mark[j] = "none"
  /\ fetch[f].reply = stored[j] /\ stored[j] \in {"success", "error"}

Fetched(f) ==
  /\ fetch[f].phase = "idle" => fetch[f].outcome = "none" /\ ~fetch[f].pending
  /\ fetch[f].pending => /\ fetch[f].outcome = "none"
                         /\ fetch[f].phase \in {"discarding", "dropped"}
  /\ fetch[f].phase = "discarding" =>
       /\ fetch[f].pending
            \/ fetch[f].outcome \in {"REMOVED", "MISSING", "DELETE_FAILED"}
  /\ fetch[f].outcome # "NOT_DONE"
  /\ fetch[f].outcome = "REMOVED" => fetch[f].job \in Calls
  /\ \A j \in Calls : fetch[f].job = j =>
       /\ \/ fetch[f].pending \/ fetch[f].phase = "discarding"
          \/ fetch[f].outcome = "REMOVED"
          => Holds(f, j)
       /\ fetch[f].outcome = "REMOVED" => record[j] = "gone"
  /\ /\ fetch[f].phase = "replied" /\ fetch[f].consume
     /\ fetch[f].reply \in {"success", "error"}
     => fetch[f].outcome \in {"REMOVED", "DELETE_FAILED"}

FetchInv ==
  /\ \A f \in Fetches : Fetched(f)
  /\ \A f, g \in Fetches :
       (/\ fetch[f].outcome = "REMOVED" /\ fetch[g].outcome = "REMOVED"
        /\ fetch[f].job = fetch[g].job) => f = g
  /\ \A j \in Calls :
       removedBy[j] = "consume" =>
         \E f \in Fetches : fetch[f].job = j /\ fetch[f].outcome = "REMOVED"

(* The consumes that took the result of a run are what they were.           *)
SameTakers ==
  \A f \in Fetches :
    /\ fetch'[f].outcome = "REMOVED" <=> fetch[f].outcome = "REMOVED"
    /\ fetch[f].outcome = "REMOVED" => fetch'[f].job = fetch[f].job

LEMMA FetchStays ==
  ASSUME InCustody, RunShape, MovesRuns, NEW f \in Fetches, Fetched(f),
         fetch'[f] = fetch[f]
  PROVE  Fetched(f)'
<1>1. ASSUME NEW j \in Calls, Holds(f, j)  PROVE Holds(f, j)'
  BY <1>1, RunsSettle DEF Holds, Settled
<1>2. \A j \in Calls : record[j] = "gone" => record'[j] = "gone"
  BY RunsSettle
<1>. QED  BY <1>1, <1>2 DEF Fetched

(* All but a discard.                                                       *)
LEMMA OthersFetched ==
  ASSUME InCustody, RunShape, FetchInv, MovesRuns, ~(\E f \in Fetches : Discard(f)),
         \A f \in Fetches : Fetched(f)', SameTakers
  PROVE  FetchInv'
<1>. USE DEF InCustody, TypeInv, TypeOK, StoreTypeOK
<1>1. ASSUME NEW j \in Calls, removedBy'[j] = "consume"
      PROVE  removedBy[j] = "consume"
  <2>1. CASE Quiet
    BY <1>1, <2>1 DEF Quiet
  <2>2. ASSUME NEW c \in Calls, StartsRun(c)  PROVE removedBy[j] = "consume"
    <3>1. removedBy'[j] = IF j \in Evicted THEN "cap" ELSE removedBy[j]
      BY <2>2 DEF StartsRun, Spawn
    <3>. QED  BY <1>1, <3>1
  <2>3. ASSUME NEW c \in Calls, EndsRun(c)  PROVE removedBy[j] = "consume"
    BY <1>1, <2>3 DEF EndsRun
  <2>4. ASSUME NEW c \in Calls, DropsRecord(c)  PROVE removedBy[j] = "consume"
    <3>1. removedBy' = [removedBy EXCEPT ![c] = "ttl"]
      BY <2>4 DEF DropsRecord
    <3>. QED  BY <1>1, <3>1
  <2>. QED  BY <2>1, <2>2, <2>3, <2>4 DEF MovesRuns
<1>. QED  BY <1>1 DEF FetchInv, SameTakers

LEMMA ReadFetched ==
  ASSUME InCustody, RunShape, FetchInv, MovesRuns, NEW f \in Fetches,
         NEW j \in Calls, NEW consume \in BOOLEAN, FetchRead(f, j, consume)
  PROVE  SameTakers /\ \A g \in Fetches : Fetched(g)'
<1>. USE DEF InCustody, TypeInv, TypeOK
<1>. DEFINE envelope == FinishedEnvelope(Polled(j), stored[j])
            goesOn == record[j] = "live" /\ Consumes(consume, envelope)
<1>1. fetch' = [fetch EXCEPT ![f] =
        [phase |-> IF goesOn THEN "discarding" ELSE "replied",
         job |-> j, consume |-> consume,
         reply |-> IF record[j] = "live" THEN envelope.code ELSE "job_not_found",
         pending |-> goesOn, outcome |-> "none"]]
  BY DEF FetchRead
<1>2. ASSUME NEW g \in Fetches, g # f  PROVE Fetched(g)'
  BY <1>1, <1>2, FetchStays DEF FetchInv
<1>3. ASSUME goesOn
      PROVE  /\ consume /\ worker'[j] = "exited" /\ mark'[j] = "none"
             /\ envelope.code = stored'[j] /\ stored'[j] \in {"success", "error"}
  <2>1. consume /\ envelope.delivered
    BY <1>3 DEF Consumes
  <2>2. /\ Polled(j) = "done" /\ stored[j] \in {"success", "error"}
        /\ envelope.code = stored[j]
    BY <2>1 DEF FinishedEnvelope, Validates
  <2>3. mark[j] \in {"none", "cancelled", "timeout"}
    BY DEF StoreTypeOK
  <2>4. Status(j) = "done"
    BY <2>2 DEF Polled
  <2>5. mark[j] = "none" /\ ~Alive(j) /\ stored[j] # "none"
    BY <2>2, <2>3, <2>4 DEF Status
  <2>6. worker[j] = "exited"
    BY <2>5 DEF RunShape
  <2>7. Settled(j)
    BY RunsSettle
  <2>. QED  BY <2>1, <2>2, <2>5, <2>6, <2>7 DEF Settled
<1>4. ASSUME ~goesOn, consume, record[j] = "live"
      PROVE  envelope.code \notin {"success", "error"}
  <2>1. ~envelope.delivered
    BY <1>4 DEF Consumes
  <2>2. CASE Polled(j) = "done" /\ stored[j] # "none"
    <3>1. ~Validates(stored[j]) /\ envelope.code = Unreadable(stored[j])
      BY <2>1, <2>2 DEF FinishedEnvelope
    <3>. QED  BY <3>1 DEF Unreadable
  <2>3. CASE ~(Polled(j) = "done" /\ stored[j] # "none")
    <3>1. envelope.code = StateError(Polled(j))
      BY <2>3 DEF FinishedEnvelope
    <3>2. StateError(Polled(j))
            \in {"job_running", "job_cancelled", "job_timeout", "job_failed"}
      BY DEF StateError, StateToError
    <3>. QED  BY <3>1, <3>2
  <2>. QED  BY <2>2, <2>3
<1>5. /\ fetch'[f].phase = (IF goesOn THEN "discarding" ELSE "replied")
      /\ fetch'[f].job = j /\ fetch'[f].consume = consume
      /\ fetch'[f].reply = (IF record[j] = "live" THEN envelope.code
                            ELSE "job_not_found")
      /\ fetch'[f].pending = goesOn /\ fetch'[f].outcome = "none"
  BY <1>1
<1>. HIDE DEF envelope, goesOn
<1>6. Fetched(f)'
  <2>1. CASE goesOn
    <3>1. record[j] = "live"
      BY <2>1 DEF goesOn
    <3>. QED  BY <1>3, <1>5, <2>1, <3>1 DEF Fetched, Holds
  <2>2. CASE ~goesOn
    BY <1>4, <1>5, <2>2 DEF Fetched, Holds
  <2>. QED  BY <2>1, <2>2
<1>7. SameTakers
  <2>1. fetch[f].outcome = "none"
    BY DEF FetchRead, FetchInv, Fetched
  <2>2. \A g \in Fetches : g # f => fetch'[g] = fetch[g]
    BY <1>1
  <2>. QED  BY <1>5, <2>1, <2>2 DEF SameTakers
<1>. QED  BY <1>2, <1>6, <1>7

LEMMA DiscardFetched ==
  ASSUME InCustody, RunShape, FetchInv, MovesRuns, NEW f \in Fetches, Discard(f)
  PROVE  FetchInv'
<1>. USE DEF InCustody, TypeInv, TypeOK
<1>. DEFINE j == fetch[f].job
<1>1. j \in Calls /\ fetch[f].pending
  BY DEF Discard, Attached
<1>2. Fetched(f) /\ Holds(f, j)
  BY <1>1 DEF FetchInv, Fetched
<1>3. PICK o \in DiscardOutcomes(j) :
         /\ fetch' = [fetch EXCEPT
                       ![f] = Become(f, fetch[f].phase, fetch[f].reply, FALSE, o)]
         /\ IF o = "REMOVED" THEN Remove(j, "consume") ELSE UNCHANGED storeVars
  BY DEF Discard
<1>4. Status(j) = "done" /\ stored[j] # "none"
  BY <1>2 DEF Holds, Status
<1>5. /\ o \in {"MISSING", "REMOVED", "DELETE_FAILED"}
      /\ o = "REMOVED" => record[j] # "gone"
  BY <1>3, <1>4 DEF DiscardOutcomes
<1>6. /\ fetch'[f].phase = fetch[f].phase /\ fetch'[f].job = j
      /\ fetch'[f].consume = fetch[f].consume /\ fetch'[f].reply = fetch[f].reply
      /\ ~fetch'[f].pending /\ fetch'[f].outcome = o
  BY <1>3 DEF Become
<1>7. \A g \in Fetches : g # f => fetch'[g] = fetch[g]
  BY <1>3
<1>8. ASSUME NEW g \in Fetches  PROVE Fetched(g)'
  <2>1. CASE g # f
    BY <1>7, <2>1, FetchStays DEF FetchInv
  <2>2. CASE g = f
    <3>1. Settled(j) /\ (o = "REMOVED" => record'[j] = "gone")
      BY <1>1, <1>3, RunsSettle DEF Remove, StoreTypeOK
    <3>2. fetch[f].phase \in {"discarding", "dropped"}
      BY <1>1, <1>2 DEF Fetched
    <3>3. /\ fetch[f].consume /\ worker'[j] = "exited" /\ mark'[j] = "none"
          /\ fetch[f].reply = stored'[j] /\ stored'[j] \in {"success", "error"}
      BY <1>2, <3>1 DEF Holds, Settled
    <3>. QED  BY <1>1, <1>5, <1>6, <2>2, <3>1, <3>2, <3>3 DEF Fetched, Holds
  <2>. QED  BY <2>1, <2>2
<1>9. ASSUME NEW g \in Fetches, NEW h \in Fetches,
             fetch'[g].outcome = "REMOVED", fetch'[h].outcome = "REMOVED",
             fetch'[g].job = fetch'[h].job
      PROVE  g = h
  <2>1. ASSUME NEW i \in Fetches, i # f, fetch[i].job = j, fetch[i].outcome = "REMOVED"
        PROVE  record[j] = "gone"
    BY <1>1, <2>1 DEF FetchInv, Fetched
  <2>. QED  BY <1>5, <1>6, <1>7, <1>9, <2>1 DEF FetchInv
<1>10. ASSUME NEW i \in Calls, removedBy'[i] = "consume"
       PROVE  \E g \in Fetches : fetch'[g].job = i /\ fetch'[g].outcome = "REMOVED"
  <2>1. CASE i = j /\ o = "REMOVED"
    BY <1>6, <2>1
  <2>2. CASE ~(i = j /\ o = "REMOVED")
    <3>1. removedBy[i] = "consume"
      BY <1>3, <1>10, <2>2 DEF Remove, StoreTypeOK, storeVars
    <3>2. PICK g \in Fetches : fetch[g].job = i /\ fetch[g].outcome = "REMOVED"
      BY <3>1 DEF FetchInv
    <3>3. g # f
      BY <1>1, <1>2, <3>2 DEF Fetched
    <3>. QED  BY <1>7, <3>2, <3>3
  <2>. QED  BY <2>1, <2>2
<1>. QED  BY <1>8, <1>9, <1>10 DEF FetchInv

LEMMA StillFetched ==
  ASSUME InCustody, RunShape, FetchInv, MovesRuns, fetch' = fetch
  PROVE  SameTakers /\ \A g \in Fetches : Fetched(g)'
  BY FetchStays DEF FetchInv, SameTakers

LEMMA AnswerFetched ==
  ASSUME InCustody, RunShape, FetchInv, MovesRuns,
         \/ \E f \in Fetches : FetchReply(f) \/ FetchDropped(f)
         \/ Crash
  PROVE  SameTakers /\ \A g \in Fetches : Fetched(g)'
<1>. USE DEF InCustody, TypeInv, TypeOK
<1>1. UNCHANGED storeVars
  BY DEF FetchReply, FetchDropped, Crash
<1>2. ASSUME NEW g \in Fetches
      PROVE  Fetched(g)' /\ fetch'[g].outcome = fetch[g].outcome
                         /\ fetch'[g].job = fetch[g].job
  <2>1. Fetched(g)
    BY DEF FetchInv
  <2>2. CASE fetch'[g] = fetch[g]
    BY <2>1, <2>2, FetchStays
  <2>3. ASSUME fetch[g].phase = "discarding", ~fetch[g].pending,
               fetch'[g] = Become(g, "replied",
                                  IF LostRace(fetch[g].outcome) THEN "job_not_found"
                                  ELSE fetch[g].reply, FALSE, fetch[g].outcome)
        PROVE  Fetched(g)' /\ fetch'[g].outcome = fetch[g].outcome
                           /\ fetch'[g].job = fetch[g].job
    BY <1>1, <2>1, <2>3 DEF Fetched, Holds, Become, LostRace, storeVars
  <2>4. ASSUME fetch[g].phase = "discarding",
               fetch'[g] = Become(g, "dropped", fetch[g].reply, fetch[g].pending,
                                  fetch[g].outcome)
        PROVE  Fetched(g)' /\ fetch'[g].outcome = fetch[g].outcome
                           /\ fetch'[g].job = fetch[g].job
    BY <1>1, <2>1, <2>4 DEF Fetched, Holds, Become, storeVars
  <2>5. ASSUME fetch'[g] = Become(g, IF fetch[g].phase = "discarding" THEN "lost"
                                     ELSE fetch[g].phase,
                                  fetch[g].reply, FALSE, fetch[g].outcome)
        PROVE  Fetched(g)' /\ fetch'[g].outcome = fetch[g].outcome
                           /\ fetch'[g].job = fetch[g].job
    BY <1>1, <2>1, <2>5 DEF Fetched, Holds, Become, storeVars
  <2>6. ASSUME NEW f \in Fetches, FetchReply(f) \/ FetchDropped(f), f # g
        PROVE  fetch'[g] = fetch[g]
    BY <2>6 DEF FetchReply, FetchDropped
  <2>7. CASE FetchReply(g)
    BY <2>3, <2>7 DEF FetchReply
  <2>8. CASE FetchDropped(g)
    BY <2>4, <2>8 DEF FetchDropped
  <2>9. CASE Crash
    BY <2>5, <2>9 DEF Crash
  <2>. QED  BY <2>2, <2>6, <2>7, <2>8, <2>9
<1>. QED  BY <1>2 DEF SameTakers

(* Only a discard changes who took a result.                                *)
LEMMA TakersStay ==
  ASSUME InCustody, RunShape, FetchInv, Next, MovesRuns,
         ~(\E f \in Fetches : Discard(f))
  PROVE  SameTakers /\ \A g \in Fetches : Fetched(g)'
<1>1. ASSUME NEW c \in Calls,
             \/ Issue(c) \/ Thread(c) \/ Handler(c) \/ ClientCancels(c)
             \/ StoreRaises(c) \/ StopOrphanedStart(c) \/ WaitExpires(c)
             \/ JobStatus(c) \/ JobCancel(c) \/ Expire(c) \/ World(c)
      PROVE  fetch' = fetch
  BY <1>1
     DEF Issue, Thread, StartThread, IdemReserve, IdemAnswer, IdemPublish, Handler,
         Started, Replay, StartRefused, StartTransient, Snapshot, AwaitPoll,
         AwaitExpire, ReadResult, ClientCancels, CancelStarting, CancelAwaiting,
         CancelReading, StoreRaises, HandlerRaises, StopRaises, StopOrphanedStart,
         WaitExpires, JobStatus, JobCancel, Expire, World
<1>2. ASSUME NEW t \in Tools, NEW k \in Keys, SweepIndex(t, k)  PROVE fetch' = fetch
  BY <1>2 DEF SweepIndex
<1>. QED
  BY <1>1, <1>2, StillFetched, ReadFetched, AnswerFetched DEF Next

-----------------------------------------------------------------------------
(* All of it together                                                       *)

JobInv == InCustody /\ RunShape /\ KeyInv /\ AnswerInv /\ FetchInv

LEMMA InitJobs == Init => JobInv
<1>. SUFFICES ASSUME Init  PROVE JobInv
  OBVIOUS
<1>1. InCustody
  BY InitType DEF Init, StoreInit, InCustody, Custody
<1>2. RunShape /\ KeyInv
  BY <1>1 DEF Init, StoreInit, RunShape, KeyInv, EntryOf, NoEntry, InCustody
<1>3. AnswerInv
  BY DEF Init, StoreInit, AnswerInv, Told, EnvelopeCodes
<1>4. FetchInv
  BY DEF Init, StoreInit, FetchInv, Fetched, Holds, IdleFetch
<1>. QED  BY <1>1, <1>2, <1>3, <1>4 DEF JobInv

(* What is known of the runs, their keys, their callers and their fetches.  *)
THEOREM JobInvariant == Spec => []JobInv
<1>1. ASSUME JobInv, Next  PROVE JobInv'
  <2>1. InCustody' /\ MovesRuns
    BY <1>1, CustodyStays, StoreMoves DEF JobInv
  <2>2. RunShape' /\ KeyInv' /\ AnswerInv'
    BY <1>1, <2>1, ShapeStays, KeysHold, AnswersHold DEF JobInv
  <2>3. CASE \E f \in Fetches : Discard(f)
    BY <1>1, <2>1, <2>2, <2>3, DiscardFetched DEF JobInv
  <2>4. CASE ~(\E f \in Fetches : Discard(f))
    <3>1. SameTakers /\ \A f \in Fetches : Fetched(f)'
      BY <1>1, <2>1, <2>4, TakersStay DEF JobInv
    <3>. QED  BY <1>1, <2>1, <2>2, <2>4, <3>1, OthersFetched DEF JobInv
  <2>. QED  BY <2>3, <2>4
<1>2. ASSUME JobInv, UNCHANGED vars  PROVE JobInv'
  <2>1. InCustody'
    BY <1>2, CustodyStays DEF JobInv
  <2>2. UNCHANGED <<req, storeVars, callVars, fetch>>
    BY <1>2 DEF vars
  <2>3. RunShape'
    BY <1>2, <2>2 DEF JobInv, RunShape, storeVars
  <2>4. KeyInv'
    BY <1>2, <2>2, SameIndex DEF JobInv, storeVars, callVars
  <2>5. AnswerInv'
    BY <1>2, <2>2 DEF JobInv, AnswerInv, Told, OutcomeOf, Status, storeVars, callVars
  <2>6. FetchInv'
    BY <1>2, <2>2 DEF JobInv, FetchInv, Fetched, Holds, storeVars
  <2>. QED  BY <2>1, <2>3, <2>4, <2>5, <2>6 DEF JobInv
<1>3. JobInv /\ [Next]_vars => JobInv'
  BY <1>1, <1>2
<1>. QED  BY <1>3, InitJobs, PTL DEF Spec

(* Two live workers of one tool and key are the same run, whatever crashes  *)
(* and sweeps did to the index between.                                     *)
THEOREM OneRunPerKey == Spec => []OneLiveRunPerKey
<1>1. ASSUME JobInv  PROVE OneLiveRunPerKey
  <2>. SUFFICES ASSUME NEW i \in Calls, NEW j \in Calls, Alive(i), Alive(j), Keyed(i),
                       req[i].key = req[j].key, req[i].tool = req[j].tool
                PROVE  i = j
    BY DEF OneLiveRunPerKey
  <2>1. EntryOf(i).job = i /\ EntryOf(j).job = j
    BY <1>1 DEF JobInv, KeyInv
  <2>. QED  BY <2>1 DEF EntryOf
<1>. QED  BY <1>1, JobInvariant, PTL

(* A call answered as a replay started no worker, and its answer is about   *)
(* another call's run with equal arguments.                                 *)
THEOREM ReplaysSpendNothing == Spec => []ReplayedMeansNoSpend
<1>1. ASSUME JobInv  PROVE ReplayedMeansNoSpend
  <2>. SUFFICES ASSUME NEW c \in Calls, replayed[c]
                PROVE  worker[c] = "none" /\ run[c] # c /\ req[run[c]] = req[c]
    BY DEF ReplayedMeansNoSpend
  <2>1. Told(c) /\ Custody(c)
    BY <1>1 DEF JobInv, AnswerInv, InCustody
  <2>2. start[c] = "replay" /\ run[c] # c
    BY <2>1 DEF Told
  <2>3. run[c] # NoJob
    BY <1>1, <2>2, StoreAssumption DEF JobInv, InCustody, TypeInv, Attached
  <2>4. worker[c] = "none"
    BY <2>1, <2>2 DEF Custody
  <2>5. req[run[c]] = req[c]
    BY <2>1, <2>2, <2>3 DEF Told
  <2>. QED  BY <2>2, <2>4, <2>5
<1>. QED  BY <1>1, JobInvariant, PTL

(* Two envelopes handed out for one run agree, whenever and through         *)
(* whichever call each was read.                                            *)
THEOREM OneStoryPerRun == Spec => []SharedRunSameAnswer
<1>1. JobInv => SharedRunSameAnswer
  BY DEF JobInv, AnswerInv, Told, SharedRunSameAnswer
<1>. QED  BY <1>1, JobInvariant, PTL

(* Two consumes never both hand out one stored result, unless a discard of  *)
(* it failed and left the record behind.                                    *)
THEOREM ResultsAreConsumedOnce == Spec => []ConsumedOnce
<1>1. JobInv => ConsumedOnce
  BY DEF JobInv, FetchInv, Fetched, Deliveries, ConsumedOnce
<1>. QED  BY <1>1, JobInvariant, PTL

(* A record removed by a consume had a readable payload, and some consume   *)
(* read it before.                                                          *)
THEOREM ConsumesKeepTheUnread == Spec => []ConsumeKeepsTheUnread
<1>1. JobInv => ConsumeKeepsTheUnread
  BY DEF JobInv, FetchInv, Fetched, Holds, ConsumeKeepsTheUnread
<1>. QED  BY <1>1, JobInvariant, PTL

(* What a consume checked before its await still holds at its discard.      *)
THEOREM DiscardsSeeDone == Spec => []DiscardSeesDone
<1>1. JobInv => DiscardSeesDone
  BY DEF JobInv, FetchInv, Fetched, DiscardSeesDone
<1>. QED  BY <1>1, JobInvariant, PTL

-----------------------------------------------------------------------------
(* The handlers implement RunLedger                                         *)

phases == [j \in Calls |-> Phase(j)]
takings == [j \in Calls |-> Takers(j)]

(* What the ledger says of a run, from its record and its worker.           *)
PhaseFacts ==
  \A j \in Calls :
    /\ worker[j] = "none" => Phase(j) = "absent"
    /\ record[j] = "gone" => Phase(j) = "removed"
    /\ Alive(j) => Phase(j) = "running"
    /\ record[j] = "live" /\ ~Alive(j) => Phase(j) \in Ledger!Final

LEMMA PhaseOf == InCustody /\ RunShape => PhaseFacts
<1>. SUFFICES ASSUME InCustody, RunShape, NEW j \in Calls
              PROVE  /\ worker[j] = "none" => Phase(j) = "absent"
                     /\ record[j] = "gone" => Phase(j) = "removed"
                     /\ Alive(j) => Phase(j) = "running"
                     /\ record[j] = "live" /\ ~Alive(j) => Phase(j) \in Ledger!Final
  BY DEF PhaseFacts
<1>1. mark[j] \in {"none", "cancelled", "timeout"}
  BY DEF InCustody, TypeInv, TypeOK, StoreTypeOK
<1>2. ~Alive(j) => Status(j) \in {"done", "failed", "cancelled", "timeout"}
  BY <1>1 DEF Status
<1>3. worker[j] = "none" <=> record[j] = "none"
  BY DEF RunShape
<1>4. Alive(j) => record[j] = "live" /\ Status(j) = "running"
  BY DEF InCustody, Custody, Status
<1>. QED  BY <1>2, <1>3, <1>4 DEF Phase, Ledger!Final

LEMMA PhaseNext == InCustody' /\ RunShape' => PhaseFacts'
  BY PhaseOf, PTL

(* A step that leaves a run's record, worker, mark and result alone leaves  *)
(* its phase alone.                                                         *)
LEMMA SamePhase ==
  ASSUME NEW j \in Calls, record'[j] = record[j], worker'[j] = worker[j],
         mark'[j] = mark[j], stored'[j] = stored[j]
  PROVE  Phase(j)' = Phase(j)
  BY DEF Phase, Status

LEMMA StartsLedger ==
  ASSUME NEW c \in Calls, NEW evicted \in SUBSET {i \in Calls : phases[i] \in Ledger!Final},
         phases[c] = "absent", takings' = takings,
         phases' = [i \in Calls |-> IF i = c THEN "running"
                                    ELSE IF i \in evicted THEN "removed"
                                    ELSE phases[i]]
  PROVE  Ledger!Start(c)
<1>1. evicted \in SUBSET {i \in Calls : [j \in Calls |-> Phase(j)][i] \in Ledger!Final}
  BY Zenon DEF phases
<1>2. [j \in Calls |-> Phase(j)]'
         = [i \in Calls |-> IF i = c THEN "running"
                            ELSE IF i \in evicted THEN "removed"
                            ELSE [j \in Calls |-> Phase(j)][i]]
  BY Zenon DEF phases
<1>3. [j \in Calls |-> Phase(j)][c] = "absent"
  BY DEF phases
<1>4. UNCHANGED [j \in Calls |-> Takers(j)]
  BY DEF takings
<1>. QED  BY <1>1, <1>2, <1>3, <1>4, Zenon DEF Ledger!Start

LEMMA OthersLedger ==
  ASSUME InCustody, InCustody', RunShape, RunShape', MovesRuns, SameTakers,
         ~(\E f \in Fetches : Discard(f))
  PROVE  Ledger!Next \/ UNCHANGED <<phases, takings>>
<1>. USE DEF InCustody, TypeInv, TypeOK, StoreTypeOK
<1>0. PhaseFacts /\ PhaseFacts'
  BY PhaseOf, PhaseNext
<1>1. takings' = takings
  BY DEF takings, Takers, SameTakers
<1>2. CASE Quiet
  BY <1>1, <1>2, SamePhase DEF Quiet, phases
<1>3. ASSUME NEW c \in Calls, StartsRun(c)  PROVE Ledger!Next
  <2>1. worker[c] = "none" /\ worker'[c] = "alive"
    BY <1>3 DEF StartsRun, Spawn, Custody
  <2>2. phases[c] = "absent" /\ phases'[c] = "running"
    BY <2>1, <1>0 DEF phases, PhaseFacts
  <2>3. ASSUME NEW i \in Evicted
        PROVE  i \in Calls /\ i # c /\ phases[i] \in Ledger!Final /\ phases'[i] = "removed"
    <3>1. i \in Calls /\ record[i] = "live" /\ ~Alive(i)
      BY <2>3 DEF Evicted, Terminal, Retained
    <3>2. i # c
      BY <2>1, <3>1 DEF RunShape
    <3>3. record'[i] = "gone"
      BY <1>3, <2>3, <3>1, <3>2 DEF StartsRun, Spawn
    <3>. QED  BY <3>1, <3>2, <3>3, <1>0 DEF phases, PhaseFacts
  <2>4. ASSUME NEW i \in Calls, i # c, i \notin Evicted  PROVE phases'[i] = phases[i]
    BY <1>3, <2>4, SamePhase DEF StartsRun, Spawn, phases
  <2>5. phases' = [i \in Calls |-> IF i = c THEN "running"
                                   ELSE IF i \in Evicted THEN "removed"
                                   ELSE phases[i]]
    BY <2>2, <2>3, <2>4 DEF phases
  <2>6. Evicted \in SUBSET {i \in Calls : phases[i] \in Ledger!Final}
    BY <2>3
  <2>7. Ledger!Start(c)
    BY ONLY <1>1, <1>3, <2>2, <2>5, <2>6, StartsLedger
  <2>. QED  BY <2>7 DEF Ledger!Next
<1>4. ASSUME NEW c \in Calls, EndsRun(c)  PROVE Ledger!Next
  <2>1. Alive(c) /\ record'[c] = "live" /\ ~Alive(c)'
    BY <1>4 DEF EndsRun, Custody
  <2>2. phases[c] = "running" /\ phases'[c] \in Ledger!Final
    BY <2>1, <1>0 DEF phases, PhaseFacts
  <2>3. ASSUME NEW i \in Calls, i # c  PROVE phases'[i] = phases[i]
    BY <1>4, <2>3, SamePhase DEF EndsRun, phases
  <2>4. phases' = [phases EXCEPT ![c] = phases'[c]]
    BY <2>3 DEF phases
  <2>5. Ledger!End(c, phases'[c])
    BY <1>1, <2>2, <2>4 DEF Ledger!End, phases, takings
  <2>. QED  BY <2>2, <2>5 DEF Ledger!Next
<1>5. ASSUME NEW c \in Calls, DropsRecord(c)  PROVE Ledger!Next
  <2>1. record[c] = "live" /\ ~Alive(c) /\ record'[c] = "gone"
    BY <1>5 DEF DropsRecord
  <2>2. phases[c] \in Ledger!Final /\ phases'[c] = "removed"
    BY <2>1, <1>0 DEF phases, PhaseFacts
  <2>3. ASSUME NEW i \in Calls, i # c  PROVE phases'[i] = phases[i]
    BY <1>5, <2>3, SamePhase DEF DropsRecord, phases
  <2>4. phases' = [phases EXCEPT ![c] = "removed"]
    BY <2>2, <2>3 DEF phases
  <2>5. Ledger!Drop(c)
    BY <1>1, <2>2, <2>4 DEF Ledger!Drop, phases, takings
  <2>. QED  BY <2>5 DEF Ledger!Next
<1>. QED  BY <1>2, <1>3, <1>4, <1>5 DEF MovesRuns

LEMMA DiscardLedger ==
  ASSUME JobInv, RunShape', InCustody', NEW f \in Fetches, Discard(f)
  PROVE  Ledger!Next \/ UNCHANGED <<phases, takings>>
<1>. USE DEF JobInv, InCustody, TypeInv, TypeOK, StoreTypeOK
<1>1. PICK j \in Calls : j = fetch[f].job /\ fetch[f].pending
  BY DEF Discard, Attached
<1>2. Fetched(f) /\ Holds(f, j) /\ fetch[f].outcome = "none"
  BY <1>1 DEF FetchInv, Fetched
<1>3. PICK o \in DiscardOutcomes(j) :
         /\ fetch' = [fetch EXCEPT
                       ![f] = Become(f, fetch[f].phase, fetch[f].reply, FALSE, o)]
         /\ IF o = "REMOVED" THEN Remove(j, "consume") ELSE UNCHANGED storeVars
  BY <1>1 DEF Discard
<1>4. /\ fetch'[f].job = j /\ fetch'[f].outcome = o
      /\ \A g \in Fetches : g # f => fetch'[g] = fetch[g]
  BY <1>1, <1>3 DEF Become
<1>5. ASSUME NEW i \in Calls, i # j \/ o # "REMOVED"  PROVE Takers(i)' = Takers(i)
  BY <1>2, <1>4, <1>5 DEF Takers
<1>6. ASSUME NEW i \in Calls, i # j \/ o # "REMOVED"  PROVE Phase(i)' = Phase(i)
  BY <1>1, <1>3, <1>6, SamePhase DEF Remove, storeVars
<1>7. CASE o # "REMOVED"
  BY <1>5, <1>6, <1>7 DEF phases, takings
<1>8. CASE o = "REMOVED"
  <2>1. record[j] = "live" /\ Status(j) = "done"
    <3>1. record[j] # "gone"
      BY <1>3, <1>8 DEF DiscardOutcomes
    <3>2. worker[j] # "none"
      BY <1>2 DEF Holds
    <3>. QED  BY <1>1, <1>2, <3>1, <3>2 DEF RunShape, Holds, Status
  <2>2. phases[j] = "done"
    BY <1>1, <2>1 DEF phases, Phase
  <2>3. record'[j] = "gone"
    BY <1>1, <1>3, <1>8 DEF Remove
  <2>4. Phase(j)' = "removed"
    BY <2>3 DEF Phase
  <2>5. Takers(j)' = {f}
    <3>1. \A g \in Fetches : ~(fetch[g].job = j /\ fetch[g].outcome = "REMOVED")
      BY <1>1, <2>1 DEF FetchInv, Fetched
    <3>. QED  BY <1>4, <1>8, <3>1 DEF Takers
  <2>6. phases' = [phases EXCEPT ![j] = "removed"]
    BY <1>1, <1>6, <2>4 DEF phases
  <2>7. takings' = [takings EXCEPT ![j] = {f}]
    BY <1>1, <1>5, <2>5 DEF takings
  <2>8. Ledger!Take(j, f)
    BY <2>2, <2>6, <2>7 DEF Ledger!Take, phases, takings
  <2>. QED  BY <1>1, <2>8 DEF Ledger!Next
<1>. QED  BY <1>7, <1>8

(* The handlers implement the ledger: a run ends once, keeps its outcome    *)
(* while its record is there, is never dropped while it runs, and its       *)
(* result is taken by at most one consume, in one step.                     *)
THEOREM JobsImplementTheLedger == Spec => ImplementsLedger
<1>1. Init => Ledger!Init
  BY DEF Init, StoreInit, Ledger!Init, Phase, Takers, IdleFetch
<1>2. JobInv /\ JobInv' /\ [Next]_vars => [Ledger!Next]_<<phases, takings>>
  <2>1. ASSUME JobInv, JobInv', Next
        PROVE  Ledger!Next \/ UNCHANGED <<phases, takings>>
    <3>1. MovesRuns
      BY <2>1, StoreMoves DEF JobInv
    <3>2. CASE \E f \in Fetches : Discard(f)
      BY <2>1, <3>2, DiscardLedger DEF JobInv
    <3>3. CASE ~(\E f \in Fetches : Discard(f))
      <4>1. SameTakers
        BY <2>1, <3>1, <3>3, TakersStay DEF JobInv
      <4>. QED  BY <2>1, <3>1, <3>3, <4>1, OthersLedger DEF JobInv
    <3>. QED  BY <3>2, <3>3
  <2>2. ASSUME UNCHANGED vars  PROVE UNCHANGED <<phases, takings>>
    BY <2>2 DEF vars, storeVars, phases, takings, Phase, Status, Takers
  <2>. QED  BY <2>1, <2>2
<1>3. phases = [j \in Calls |-> Phase(j)] /\ takings = [j \in Calls |-> Takers(j)]
  BY DEF phases, takings
<1>. QED
  BY <1>1, <1>2, JobInvariant, PTL
     DEF Spec, ImplementsLedger, Ledger!Spec, phases, takings

-----------------------------------------------------------------------------
(* What is said of a run is final                                           *)

LEMMA FinalStay ==
  ASSUME JobInv, JobInv', [Next]_vars, NEW j \in Calls,
         Phase(j) \in Ledger!Final \cup {"removed"}
  PROVE  Phase(j)' \in {Phase(j), "removed"}
<1>. USE DEF JobInv
<1>1. CASE UNCHANGED vars
  BY <1>1 DEF vars, storeVars, Phase, Status
<1>2. CASE Next
  <2>1. MovesRuns
    BY <1>2, StoreMoves
  <2>2. worker[j] = "exited"
    <3>1. record[j] # "none" /\ worker[j] # "alive"
      BY PhaseOf DEF PhaseFacts, Ledger!Final, Phase
    <3>2. worker[j] \in {"none", "alive", "exited"}
      BY DEF InCustody, TypeInv, TypeOK, StoreTypeOK
    <3>. QED  BY <3>1, <3>2 DEF RunShape
  <2>3. /\ worker'[j] = "exited" /\ mark'[j] = mark[j] /\ stored'[j] = stored[j]
        /\ record[j] = "gone" => record'[j] = "gone"
    BY <2>1, <2>2, RunsSettle DEF Settled
  <2>4. record[j] # "none" /\ record'[j] # "none"
    BY <2>2, <2>3 DEF RunShape
  <2>. QED  BY <2>2, <2>3, <2>4 DEF Phase, Status
<1>. QED  BY <1>1, <1>2

(* A state reported of a run that ended, by whatever handler at whatever    *)
(* time, is never contradicted later: it only gives way to the removal of   *)
(* the record, and a removed run never comes back.                          *)
THEOREM ReportedOutcomesStand == Spec => OutcomesAreFinal
<1>1. ASSUME JobInv, JobInv', [Next]_vars
      PROVE  \A j \in Calls : Phase(j) \in Ledger!Final \cup {"removed"}
                                => Phase(j)' \in {Phase(j), "removed"}
  BY <1>1, FinalStay
<1>2. JobInv /\ JobInv' /\ [Next]_vars =>
        [\A j \in Calls : Phase(j) \in Ledger!Final \cup {"removed"}
                            => Phase(j)' \in {Phase(j), "removed"}]_vars
  BY <1>1
<1>. QED  BY <1>2, JobInvariant, PTL DEF Spec, OutcomesAreFinal

-----------------------------------------------------------------------------
(* Callers who are told that their run is gone                              *)

GoneReplies == {"record_lost", "timeout_cancelled"}

(* A call with such an answer is over, and the run it was attached to is    *)
(* the one it stays attached to.  A started call has a worker.              *)
ToldGone(c) ==
  /\ start[c] = "started" => worker[c] # "none"
  /\ reply[c] \in GoneReplies =>
       /\ pc[c] \in Ended /\ start[c] \in {"started", "replay"}
       /\ run[c] \in Calls /\ worker[run[c]] = "exited"
  /\ reply[c] = "record_lost" => record[run[c]] = "gone"
  /\ reply[c] = "timeout_cancelled" => run[c] = c /\ ~Keyed(c)

GoneInv == \A c \in Calls : ToldGone(c)

(* A step that does not answer a call leaves what it was told true.         *)
LEMMA ToldGoneStays ==
  ASSUME InCustody, RunShape, MovesRuns, NEW d \in Calls, ToldGone(d), req' = req,
         reply'[d] = reply[d],
         start'[d] = "started" => start[d] = "started" \/ worker'[d] # "none",
         reply[d] \in GoneReplies =>
           run'[d] = run[d] /\ start'[d] = start[d] /\ pc'[d] \in Ended
  PROVE  ToldGone(d)'
<1>1. start'[d] = "started" => worker'[d] # "none"
  BY RunsSettle DEF ToldGone
<1>2. CASE reply[d] \notin GoneReplies
  BY <1>1, <1>2 DEF ToldGone, GoneReplies
<1>3. CASE reply[d] \in GoneReplies
  <2>1. run[d] \in Calls /\ worker[run[d]] = "exited"
    BY <1>3 DEF ToldGone
  <2>2. worker'[run[d]] = "exited" /\ (record[run[d]] = "gone" => record'[run[d]] = "gone")
    BY <2>1, RunsSettle DEF Settled
  <2>. QED  BY <1>1, <1>3, <2>1, <2>2 DEF ToldGone
<1>. QED  BY <1>2, <1>3

(* The run a handler waits for was spawned.                                 *)
LEMMA AwaitedRuns ==
  ASSUME JobInv, GoneInv, NEW c \in Calls, pc[c] \in {"awaiting", "expiring", "finished"}
  PROVE  /\ run[c] \in Calls /\ start[c] \in {"started", "replay"}
         /\ worker[run[c]] # "none"
         /\ pc[c] = "expiring" => run[c] = c /\ ~Keyed(c)
<1>1. Told(c) /\ ToldGone(c) /\ Custody(c) /\ Attached
  BY DEF JobInv, AnswerInv, InCustody, TypeInv, GoneInv
<1>2. run[c] \in Calls /\ start[c] \in {"started", "replay"}
  BY <1>1 DEF Attached, Told
<1>3. worker[run[c]] # "none"
  <2>1. CASE run[c] = c
    BY <1>1, <1>2, <2>1 DEF Told, ToldGone
  <2>2. CASE run[c] # c
    BY <1>1, <1>2, <2>2, StoreAssumption DEF Told
  <2>. QED  BY <2>1, <2>2
<1>4. pc[c] = "expiring" => run[c] = c /\ ~Keyed(c)
  BY <1>1 DEF Custody
<1>. QED  BY <1>2, <1>3, <1>4

(* A cancel leaves no worker.                                               *)
LEMMA CancelEnds ==
  ASSUME StoreTypeOK, NEW j \in Calls, NEW who, Cancel(j, who), worker[j] # "none"
  PROVE  worker'[j] = "exited"
  BY DEF Cancel, StoreTypeOK

LEMMA HandlerTellsGone ==
  ASSUME JobInv, JobInv', GoneInv, NEW c \in Calls, Handler(c), MovesRuns
  PROVE  GoneInv'
<1>0. /\ InCustody /\ RunShape /\ RunShape' /\ ToldGone(c)
      /\ pc \in [Calls -> Phases] /\ reply \in [Calls -> Replies]
      /\ run \in [Calls -> Calls \cup {NoJob}] /\ start \in [Calls -> Starts]
      /\ StoreTypeOK
  BY DEF JobInv, InCustody, TypeInv, TypeOK, GoneInv
<1>. SUFFICES ASSUME NEW d \in Calls  PROVE ToldGone(d)'
  BY DEF GoneInv
<1>1. ToldGone(d)
  BY DEF GoneInv
<1>2. req' = req /\ (start'[d] = "started" => start[d] = "started")
  BY <1>0 DEF Handler, Started, Replay, StartRefused, StartTransient, Snapshot, AwaitPoll,
         AwaitExpire, ReadResult
<1>3. CASE d # c
  <2>1. pc'[d] = pc[d] /\ reply'[d] = reply[d] /\ run'[d] = run[d] /\ start'[d] = start[d]
    BY <1>0, <1>3 DEF Handler, Started, Replay, StartRefused, StartTransient, Snapshot,
           AwaitPoll, AwaitExpire, ReadResult, AwaitReply, Reply, Goto
  <2>. QED  BY <1>0, <1>1, <1>2, <2>1, ToldGoneStays DEF ToldGone
<1>4. pc[c] \notin Ended /\ reply[c] \notin GoneReplies
  <2>1. pc[c] \notin Ended
    BY DEF Handler, Started, Replay, StartRefused, StartTransient, Snapshot, AwaitPoll,
           AwaitExpire, ReadResult, Ended
  <2>. QED  BY <1>0, <2>1 DEF ToldGone
<1>5. start'[c] = "started" => worker'[c] # "none"
  <2>1. start'[c] = "started" => start[c] = "started"
    BY <1>0 DEF Handler, Started, Replay, StartRefused, StartTransient, Snapshot, AwaitPoll,
           AwaitExpire, ReadResult
  <2>. QED  BY <1>0, <2>1, RunsSettle DEF ToldGone
<1>6. CASE reply'[c] \notin GoneReplies
  BY <1>3, <1>5, <1>6 DEF ToldGone, GoneReplies
<1>7. ASSUME pc[c] \in {"awaiting", "finished"}, record[run[c]] # "live",
             pc'[c] = "replied", reply'[c] = "record_lost",
             UNCHANGED <<run, start, storeVars>>
      PROVE  ToldGone(c)'
  <2>1. run[c] \in Calls /\ start[c] \in {"started", "replay"} /\ worker[run[c]] # "none"
    BY <1>7, AwaitedRuns
  <2>2. record[run[c]] = "gone" /\ worker[run[c]] = "exited"
    <3>1. record[run[c]] \in {"none", "live", "gone"}
          /\ worker[run[c]] \in {"none", "alive", "exited"}
      BY <1>0, <2>1 DEF StoreTypeOK
    <3>2. record[run[c]] # "none"
      BY <1>0, <2>1 DEF RunShape
    <3>3. ~Alive(run[c])
      BY <1>0, <1>7, <2>1 DEF InCustody, Custody
    <3>. QED  BY <1>7, <2>1, <3>1, <3>2, <3>3
  <2>. QED  BY <1>5, <1>7, <2>1, <2>2 DEF ToldGone, Ended, storeVars
<1>8. CASE Started(c) \/ Replay(c) \/ StartRefused(c) \/ StartTransient(c) \/ Snapshot(c)
  <2>1. reply'[c] \notin GoneReplies
    BY <1>0, <1>4, <1>8 DEF Started, Replay, StartRefused, StartTransient, Snapshot, Reply,
           GoneReplies
  <2>. QED  BY <1>6, <2>1, <1>3
<1>9. CASE AwaitPoll(c)
  <2>1. CASE reply'[c] = "record_lost"
    <3>1. /\ pc[c] = "awaiting" /\ record[run[c]] # "live" /\ pc'[c] = "replied"
          /\ UNCHANGED <<run, start, storeVars>>
      BY <1>0, <1>4, <1>9, <2>1 DEF AwaitPoll, AwaitReply, Reply, Goto, GoneReplies
    <3>. QED  BY <1>3, <1>7, <2>1, <3>1
  <2>2. CASE reply'[c] # "record_lost"
    <3>1. reply'[c] \notin GoneReplies
      BY <1>0, <1>4, <1>9, <2>2 DEF AwaitPoll, AwaitReply, Reply, GoneReplies
    <3>. QED  BY <1>3, <1>6, <3>1
  <2>. QED  BY <2>1, <2>2
<1>10. CASE AwaitExpire(c)
  <2>1. /\ pc[c] = "expiring" /\ Cancel(run[c], "waiter") /\ UNCHANGED <<run, start, req>>
        /\ pc'[c] = "replied" /\ reply'[c] = "timeout_cancelled"
    BY <1>0, <1>10 DEF AwaitExpire, AwaitReply, Reply, Goto
  <2>2. /\ run[c] = c /\ ~Keyed(c) /\ start[c] \in {"started", "replay"}
        /\ worker[c] # "none"
    BY <2>1, AwaitedRuns
  <2>3. worker'[c] = "exited"
    BY <1>0, <2>1, <2>2, CancelEnds
  <2>. QED  BY <1>3, <1>5, <2>1, <2>2, <2>3 DEF ToldGone, Ended
<1>11. CASE ReadResult(c)
  <2>1. CASE record[run[c]] # "live"
    <3>1. /\ pc[c] = "finished" /\ pc'[c] = "replied" /\ reply'[c] = "record_lost"
          /\ UNCHANGED <<run, start, storeVars>>
      BY <1>0, <1>11, <2>1 DEF ReadResult, AwaitReply, Reply, Goto
    <3>. QED  BY <1>3, <1>7, <2>1, <3>1
  <2>2. CASE record[run[c]] = "live"
    <3>1. reply'[c] = FinishedEnvelope(Polled(run[c]), stored[run[c]]).code
      BY <1>0, <1>11, <2>2 DEF ReadResult, AwaitReply, Reply
    <3>2. reply'[c] \notin GoneReplies
      BY <3>1, EnvelopeType DEF EnvelopeCodes, GoneReplies
    <3>. QED  BY <1>3, <1>6, <3>2
  <2>. QED  BY <2>1, <2>2
<1>. QED  BY <1>8, <1>9, <1>10, <1>11 DEF Handler

(* No other step answers with either; a thread of a start is the only one   *)
(* that moves a call's run.                                                 *)
LEMMA OthersTellGone ==
  ASSUME JobInv, GoneInv, Next, MovesRuns, ~(\E c \in Calls : Handler(c))
  PROVE  GoneInv'
<1>0. /\ InCustody /\ RunShape
      /\ pc \in [Calls -> Phases] /\ reply \in [Calls -> Replies]
      /\ run \in [Calls -> Calls \cup {NoJob}] /\ start \in [Calls -> Starts]
      /\ worker \in [Calls -> {"none", "alive", "exited"}]
  BY DEF JobInv, InCustody, TypeInv, TypeOK, StoreTypeOK
<1>. SUFFICES ASSUME NEW d \in Calls  PROVE ToldGone(d)'
  BY DEF GoneInv
<1>1. ToldGone(d)
  BY DEF GoneInv
<1>2. CASE \E c \in Calls : HandlerRaises(c)
  <2>1. PICK c \in Calls : HandlerRaises(c)
    BY <1>2
  <2>2. UNCHANGED <<req, run, start>> /\ pc[c] \notin Ended
    BY <2>1 DEF HandlerRaises, Ended
  <2>3. CASE d # c
    <3>1. pc'[d] = pc[d] /\ reply'[d] = reply[d]
      BY <1>0, <2>1, <2>3 DEF HandlerRaises, Reply, Goto
    <3>. QED  BY <1>0, <1>1, <2>2, <3>1, ToldGoneStays DEF ToldGone
  <2>4. CASE d = c
    <3>1. reply'[d] = "guarded" /\ UNCHANGED storeVars
      BY <1>0, <2>1, <2>4 DEF HandlerRaises, Reply
    <3>. QED  BY <1>1, <2>2, <3>1 DEF ToldGone, GoneReplies, storeVars
  <2>. QED  BY <2>3, <2>4
<1>3. ASSUME NEW c \in Calls, Thread(c)  PROVE ToldGone(d)'
  <2>1. UNCHANGED <<req, pc, reply>> /\ start[c] \in {"queued", "reserved"}
    BY <1>3 DEF Thread, StartThread, IdemReserve, IdemAnswer, IdemPublish
  <2>2. d # c => run'[d] = run[d] /\ start'[d] = start[d]
    BY <1>0, <1>3 DEF Thread, StartThread, IdemReserve, IdemAnswer, IdemPublish
  <2>3. start'[d] = "started" => start[d] = "started" \/ worker'[d] # "none"
    <3>1. CASE IdemReserve(c) \/ IdemAnswer(c)
      BY <1>0, <3>1 DEF IdemReserve, IdemAnswer, IdemOutcome
    <3>2. CASE StartThread(c) \/ IdemPublish(c)
      <4>1. \/ start' = [start EXCEPT ![c] = "started"]
                 /\ worker' = [worker EXCEPT ![c] = "alive"]
            \/ start' = [start EXCEPT ![c] = "failed"]
        BY <3>2 DEF StartThread, IdemPublish, Spawn
      <4>. QED  BY <1>0, <4>1
    <3>. QED  BY <1>3, <3>1, <3>2 DEF Thread
  <2>4. reply[d] \in GoneReplies => d # c /\ pc[d] \in Ended
    BY <1>1, <2>1 DEF ToldGone
  <2>. QED  BY <1>0, <1>1, <2>1, <2>2, <2>3, <2>4, ToldGoneStays
<1>4. ASSUME NEW c \in Calls,
             \/ Issue(c) \/ ClientCancels(c) \/ StopRaises(c) \/ StopOrphanedStart(c)
             \/ WaitExpires(c)
      PROVE  ToldGone(d)'
  <2>1. /\ UNCHANGED <<req, run, reply>>
        /\ start'[d] = start[d] \/ (pc[d] = "idle" /\ start'[d] = "queued")
    BY <1>0, <1>4 DEF Issue, ClientCancels, CancelStarting, CancelAwaiting, CancelReading,
           StopRaises, StopOrphanedStart, WaitExpires
  <2>2. pc'[d] = pc[d] \/ pc[d] \notin Ended
    BY <1>0, <1>4 DEF Issue, ClientCancels, CancelStarting, CancelAwaiting, CancelReading,
           StopRaises, StopOrphanedStart, WaitExpires, Goto, Ended
  <2>3. reply[d] \in GoneReplies => pc[d] \in Ended /\ pc[d] # "idle"
    BY <1>1 DEF ToldGone, Ended
  <2>4. /\ start'[d] = "started" => start[d] = "started"
        /\ reply[d] \in GoneReplies =>
             run'[d] = run[d] /\ start'[d] = start[d] /\ pc'[d] \in Ended
    BY <2>1, <2>2, <2>3
  <2>. QED  BY <1>0, <1>1, <2>1, <2>4, ToldGoneStays
<1>5. ASSUME UNCHANGED <<req, callVars>>  PROVE ToldGone(d)'
  BY <1>0, <1>1, <1>5, ToldGoneStays DEF ToldGone, callVars
<1>6. CASE Crash
  <2>1. UNCHANGED <<req, run, reply>>
    BY <1>6 DEF Crash
  <2>2. /\ pc[d] \in Ended => pc'[d] \in Ended
        /\ start'[d] = start[d] \/ (start[d] \in {"queued", "reserved"}
                                      /\ start'[d] = "none")
    BY <1>6 DEF Crash, Ended
  <2>3. /\ start'[d] = "started" => start[d] = "started"
        /\ reply[d] \in GoneReplies =>
             run'[d] = run[d] /\ start'[d] = start[d] /\ pc'[d] \in Ended
    BY <1>1, <2>1, <2>2 DEF ToldGone
  <2>. QED  BY <1>0, <1>1, <2>1, <2>3, ToldGoneStays
<1>7. ASSUME NEW j \in Calls, JobStatus(j) \/ JobCancel(j) \/ Expire(j) \/ World(j)
      PROVE  ToldGone(d)'
  BY <1>5, <1>7 DEF JobStatus, JobCancel, Expire, World
<1>8. ASSUME NEW f \in Fetches,
             \/ \E j \in Calls, consume \in BOOLEAN : FetchRead(f, j, consume)
             \/ Discard(f) \/ FetchReply(f) \/ FetchDropped(f)
      PROVE  ToldGone(d)'
  BY <1>5, <1>8 DEF FetchRead, Discard, FetchReply, FetchDropped
<1>9. ASSUME NEW t \in Tools, NEW k \in Keys, SweepIndex(t, k)  PROVE ToldGone(d)'
  BY <1>5, <1>9 DEF SweepIndex
<1>. QED
  BY <1>2, <1>3, <1>4, <1>6, <1>7, <1>8, <1>9 DEF Next, StoreRaises

(* A caller told that its run's record disappeared, or that its run timed   *)
(* out, was attached to a run that spends no more; nothing later brings it  *)
(* back.  This is what the code does keep of what server.py says at its     *)
(* unkeyed timeout and the test at eviction.                                *)
THEOREM RetriesDoNotPayTwice == Spec => []ToldGoneMeansNoSpend
<1>1. Init => GoneInv
  BY DEF Init, GoneInv, ToldGone, GoneReplies
<1>2. JobInv /\ JobInv' /\ GoneInv /\ [Next]_vars => GoneInv'
  <2>1. ASSUME JobInv, JobInv', GoneInv, Next  PROVE GoneInv'
    <3>1. MovesRuns
      BY <2>1, StoreMoves DEF JobInv
    <3>. QED  BY <2>1, <3>1, HandlerTellsGone, OthersTellGone
  <2>2. ASSUME GoneInv, UNCHANGED vars  PROVE GoneInv'
    BY <2>2 DEF vars, storeVars, callVars, GoneInv, ToldGone
  <2>. QED  BY <2>1, <2>2
<1>3. GoneInv => ToldGoneMeansNoSpend
  BY DEF GoneInv, ToldGone, GoneReplies, ToldGoneMeansNoSpend
<1>. QED  BY <1>1, <1>2, <1>3, JobInvariant, PTL DEF Spec
=============================================================================

------------------------------ MODULE JobWorker ------------------------------
(***************************************************************************)
(* The detached worker process (_worker.py) that executes one run, the      *)
(* throwaway worktree of a delegate run (delegate.run_delegate), and the    *)
(* store stopping the worker from outside with SIGTERM, then SIGKILL.       *)
(*                                                                          *)
(* The worker is one thread: SIGTERM becomes task.cancel on the event loop, *)
(* so it acts only where the run awaits.  It holds a lock while it lives,   *)
(* by which a server that did not start it tells it from a stranger with    *)
(* its pid.  The worktree library and the store are outside the repository. *)
(***************************************************************************)
EXTENDS Naturals

CONSTANTS
  Workers,  \* the runs, one worker process each
  Kinds     \* spec kinds: "delegate", "answer" (consult, review), "unknown"

ASSUME WorkerAssumption == Kinds \subseteq {"delegate", "answer", "unknown"}

VARIABLES
  kind,      \* the spec's kind
  pc,        \* where the process stands
  handler,   \* the SIGTERM handler is installed
  pending,   \* a SIGTERM waits for the event loop
  outcome,   \* what _run returned or raised
  locked,    \* worker.lock was taken
  result,    \* result.json
  tree,      \* the worktree on disk
  manifest,  \* cleanup.json names the worktree's parent
  stop,      \* the store's stop of the run
  owned,     \* the server that started the process is still there
  warned,    \* cleanup_warnings names a leftover worktree
  broke,     \* history: the process died or could not write by itself
  unsure     \* history: its server died before the process had its lock

watch == <<locked, owned, unsure>>
vars == <<kind, pc, handler, pending, outcome, result, tree, manifest, stop,
          warned, broke, watch>>

Places == {"absent", "spawned", "booting", "dispatching", "creating", "declaring",
           "adding", "running", "capturing", "removing", "returned",
           "replacing", "exited"}
Payloads == {"success", "error"}

(* Envelopes that break the contract: _guard_invalid_arguments can replace  *)
(* the first kind; it cannot navigate the other, or build an error from it. *)
Nonconformant == {"nonconformant", "broken"}
Raised == {"cancelled", "crash"}

TypeOK ==
  /\ kind \in [Workers -> Kinds]
  /\ pc \in [Workers -> Places]
  /\ handler \in [Workers -> BOOLEAN]
  /\ pending \in [Workers -> BOOLEAN]
  /\ outcome \in [Workers -> {"none"} \cup Payloads \cup Nonconformant \cup Raised]
  /\ locked \in [Workers -> BOOLEAN]
  /\ result \in [Workers -> {"none", "broken"} \cup Payloads]
  /\ tree \in [Workers -> {"none", "parent", "checkout", "stuck", "removed"}]
  /\ manifest \in [Workers -> BOOLEAN]
  /\ stop \in [Workers -> {"none", "asked", "marked", "withdrawn", "abandoned"}]
  /\ owned \in [Workers -> BOOLEAN]
  /\ warned \in [Workers -> BOOLEAN]
  /\ broke \in [Workers -> BOOLEAN]
  /\ unsure \in [Workers -> BOOLEAN]

Init ==
  /\ kind \in [Workers -> Kinds]
  /\ pc = [w \in Workers |-> "absent"]
  /\ handler = [w \in Workers |-> FALSE]
  /\ pending = [w \in Workers |-> FALSE]
  /\ outcome = [w \in Workers |-> "none"]
  /\ locked = [w \in Workers |-> FALSE]
  /\ result = [w \in Workers |-> "none"]
  /\ tree = [w \in Workers |-> "none"]
  /\ manifest = [w \in Workers |-> FALSE]
  /\ stop = [w \in Workers |-> "none"]
  /\ owned = [w \in Workers |-> FALSE]
  /\ warned = [w \in Workers |-> FALSE]
  /\ broke = [w \in Workers |-> FALSE]
  /\ unsure = [w \in Workers |-> FALSE]

-----------------------------------------------------------------------------
(* The process                                                              *)

Goto(w, place) == pc' = [pc EXCEPT ![w] = place]
End(w, o) == outcome' = [outcome EXCEPT ![w] = o]

(* The server spawns the process, detached.                                 *)
Start(w) ==
  /\ pc[w] = "absent"
  /\ Goto(w, "spawned")
  /\ owned' = [owned EXCEPT ![w] = TRUE]
  /\ UNCHANGED <<kind, handler, pending, outcome, locked, result, tree, manifest,
                 stop, warned, broke, unsure>>

(* _hold_job_lock, best effort.                                             *)
TakeLock(w) ==
  /\ pc[w] = "spawned"
  /\ Goto(w, "booting")
  /\ \E got \in BOOLEAN : locked' = [locked EXCEPT ![w] = got]
  /\ UNCHANGED <<kind, handler, pending, outcome, result, tree, manifest, stop,
                 owned, warned, broke, unsure>>

(* main reads spec and meta; _run installs the SIGTERM handler first.       *)
InstallHandler(w) ==
  /\ pc[w] = "booting"
  /\ Goto(w, "dispatching")
  /\ handler' = [handler EXCEPT ![w] = TRUE]
  /\ UNCHANGED <<kind, pending, outcome, result, tree, manifest, stop, warned,
                 broke, watch>>

(* _run dispatches by kind; an unknown kind raises.                         *)
Dispatch(w) ==
  /\ pc[w] = "dispatching"
  /\ Goto(w, IF kind[w] = "delegate" THEN "creating"
             ELSE IF kind[w] = "answer" THEN "running" ELSE "returned")
  /\ IF kind[w] = "unknown" THEN End(w, "crash") ELSE UNCHANGED outcome
  /\ UNCHANGED <<kind, handler, pending, result, tree, manifest, stop, warned,
                 broke, watch>>

(* worktree.create makes the parent directory, declares it, then checks out *)
(* the tree.  A failure tears down what it made; it is answered as an error *)
(* if it is one of the library's own, else it raises.                       *)
Failed == {"error", "crash"}

MakeParent(w) ==
  /\ pc[w] = "creating"
  /\ \/ Goto(w, "declaring") /\ tree' = [tree EXCEPT ![w] = "parent"]
        /\ UNCHANGED outcome
     \/ /\ Goto(w, "returned")
        /\ \E o \in Failed : End(w, o)
        /\ UNCHANGED tree
  /\ UNCHANGED <<kind, handler, pending, result, manifest, stop, warned, broke, watch>>

(* Mutated: the tree is checked out before its parent is declared.          *)
Declare_Late(w) ==
  /\ pc[w] = "declaring"
  /\ Goto(w, "adding")
  /\ tree' = [tree EXCEPT ![w] = "checkout"]
  /\ UNCHANGED <<kind, handler, pending, outcome, result, manifest, stop,
                 warned, broke, watch>>

(* _write_cleanup_manifest                                                  *)
Declare(w) ==
  /\ pc[w] = "declaring"
  /\ \/ /\ Goto(w, "adding")
        /\ manifest' = [manifest EXCEPT ![w] = TRUE]
        /\ UNCHANGED <<outcome, tree>>
     \/ /\ Goto(w, "returned")
        /\ \E o \in Failed : End(w, o)
        /\ tree' = [tree EXCEPT ![w] = "removed"]
        /\ UNCHANGED manifest
  /\ UNCHANGED <<kind, handler, pending, result, stop, warned, broke, watch>>

AddCheckout(w) ==
  /\ pc[w] = "adding"
  /\ \/ Goto(w, "running") /\ tree' = [tree EXCEPT ![w] = "checkout"]
        /\ UNCHANGED outcome
     \/ /\ Goto(w, "returned")
        /\ \E o \in Failed : End(w, o)
        /\ tree' = [tree EXCEPT ![w] = "removed"]
  /\ UNCHANGED <<kind, handler, pending, result, manifest, stop, warned, broke, watch>>

(* Mutated: a run that raises skips the teardown.                           *)
After_SkipsTeardown(w, o) ==
  IF kind[w] = "delegate" /\ o # "crash" THEN "removing" ELSE "returned"

(* Where a run that ends with an outcome goes: a delegate's finally removes *)
(* the worktree on every path out.                                          *)
After(w, o) == IF kind[w] = "delegate" THEN "removing" ELSE "returned"

(* The awaited codex exec ends: it answers, fails or times out, or the run  *)
(* raises.  A successful delegate captures its diff first.                  *)
RunEnds(w) ==
  /\ pc[w] = "running"
  /\ \/ /\ kind[w] = "delegate"
        /\ Goto(w, "capturing")
        /\ UNCHANGED outcome
     \/ \E o \in Failed \cup Nonconformant
                   \cup (IF kind[w] = "delegate" THEN {} ELSE {"success"}) :
          Goto(w, After(w, o)) /\ End(w, o)
  /\ UNCHANGED <<kind, handler, pending, result, tree, manifest, stop, warned,
                 broke, watch>>

(* The pending SIGTERM reaches the awaiting task.  It races the end of the  *)
(* exec: a task already resumed runs to its return without another await.   *)
DeliverCancel(w) ==
  /\ pc[w] = "running"
  /\ pending[w]
  /\ Goto(w, After(w, "cancelled"))
  /\ End(w, "cancelled")
  /\ pending' = [pending EXCEPT ![w] = FALSE]
  /\ UNCHANGED <<kind, handler, result, tree, manifest, stop, warned, broke, watch>>

CaptureDiff(w) ==
  /\ pc[w] = "capturing"
  /\ Goto(w, "removing")
  /\ \E o \in Failed \cup {"success"} : End(w, o)
  /\ UNCHANGED <<kind, handler, pending, result, tree, manifest, stop, warned,
                 broke, watch>>

(* The finally block: the removal may fail, and it may raise, over whatever *)
(* the run had returned or raised, a cancellation included.                 *)
RemoveTree(w) ==
  /\ pc[w] = "removing"
  /\ Goto(w, "returned")
  /\ \/ /\ \E t \in {"removed", "stuck"} : tree' = [tree EXCEPT ![w] = t]
        /\ UNCHANGED outcome
     \/ tree' = [tree EXCEPT ![w] = "stuck"] /\ End(w, "crash")
  /\ UNCHANGED <<kind, handler, pending, result, manifest, stop, warned, broke,
                 watch>>

(* Mutated: a crashed run leaves without an envelope.                       *)
Leave_CrashIsSilent(w) ==
  /\ pc[w] = "returned"
  /\ Goto(w, IF outcome[w] \in {"cancelled", "crash"} THEN "exited"
             ELSE "replacing")
  /\ handler' = [handler EXCEPT ![w] = FALSE]
  /\ pending' = [pending EXCEPT ![w] = FALSE]
  /\ UNCHANGED <<kind, outcome, result, tree, manifest, stop, warned, broke, watch>>

(* asyncio.run returns, which restores the default SIGTERM disposition and  *)
(* drops a cancel that found no await.  A cancelled run leaves nothing;     *)
(* anything else is written to a temporary file first.                      *)
Leave(w) ==
  /\ pc[w] = "returned"
  /\ Goto(w, IF outcome[w] = "cancelled" THEN "exited" ELSE "replacing")
  /\ handler' = [handler EXCEPT ![w] = FALSE]
  /\ pending' = [pending EXCEPT ![w] = FALSE]
  /\ UNCHANGED <<kind, outcome, result, tree, manifest, stop, warned, broke, watch>>

(* Mutated: the envelope is persisted as it came.                           *)
Guarded_Not(o) == IF o = "crash" THEN "error" ELSE o

(* The crash envelope, and _guard_invalid_arguments: what is persisted.  An *)
(* envelope the guard cannot replace goes through as it came.               *)
Guarded(o) == IF o \in {"nonconformant", "crash"} THEN "error" ELSE o

(* _atomic_write replaces result.json, or fails and the process exits.      *)
WriteResult(w) ==
  /\ pc[w] = "replacing"
  /\ Goto(w, "exited")
  /\ \/ result' = [result EXCEPT ![w] = Guarded(outcome[w])] /\ UNCHANGED broke
     \/ UNCHANGED result /\ broke' = [broke EXCEPT ![w] = TRUE]
  /\ UNCHANGED <<kind, handler, pending, outcome, tree, manifest, stop, warned, watch>>

(* The process dies by itself: out of memory, an unreadable spec.           *)
Dies(w) ==
  /\ pc[w] \notin {"absent", "exited"}
  /\ Goto(w, "exited")
  /\ broke' = [broke EXCEPT ![w] = TRUE]
  /\ UNCHANGED <<kind, handler, pending, outcome, result, tree, manifest, stop,
                 warned, watch>>

-----------------------------------------------------------------------------
(* The store stops a run: a client cancel, a waiter's, or a passed deadline *)

(* Mutated: the descriptor is collected when _hold_job_lock has returned.   *)
HoldsLock_Collected(w) == FALSE

(* _held_locks keeps the descriptor open until the process exits.           *)
HoldsLock(w) == locked[w] /\ pc[w] \notin {"absent", "exited"}

(* Whether the store takes the process for alive: the server that started   *)
(* it knows its child, any other one goes by the lock.                      *)
Alive(w) ==
  \/ owned[w] /\ pc[w] \notin {"absent", "exited"}
  \/ HoldsLock(w)

(* SIGTERM, to a process taken for alive: the event loop takes it, or,      *)
(* before the handler is installed and after the loop closed, it is fatal.  *)
Terminate(w) ==
  /\ stop[w] \in {"none", "abandoned"}
  /\ Alive(w)
  /\ stop' = [stop EXCEPT ![w] = "asked"]
  /\ IF handler[w]
     THEN pending' = [pending EXCEPT ![w] = TRUE] /\ UNCHANGED pc
     ELSE Goto(w, "exited") /\ UNCHANGED pending
  /\ UNCHANGED <<kind, handler, outcome, result, tree, manifest, warned, broke,
                 watch>>

(* The grace period is over.                                                *)
Kill(w) ==
  /\ stop[w] = "asked"
  /\ pc[w] # "exited"
  /\ Goto(w, "exited")
  /\ UNCHANGED <<kind, handler, pending, outcome, result, tree, manifest, stop,
                 warned, broke, watch>>

(* What the manifest names is removed or reported.                          *)
CleanUp(w) ==
  IF manifest[w] /\ tree[w] # "removed"
  THEN \/ tree' = [tree EXCEPT ![w] = "removed"] /\ UNCHANGED warned
       \/ warned' = [warned EXCEPT ![w] = TRUE] /\ UNCHANGED tree
  ELSE UNCHANGED <<tree, warned>>

(* Mutated: the stop does not look whether the run completed meanwhile.     *)
Mark_Unvalidated(w) ==
  /\ stop[w] = "asked"
  /\ pc[w] = "exited"
  /\ stop' = [stop EXCEPT ![w] = "marked"]
  /\ CleanUp(w)
  /\ UNCHANGED <<kind, pc, handler, pending, outcome, result, manifest, broke,
                 watch>>

(* A stopped run is marked and cleaned up after, unless it turns out to     *)
(* have completed meanwhile: the stop re-validates that.                    *)
Mark(w) ==
  /\ stop[w] = "asked"
  /\ pc[w] = "exited"
  /\ IF result[w] = "none"
     THEN stop' = [stop EXCEPT ![w] = "marked"] /\ CleanUp(w)
     ELSE stop' = [stop EXCEPT ![w] = "withdrawn"] /\ UNCHANGED <<tree, warned>>
  /\ UNCHANGED <<kind, pc, handler, pending, outcome, result, manifest, broke,
                 watch>>

(* The server dies, with the stops it was about; its workers run on, and    *)
(* another server opens the store.                                          *)
ServerDies ==
  /\ \E w \in Workers : owned[w]
  /\ owned' = [w \in Workers |-> FALSE]
  /\ stop' = [w \in Workers |-> IF stop[w] = "asked" THEN "abandoned" ELSE stop[w]]
  /\ unsure' = [w \in Workers |->
                  \/ unsure[w]
                  \/ pc[w] \notin {"absent", "exited"} /\ ~locked[w]]
  /\ UNCHANGED <<kind, pc, handler, pending, outcome, locked, result, tree,
                 manifest, warned, broke>>

-----------------------------------------------------------------------------

Work(w) ==
  \/ TakeLock(w) \/ InstallHandler(w) \/ Dispatch(w) \/ MakeParent(w)
  \/ Declare(w) \/ AddCheckout(w) \/ RunEnds(w) \/ DeliverCancel(w)
  \/ CaptureDiff(w) \/ RemoveTree(w) \/ Leave(w) \/ WriteResult(w)

Next ==
  \/ \E w \in Workers :
       \/ Start(w) \/ Work(w) \/ Dies(w)
       \/ Terminate(w) \/ Kill(w) \/ Mark(w)
  \/ ServerDies

Spec == Init /\ [][Next]_vars

(* The process keeps running: every library call it makes has a timeout.    *)
FairSpec ==
  /\ Spec
  /\ \A w \in Workers : WF_vars(Work(w))

-----------------------------------------------------------------------------
(* Properties                                                               *)

(* A run the store stopped leaves no checkout behind that nobody names,     *)
(* wherever SIGTERM or SIGKILL caught it: the worker tore it down, the      *)
(* store removed it, or cleanup_warnings reports it.                        *)
StoppedLeavesNoTree ==
  \A w \in Workers :
    stop[w] = "marked" =>
      tree[w] \in {"none", "parent", "removed"} \/ warned[w]

(* A result is readable only once the run's worktree has been torn down or  *)
(* its removal was tried: result.json is the worker's last act.             *)
TornDownBeforeResult ==
  \A w \in Workers :
    result[w] # "none" =>
      /\ tree[w] \in {"none", "removed", "stuck"}
      /\ pc[w] = "exited"

(* What a run left says of it what there is to say: a payload its readers   *)
(* accept, or the envelope the guard itself could not replace, as it came.  *)
Recorded(w) ==
  \/ result[w] \in Payloads
  \/ outcome[w] = "broken" /\ result[w] = "broken"

(* Whatever fails inside a run - an unknown kind, an exception, a failed    *)
(* exec, a teardown that raises, an envelope that breaks the contract - a   *)
(* worker nobody stopped leaves a record of it; and no record breaks the    *)
(* contract of invalid_arguments if the guard could replace it.             *)
LeavesARecord ==
  \A w \in Workers :
    (pc[w] = "spawned") ~> (Recorded(w) \/ stop[w] # "none" \/ broke[w])

(* No worker ends without a word: if it ended, it left a record of its run, *)
(* unless the store asked it to stop or it broke down.  In particular a     *)
(* cancellation, the one outcome that is not written, is always the store's *)
(* doing.  This is what of LeavesARecord does not depend on fairness.       *)
NoSilentEnd ==
  \A w \in Workers :
    pc[w] = "exited" => Recorded(w) \/ stop[w] # "none" \/ broke[w]

(* What any server tells of a run, from its files and from who holds the    *)
(* lock.  A stop is one call of the store: a death under it is told when    *)
(* the call is over.                                                        *)
Endings == {"cancelled", "done", "failed"}
Told(w) ==
  IF stop[w] = "marked" THEN "cancelled"
  ELSE IF Alive(w) THEN "running"
  ELSE IF result[w] # "none" THEN "done"
  ELSE IF stop[w] = "asked" THEN "running"
  ELSE IF pc[w] # "absent" THEN "failed"
  ELSE "absent"

(* How a run ended is told once and for all, by the server that started it  *)
(* and by any that comes after: a running worker is never given up for dead *)
(* to come back with a result, and a stop that races the end of the run     *)
(* does not take back what the run had told by itself.  Only a worker whose *)
(* server died before it held its lock may be mistaken for dead.            *)
EndingsStand ==
  [][\A w \in Workers :
       Told(w) \in Endings /\ ~unsure[w] => Told(w)' = Told(w)]_vars
=============================================================================

--------------------------- MODULE JobWorkerProofs ---------------------------
(***************************************************************************)
(* Theorems about JobWorker, for any number of workers.                     *)
(***************************************************************************)
EXTENDS JobWorker, TLAPS

(* A tree worth removing is declared, and each place of the process bounds  *)
(* what is on disk and what the run left for it to do.                      *)
Teardown(w) ==
  /\ tree[w] \in {"checkout", "stuck"} => manifest[w]
  /\ pc[w] \in {"absent", "spawned", "booting", "dispatching",
               "creating"} => tree[w] = "none"
  /\ pc[w] \in {"creating", "declaring", "adding", "capturing", "removing"}
       => kind[w] = "delegate"
  /\ pc[w] \in {"adding", "capturing", "removing"} => manifest[w]
  /\ pc[w] = "running" /\ kind[w] = "delegate" => manifest[w]
  /\ pc[w] \in {"removing", "returned", "replacing"} => outcome[w] # "none"
  /\ pc[w] = "replacing" => outcome[w] # "cancelled"
  /\ pc[w] = "running" /\ kind[w] # "delegate" => tree[w] = "none"
  /\ pc[w] \in {"returned", "replacing"} => tree[w] \in {"none", "removed", "stuck"}
  /\ result[w] # "none" => /\ pc[w] = "exited"
                           /\ tree[w] \in {"none", "removed", "stuck"}
  /\ stop[w] = "marked" => /\ pc[w] = "exited"
                           /\ tree[w] \in {"none", "parent", "removed"} \/ warned[w]

WorkerInv == TypeOK /\ \A w \in Workers : Teardown(w)

LEMMA StepInv ==
  ASSUME WorkerInv, NEW w \in Workers,
         Start(w) \/ Work(w) \/ Dies(w) \/ Terminate(w) \/ Kill(w) \/ Mark(w)
  PROVE  WorkerInv'
<1>. USE DEF WorkerInv, TypeOK, Teardown, Places, Payloads, Nonconformant, Raised,
            Failed, Goto, End, watch
<1>1. CASE Start(w)
  BY <1>1 DEF Start
<1>17. CASE TakeLock(w)
  BY <1>17 DEF TakeLock
<1>2. CASE InstallHandler(w)
  BY <1>2 DEF InstallHandler
<1>3. CASE Dispatch(w)
  <2>1. TypeOK'
    BY <1>3 DEF Dispatch
  <2>2. Teardown(w)'
    <3>1. kind[w] \in {"delegate", "answer", "unknown"}
      <4>1. kind[w] \in Kinds
        OBVIOUS
      <4>. QED  BY ONLY <4>1, WorkerAssumption
    <3>. QED  BY <1>3, <3>1 DEF Dispatch
  <2>3. \A v \in Workers : v # w => Teardown(v)'
    BY <1>3 DEF Dispatch
  <2>. QED  BY <2>1, <2>2, <2>3
<1>4. CASE MakeParent(w)
  <2>1. TypeOK'
    BY <1>4 DEF MakeParent
  <2>2. Teardown(w)'
    BY <1>4 DEF MakeParent
  <2>3. \A v \in Workers : v # w => Teardown(v)'
    BY <1>4 DEF MakeParent
  <2>. QED  BY <2>1, <2>2, <2>3
<1>5. CASE Declare(w)
  <2>1. TypeOK'
    <3>1. pc' \in [Workers -> Places]
      BY <1>5 DEF Declare
    <3>2. /\ manifest' \in [Workers -> BOOLEAN]
          /\ tree' \in [Workers -> {"none", "parent", "checkout", "stuck", "removed"}]
      <4>1. manifest' = manifest \/ manifest' = [manifest EXCEPT ![w] = TRUE]
        BY <1>5 DEF Declare
      <4>2. tree' = tree \/ tree' = [tree EXCEPT ![w] = "removed"]
        BY <1>5 DEF Declare
      <4>3. /\ manifest \in [Workers -> BOOLEAN]
            /\ tree \in [Workers -> {"none", "parent", "checkout", "stuck", "removed"}]
        OBVIOUS
      <4>4. manifest' \in [Workers -> BOOLEAN]
        BY ONLY <4>1, <4>3
      <4>5. tree' \in [Workers -> {"none", "parent", "checkout", "stuck", "removed"}]
        BY ONLY <4>2, <4>3
      <4>. QED  BY <4>4, <4>5
    <3>3. outcome' \in [Workers -> {"none"} \cup Payloads \cup Nonconformant \cup Raised]
      BY <1>5 DEF Declare
    <3>. QED  BY <1>5, <3>1, <3>2, <3>3 DEF Declare
  <2>2. Teardown(w)'
    <3>1. CASE manifest' = [manifest EXCEPT ![w] = TRUE] /\ Goto(w, "adding")
               /\ UNCHANGED <<outcome, tree>>
      BY <1>5, <3>1 DEF Declare
    <3>2. CASE Goto(w, "returned") /\ (\E o \in Failed : End(w, o))
               /\ tree' = [tree EXCEPT ![w] = "removed"] /\ UNCHANGED manifest
      BY <1>5, <3>2 DEF Declare
    <3>. QED  BY <1>5, <3>1, <3>2 DEF Declare
  <2>3. \A v \in Workers : v # w => Teardown(v)'
    BY <1>5 DEF Declare
  <2>. QED  BY <2>1, <2>2, <2>3
<1>6. CASE AddCheckout(w)
  <2>1. TypeOK'
    BY <1>6 DEF AddCheckout
  <2>2. Teardown(w)'
    BY <1>6 DEF AddCheckout
  <2>3. \A v \in Workers : v # w => Teardown(v)'
    BY <1>6 DEF AddCheckout
  <2>. QED  BY <2>1, <2>2, <2>3
<1>7. CASE RunEnds(w)
  BY <1>7 DEF RunEnds, After
<1>8. CASE DeliverCancel(w)
  BY <1>8 DEF DeliverCancel, After
<1>9. CASE CaptureDiff(w)
  BY <1>9 DEF CaptureDiff
<1>10. CASE RemoveTree(w)
  <2>1. TypeOK'
    BY <1>10 DEF RemoveTree
  <2>2. Teardown(w)'
    BY <1>10 DEF RemoveTree
  <2>3. \A v \in Workers : v # w => Teardown(v)'
    BY <1>10 DEF RemoveTree
  <2>. QED  BY <2>1, <2>2, <2>3
<1>11. CASE Leave(w)
  BY <1>11 DEF Leave
<1>12. CASE WriteResult(w)
  <2>1. TypeOK'
    <3>1. Guarded(outcome[w]) \in {"broken"} \cup Payloads
      BY <1>12 DEF WriteResult, Guarded
    <3>2. result' \in [Workers -> {"none", "broken"} \cup Payloads]
      BY <1>12, <3>1 DEF WriteResult
    <3>3. broke' \in [Workers -> BOOLEAN]
      <4>1. broke' = broke \/ broke' = [broke EXCEPT ![w] = TRUE]
        BY <1>12 DEF WriteResult
      <4>2. broke \in [Workers -> BOOLEAN]
        OBVIOUS
      <4>. QED  BY ONLY <4>1, <4>2
    <3>. QED  BY <1>12, <3>2, <3>3 DEF WriteResult
  <2>2. Teardown(w)'
    BY <1>12 DEF WriteResult
  <2>3. \A v \in Workers : v # w => Teardown(v)'
    BY <1>12 DEF WriteResult
  <2>. QED  BY <2>1, <2>2, <2>3
<1>13. CASE Dies(w)
  BY <1>13 DEF Dies
<1>14. CASE Terminate(w)
  <2>1. TypeOK'
    <3>1. CASE handler[w]
      BY <1>14, <3>1 DEF Terminate
    <3>2. CASE ~handler[w]
      BY <1>14, <3>2 DEF Terminate
    <3>. QED  BY <3>1, <3>2
  <2>2. Teardown(w)'
    BY <1>14 DEF Terminate
  <2>3. \A v \in Workers : v # w => Teardown(v)'
    BY <1>14 DEF Terminate
  <2>. QED  BY <2>1, <2>2, <2>3
<1>15. CASE Kill(w)
  BY <1>15 DEF Kill
<1>16. CASE Mark(w)
  <2>1. PICK mark \in {"marked", "withdrawn"} : stop' = [stop EXCEPT ![w] = mark]
    BY <1>16 DEF Mark
  <2>2. /\ UNCHANGED <<kind, pc, handler, pending, outcome, locked, result>>
        /\ UNCHANGED <<manifest, owned, broke, unsure>>
    BY <1>16 DEF Mark
  <2>3. \/ UNCHANGED <<tree, warned>>
        \/ tree' = [tree EXCEPT ![w] = "removed"] /\ UNCHANGED warned
        \/ UNCHANGED tree /\ warned' = [warned EXCEPT ![w] = TRUE]
    BY <1>16 DEF Mark, CleanUp
  <2>4. TypeOK'
    <3>1. stop' \in [Workers -> {"none", "asked", "marked", "withdrawn", "abandoned"}]
      BY <2>1
    <3>2. tree' \in [Workers -> {"none", "parent", "checkout", "stuck", "removed"}]
      BY <2>3
    <3>3. warned' \in [Workers -> BOOLEAN]
      BY <2>3
    <3>. QED  BY <2>2, <3>1, <3>2, <3>3
  <2>5. Teardown(w)'
    <3>1. pc[w] = "exited" /\ pc'[w] = "exited"
      BY <1>16, <2>2 DEF Mark
    <3>2. CASE result[w] = "none"
      <4>1. tree'[w] \in {"none", "parent", "removed"} \/ warned'[w]
        BY <1>16, <3>2 DEF Mark, CleanUp
      <4>. QED  BY <2>2, <2>3, <3>1, <3>2, <4>1
    <3>3. CASE result[w] # "none"
      BY <1>16, <3>3 DEF Mark
    <3>. QED  BY <3>2, <3>3
  <2>6. \A v \in Workers : v # w => Teardown(v)'
    BY <2>1, <2>2, <2>3
  <2>. QED  BY <2>4, <2>5, <2>6
<1>. QED
  BY <1>1, <1>2, <1>3, <1>4, <1>5, <1>6, <1>7, <1>8, <1>9, <1>10, <1>11, <1>12,
     <1>13, <1>14, <1>15, <1>16, <1>17 DEF Work

LEMMA DeathInv ==
  ASSUME WorkerInv, ServerDies
  PROVE  WorkerInv'
<1>1. TypeOK'
  BY DEF WorkerInv, TypeOK, ServerDies
<1>2. \A w \in Workers : stop'[w] = "marked" => stop[w] = "marked"
  BY DEF WorkerInv, TypeOK, ServerDies
<1>3. \A w \in Workers : Teardown(w)'
  BY <1>2 DEF WorkerInv, Teardown, ServerDies
<1>. QED  BY <1>1, <1>3 DEF WorkerInv

(* The places of the process bound what it leaves on disk.                  *)
THEOREM WorkerInvariant == Spec => []WorkerInv
<1>1. Init => WorkerInv
  BY WorkerAssumption DEF Init, WorkerInv, TypeOK, Teardown, Places
<1>2. WorkerInv /\ [Next]_vars => WorkerInv'
  <2>1. CASE UNCHANGED vars
    BY <2>1 DEF vars, watch, WorkerInv, TypeOK, Teardown
  <2>. QED  BY <2>1, StepInv, DeathInv DEF Next
<1>. QED  BY <1>1, <1>2, PTL DEF Spec

(* The types of the process, its signals and what it leaves on disk.        *)
THEOREM WorkersAreTyped == Spec => []TypeOK
<1>1. WorkerInv => TypeOK
  BY DEF WorkerInv
<1>. QED  BY <1>1, WorkerInvariant, PTL

(* No stopped run leaves an unreported checkout, whenever it was stopped.   *)
THEOREM StoppedRunsLeaveNoTree == Spec => []StoppedLeavesNoTree
<1>1. WorkerInv => StoppedLeavesNoTree
  BY DEF WorkerInv, Teardown, StoppedLeavesNoTree
<1>. QED  BY <1>1, WorkerInvariant, PTL

(* result.json is the worker's last act, after the worktree is torn down.   *)
THEOREM ResultIsTheLastAct == Spec => []TornDownBeforeResult
<1>1. WorkerInv => TornDownBeforeResult
  BY DEF WorkerInv, Teardown, TornDownBeforeResult
<1>. QED  BY <1>1, WorkerInvariant, PTL

-----------------------------------------------------------------------------
(* A worker ends with a record, or with a reason not to leave one           *)

(* A stop that reached the process was the store's, and so is the only end  *)
(* of a run that is not written.                                            *)
Reasons(w) ==
  /\ pending[w] => stop[w] # "none"
  /\ outcome[w] = "cancelled" => stop[w] # "none"
  /\ pc[w] = "exited" => Recorded(w) \/ stop[w] # "none" \/ broke[w]

ReasonInv == WorkerInv /\ \A w \in Workers : Reasons(w)

LEMMA ReasonsStep ==
  ASSUME WorkerInv, NEW w \in Workers, Reasons(w),
         Start(w) \/ Work(w) \/ Dies(w) \/ Terminate(w) \/ Kill(w) \/ Mark(w)
  PROVE  Reasons(w)'
<1>. USE DEF WorkerInv, TypeOK, Reasons, Recorded, Failed, Nonconformant, Goto, End
<1>1. CASE Start(w)
  BY <1>1 DEF Start
<1>17. CASE TakeLock(w)
  BY <1>17 DEF TakeLock
<1>2. CASE InstallHandler(w)
  BY <1>2 DEF InstallHandler
<1>3. CASE Dispatch(w)
  BY <1>3 DEF Dispatch
<1>4. CASE MakeParent(w)
  BY <1>4 DEF MakeParent
<1>5. CASE Declare(w)
  BY <1>5 DEF Declare
<1>6. CASE AddCheckout(w)
  BY <1>6 DEF AddCheckout
<1>7. CASE RunEnds(w)
  BY <1>7 DEF RunEnds, After
<1>8. CASE DeliverCancel(w)
  BY <1>8 DEF DeliverCancel, After
<1>9. CASE CaptureDiff(w)
  BY <1>9 DEF CaptureDiff
<1>10. CASE RemoveTree(w)
  BY <1>10 DEF RemoveTree
<1>11. CASE Leave(w)
  BY <1>11 DEF Leave
<1>12. CASE WriteResult(w)
  <2>1. \/ Guarded(outcome[w]) \in Payloads
        \/ Guarded(outcome[w]) = "broken" /\ outcome[w] = "broken"
    BY <1>12 DEF WriteResult, Guarded, Teardown, Payloads, Raised
  <2>2. Recorded(w)' \/ broke'[w]
    BY <1>12, <2>1 DEF WriteResult
  <2>. QED  BY <1>12, <2>2 DEF WriteResult
<1>13. CASE Dies(w)
  BY <1>13 DEF Dies
<1>14. CASE Terminate(w)
  <2>1. stop'[w] # "none"
    BY <1>14 DEF Terminate
  <2>. QED  BY <2>1
<1>15. CASE Kill(w)
  BY <1>15 DEF Kill
<1>16. CASE Mark(w)
  <2>1. stop'[w] # "none"
    BY <1>16 DEF Mark
  <2>. QED  BY <2>1
<1>. QED
  BY <1>1, <1>2, <1>3, <1>4, <1>5, <1>6, <1>7, <1>8, <1>9, <1>10, <1>11, <1>12,
     <1>13, <1>14, <1>15, <1>16, <1>17 DEF Work

LEMMA OthersStandStill ==
  ASSUME TypeOK, NEW w \in Workers, NEW v \in Workers, v # w,
         Start(w) \/ Work(w) \/ Dies(w) \/ Terminate(w) \/ Kill(w) \/ Mark(w)
  PROVE  /\ pc'[v] = pc[v] /\ pending'[v] = pending[v] /\ stop'[v] = stop[v]
         /\ outcome'[v] = outcome[v] /\ result'[v] = result[v]
         /\ broke'[v] = broke[v] /\ locked'[v] = locked[v]
         /\ owned'[v] = owned[v] /\ unsure'[v] = unsure[v]
<1>1. /\ pc'[v] = pc[v] /\ pending'[v] = pending[v]
      /\ stop'[v] = stop[v]
  BY DEF TypeOK, Start, Work, TakeLock, InstallHandler, Dispatch, MakeParent,
         Declare, AddCheckout, RunEnds, DeliverCancel, CaptureDiff, RemoveTree,
         Leave, WriteResult, Dies, Terminate, Kill, Mark, Goto, watch
<1>2. /\ outcome'[v] = outcome[v] /\ result'[v] = result[v]
      /\ broke'[v] = broke[v]
  BY DEF TypeOK, Start, Work, TakeLock, InstallHandler, Dispatch, MakeParent,
         Declare, AddCheckout, RunEnds, DeliverCancel, CaptureDiff, RemoveTree,
         Leave, WriteResult, Dies, Terminate, Kill, Mark, End, watch
<1>3. /\ locked'[v] = locked[v] /\ owned'[v] = owned[v]
      /\ unsure'[v] = unsure[v]
  BY DEF TypeOK, Start, Work, TakeLock, InstallHandler, Dispatch, MakeParent,
         Declare, AddCheckout, RunEnds, DeliverCancel, CaptureDiff, RemoveTree,
         Leave, WriteResult, Dies, Terminate, Kill, Mark, watch
<1>. QED  BY <1>1, <1>2, <1>3

(* No worker ends without a word: there is a record of it, or the store     *)
(* stopped it, or it broke down.  What of LeavesARecord needs no fairness.  *)
THEOREM WorkersDoNotEndSilently == Spec => []NoSilentEnd
<1>1. Init => \A w \in Workers : Reasons(w)
  BY DEF Init, Reasons
<1>2. ASSUME ReasonInv, [Next]_vars PROVE \A w \in Workers : Reasons(w)'
  <2>1. ASSUME NEW w \in Workers,
               Start(w) \/ Work(w) \/ Dies(w) \/ Terminate(w) \/ Kill(w) \/ Mark(w)
        PROVE  \A v \in Workers : Reasons(v)'
    <3>1. Reasons(w)'
      BY <1>2, <2>1, ReasonsStep DEF ReasonInv
    <3>2. ASSUME NEW v \in Workers, v # w PROVE Reasons(v)'
      BY <1>2, <2>1, <3>2, OthersStandStill
         DEF ReasonInv, WorkerInv, Reasons, Recorded
    <3>. QED  BY <3>1, <3>2
  <2>2. CASE ServerDies
    <3>1. \A w \in Workers : stop[w] # "none" => stop'[w] # "none"
      BY <2>2 DEF ServerDies
    <3>. QED  BY <1>2, <2>2, <3>1 DEF ServerDies, ReasonInv, Reasons, Recorded
  <2>3. CASE UNCHANGED vars
    BY <1>2, <2>3 DEF ReasonInv, Reasons, Recorded, vars
  <2>. QED  BY <1>2, <2>1, <2>2, <2>3 DEF Next
<1>3. WorkerInv /\ (\A w \in Workers : Reasons(w)) /\ [Next]_vars
        => (\A w \in Workers : Reasons(w))'
  BY <1>2 DEF ReasonInv
<1>4. (\A w \in Workers : Reasons(w)) => NoSilentEnd
  BY DEF Reasons, NoSilentEnd
<1>. QED  BY <1>1, <1>3, <1>4, WorkerInvariant, PTL DEF Spec

-----------------------------------------------------------------------------
(* How a run ended is told once                                             *)

(* A running worker without its server has its lock, or was met before it   *)
(* had one.                                                                 *)
Watched(w) ==
  /\ pc[w] \in {"absent", "spawned"} => ~locked[w]
  /\ pc[w] \notin {"absent", "exited"} => owned[w] \/ locked[w] \/ unsure[w]

LEMMA WatchedStep ==
  ASSUME WorkerInv, NEW w \in Workers, Watched(w),
         Start(w) \/ Work(w) \/ Dies(w) \/ Terminate(w) \/ Kill(w) \/ Mark(w)
  PROVE  Watched(w)'
<1>. USE DEF WorkerInv, TypeOK, Watched, Goto, watch
<1>1. CASE Start(w)
  BY <1>1 DEF Start
<1>2. CASE TakeLock(w)
  BY <1>2 DEF TakeLock
<1>3. CASE Work(w) /\ ~TakeLock(w)
  <2>1. UNCHANGED watch /\ pc[w] \notin {"absent", "spawned", "exited"}
    BY <1>3 DEF Work, InstallHandler, Dispatch, MakeParent, Declare, AddCheckout,
                RunEnds, DeliverCancel, CaptureDiff, RemoveTree, Leave, WriteResult
  <2>2. pc'[w] \notin {"absent", "spawned"}
    BY <1>3 DEF Work, InstallHandler, Dispatch, MakeParent, Declare, AddCheckout,
                RunEnds, DeliverCancel, CaptureDiff, RemoveTree, Leave,
                WriteResult, After
  <2>. QED  BY <2>1, <2>2
<1>4. CASE Dies(w)
  BY <1>4 DEF Dies
<1>5. CASE Terminate(w)
  BY <1>5 DEF Terminate
<1>6. CASE Kill(w)
  BY <1>6 DEF Kill
<1>7. CASE Mark(w)
  BY <1>7 DEF Mark
<1>. QED  BY <1>1, <1>2, <1>3, <1>4, <1>5, <1>6, <1>7

LEMMA WatchedInv == Spec => [](\A w \in Workers : Watched(w))
<1>1. Init => \A w \in Workers : Watched(w)
  BY DEF Init, Watched
<1>2. ASSUME WorkerInv, \A w \in Workers : Watched(w), [Next]_vars
      PROVE  \A w \in Workers : Watched(w)'
  <2>1. ASSUME NEW w \in Workers,
               Start(w) \/ Work(w) \/ Dies(w) \/ Terminate(w) \/ Kill(w) \/ Mark(w)
        PROVE  \A v \in Workers : Watched(v)'
    <3>1. Watched(w)'
      BY <1>2, <2>1, WatchedStep
    <3>2. ASSUME NEW v \in Workers, v # w PROVE Watched(v)'
      BY <1>2, <2>1, <3>2, OthersStandStill DEF WorkerInv, Watched
    <3>. QED  BY <3>1, <3>2
  <2>2. CASE ServerDies
    BY <1>2, <2>2 DEF ServerDies, Watched
  <2>3. CASE UNCHANGED vars
    BY <1>2, <2>3 DEF Watched, vars, watch
  <2>. QED  BY <1>2, <2>1, <2>2, <2>3 DEF Next
<1>3. WorkerInv /\ (\A w \in Workers : Watched(w)) /\ [Next]_vars
        => (\A w \in Workers : Watched(w))'
  BY <1>2
<1>. QED  BY <1>1, <1>3, WorkerInvariant, PTL DEF Spec

(* What is told of a run depends on little.                                 *)
LEMMA SameTold ==
  ASSUME NEW w \in Workers, pc'[w] = pc[w], stop'[w] = stop[w],
         result'[w] = result[w], locked'[w] = locked[w], owned'[w] = owned[w]
  PROVE  Told(w)' = Told(w)
BY DEF Told, Alive, HoldsLock

(* A run of which an ending is told has exited, unless its server died too  *)
(* early.                                                                   *)
LEMMA ToldHasExited ==
  ASSUME WorkerInv, NEW w \in Workers, Watched(w), Told(w) \in Endings, ~unsure[w]
  PROVE  /\ pc[w] = "exited"
         /\ stop[w] = "marked" \/ result[w] # "none" \/ stop[w] # "asked"
<1>1. CASE stop[w] = "marked"
  BY <1>1 DEF WorkerInv, Teardown
<1>2. CASE stop[w] # "marked"
  <2>1. ~Alive(w)
    BY <1>2 DEF Told, Endings
  <2>2. pc[w] # "absent"
    BY <1>2, <2>1 DEF Told, Endings, WorkerInv, Teardown
  <2>3. pc[w] = "exited"
    BY <2>1, <2>2 DEF Alive, HoldsLock, Watched
  <2>4. result[w] # "none" \/ stop[w] # "asked"
    BY <1>2, <2>1 DEF Told, Endings
  <2>. QED  BY <2>3, <2>4
<1>. QED  BY <1>1, <1>2

(* How a run ended is told once and for all, whoever tells it, whenever the *)
(* server or the worker dies.                                               *)
THEOREM EndingsAreToldOnce == Spec => EndingsStand
<1>1. ASSUME WorkerInv, \A w \in Workers : Watched(w), [Next]_vars,
             NEW w \in Workers, Told(w) \in Endings, ~unsure[w]
      PROVE  Told(w)' = Told(w)
  <2>1. /\ pc[w] = "exited"
        /\ stop[w] = "marked" \/ result[w] # "none" \/ stop[w] # "asked"
    BY <1>1, ToldHasExited
  <2>2. ASSUME NEW v \in Workers,
               Start(v) \/ Work(v) \/ Dies(v) \/ Terminate(v) \/ Kill(v) \/ Mark(v)
        PROVE  Told(w)' = Told(w)
    <3>1. CASE v # w
      BY <1>1, <2>2, <3>1, OthersStandStill, SameTold DEF WorkerInv
    <3>2. CASE v = w
      <4>1. Mark(w)
        BY <2>1, <2>2, <3>2
           DEF Start, Work, TakeLock, InstallHandler, Dispatch, MakeParent,
               Declare, AddCheckout, RunEnds, DeliverCancel, CaptureDiff,
               RemoveTree, Leave, WriteResult, Dies, Terminate, Kill, Alive,
               HoldsLock
      <4>2. result[w] # "none" /\ stop[w] = "asked"
        BY <2>1, <4>1 DEF Mark
      <4>3. stop'[w] = "withdrawn" /\ pc'[w] = "exited" /\ result'[w] # "none"
        BY <1>1, <2>1, <4>1, <4>2 DEF Mark, WorkerInv, TypeOK
      <4>. QED  BY <2>1, <4>2, <4>3 DEF Told, Alive, HoldsLock
    <3>. QED  BY <3>1, <3>2
  <2>3. CASE ServerDies
    <3>1. /\ pc'[w] = pc[w] /\ result'[w] = result[w]
          /\ stop'[w] = IF stop[w] = "asked" THEN "abandoned" ELSE stop[w]
      BY <2>3 DEF ServerDies
    <3>. QED  BY <2>1, <3>1 DEF Told, Alive, HoldsLock
  <2>4. CASE UNCHANGED vars
    BY <2>4, SameTold DEF vars, watch
  <2>. QED  BY <1>1, <2>2, <2>3, <2>4 DEF Next
<1>2. WorkerInv /\ (\A w \in Workers : Watched(w)) /\ [Next]_vars
        => [\A w \in Workers :
              Told(w) \in Endings /\ ~unsure[w] => Told(w)' = Told(w)]_vars
  BY <1>1
<1>. QED  BY <1>2, WorkerInvariant, WatchedInv, PTL DEF Spec, EndingsStand
=============================================================================

------------------------------ MODULE RunLedger ------------------------------
(***************************************************************************)
(* What the job handlers promise about a paid run: it ends once, keeps its  *)
(* outcome for as long as its record is there, is never dropped while it    *)
(* runs, and its result is taken by at most one consume - in one step.      *)
(***************************************************************************)
CONSTANTS Calls, Fetches

VARIABLES
  phase,  \* "absent", "running", a final state, or "removed"
  takers  \* the consumes that removed the record by taking the result

Final == {"done", "failed", "cancelled", "timeout"}

Init ==
  /\ phase = [j \in Calls |-> "absent"]
  /\ takers = [j \in Calls |-> {}]

(* A run starts; the start may evict records of runs that ended.            *)
Start(j) ==
  /\ phase[j] = "absent"
  /\ \E evicted \in SUBSET {i \in Calls : phase[i] \in Final} :
       phase' = [i \in Calls |-> IF i = j THEN "running"
                                 ELSE IF i \in evicted THEN "removed"
                                 ELSE phase[i]]
  /\ UNCHANGED takers

End(j, state) ==
  /\ phase[j] = "running"
  /\ phase' = [phase EXCEPT ![j] = state]
  /\ UNCHANGED takers

Drop(j) ==
  /\ phase[j] \in Final
  /\ phase' = [phase EXCEPT ![j] = "removed"]
  /\ UNCHANGED takers

Take(j, f) ==
  /\ phase[j] = "done"
  /\ phase' = [phase EXCEPT ![j] = "removed"]
  /\ takers' = [takers EXCEPT ![j] = {f}]

Next ==
  \E j \in Calls :
    \/ Start(j) \/ Drop(j)
    \/ \E state \in Final : End(j, state)
    \/ \E f \in Fetches : Take(j, f)

Spec == Init /\ [][Next]_<<phase, takers>>
=============================================================================

----------------------------- MODULE OneShotCall -----------------------------
(***************************************************************************)
(* What a one-shot app-server call promises: at most one child, asked at    *)
(* most once; the call answers only when no child of its own runs, and      *)
(* answers with a fact only after it asked for it.                          *)
(***************************************************************************)
CONSTANT Calls

VARIABLES
  stage,   \* "idle", "open" or "closed"
  asks,    \* requests the call wrote: 0 or 1
  child,   \* its child: "down" or "up"
  answer   \* "none", "fact" or "failure"

vars == <<stage, asks, child, answer>>

Init ==
  /\ stage = [c \in Calls |-> "idle"]
  /\ asks = [c \in Calls |-> 0]
  /\ child = [c \in Calls |-> "down"]
  /\ answer = [c \in Calls |-> "none"]

Open(c) ==
  /\ stage[c] = "idle"
  /\ stage' = [stage EXCEPT ![c] = "open"]
  /\ child' = [child EXCEPT ![c] = "up"]
  /\ UNCHANGED <<asks, answer>>

Ask(c) ==
  /\ stage[c] = "open"
  /\ asks[c] = 0
  /\ asks' = [asks EXCEPT ![c] = 1]
  /\ UNCHANGED <<stage, child, answer>>

Down(c) ==
  /\ child[c] = "up"
  /\ child' = [child EXCEPT ![c] = "down"]
  /\ UNCHANGED <<stage, asks, answer>>

(* A call that never opened (no binary) closes with a failure.              *)
Close(c, a) ==
  /\ stage[c] # "closed"
  /\ child[c] = "down"
  /\ a = "fact" => asks[c] = 1
  /\ stage' = [stage EXCEPT ![c] = "closed"]
  /\ answer' = [answer EXCEPT ![c] = a]
  /\ UNCHANGED <<asks, child>>

Next ==
  \E c \in Calls :
    Open(c) \/ Ask(c) \/ Down(c) \/ \E a \in {"fact", "failure"} : Close(c, a)

Spec == Init /\ [][Next]_vars
=============================================================================

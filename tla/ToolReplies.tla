----------------------------- MODULE ToolReplies -----------------------------
(***************************************************************************)
(* What the caller of codex_transfer and codex_status is told of a one-shot *)
(* app-server call that returned (server.py, rate_limit.py).                *)
(***************************************************************************)
EXTENDS AppServer, RateLimit

CONSTANTS
  Blocks,   \* the quota blocks the app-server may answer a read with
  Now       \* the second the read starts

ASSUME RepliesAssumption == Blocks \subseteq Block /\ Now \in Nat

(* The tool hands the thread's outcome on; a cancelled one replies nothing. *)
Replied(c) == place[c] = "returned" /\ tool[c] = "waiting"

(* _transfer_outcome_envelope: a stopped thread reports TIMED_OUT; an       *)
(* exception is caught by _guard.                                           *)
TransferCode(ended) ==
  [ok |-> "none", unsupported |-> "transfer_unsupported",
   item_failure |-> "transfer_failed", incomplete |-> "transfer_incomplete",
   spawn_failed |-> "codex_not_found", timed_out |-> "timeout",
   stopped |-> "timeout", protocol_error |-> "cli_contract_changed",
   raised |-> "internal_error"][ended]

(* Mutated: the tail accompanies only what has no message of its own.       *)
TailIsShown_Silent(c) ==
  tail[c] /\ TransferCode(status[c]) \in {"timeout", "transfer_incomplete"}

TailIsShown(c) ==
  tail[c] /\ TransferCode(status[c]) \in
               {"cli_contract_changed", "timeout", "transfer_incomplete"}

(* The readings codex_status may show of a read that ended so.              *)
Quotas == {b \in Blocks : ReadStatus(b) = "ok"}
Readings == {<<ended, LiveRead(ended, b, Now)>> : ended \in Facts \cup Failures, b \in Quotas}

-----------------------------------------------------------------------------
(* What a transfer's caller is told is so: codex is missing if there never  *)
(* was a child, the import was slow if the deadline passed - a stop that    *)
(* races it is no timeout - and whoever is told that the contract changed   *)
(* is shown what the child had to say when it died by itself.               *)
TransferRepliesAreTrue ==
  \A c \in Transfers : Replied(c) =>
    LET code == TransferCode(status[c]) IN
    /\ code = "codex_not_found" <=> child[c] = "none"
    /\ code = "timeout" => late[c]
    /\ code = "none" => asked[c] = 1 /\ home[c]
    /\ code = "cli_contract_changed" /\ words[c] # "none" /\ c \notin Escapees
         => TailIsShown(c)

QuotasReadConservatively ==
  \A b \in Quotas : Conservative(b, LiveRead("ok", b, Now), Now)

(* What codex_status says of the quota comes from a child that was asked,   *)
(* is never better nor worse than what it answered, and is "unknown" or     *)
(* "unavailable" of every read that failed - "unavailable" never because    *)
(* the read was late or could not start, for then a retry helps.            *)
QuotaIsConservative ==
  \A c \in Reads : Replied(c) =>
    /\ status[c] = "ok" => asked[c] = 1 /\ QuotasReadConservatively
    /\ status[c] # "ok" =>
         \A r \in Readings : r[1] = status[c] =>
           IF status[c] = "timed_out" \/ child[c] = "none"
           THEN r[2].status = "unknown" ELSE r[2].status \in {"unknown", "unavailable"}

SlotsReadAlike == \A b \in Quotas : SlotOrderIsIrrelevant(b, Now)

(* The app-server's slot order is not stable (#321): no reply depends on it.*)
RepliesIgnoreSlotOrder ==
  \A c \in Reads : Replied(c) /\ status[c] = "ok" => SlotsReadAlike
=============================================================================

----------------------------- MODULE JobEnvelope -----------------------------
(***************************************************************************)
(* How server.py turns a job record and its stored payload into the reply  *)
(* a caller sees, and whether that reply DELIVERS the stored payload.       *)
(* Payload kinds: "success" and "error" validate against their models;      *)
(* "foreign" fails validation and carries another release's result format; *)
(* "corrupt" fails validation with an equal, missing or unusable format.    *)
(***************************************************************************)
LOCAL INSTANCE Naturals

PayloadKinds == {"success", "error", "foreign", "corrupt"}
States == {"running", "done", "failed", "cancelled", "timeout"}

(* _STATE_TO_ERROR, with the fallback its lookup uses.                      *)
StateToError ==
  [running |-> "job_running", cancelled |-> "job_cancelled",
   timeout |-> "job_timeout", failed |-> "job_failed"]
StateError(state) ==
  IF state \in DOMAIN StateToError THEN StateToError[state] ELSE "job_failed"

(* _job_result_unreadable                                                   *)
Unreadable(payload) ==
  IF payload = "foreign" THEN "job_result_incompatible" ELSE "internal_error"

(* _validate_job_success and ErrorResult.model_validate                     *)
Validates(payload) == payload \in {"success", "error"}

(* _finished_job_envelope: the reply's code and its "delivered" flag.       *)
FinishedEnvelope(state, payload) ==
  IF state = "done" /\ payload # "none"
  THEN [code |-> IF Validates(payload) THEN payload ELSE Unreadable(payload),
        delivered |-> Validates(payload)]
  ELSE [code |-> StateError(state), delivered |-> FALSE]

EnvelopeCodes ==
  {"success", "error", "job_result_incompatible", "internal_error",
   "job_running", "job_cancelled", "job_timeout", "job_failed"}
=============================================================================

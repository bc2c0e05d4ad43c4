---------------------------- MODULE ReviewOutcome ----------------------------
(***************************************************************************)
(* orchestration.py and normalize.py: what is claimed about a review.  The *)
(* diff is gathered before the model is called, its coverage is worked out *)
(* from what was left out, and the model's own verdict, as it wrote it, is *)
(* folded with that coverage.                                              *)
(*                                                                         *)
(* A gathered diff: whether it holds anything reviewable, and what it left *)
(* out (gaps).  A last message: absent, no JSON, JSON that is no object,   *)
(* or an object whose verdict field holds the word the model wrote.        *)
(***************************************************************************)
EXTENDS Integers

Gaps == {"untracked_omitted", "tree_changed_during_gather", "truncated", "redacted"}

(* Untracked files and tree movement concern the working tree only. *)
OmissionReasons(scope, gaps) ==
    IF scope = "working_tree" THEN gaps ELSE gaps \cap {"truncated", "redacted"}

(* Mutated: a tree that moved while it was read still counts as covered. *)
Coverage_Moving(scope, gaps) ==
    IF OmissionReasons(scope, gaps) \ {"tree_changed_during_gather"} = {}
    THEN "complete" ELSE "partial"

Coverage(scope, gaps) ==
    IF OmissionReasons(scope, gaps) = {} THEN "complete" ELSE "partial"

Verdicts == {"pass", "concerns", "fail", "unknown"}

(***************************************************************************)
(* The machine fields reach this test as the model wrote them: a pass with *)
(* a control character in it is no pass.  Sanitizing first would make it   *)
(* one.                                                                    *)
(***************************************************************************)
VerdictOf(written) == IF written \in Verdicts THEN written ELSE "unknown"

ApplyCoverage(verdict, coverage) ==
    IF coverage = "partial" /\ verdict = "pass" THEN "unknown" ELSE verdict

(* classify_structured, for a message as the run left it. *)
Structure(message) ==
    IF message.shape \in {"absent", "prose"} THEN "invalid_json"
    ELSE IF message.shape = "json" THEN "schema_violation"
    ELSE "ok"
=============================================================================

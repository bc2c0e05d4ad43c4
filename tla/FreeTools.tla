------------------------------ MODULE FreeTools ------------------------------
(***************************************************************************)
(* The free calls a careful caller makes before a paid one: codex_status,  *)
(* and the previews codex_dry_run of a review and codex_delegate_dry_run   *)
(* of a delegation (server.py).  They change nothing of the run; what they *)
(* promise about it is the question.                                       *)
(*                                                                         *)
(* A preview is compared with the call it previews: the same arguments, on *)
(* a working tree that did not change in between.  The server answers it   *)
(* from a help probe it may have made minutes ago (preflight._cache); a    *)
(* paid run's worker is a new process and probes for itself.               *)
(***************************************************************************)
EXTENDS PaidRun

CONSTANT Careful     \* the requests a free call precedes

ASSUME CarefulAssumption == Careful \subseteq Requests

VARIABLES
    preview,    \* what the dry run said, if one was made
    ready       \* codex_status said ready, and codex is still the same

freeVars == <<vars, preview, ready>>

(* _dry_run_effective_model: an override the CLI does not list is not sent. *)
EffectiveModel(help) == call.request.model /\ Supported(help)

Preview(code, calls, left, help) ==
    [made |-> TRUE, code |-> code, calls |-> calls, left |-> left,
     omits |-> Coverage(call.request.scope, left) = "partial",
     model |-> EffectiveModel(help), heard |-> help]

NoPreview == [made |-> FALSE, code |-> "none", calls |-> FALSE, left |-> {},
              omits |-> FALSE, model |-> FALSE, heard |-> "none"]

FreeInit == Init /\ preview = NoPreview /\ ready = FALSE

(***************************************************************************)
(* The checks of each preview, in its order: a copy of the paid tool's,    *)
(* without those of the arguments a preview does not take.                 *)
(***************************************************************************)
(* Mutated: a blank task is left to the paid call. *)
PreviewChecks_NoBlank ==
    [review   |-> <<"isolation", "workspace", "placeholder", "extra_args", "effort",
                    "size">>,
     delegate |-> <<"isolation", "workspace", "placeholder", "extra_args", "effort",
                    "size", "repository">>]

PreviewChecks ==
    [review   |-> <<"isolation", "workspace", "placeholder", "extra_args", "effort",
                    "size">>,
     delegate |-> <<"isolation", "workspace", "placeholder", "extra_args", "effort",
                    "size", "blank", "repository">>]

(* The same check on the arguments a preview takes: the size is that of the *)
(* extra context alone, where the review adds the developer instructions.  *)
Foreseen(check) ==
    \/ check \in call.request.flaws
    \/ check = "extra_args" /\ ~Valid(call.entries)

(* What the tree lets a preview say that found nothing wrong with the call. *)
Outlooks(help) ==
    IF call.request.kind = "review"
    THEN {Preview("gather", FALSE, {}, help)}
           \cup {Preview("none", calls, left, help) :
                    calls \in BOOLEAN, left \in Omissions}
    ELSE {Preview("none", TRUE, {}, help)}

(* The answer at hand: of this codex, of an earlier one, or of a probe that failed. *)
Remembered == {installed.help, "silent"} \cup {b.help : b \in Builds}

DryRun ==
    /\ pc = "prepare"
    /\ call.request \in Careful /\ call.request.kind \in DOMAIN PreviewChecks
    /\ ~preview.made /\ ~ready
    /\ LET checks  == PreviewChecks[call.request.kind]
           failing == {i \in DOMAIN checks : Foreseen(checks[i])}
       IN  \E help \in Remembered :
              \/ \E i \in failing : /\ \A j \in failing : i <= j
                                    /\ preview' = Preview(checks[i], FALSE, {}, help)
              \/ failing = {} /\ preview' \in Outlooks(help)
    /\ UNCHANGED <<vars, ready>>

-----------------------------------------------------------------------------
(***************************************************************************)
(* codex_status: ready is a version that was found and a login that was    *)
(* confirmed; a probe that learns nothing is not ready.                    *)
(***************************************************************************)
(* Mutated: a login that could not be determined is taken for one. *)
SetUp_Unconfirmed == installed # Absent /\ "binary" \notin call.request.flaws

SetUp ==
    /\ installed # Absent
    /\ "binary" \notin call.request.flaws
    /\ call.home.login

Status ==
    /\ pc = "prepare"
    /\ call.request \in Careful
    /\ ~preview.made /\ ~ready
    /\ SetUp
    /\ ready' = TRUE
    /\ UNCHANGED <<vars, preview>>

-----------------------------------------------------------------------------
(* The run meets the tree the preview met. *)
SameTree ==
    preview.made /\ pc = "gather" =>
        /\ preview.code = "gather" <=> answer'.code = "gather"
        /\ preview.code = "none" => /\ gaps' = preview.left
                                    /\ preview.calls <=> pc' = "stage"

Run ==
    /\ Next
    /\ SameTree
    /\ ready' = (ready /\ installed' = installed)
    /\ UNCHANGED preview

FreeNext == DryRun \/ Status \/ Run

FreeSpec == FreeInit /\ [][FreeNext]_freeVars

-----------------------------------------------------------------------------
(***************************************************************************)
(* "A failure here is a failure the paid call would also hit", and in the  *)
(* other direction too: a refusal that was not previewed is of an argument *)
(* previews do not take - the developer instructions by themselves, or by  *)
(* what they add to the size of the input.  No model is called where none  *)
(* was announced, the model override sent is the one announced - if the    *)
(* worker's help probe heard what the server remembered - and a review     *)
(* whose preview disclosed an omission does not pass.                      *)
(***************************************************************************)
NotPreviewed == {"detail", "advice"} \cup (IF OverTogether THEN {"size"} ELSE {})

Previewed == {"isolation", "workspace", "placeholder", "extra_args", "effort",
              "size", "blank", "repository", "gather"} \ NotPreviewed

PreviewIsFaithful ==
    pc = "answered" /\ preview.made =>
        /\ preview.code # "none" =>
              ~spent.called /\ answer.code \in {preview.code} \cup NotPreviewed
        /\ preview.code = "none" => answer.code \notin Previewed
        /\ ~preview.calls => ~spent.called
        /\ spent.called /\ preview.heard = argv.heard =>
              (preview.model <=> spent.model)
        /\ preview.omits => answer.verdict # "pass"

(***************************************************************************)
(* A caller told ready is not then turned away for a missing codex or a    *)
(* missing login, while codex is what it was: whatever else is wrong, with *)
(* the call, the configuration or the command line, is named as itself.    *)
(***************************************************************************)
ReadyMeansSetUp ==
    pc = "answered" /\ ready /\ ~spent.called =>
        answer.code \notin {"codex_not_found", "codex_auth_required"}
=============================================================================

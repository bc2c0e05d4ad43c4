------------------------------- MODULE PaidRun -------------------------------
(***************************************************************************)
(* One paid run from the call to its envelope: the checks of the server    *)
(* (server._prepare_consult, _prepare_review, _prepare_delegate), the      *)
(* gathering of a review's diff (orchestration.run_review), the staging of *)
(* the command line (backend.prepare), the spawn of codex                  *)
(* (codex.run_codex_exec) and the reading of how it ended                  *)
(* (orchestration.finalize_*, codex.classify_failure).                     *)
(*                                                                         *)
(* The other actor is the machine: the codex that answered the probes may  *)
(* be replaced, upgraded or removed before the one that is spawned.        *)
(***************************************************************************)
EXTENDS CodexExec, ReviewOutcome, FiniteSets

CONSTANTS
    Requests,       \* the calls considered
    Passthroughs,   \* the operator's EXTRA_ARGS, each a set of entries
    Homes,          \* what the user has on disk
    Builds,         \* the codex builds that may be installed
    Transcripts,    \* what a failed run's output may say, once a model ran
    Messages,       \* the last messages a model may leave
    Omissions,      \* bound: what a gathered diff may leave out, together
    MaxUpgrades     \* how often codex is replaced during the run

(***************************************************************************)
(* A request says what was asked for and which checks it fails (flaws; an  *)
(* unusable CODEX_BIN override is the flaw "binary", and texts that are    *)
(* too long only together with the developer instructions are "together"). *)
(* Delegate takes no developer instructions.  A passthrough word has a     *)
(* first segment and is not spelled like an option: the parser refuses a   *)
(* value with a leading dash.  No option or feature of the plugin's is an  *)
(* effort marker.                                                          *)
(***************************************************************************)
ASSUME RequestsAssumption ==
    \A r \in Requests :
        /\ r.kind \in {"consult", "review", "delegate"}
        /\ r.model \in BOOLEAN /\ r.effort \in BOOLEAN /\ r.advice \in BOOLEAN
        /\ r.kind = "delegate" => ~r.advice /\ "advice" \notin r.flaws

PluginFlags ==
    {"--json", "--sandbox", "--cd", "--output-last-message", "--ephemeral",
     "--disable", "--ignore-user-config", "--ignore-rules", "--model", "-c",
     "--skip-git-repo-check", "--output-schema", "--strict-config"}

ASSUME PassthroughsAssumption ==
    \A p \in Passthroughs : \A e \in p :
        /\ 1 \in DOMAIN e.word
        /\ e.word \notin {<<f>> : f \in PluginFlags}

ASSUME SignatureAssumption ==
    SignatureWords \cap ({<<f>> : f \in PluginFlags} \cup OwnedFeatures) = {}

ASSUME BuildsAssumption == \A b \in Builds : b.help \in {"lists", "omits", "silent"}

ASSUME OmissionsAssumption == Omissions \subseteq SUBSET Gaps

ASSUME MaxUpgradesAssumption == MaxUpgrades \in Nat

Absent == [help |-> "silent"]       \* no codex on the machine

VARIABLES
    pc,          \* where the run is
    call,        \* the request, the operator's entries and the user's home
    installed,   \* the codex on the machine now
    upgrades,
    gaps,        \* what the gathered diff left out
    argv,        \* the staged command line
    version,     \* what codex --version answered just before the spawn
    end,         \* how the process ended
    spent,       \* whether the model was called, and what was in force then
    answer       \* the envelope the caller gets

vars == <<pc, call, installed, upgrades, gaps, argv, version, end, spent, answer>>

Failed(verdict, model, codex) ==
    [ok |-> FALSE, code |-> verdict.code, caveat |-> verdict.caveat,
     verdict |-> "none", model |-> model, version |-> codex]

Answered(verdict, model, codex) ==
    [ok |-> TRUE, code |-> "none", caveat |-> FALSE,
     verdict |-> verdict, model |-> model, version |-> codex]

NoAnswer == Failed(Verdict("none"), FALSE, "none")

NotSpent == [model |-> FALSE, honoured |-> {}, off |-> {}, called |-> FALSE]

NotStaged == [flags |-> {}, heard |-> "none", dropped |-> FALSE]

Ending(how, evidence, message) ==
    [how |-> how, evidence |-> evidence, message |-> message]

NoMessage == [shape |-> "absent", verdict |-> "none"]

NotEnded == Ending("none", Nothing, NoMessage)

Init ==
    /\ pc = "prepare"
    /\ call \in [request : Requests, entries : Passthroughs, home : Homes]
    /\ installed \in Builds \cup {Absent}
    /\ upgrades = 0
    /\ gaps = {}
    /\ argv = NotStaged
    /\ version = "none"
    /\ end = NotEnded
    /\ spent = NotSpent
    /\ answer = NoAnswer

(* The envelope reaches the caller. *)
Deliver(envelope) ==
    /\ pc' = "answered"
    /\ answer' = envelope

Refuse(code) ==
    Deliver(Failed(Verdict(code), call.request.model, "none"))

-----------------------------------------------------------------------------
(***************************************************************************)
(* The server's checks, in the order each tool makes them.  A flaw of the  *)
(* request is named by the check that sees it.                             *)
(***************************************************************************)
ConsultChecks == <<"isolation", "detail", "workspace", "placeholder", "extra_args",
                   "effort", "advice", "size", "blank">>

(* Mutated: the instructions of a review are left to the adapter. *)
ReviewChecks_NoAdvice == <<"isolation", "detail", "workspace", "placeholder",
                           "extra_args", "effort", "size">>

ReviewChecks == <<"isolation", "detail", "workspace", "placeholder", "extra_args",
                  "effort", "advice", "size">>

DelegateChecks == <<"isolation", "workspace", "placeholder", "extra_args",
                    "effort", "size", "blank", "detail", "repository">>

ChecksOf(kind) ==
    [consult |-> ConsultChecks, review |-> ReviewChecks,
     delegate |-> DelegateChecks][kind]

(* The developer instructions take the caller's texts over the limit. *)
OverTogether == call.request.advice /\ "together" \in call.request.flaws

Flawed(check) ==
    \/ check \in call.request.flaws
    \/ check = "extra_args" /\ ~Valid(call.entries)
    \/ check = "size" /\ OverTogether

Failing == {i \in DOMAIN ChecksOf(call.request.kind) :
               Flawed(ChecksOf(call.request.kind)[i])}

Refused ==
    /\ pc = "prepare"
    /\ \E i \in Failing :
          /\ \A j \in Failing : i <= j
          /\ Refuse(ChecksOf(call.request.kind)[i])
    /\ UNCHANGED <<call, installed, upgrades, gaps, argv, version, end, spent>>

Admitted ==
    /\ pc = "prepare"
    /\ Failing = {}
    /\ pc' = IF call.request.kind = "review" THEN "gather" ELSE "stage"
    /\ UNCHANGED <<call, installed, upgrades, gaps, argv, version, end, spent, answer>>

(***************************************************************************)
(* run_review: the diff before any model call.  Git may refuse the scope,  *)
(* nothing may be reviewable, or a prompt is built from what was gathered. *)
(***************************************************************************)
GatherFails ==
    /\ pc = "gather"
    /\ Refuse("gather")
    /\ UNCHANGED <<call, installed, upgrades, gaps, argv, version, end, spent>>

NothingToReview ==
    /\ pc = "gather"
    /\ gaps' \in Omissions
    /\ Deliver(Answered("unknown", call.request.model, "none"))
    /\ UNCHANGED <<call, installed, upgrades, argv, version, end, spent>>

Gather ==
    /\ pc = "gather"
    /\ gaps' \in Omissions
    /\ pc' = "stage"
    /\ UNCHANGED <<call, installed, upgrades, argv, version, end, spent, answer>>

(***************************************************************************)
(* run_codex_exec up to the spawn.  An override of the binary that names   *)
(* no executable ends as a spawn without a binary.  The adapter raises on  *)
(* a request it would not carry, which the worker reports as its crash.    *)
(***************************************************************************)
Unresolved ==
    /\ pc = "stage"
    /\ "binary" \in call.request.flaws
    /\ end' = Ending("missing", Nothing, NoMessage)
    /\ pc' = "finalize"
    /\ UNCHANGED <<call, installed, upgrades, gaps, argv, version, spent, answer>>

AdapterRefuses ==
    \/ call.request.flaws \cap {"effort", "advice"} # {}
    \/ call.request.kind = "delegate" /\ call.request.advice

(* The help the worker hears: the build's own, none if its probe fails, or  *)
(* a text that is cut off before --model when the probe's timeout kills it. *)
(* It matters only to a line with a model, the one option it gates.         *)
Heard ==
    {installed.help} \cup
    (IF call.request.model /\ installed.help # "silent" THEN {"silent", "omits"} ELSE {})

Stage ==
    /\ pc = "stage"
    /\ "binary" \notin call.request.flaws
    /\ IF AdapterRefuses
       THEN Refuse("internal_error") /\ UNCHANGED argv
       ELSE /\ \E help \in Heard :
                  argv' = Command(call.request, call.entries, help)
            /\ pc' = "probe"
            /\ UNCHANGED answer
    /\ UNCHANGED <<call, installed, upgrades, gaps, version, end, spent>>

(* The version probe never fails the run; it may learn nothing. *)
ProbeVersion ==
    /\ pc = "probe"
    /\ version' \in {"none"} \cup (IF installed = Absent THEN {} ELSE {installed.version})
    /\ pc' = "spawn"
    /\ UNCHANGED <<call, installed, upgrades, gaps, argv, end, spent, answer>>

(***************************************************************************)
(* The spawned build is whatever is installed by now.                      *)
(***************************************************************************)
SpawnFindsNothing ==
    /\ pc = "spawn"
    /\ installed = Absent
    /\ end' = Ending("missing", Nothing, NoMessage)
    /\ version' = "none"
    /\ pc' = "finalize"
    /\ UNCHANGED <<call, installed, upgrades, gaps, argv, spent, answer>>

SpawnIsRefused ==
    /\ pc = "spawn"
    /\ installed # Absent
    /\ \E e \in Refusals(installed, argv, call.home) :
          end' = Ending("failed", e, NoMessage)
    /\ pc' = "finalize"
    /\ UNCHANGED <<call, installed, upgrades, gaps, argv, version, spent, answer>>

CallModel ==
    /\ pc = "spawn"
    /\ installed # Absent
    /\ Refusals(installed, argv, call.home) = {}
    /\ spent' = [called |-> TRUE, model |-> "--model" \in argv.own,
                 honoured |-> Honoured(installed, argv),
                 off |-> SwitchedOff(installed, argv)]
    /\ pc' = "running"
    /\ UNCHANGED <<call, installed, upgrades, gaps, argv, version, end, answer>>

RunSucceeds ==
    /\ pc = "running"
    /\ \E m \in Messages :
          end' = Ending("success", Nothing, m)
    /\ pc' = "finalize"
    /\ UNCHANGED <<call, installed, upgrades, gaps, argv, version, spent, answer>>

(* The deadline of run_async, or a turn that failed: a limit, an error. *)
RunFails ==
    /\ pc = "running"
    /\ \E how \in {"timeout", "failed"}, t \in Transcripts :
          end' = Ending(how, Refusal("run", <<>>, <<>>, Descriptors(call.entries),
                                     t, "none"), NoMessage)
    /\ pc' = "finalize"
    /\ UNCHANGED <<call, installed, upgrades, gaps, argv, version, spent, answer>>

-----------------------------------------------------------------------------
(***************************************************************************)
(* Finalization.  Whatever happened is stamped with the probed version and *)
(* the model, which a dropped --model makes unknown.                       *)
(***************************************************************************)
(* Mutated: the model asked for is reported, sent or not. *)
StampedModel_AsAsked == call.request.model

StampedModel == call.request.model /\ ~argv.dropped

Failure ==
    IF end.how = "missing" THEN Verdict("codex_not_found")
    ELSE IF end.how = "timeout" THEN Verdict("timeout")
    ELSE ClassifyFailure(end.evidence, call.entries, call.request.effort,
            PluginConfigKeys(SandboxOf(call.request.kind), call.request.effort,
                             call.request.advice))

FinalizeFailure ==
    /\ pc = "finalize"
    /\ end.how # "success"
    /\ Deliver(Failed(Failure, StampedModel, version))
    /\ UNCHANGED <<call, installed, upgrades, gaps, argv, version, end, spent>>

ReviewEnvelope ==
    LET structure == Structure(end.message)
    IN  IF structure # "ok" THEN Failed(Verdict(structure), StampedModel, version)
        ELSE Answered(ApplyCoverage(VerdictOf(end.message.verdict),
                                    Coverage(call.request.scope, gaps)),
                      StampedModel, version)

(* Consult takes prose for an answer, delegate reports what the tree shows. *)
FinalizeSuccess ==
    /\ pc = "finalize"
    /\ end.how = "success"
    /\ Deliver(IF call.request.kind = "review" THEN ReviewEnvelope
               ELSE Answered("none", StampedModel, version))
    /\ UNCHANGED <<call, installed, upgrades, gaps, argv, version, end, spent>>

(***************************************************************************)
(* The machine.  A replacement before the command line is staged is the    *)
(* same as another build installed from the start.                         *)
(***************************************************************************)
Upgrade ==
    /\ pc \in {"probe", "spawn"}
    /\ upgrades < MaxUpgrades
    /\ installed' \in (Builds \cup {Absent}) \ {installed}
    /\ upgrades' = upgrades + 1
    /\ UNCHANGED <<pc, call, gaps, argv, version, end, spent, answer>>

-----------------------------------------------------------------------------
Next ==
    \/ Refused \/ Admitted
    \/ GatherFails \/ NothingToReview \/ Gather
    \/ Unresolved \/ Stage
    \/ ProbeVersion \/ SpawnFindsNothing \/ SpawnIsRefused \/ CallModel
    \/ RunSucceeds \/ RunFails
    \/ FinalizeFailure \/ FinalizeSuccess
    \/ Upgrade

Spec == Init /\ [][Next]_vars

-----------------------------------------------------------------------------
Codes == {"none", "isolation", "detail", "workspace", "placeholder", "extra_args",
          "effort", "advice", "size", "blank", "repository", "gather",
          "internal_error", "codex_not_found", "timeout", "cli_contract_changed",
          "extra_args_rejected", "user_config_rejected", "codex_auth_required",
          "invalid_reasoning_effort", "codex_rate_limited", "nonzero_exit",
          "invalid_json", "schema_violation"}

(* The run is at a place of its path and its envelope is well formed. *)
TypeOK ==
    /\ pc \in {"prepare", "gather", "stage", "probe", "spawn", "running",
               "finalize", "answered"}
    /\ call \in [request : Requests, entries : Passthroughs, home : Homes]
    /\ installed \in Builds \cup {Absent}
    /\ upgrades \in 0..MaxUpgrades
    /\ gaps \subseteq Gaps
    /\ end.how \in {"none", "missing", "failed", "timeout", "success"}
    /\ spent.called \in BOOLEAN
    /\ answer.ok \in BOOLEAN
    /\ answer.code \in Codes
    /\ answer.verdict \in Verdicts \cup {"none"}

(***************************************************************************)
(* Whatever build served the run, if it called the model it honoured every *)
(* key the plugin pinned - for a delegate run no network and no further    *)
(* writable roots - and had every plugin-owned feature switched off: a     *)
(* build that renamed a key or a feature, even one installed after the     *)
(* probes, refuses the command line instead of ignoring part of it.        *)
(***************************************************************************)
BoundaryHolds ==
    spent.called => /\ PinsFor(call.request) \subseteq spent.honoured
                    /\ OwnedFeatures \subseteq spent.off

(***************************************************************************)
(* The owner of a refused word is told: a key or name the operator sent is *)
(* never the plugin's fault, a word of the plugin's own, -c included, is   *)
(* never the user's or the operator's, the caller's effort is the caller's *)
(* and the user's file the user's - whatever phrases the refusal quotes -  *)
(* and where only a profile may hold the value, the envelope says so.  A   *)
(* user's value whose key the operator sent too, in a spelling codex does  *)
(* not know, is the exception.                                             *)
(***************************************************************************)
Told(e, verdict, entries) ==
    /\ e.from = "operator" /\ e.form # "value"
          => verdict.code = "extra_args_rejected"
    /\ e.from = "plugin" /\ e.names \cap Descriptors(entries) \subseteq {<<"-c">>}
          => verdict.code = "cli_contract_changed"
    /\ e.from = "caller" => verdict.code = "invalid_reasoning_effort"
    /\ e.from = "user" /\ e.form \in {"file", "value"}
       /\ (e.form = "value" => ~OwnsConfigKey(entries, e.key))
          => verdict.code = "user_config_rejected"
    /\ verdict.code = "user_config_rejected" => e.from = "user" \/ verdict.caveat

OwnerIsTold ==
    pc = "answered" /\ end.how = "failed" => Told(end.evidence, answer, call.entries)

(***************************************************************************)
(* "No model call was made", the text of user_config_rejected, is true of  *)
(* every run that says it, whatever the model or its commands printed.     *)
(***************************************************************************)
NoCallMeansNoCall ==
    answer.code = "user_config_rejected" => ~spent.called

(***************************************************************************)
(* The envelope names the requested model only if that is the model that   *)
(* was paid for, and a codex version only if some codex was launched.      *)
(***************************************************************************)
ProvenanceIsHonest ==
    pc = "answered" =>
        /\ spent.called /\ answer.model => spent.model
        /\ answer.version # "none" => end.how \notin {"none", "missing"}

(***************************************************************************)
(* A review passes only if a model was asked, wrote exactly "pass", and    *)
(* had been shown everything in scope.                                     *)
(***************************************************************************)
PassIsEarned ==
    answer.verdict = "pass" =>
        /\ spent.called
        /\ end.message.verdict = "pass"
        /\ OmissionReasons(call.request.scope, gaps) = {}

(***************************************************************************)
(* What the server admits the worker can stage: the two boundaries check   *)
(* the same things, so no admitted run dies of a refusal of the adapter.   *)
(***************************************************************************)
AdmittedRunsAreStaged == answer.code # "internal_error"

(***************************************************************************)
(* schemas.py says of cli_contract_changed that the installed codex        *)
(* rejected a flag or value this plugin sends; then no model was called.   *)
(***************************************************************************)
DriftIsARejection == answer.code = "cli_contract_changed" => ~spent.called
=============================================================================

------------------------------ MODULE CodexExec ------------------------------
(***************************************************************************)
(* codex.py: the command line of one paid run (build_exec_command) and the *)
(* reading of its failure (classify_failure).  Both are pure; a run that   *)
(* fails is told apart by the text codex printed, and the classification   *)
(* decides who is told to fix what.                                        *)
(***************************************************************************)
EXTENDS InstalledCodex

(***************************************************************************)
(* A request as the worker's spec holds it: the kind of run, whether a     *)
(* model, a reasoning effort and developer instructions were asked for,    *)
(* and how much of the user's configuration codex may read.                *)
(***************************************************************************)
SandboxOf(kind) == IF kind = "delegate" THEN "workspace-write" ELSE "read-only"

IsolationFlags(isolation) ==
    {f \in {"--ignore-user-config", "--ignore-rules"} :
        \/ f = "--ignore-user-config" /\ isolation # "inherit"
        \/ f = "--ignore-rules" /\ isolation = "ignore-rules"}

(* preflight: a flag counts as supported unless a help text lacks it. *)
Supported(help) == help # "omits"

(* Only the model may be dropped from a line. *)
Dropped(request, help) == request.model /\ ~Supported(help)

PinsFor(request) ==
    {k \in PluginOwnedKeys :
        \/ k \in {Network, Roots} /\ SandboxOf(request.kind) = "workspace-write"
        \/ k = Effort /\ request.effort
        \/ k = Advice /\ request.advice}

OwnFlags(request, pins, help) ==
    {"--json", "--sandbox", "--cd", "--output-last-message", "--ephemeral",
     "--disable"}
      \cup IsolationFlags(request.isolation)
      \cup (IF request.kind = "consult" THEN {"--skip-git-repo-check"} ELSE {})
      \cup (IF request.kind # "delegate" THEN {"--output-schema"} ELSE {})
      \cup (IF request.model /\ ~Dropped(request, help) THEN {"--model"} ELSE {})
      \cup (IF pins # {} THEN {"-c"} ELSE {})

(* Mutated: the guard is not sent. *)
GuardFlags_Off(overrides) == {}

(* --strict-config rides exactly the lines that carry an override. *)
GuardFlags(overrides) == IF overrides # {} THEN {"--strict-config"} ELSE {}

Command(request, entries, help) ==
    LET pins == PinsFor(request)
        overrides == pins \cup ConfigKeys(entries)
        own == OwnFlags(request, pins, help) \cup GuardFlags(overrides)
    IN  [sandbox   |-> SandboxOf(request.kind),
         own       |-> own,
         flags     |-> own \cup {e.flag : e \in Riding(entries)},
         pins      |-> pins,
         overrides |-> overrides,
         disabled  |-> OwnedFeatures \cup Words(entries, {"--disable"}),
         enabled   |-> Words(entries, {"--enable"}),
         profiles  |-> Profiles(entries),
         heard     |-> help,
         dropped   |-> Dropped(request, help)]

-----------------------------------------------------------------------------
(***************************************************************************)
(* plugin_config_keys_for: the keys a run of this shape pins, worked out   *)
(* a second time from the envelope when the run has failed.                *)
(***************************************************************************)
PluginConfigKeys(sandbox, effort, advice) ==
    (IF sandbox = "workspace-write" THEN {Network, Roots} ELSE {})
      \cup (IF effort THEN {Effort} ELSE {})
      \cup (IF advice THEN {Advice} ELSE {})

Verdict(code) == [code |-> code, caveat |-> FALSE]

(* _strict_config_error: whose key, or whose file, codex named. *)
StrictConfigError(e, entries) ==
    IF e.form = "override"
    THEN IF e.key \in PluginOwnedKeys THEN Verdict("cli_contract_changed")
         ELSE IF OwnsConfigKey(entries, e.key) THEN Verdict("extra_args_rejected")
         ELSE Verdict("cli_contract_changed")
    ELSE IF OwnsProfileFile(entries, e.file) THEN Verdict("extra_args_rejected")
    ELSE Verdict("user_config_rejected")

(* Mutated: any key the plugin may ever pin counts as pinned by this run. *)
ConfigValueError_AnyPin(e, entries, pinned) ==
    IF e.key \in PluginOwnedKeys THEN Verdict("cli_contract_changed")
    ELSE IF OwnsConfigKey(entries, e.key) THEN Verdict("extra_args_rejected")
    ELSE [code |-> "user_config_rejected", caveat |-> Profiles(entries) # {}]

(* _config_value_error: no file is named, so a selected profile is a caveat. *)
ConfigValueError(e, entries, pinned) ==
    IF e.key \in pinned THEN Verdict("cli_contract_changed")
    ELSE IF OwnsConfigKey(entries, e.key) THEN Verdict("extra_args_rejected")
    ELSE [code |-> "user_config_rejected", caveat |-> Profiles(entries) # {}]

(* The clap and backend complaints, found by substring. *)
DriftError(e, entries, effort, pinned) ==
    LET matched == Descriptors(entries) \cap e.names
        impersonates == matched \cap SignatureWords # {}
        ownsDashC == effort \/ pinned # {}
    IN  IF impersonates THEN Verdict("extra_args_rejected")
        ELSE IF effort /\ "effort" \in e.says THEN Verdict("invalid_reasoning_effort")
        ELSE IF matched # {} /\ ~(ownsDashC /\ matched \subseteq {<<"-c">>})
             THEN Verdict("extra_args_rejected")
        ELSE Verdict("cli_contract_changed")

(* Mutated: the grammar of refused values is looked for in stdout too. *)
ClassifyFailure_Stdout(e, entries, effort, pinned) ==
    IF e.form \in {"override", "file"} THEN StrictConfigError(e, entries)
    ELSE IF e.form = "value" \/ "drift" \in e.says
         THEN ConfigValueError(e, entries, pinned)
    ELSE IF "auth" \in e.says THEN Verdict("codex_auth_required")
    ELSE IF "rate" \in e.says THEN Verdict("codex_rate_limited")
    ELSE Verdict("nonzero_exit")

ClassifyFailure(e, entries, effort, pinned) ==
    IF e.form \in {"override", "file"} THEN StrictConfigError(e, entries)
    ELSE IF e.form = "value" THEN ConfigValueError(e, entries, pinned)
    ELSE IF "auth" \in e.says THEN Verdict("codex_auth_required")
    ELSE IF "drift" \in e.says THEN DriftError(e, entries, effort, pinned)
    ELSE IF "rate" \in e.says THEN Verdict("codex_rate_limited")
    ELSE Verdict("nonzero_exit")
=============================================================================

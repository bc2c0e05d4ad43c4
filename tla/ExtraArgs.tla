------------------------------ MODULE ExtraArgs ------------------------------
(***************************************************************************)
(* The operator's passthrough, CODEX_IN_CLAUDE_EXTRA_ARGS: which entries   *)
(* the parser lets through (config._parse_extra_args) and what the parsed  *)
(* value can later be asked about who owns what codex complained of.       *)
(*                                                                         *)
(* A word - a config key, a profile or a feature name - is a sequence of   *)
(* segments.  An entry is a flag with its word; a passthrough is a set of  *)
(* entries, their order deciding only which refusal is worded first.       *)
(***************************************************************************)
EXTENDS Integers, Sequences

CONSTANT Aliases    \* odd spelling of a segment (case, quotes) -> the segment

(***************************************************************************)
(* The plugin's own words, cli_contract.py.                                *)
(***************************************************************************)
Network == <<"sandbox_workspace_write", "network_access">>
Roots   == <<"sandbox_workspace_write", "writable_roots">>
Effort  == <<"model_reasoning_effort">>
Advice  == <<"developer_instructions">>

PluginOwnedKeys == {Network, Roots, Effort, Advice}
OwnedFeatures   == {<<"remote_plugin">>, <<"sleep_tool">>}

Canonical == {"sandbox_workspace_write", "network_access", "writable_roots",
              "model_reasoning_effort", "developer_instructions"}

ASSUME CanonicalIsNotAnAlias == Canonical \cap DOMAIN Aliases = {}

ConfigFlags  == {"-c", "--config"}
ProfileFlags == {"-p", "--profile"}
FeatureFlags == {"--enable", "--disable"}

(***************************************************************************)
(* _normalize_config_key: every segment to its canonical spelling.  Codex  *)
(* itself reads segments literally, so an odd spelling is for it another,  *)
(* unknown key.                                                            *)
(***************************************************************************)
Normal(word) ==
    [i \in DOMAIN word |->
        IF word[i] \in DOMAIN Aliases THEN Aliases[word[i]] ELSE word[i]]

(* Whole segments only: t.k is within t, t.kx is not within t.k. *)
Within(word, parent) ==
    /\ DOMAIN parent \subseteq DOMAIN word
    /\ \A i \in DOMAIN parent : word[i] = parent[i]

-----------------------------------------------------------------------------
(***************************************************************************)
(* What is refused at parse time, before anything is spent.  A denied root *)
(* takes every segment that continues it with an underscore along: these   *)
(* are the ones codex has keys for.                                        *)
(***************************************************************************)
DeniedRoots == {"sandbox", "sandbox_workspace_write", "sandbox_mode", "approval_policy",
                "shell_environment_policy"}

InstructionKeys == {Advice, <<"model_instructions_file">>,
                    <<"experimental_instructions_file">>,
                    <<"instructions">>, <<"model_catalog_json">>}

ReservedKeys == {<<"model">>, Effort}

ReachesOwnedFeature(key) ==
    \/ key = <<"features">>
    \/ \E f \in OwnedFeatures : Within(key, <<"features">> \o f)

DeniedKey(key) ==
    \/ key[1] \in DeniedRoots
    \/ ReachesOwnedFeature(key)
    \/ key \in InstructionKeys \cup ReservedKeys

Accepted(entry) ==
    \/ entry.flag \in ConfigFlags /\ ~DeniedKey(Normal(entry.word))
    \/ entry.flag \in ProfileFlags
    \/ entry.flag \in FeatureFlags /\ Normal(entry.word) \notin OwnedFeatures

Valid(entries) == \A e \in entries : Accepted(e)

-----------------------------------------------------------------------------
(***************************************************************************)
(* The parsed value.  One bad entry empties it: nothing of an invalid      *)
(* passthrough ever rides a command line.                                  *)
(***************************************************************************)
Riding(entries) == IF Valid(entries) THEN entries ELSE {}

Words(entries, flags) == {e.word : e \in {r \in Riding(entries) : r.flag \in flags}}

ConfigKeys(entries) == Words(entries, ConfigFlags)
Profiles(entries)   == Words(entries, ProfileFlags)

(* What codex may quote back: the flags as well as the words, unsanitized. *)
Descriptors(entries) ==
    {<<e.flag>> : e \in Riding(entries)} \cup {e.word : e \in Riding(entries)}

OwnsConfigKey(entries, key) ==
    \E own \in ConfigKeys(entries) : Within(Normal(key), Normal(own))

OwnsProfileFile(entries, file) == file \in Profiles(entries)
=============================================================================

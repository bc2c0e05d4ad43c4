----------------------------- MODULE MCPaidRun -----------------------------
(***************************************************************************)
(* Small instances of FreeTools: every way one build can differ from the one *)
(* the plugin was written for, one at a time.                              *)
(***************************************************************************)
EXTENDS FreeTools, TLC

MCAliases == ("'model_provider'" :> "model_provider") @@
             ("SANDBOX_MODE" :> "sandbox_mode") @@
             ("Sleep_Tool" :> "sleep_tool")

Approval  == <<"approval_policy">>
Provider  == <<"model_provider">>
Signature == <<"[reasoning.effort]">>

MCEchoes == {{}, {"auth", "drift"}}
MCSignatureWords == {Signature}

Entry(flag, word) == [flag |-> flag, word |-> word]

MCPassthroughs ==
    {{},
     {Entry("-c", Provider)},
     {Entry("--config", <<"'model_provider'">>)},
     {Entry("-c", <<"SANDBOX_MODE">>)},
     {Entry("--enable", <<"Sleep_Tool">>)},
     {Entry("-p", <<"high">>), Entry("-c", Provider)},
     {Entry("--disable", <<"web">>)},
     {Entry("--enable", Signature)}}

Home(file, profile, login) == [file |-> file, profile |-> profile, login |-> login]

MCHomes == {Home({}, {Effort}, TRUE), Home({Network, Effort}, {}, TRUE),
            Home({Approval}, {Approval}, TRUE), Home({}, {}, FALSE)}

Request(kind, model, effort, advice, isolation, scope) ==
    [kind |-> kind, model |-> model, effort |-> effort, advice |-> advice,
     isolation |-> isolation, scope |-> scope, flaws |-> {}]

Plain(kind) == Request(kind, FALSE, FALSE, FALSE, "inherit", "working_tree")

Flaws == {"isolation", "detail", "workspace", "placeholder", "effort", "advice",
          "size", "blank", "repository", "binary"}

MCRequests ==
    {Request("consult", m, m, a, "inherit", "working_tree") : m, a \in BOOLEAN}
    \cup {Request("delegate", m, e, FALSE, "inherit", "working_tree") :
            m, e \in BOOLEAN}
    \cup {Request("consult", TRUE, TRUE, TRUE, "ignore-config", "working_tree"),
          Request("delegate", TRUE, TRUE, FALSE, "ignore-rules", "working_tree")}
    \cup {[Plain("review") EXCEPT !.scope = s] : s \in {"working_tree", "branch"}}
    \cup {[Plain("consult") EXCEPT !.flaws = {f}] : f \in Flaws \ {"repository"}}
    \cup {[Plain("review") EXCEPT !.flaws = {f}] :
            f \in Flaws \ {"repository", "blank"}}
    \cup {[Plain("delegate") EXCEPT !.flaws = {f}] : f \in Flaws \ {"advice"}}
    \cup {[Plain(k) EXCEPT !.flaws = {"detail", "size"}] : k \in {"review", "delegate"}}
    \cup {[Plain(k) EXCEPT !.advice = TRUE, !.flaws = {"together"}] :
            k \in {"consult", "review"}}

(* The calls made with care: flawed ones, one plain review, one delegation. *)
MCCareful ==
    {r \in MCRequests : r.kind # "consult" /\ (r.flaws # {} \/ r.scope = "branch")}
    \cup {Request("delegate", TRUE, FALSE, FALSE, "inherit", "working_tree")}

Known == [version |-> "known", help |-> "lists",
    flags |-> {"--json", "--sandbox", "--cd", "--output-last-message",
               "--ephemeral", "--disable", "--enable", "--ignore-user-config",
               "--ignore-rules", "--skip-git-repo-check", "--output-schema",
               "--model", "-c", "--config", "-p", "--strict-config"},
    keys |-> PluginOwnedKeys \cup {Provider, Approval},
    refuses |-> {}, features |-> OwnedFeatures \cup {<<"web">>}, efforts |-> TRUE]

Without(flag) == [Known EXCEPT !.version = "other", !.flags = @ \ {flag}]
Renamed(key) == [Known EXCEPT !.version = "other", !.keys = @ \ {key}]
Refusing(key) == [Known EXCEPT !.version = "other", !.refuses = {key}]
Forgot(feature) == [Known EXCEPT !.version = "other", !.features = @ \ {feature}]

MCBuilds ==
    {Known, [Without("--model") EXCEPT !.help = "omits"],
     [Known EXCEPT !.version = "other", !.efforts = FALSE]}
    \cup {Without(f) : f \in {"--model", "--disable", "-c", "--strict-config"}}
    \cup {Renamed(k) : k \in {Network, Advice, Provider, Approval}}
    \cup {Refusing(k) : k \in {Network, Effort, Approval}}
    \cup {Forgot(f) : f \in {<<"sleep_tool">>, <<"web">>}}

MCTranscripts == {{}, {"auth", "drift"}, {"drift", "rate"}, {"rate"}}

(* Nothing, one omission of each kind, all of them at once.                *)
MCOmissions == {{}, Gaps} \cup {{g} : g \in Gaps}

MCMessages ==
    {[shape |-> s, verdict |-> "none"] : s \in {"absent", "prose", "json"}}
    \cup {[shape |-> "object", verdict |-> v] : v \in {"pass", "pa^ss", "fail"}}

=============================================================================

---------------------------- MODULE PaidRunProofs ----------------------------
(***************************************************************************)
(* What holds of every paid run, for every request, passthrough, home and  *)
(* every codex that may be installed; and what the free calls in front of  *)
(* it promise about it.                                                    *)
(***************************************************************************)
EXTENDS FreeTools, TLAPS

(***************************************************************************)
(* config.py and cli_contract.py: the parser's denylist covers every key   *)
(* the plugin pins, in any spelling, so no passthrough that was let        *)
(* through can claim one, or the table it lives in.                        *)
(***************************************************************************)
THEOREM PinsAreOutOfReach ==
    ASSUME NEW entries, \A e \in entries : 1 \in DOMAIN e.word,
           NEW key \in PluginOwnedKeys
    PROVE  ~OwnsConfigKey(entries, key)
<1> SUFFICES ASSUME NEW own \in ConfigKeys(entries), Within(Normal(key), Normal(own))
             PROVE  FALSE
  BY DEF OwnsConfigKey
<1>1. PICK e \in entries : e.word = own /\ e.flag \in ConfigFlags /\ Accepted(e)
  BY DEF ConfigKeys, Words, Riding, Valid
<1>2. ~DeniedKey(Normal(own))
  BY <1>1 DEF Accepted, ConfigFlags, ProfileFlags, FeatureFlags
<1> DEFINE n == Normal(own)
<1>3. 1 \in DOMAIN n
  BY <1>1 DEF Normal
<1>4. Normal(key) = key
  BY CanonicalIsNotAnAlias
  DEF Normal, PluginOwnedKeys, Network, Roots, Effort, Advice, Canonical
<1>5. DOMAIN n \subseteq DOMAIN key /\ n[1] = key[1]
  BY <1>3, <1>4 DEF Within
<1>6. CASE key \in {Network, Roots}
  BY <1>2, <1>5, <1>6 DEF DeniedKey, DeniedRoots, Network, Roots
<1>7. CASE key \in {Effort, Advice}
  <2>1. n = key
    <3>1. DOMAIN n = {1} /\ DOMAIN key = {1}
      BY <1>3, <1>5, <1>7 DEF Effort, Advice
    <3>2. n = [i \in DOMAIN n |-> n[i]] /\ key = [i \in {1} |-> key[i]]
      BY <1>7 DEF Normal, Effort, Advice
    <3> QED
      BY <3>1, <3>2, <1>5
  <2> QED
    BY <1>2, <1>7, <2>1 DEF DeniedKey, InstructionKeys, ReservedKeys
<1> QED
  BY <1>6, <1>7 DEF PluginOwnedKeys

-----------------------------------------------------------------------------
(***************************************************************************)
(* The command line of a request, whatever the help probe said.            *)
(***************************************************************************)
LineIsBuilt ==
    \E help \in {"lists", "omits", "silent"} :
        argv = Command(call.request, call.entries, help)

(***************************************************************************)
(* What each place of the run knows: an envelope is the last step, nothing *)
(* is spent before the staged line meets a build, and a version was probed *)
(* only on the way to a spawn that found one.                              *)
(***************************************************************************)
Path ==
    /\ pc # "answered" => answer = NoAnswer
    /\ pc \in {"gather", "stage"} =>
          call.request.flaws \cap {"effort", "advice"} = {}
    /\ pc \in {"prepare", "gather", "stage"} =>
          version = "none" /\ ~spent.called /\ end = NotEnded
    /\ pc \in {"probe", "spawn"} => ~spent.called
    /\ pc \in {"probe", "spawn", "running"} => LineIsBuilt
    /\ pc = "running" => spent.called
    /\ pc = "finalize" =>
          /\ end.how # "none"
          /\ version # "none" => end.how # "missing"

(* How the process ended, and what a failure that cost nothing left behind. *)
Ended ==
    pc = "finalize" =>
       /\ end.how = "success" => spent.called
       /\ end.how # "failed" => end.evidence.form \in {"none", "run"}
       /\ end.how = "failed" /\ spent.called =>
             end.evidence.form = "run" /\ end.evidence.from = "none"
       /\ end.how = "failed" /\ ~spent.called =>
             /\ LineIsBuilt
             /\ \E b \in Builds : end.evidence \in Refusals(b, argv, call.home)

(* The model that was paid for is the one that was asked for, if not dropped. *)
ModelIsKnown == spent.called /\ call.request.model /\ ~argv.dropped => spent.model

RunInv ==
    /\ TypeOK
    /\ Path
    /\ Ended
    /\ ModelIsKnown
    /\ BoundaryHolds
    /\ OwnerIsTold
    /\ NoCallMeansNoCall
    /\ ProvenanceIsHonest
    /\ PassIsEarned
    /\ AdmittedRunsAreStaged

-----------------------------------------------------------------------------
(* A line that no build refused is a line whose every key its build reads. *)
LEMMA UnrefusedIsHonoured ==
    ASSUME NEW request, NEW entries, NEW help, NEW build, NEW home,
           NEW line, line = Command(request, entries, help),
           Refusals(build, line, home) = {}
    PROVE  /\ PinsFor(request) \subseteq Honoured(build, line)
           /\ OwnedFeatures \subseteq SwitchedOff(build, line)
<1>1. UnknownKeys(build, line, home) = {} /\ FeatureRefusals(build, line) = {}
  <2> DEFINE f == FlagRefusals(build, line)
             u == UnknownKeys(build, line, home)
             v == ValueRefusals(build, line, home)
             n == FeatureRefusals(build, line)
             l == LoginRefusals(home)
             r == EffortRefusals(build, line, home)
  <2>1. Refusals(build, line, home) =
          IF f # {} THEN f ELSE IF u \cup v \cup n # {} THEN u \cup v \cup n
          ELSE IF l # {} THEN l ELSE r
    BY DEF Refusals
  <2> HIDE DEF f, u, v, n, l, r
  <2>2. u \cup v \cup n = {}
    BY <2>1
  <2>3. u = {} /\ n = {}
    BY <2>2
  <2> QED
    BY <2>3 DEF u, n
<1>2. PinsFor(request) = line.pins /\ line.pins \subseteq line.overrides
  BY DEF Command
<1>3. OwnedFeatures \subseteq line.disabled
  BY DEF Command
<1>4. line.overrides # {} => "--strict-config" \in line.flags
  BY DEF Command, GuardFlags
<1>5. line.overrides \subseteq build.keys
  <2> SUFFICES ASSUME NEW k \in line.overrides \ build.keys
               PROVE  FALSE
    OBVIOUS
  <2>1. PICK s \in Echoes : TRUE
    BY EchoesAssumption
  <2>2. "--strict-config" \in line.flags
    BY <1>4
  <2>3. Refusal("override", k, <<>>, {}, s, Sender(k, line.pins))
          \in UnknownKeys(build, line, home)
    BY <2>1, <2>2 DEF UnknownKeys
  <2> QED
    BY <1>1, <2>3
<1>6. line.disabled \subseteq build.features
  BY <1>1 DEF FeatureRefusals
<1> QED
  BY <1>2, <1>3, <1>5, <1>6 DEF Honoured, SwitchedOff

-----------------------------------------------------------------------------
(* plugin_config_keys_for works the pinned keys out a second time, alike. *)
LEMMA PinsAreRecomputed ==
    ASSUME NEW request
    PROVE  PluginConfigKeys(SandboxOf(request.kind), request.effort, request.advice)
             = PinsFor(request)
BY DEF PluginConfigKeys, PinsFor, PluginOwnedKeys, SandboxOf,
       Network, Roots, Effort, Advice

(* A verdict is a code the envelope has, and a run is never the user's fault. *)
LEMMA VerdictIsACode ==
    ASSUME NEW e, NEW entries, NEW effort, NEW pinned
    PROVE  LET v == ClassifyFailure(e, entries, effort, pinned)
           IN  /\ v.code \in Codes \ {"internal_error"}
               /\ e.form \notin {"file", "value"} => v.code # "user_config_rejected"
BY DEF ClassifyFailure, StrictConfigError, ConfigValueError, DriftError, Verdict, Codes

(* What the substring search makes of what it finds, case by case. *)
LEMMA DriftVerdict ==
    ASSUME NEW e, NEW entries, NEW effort \in BOOLEAN, NEW pinned
    PROVE  LET matched == Descriptors(entries) \cap e.names
               code == DriftError(e, entries, effort, pinned).code
           IN
           /\ code # "user_config_rejected"
           /\ matched \cap SignatureWords # {} => code = "extra_args_rejected"
           /\ matched \cap SignatureWords = {} /\ effort /\ "effort" \in e.says
                => code = "invalid_reasoning_effort"
           /\ (/\ "effort" \in e.says => matched \cap SignatureWords # {}
               /\ matched # {}
               /\ effort \/ pinned # {} => ~(matched \subseteq {<<"-c">>}))
                => code = "extra_args_rejected"
           /\ (/\ matched \cap SignatureWords = {} /\ "effort" \notin e.says
               /\ matched # {} => pinned # {} /\ matched \subseteq {<<"-c">>})
                => code = "cli_contract_changed"
<1> DEFINE matched == Descriptors(entries) \cap e.names
           code    == DriftError(e, entries, effort, pinned).code
           marked  == matched \cap SignatureWords # {}
           blamed  == effort /\ "effort" \in e.says
           theirs  == matched # {} /\ ~((effort \/ pinned # {})
                                           /\ matched \subseteq {<<"-c">>})
<1>1. code = (IF marked THEN Verdict("extra_args_rejected")
              ELSE IF blamed THEN Verdict("invalid_reasoning_effort")
              ELSE IF theirs THEN Verdict("extra_args_rejected")
              ELSE Verdict("cli_contract_changed")).code
  BY Zenon DEF DriftError
<1>2. \A c : Verdict(c).code = c
  BY DEF Verdict
<1>3. code = IF marked THEN "extra_args_rejected"
             ELSE IF blamed THEN "invalid_reasoning_effort"
             ELSE IF theirs THEN "extra_args_rejected"
             ELSE "cli_contract_changed"
  <2> HIDE DEF marked, blamed, theirs
  <2> QED
    BY <1>1, <1>2
<1> QED
  BY <1>3

(***************************************************************************)
(* Whatever a build refuses of a line the plugin built, its owner is told. *)
(* The words of the operator are no options and the plugin's own options   *)
(* and features are no effort markers, so the substring search cannot      *)
(* confuse them; the keys of the two cannot meet (PinsAreOutOfReach).      *)
(***************************************************************************)
LEMMA RefusalsAreBlamed ==
    ASSUME NEW request, NEW entries \in Passthroughs, NEW help,
           NEW build, NEW home, request.effort \in BOOLEAN,
           NEW line, line = Command(request, entries, help),
           NEW e \in Refusals(build, line, home)
    PROVE  Told(e, ClassifyFailure(e, entries, request.effort, PinsFor(request)),
                entries)
<1> DEFINE pinned == PinsFor(request)
           verdict == ClassifyFailure(e, entries, request.effort, pinned)
<1>1. /\ line.pins = pinned /\ line.overrides = pinned \cup ConfigKeys(entries)
      /\ line.profiles = Profiles(entries)
  BY DEF Command
<1>2. pinned \subseteq PluginOwnedKeys
  BY DEF PinsFor
<1>3. \A k : OwnsConfigKey(entries, k) => k \notin pinned
  BY <1>2, PinsAreOutOfReach, PassthroughsAssumption
<1>4. \A k \in ConfigKeys(entries) : OwnsConfigKey(entries, k)
  BY DEF OwnsConfigKey, Within
<1>5. \A w : w \in Profiles(entries) => w # <<>>
  BY PassthroughsAssumption DEF Profiles, Words, Riding
<1>6. ASSUME e \in UnknownKeys(build, line, home)
      PROVE  Told(e, verdict, entries)
  <2>1. CASE e.form = "override"
    <3>1. /\ e.key \in line.overrides
          /\ e.from = Sender(e.key, pinned) /\ e.names = {}
      BY <1>1, <1>6, <2>1 DEF UnknownKeys, Refusal
    <3>2. CASE e.key \in pinned
      <4>1. verdict.code = "cli_contract_changed" /\ e.from = "plugin"
        BY <1>2, <2>1, <3>1, <3>2
        DEF ClassifyFailure, StrictConfigError, Verdict, Sender
      <4> QED
        BY <4>1, <2>1 DEF Told
    <3>3. CASE e.key \notin pinned
      <4>1. OwnsConfigKey(entries, e.key) /\ e.key \notin PluginOwnedKeys
        BY <1>1, <1>4, <3>1, <3>3, PinsAreOutOfReach, PassthroughsAssumption
      <4>2. verdict.code = "extra_args_rejected" /\ e.from = "operator"
        BY <4>1, <2>1, <3>1, <3>3
        DEF ClassifyFailure, StrictConfigError, Verdict, Sender
      <4> QED
        BY <4>2, <2>1 DEF Told
    <3> QED
      BY <3>2, <3>3
  <2>2. CASE e.form = "file" /\ e.file \in Profiles(entries)
    <3>1. verdict.code = "extra_args_rejected" /\ e.from = "operator"
      BY <1>1, <1>5, <1>6, <2>2
      DEF ClassifyFailure, StrictConfigError, Verdict, OwnsProfileFile,
          UnknownKeys, Refusal
    <3> QED
      BY <3>1, <2>2 DEF Told
  <2>3. CASE e.form = "file" /\ e.file \notin Profiles(entries)
    <3>1. verdict.code = "user_config_rejected" /\ e.from = "user"
      BY <1>1, <1>5, <1>6, <2>3
      DEF ClassifyFailure, StrictConfigError, Verdict, OwnsProfileFile,
          UnknownKeys, Refusal
    <3> QED
      BY <3>1, <2>3 DEF Told
  <2>4. e.form \in {"override", "file"}
    BY <1>6 DEF UnknownKeys, Refusal
  <2> QED
    BY <2>1, <2>2, <2>3, <2>4
<1>7. ASSUME e \in ValueRefusals(build, line, home)
      PROVE  Told(e, verdict, entries)
  <2> DEFINE inProfile == {k \in ReadFromProfile(line, home) : ~Overridden(k, line)}
  <2>1. \A k : ~Overridden(k, line) => k \notin line.overrides
    BY DEF Overridden, Within
  <2>2. /\ e.form = "value"
        /\ \/ e.from = "plugin" /\ e.key \in pinned
           \/ e.from = "operator" /\ e.key \in ConfigKeys(entries)
           \/ e.from = "operator" /\ e.key \in inProfile
           \/ e.from = "user" /\ ~Overridden(e.key, line)
    BY <1>1, <1>7 DEF ValueRefusals, Refusal
  <2>3. verdict = ConfigValueError(e, entries, pinned)
    BY <2>2 DEF ClassifyFailure
  <2>4. CASE e.from = "plugin" /\ e.key \in pinned
    <3>1. verdict.code = "cli_contract_changed"
      BY <2>3, <2>4 DEF ConfigValueError, Verdict
    <3> QED
      BY <2>2, <2>4, <3>1 DEF Told
  <2>5. CASE e.from = "operator" /\ e.key \in ConfigKeys(entries)
    <3>1. verdict.code = "extra_args_rejected"
      BY <1>3, <1>4, <2>3, <2>5 DEF ConfigValueError, Verdict
    <3> QED
      BY <2>2, <2>5, <3>1 DEF Told
  <2>6. CASE e.from = "operator" /\ e.key \in inProfile
    <3>1. Profiles(entries) # {}
      BY <1>1, <2>6 DEF ReadFromProfile
    <3>2. \/ verdict = Verdict("cli_contract_changed")
          \/ verdict = Verdict("extra_args_rejected")
          \/ verdict = [code |-> "user_config_rejected",
                        caveat |-> Profiles(entries) # {}]
      BY <2>3, ZenonT(30) DEF ConfigValueError
    <3>3. verdict.code = "user_config_rejected" => verdict.caveat
      <4>1. Verdict("cli_contract_changed").code = "cli_contract_changed"
            /\ Verdict("extra_args_rejected").code = "extra_args_rejected"
        BY DEF Verdict
      <4> HIDE DEF verdict
      <4>2. CASE verdict = [code |-> "user_config_rejected",
                            caveat |-> Profiles(entries) # {}]
        <5>1. verdict.caveat = (Profiles(entries) # {})
          BY <4>2
        <5> QED
          BY <3>1, <5>1
      <4> QED
        BY <3>2, <4>1, <4>2
    <3> QED
      BY <2>2, <2>6, <3>3 DEF Told
  <2>7. CASE e.from = "user" /\ ~Overridden(e.key, line)
    <3>1. ~OwnsConfigKey(entries, e.key) => verdict.code = "user_config_rejected"
      BY <1>1, <2>1, <2>3, <2>7 DEF ConfigValueError, Verdict
    <3> QED
      BY <2>2, <2>7, <3>1 DEF Told
  <2> QED
    BY <2>2, <2>4, <2>5, <2>6, <2>7
<1>8. ASSUME e \in FlagRefusals(build, line) \cup FeatureRefusals(build, line)
                     \cup LoginRefusals(home) \cup EffortRefusals(build, line, home)
      PROVE  Told(e, verdict, entries)
  <2> DEFINE matched == Descriptors(entries) \cap e.names
             drift == DriftError(e, entries, request.effort, pinned).code
  <2>10. /\ drift # "user_config_rejected"
         /\ matched \cap SignatureWords = {} /\ request.effort /\ "effort" \in e.says
              => drift = "invalid_reasoning_effort"
         /\ (/\ "effort" \in e.says => matched \cap SignatureWords # {}
             /\ matched # {}
             /\ request.effort \/ pinned # {} => ~(matched \subseteq {<<"-c">>}))
              => drift = "extra_args_rejected"
         /\ (/\ matched \cap SignatureWords = {} /\ "effort" \notin e.says
             /\ matched # {} => pinned # {} /\ matched \subseteq {<<"-c">>})
              => drift = "cli_contract_changed"
    BY DriftVerdict
  <2>1. /\ line.own = OwnFlags(request, pinned, help) \cup GuardFlags(line.overrides)
        /\ line.flags = line.own \cup {i.flag : i \in Riding(entries)}
        /\ line.disabled = OwnedFeatures \cup Words(entries, {"--disable"})
        /\ line.enabled = Words(entries, {"--enable"})
    BY DEF Command
  <2>2. line.own \subseteq PluginFlags
    BY <2>1 DEF OwnFlags, GuardFlags, IsolationFlags, PluginFlags
  <2>3. pinned # {} => "-c" \in line.own
    BY <2>1 DEF OwnFlags
  <2>4. request.effort => pinned # {}
    BY DEF PinsFor, PluginOwnedKeys
  <2>5. \A fs : Words(entries, fs) \subseteq Descriptors(entries)
                   /\ \A w \in Words(entries, fs) : w \notin {<<f>> : f \in PluginFlags}
    BY PassthroughsAssumption DEF Words, Descriptors, Riding
  <2>6. ASSUME e \in FlagRefusals(build, line)
        PROVE  Told(e, verdict, entries)
    <3>1. PICK f \in line.flags : e = Refusal("flag", <<>>, <<>>, {<<f>>}, {"drift"},
                                             Sender(f, line.own))
      BY <2>6 DEF FlagRefusals
    <3>2. verdict.code = drift
      BY <3>1 DEF ClassifyFailure, Refusal
    <3>3. CASE f \in line.own
      <4>1. e.from = "plugin" /\ e.form = "flag" /\ e.names = {<<f>>}
            /\ "effort" \notin e.says
        BY <3>1, <3>3 DEF Refusal, Sender
      <4>2. <<f>> \notin SignatureWords
        BY <2>2, <3>3, SignatureAssumption
      <4>3. ASSUME matched \subseteq {<<"-c">>}
            PROVE  verdict.code = "cli_contract_changed"
        <5>1. matched # {} => f = "-c"
          BY <4>1, <4>3
        <5>2. matched # {} => pinned # {}
          BY <2>1, <3>3, <5>1 DEF OwnFlags, GuardFlags, IsolationFlags
        <5>3. matched \cap SignatureWords = {}
          BY <4>1, <4>2
        <5> QED
          BY <3>2, <4>1, <4>3, <5>2, <5>3, <2>10
      <4>4. verdict.code # "user_config_rejected"
        BY <3>2, <2>10
      <4> QED
        BY <4>1, <4>3, <4>4 DEF Told
    <3>4. CASE f \notin line.own
      <4>1. e.from = "operator" /\ e.form = "flag" /\ e.names = {<<f>>}
            /\ "effort" \notin e.says
        BY <3>1, <3>4 DEF Refusal, Sender
      <4>2. matched = {<<f>>}
        BY <2>1, <3>4, <4>1 DEF Descriptors
      <4>3. request.effort \/ pinned # {} => ~(matched \subseteq {<<"-c">>})
        <5>1. request.effort \/ pinned # {} => f # "-c"
          BY <2>3, <2>4, <3>4
        <5>2. f # "-c" => <<f>> # <<"-c">>
          OBVIOUS
        <5> QED
          BY <4>2, <5>1, <5>2
      <4>4. verdict.code = "extra_args_rejected"
        BY <3>2, <4>1, <4>2, <4>3, <2>10
      <4> QED
        BY <4>1, <4>4 DEF Told
    <3> QED
      BY <3>3, <3>4
  <2>7. ASSUME e \in FeatureRefusals(build, line)
        PROVE  Told(e, verdict, entries)
    <3>1. PICK f \in line.disabled \cup line.enabled :
             e = Refusal("feature", <<>>, <<>>, {f},
                         {"drift"} \cup {m \in {"effort"} : f \in SignatureWords},
                         Sender(f, OwnedFeatures))
      BY <2>7 DEF FeatureRefusals
    <3>2. /\ e.form = "feature" /\ e.names = {f} /\ e.from = Sender(f, OwnedFeatures)
          /\ "drift" \in e.says /\ "auth" \notin e.says
          /\ "effort" \in e.says => f \in SignatureWords
      BY <3>1 DEF Refusal
    <3>3. verdict.code = drift
      BY <3>2 DEF ClassifyFailure
    <3>4. CASE f \in OwnedFeatures
      <4>1. f \notin SignatureWords /\ f # <<"-c">>
        BY <3>4, SignatureAssumption DEF OwnedFeatures
      <4>2. matched \subseteq {<<"-c">>} => matched = {}
        BY <3>2, <4>1
      <4>3. matched = {} => verdict.code = "cli_contract_changed"
        <5>1. "effort" \notin e.says
          BY <3>2, <4>1
        <5> QED
          BY <3>3, <5>1, <2>10
      <4>4. verdict.code # "user_config_rejected"
        BY <3>3, <2>10
      <4>5. e.from = "plugin"
        BY <3>2, <3>4 DEF Sender
      <4> QED
        BY <4>2, <4>3, <4>4, <4>5 DEF Told
    <3>5. CASE f \notin OwnedFeatures
      <4>1. f \in Descriptors(entries) /\ f # <<"-c">>
        BY <2>1, <2>5, <3>5 DEF PluginFlags
      <4>2. matched = {f}
        BY <3>2, <4>1
      <4>3. verdict.code = "extra_args_rejected"
        <5>1. /\ "effort" \in e.says => matched \cap SignatureWords # {}
              /\ matched # {} /\ ~(matched \subseteq {<<"-c">>})
          BY <3>2, <4>1, <4>2
        <5> QED
          BY <3>3, <5>1, <2>10
      <4>4. e.from = "operator"
        BY <3>2, <3>5 DEF Sender
      <4> QED
        BY <3>2, <4>3, <4>4 DEF Told
    <3> QED
      BY <3>4, <3>5
  <2>8. ASSUME e \in LoginRefusals(home)
        PROVE  Told(e, verdict, entries)
    BY <2>8 DEF LoginRefusals, Refusal, ClassifyFailure, Verdict, Told
  <2>9. ASSUME e \in EffortRefusals(build, line, home)
        PROVE  Told(e, verdict, entries)
    <3>1. /\ e.form = "effort" /\ e.names \cap SignatureWords = {}
          /\ e.says = {"drift", "effort"}
          /\ e.from = IF Effort \in pinned THEN "caller" ELSE "user"
      BY <1>1, <2>9 DEF EffortRefusals, Refusal
    <3>2. verdict.code = drift
      BY <3>1 DEF ClassifyFailure
    <3>3. Effort \in pinned => request.effort
      BY DEF PinsFor, Effort, Network, Roots, Advice
    <3>4. Effort \in pinned => verdict.code = "invalid_reasoning_effort"
      <4>1. matched \cap SignatureWords = {} /\ "effort" \in e.says
        BY <3>1
      <4> QED
        BY <3>2, <3>3, <4>1, <2>10
    <3>5. verdict.code # "user_config_rejected"
      BY <3>2, <2>10
    <3> QED
      BY <3>1, <3>4, <3>5 DEF Told
  <2> QED
    BY <1>8, <2>6, <2>7, <2>8, <2>9
<1>9. \/ e \in UnknownKeys(build, line, home)
      \/ e \in ValueRefusals(build, line, home)
      \/ e \in FlagRefusals(build, line) \cup FeatureRefusals(build, line)
                 \cup LoginRefusals(home) \cup EffortRefusals(build, line, home)
  <2> DEFINE f == FlagRefusals(build, line)
             u == UnknownKeys(build, line, home)
             v == ValueRefusals(build, line, home)
             n == FeatureRefusals(build, line)
             l == LoginRefusals(home)
             r == EffortRefusals(build, line, home)
  <2>1. e \in IF f # {} THEN f ELSE IF u \cup v \cup n # {} THEN u \cup v \cup n
              ELSE IF l # {} THEN l ELSE r
    BY DEF Refusals
  <2> HIDE DEF f, u, v, n, l, r
  <2>2. e \in u \/ e \in v \/ e \in f \cup n \cup l \cup r
    BY <2>1
  <2> QED
    BY <2>2 DEF f, u, v, n, l, r
<1> QED
  BY <1>6, <1>7, <1>8, <1>9

-----------------------------------------------------------------------------
LEMMA RunInvInit == Init => RunInv
<1> SUFFICES ASSUME Init PROVE RunInv
  OBVIOUS
<1>1. TypeOK
  BY MaxUpgradesAssumption
  DEF Init, TypeOK, NotEnded, Ending, NotSpent, NoAnswer, Failed, Verdict, Codes
<1>2. Path /\ Ended /\ ModelIsKnown
  BY DEF Init, Path, Ended, ModelIsKnown, NotSpent
<1>3. /\ BoundaryHolds /\ OwnerIsTold /\ NoCallMeansNoCall
      /\ ProvenanceIsHonest /\ PassIsEarned /\ AdmittedRunsAreStaged
  BY DEF Init, BoundaryHolds, OwnerIsTold, NoCallMeansNoCall, ProvenanceIsHonest,
         PassIsEarned, AdmittedRunsAreStaged, NotSpent, NoAnswer, Failed, Verdict
<1> QED
  BY <1>1, <1>2, <1>3 DEF RunInv

(* What no step of a run in progress may touch. *)
LEMMA StepOnPath ==
    ASSUME RunInv, UNCHANGED <<call, answer>>, pc # "answered", pc' # "answered"
    PROVE  /\ answer' = NoAnswer
           /\ OwnerIsTold' /\ NoCallMeansNoCall' /\ ProvenanceIsHonest'
           /\ PassIsEarned' /\ AdmittedRunsAreStaged'
           /\ answer'.ok \in BOOLEAN /\ answer'.code \in Codes
           /\ answer'.verdict \in Verdicts \cup {"none"}
<1>1. answer' = NoAnswer
  BY DEF RunInv, Path
<1> QED
  BY <1>1 DEF OwnerIsTold, NoCallMeansNoCall, ProvenanceIsHonest, PassIsEarned,
       AdmittedRunsAreStaged, NoAnswer, Failed, Verdict, Codes

-----------------------------------------------------------------------------
(* A refusal of the server or of the adapter, before anything was spent. *)
LEMMA RefuseKeepsInv ==
    ASSUME RunInv, pc \in {"prepare", "gather", "stage"}, NEW code \in Codes,
           code \notin {"internal_error", "user_config_rejected"}, Refuse(code),
           UNCHANGED <<call, installed, upgrades, gaps, argv, version, end, spent>>
    PROVE  RunInv'
<1>1. /\ pc' = "answered" /\ answer'.ok = FALSE /\ answer'.code = code
      /\ answer'.verdict = "none" /\ answer'.version = "none"
  BY DEF Refuse, Deliver, Failed, Verdict
<1>2. ~spent.called /\ end = NotEnded
  BY DEF RunInv, Path
<1>3. TypeOK'
  BY <1>1 DEF RunInv, TypeOK
<1>4. Path' /\ Ended' /\ ModelIsKnown'
  BY <1>1, <1>2 DEF RunInv, Path, Ended, ModelIsKnown
<1>5. end.how = "none"
  BY <1>2 DEF NotEnded, Ending
<1>6. /\ BoundaryHolds' /\ OwnerIsTold' /\ NoCallMeansNoCall'
      /\ ProvenanceIsHonest' /\ PassIsEarned' /\ AdmittedRunsAreStaged'
  BY <1>1, <1>2, <1>5
  DEF BoundaryHolds, OwnerIsTold, NoCallMeansNoCall, ProvenanceIsHonest,
      PassIsEarned, AdmittedRunsAreStaged
<1> QED
  BY <1>3, <1>4, <1>6 DEF RunInv

(* A check that refuses has a code of its own. *)
LEMMA ChecksHaveCodes ==
    ASSUME NEW kind \in {"consult", "review", "delegate"}, NEW i \in DOMAIN ChecksOf(kind)
    PROVE  ChecksOf(kind)[i] \in Codes \ {"internal_error", "user_config_rejected"}
<1>1. CASE kind = "consult"
  <2>1. ChecksOf(kind) = ConsultChecks
    BY <1>1 DEF ChecksOf
  <2> QED
    BY <2>1 DEF ConsultChecks, Codes
<1>2. CASE kind = "review"
  <2>1. ChecksOf(kind) = ReviewChecks
    BY <1>2 DEF ChecksOf
  <2> QED
    BY <2>1 DEF ReviewChecks, Codes
<1>3. CASE kind = "delegate"
  <2>1. ChecksOf(kind) = DelegateChecks
    BY <1>3 DEF ChecksOf
  <2> QED
    BY <2>1 DEF DelegateChecks, Codes
<1> QED
  BY <1>1, <1>2, <1>3

LEMMA PreparationKeepsInv ==
    RunInv /\ (Refused \/ Admitted \/ GatherFails \/ NothingToReview \/ Gather)
      => RunInv'
<1> SUFFICES ASSUME RunInv
             PROVE  Refused \/ Admitted \/ GatherFails \/ NothingToReview \/ Gather
                      => RunInv'
  OBVIOUS
<1>0. call \in [request : Requests, entries : Passthroughs, home : Homes]
  BY DEF RunInv, TypeOK
<1>1. ASSUME Refused PROVE RunInv'
  <2>1. PICK i \in Failing : Refuse(ChecksOf(call.request.kind)[i])
    BY <1>1 DEF Refused
  <2>2. ChecksOf(call.request.kind)[i]
          \in Codes \ {"internal_error", "user_config_rejected"}
    <3>1. call.request.kind \in {"consult", "review", "delegate"}
      BY <1>0, RequestsAssumption
    <3> QED
      BY <2>1, <3>1, ChecksHaveCodes DEF Failing
  <2> QED
    BY <1>1, <2>1, <2>2, RefuseKeepsInv DEF Refused
<1>2. ASSUME Admitted PROVE RunInv'
  <2>1. call.request.flaws \cap {"effort", "advice"} = {}
    <3>1. \A i \in DOMAIN ChecksOf(call.request.kind) :
             ChecksOf(call.request.kind)[i] \notin call.request.flaws
      BY <1>2 DEF Admitted, Failing, Flawed
    <3>2. CASE call.request.kind = "consult"
      BY <3>1, <3>2 DEF ChecksOf, ConsultChecks
    <3>3. CASE call.request.kind = "review"
      BY <3>1, <3>3 DEF ChecksOf, ReviewChecks
    <3>4. CASE call.request.kind = "delegate"
      <4>1. "advice" \notin call.request.flaws
        BY <1>0, <3>4, RequestsAssumption
      <4> QED
        BY <3>1, <3>4, <4>1 DEF ChecksOf, DelegateChecks
    <3> QED
      BY <1>0, <3>2, <3>3, <3>4, RequestsAssumption
  <2>2. pc = "prepare" /\ pc' \in {"gather", "stage"} /\ UNCHANGED <<call, answer>>
    BY <1>2 DEF Admitted
  <2>3. UNCHANGED <<installed, upgrades, gaps, argv, version, end, spent>>
    BY <1>2 DEF Admitted
  <2> QED
    BY <2>1, <2>2, <2>3, StepOnPath
    DEF RunInv, TypeOK, Path, Ended, ModelIsKnown, BoundaryHolds
<1>3. ASSUME GatherFails PROVE RunInv'
  BY <1>3, RefuseKeepsInv DEF GatherFails, Codes
<1>4. ASSUME NothingToReview PROVE RunInv'
  <2>1. /\ pc = "gather" /\ pc' = "answered" /\ gaps' \subseteq Gaps
        /\ answer' = Answered("unknown", call.request.model, "none")
        /\ UNCHANGED <<call, installed, upgrades, argv, version, end, spent>>
    BY <1>4, OmissionsAssumption DEF NothingToReview, Deliver
  <2>2. /\ answer'.ok = TRUE /\ answer'.code = "none" /\ answer'.version = "none"
        /\ answer'.verdict = "unknown"
    BY <2>1 DEF Answered
  <2>3. ~spent.called /\ end.how = "none"
    BY <2>1 DEF RunInv, Path, NotEnded, Ending
  <2>4. TypeOK' /\ Path' /\ Ended' /\ ModelIsKnown'
    BY <2>1, <2>2, <2>3
    DEF RunInv, TypeOK, Path, Ended, ModelIsKnown, Verdicts, Codes
  <2>5. /\ BoundaryHolds' /\ OwnerIsTold' /\ NoCallMeansNoCall'
        /\ ProvenanceIsHonest' /\ PassIsEarned' /\ AdmittedRunsAreStaged'
    BY <2>1, <2>2, <2>3
    DEF BoundaryHolds, OwnerIsTold, NoCallMeansNoCall, ProvenanceIsHonest,
        PassIsEarned, AdmittedRunsAreStaged
  <2> QED
    BY <2>4, <2>5 DEF RunInv
<1>5. ASSUME Gather PROVE RunInv'
  <2>1. /\ pc = "gather" /\ pc' = "stage" /\ gaps' \subseteq Gaps
        /\ UNCHANGED <<call, answer>>
        /\ UNCHANGED <<installed, upgrades, argv, version, end, spent>>
    BY <1>5, OmissionsAssumption DEF Gather
  <2> QED
    BY <2>1, StepOnPath
    DEF RunInv, TypeOK, Path, Ended, ModelIsKnown, BoundaryHolds
<1> QED
  BY <1>1, <1>2, <1>3, <1>4, <1>5

-----------------------------------------------------------------------------
(* From the staging of the line to the spawn that uses it. *)
LEMMA LaunchKeepsInv ==
    RunInv /\ (Unresolved \/ Stage \/ ProbeVersion \/ Upgrade) => RunInv'
<1> SUFFICES ASSUME RunInv
             PROVE  Unresolved \/ Stage \/ ProbeVersion \/ Upgrade => RunInv'
  OBVIOUS
<1>0. /\ call \in [request : Requests, entries : Passthroughs, home : Homes]
      /\ installed \in Builds \cup {Absent}
  BY DEF RunInv, TypeOK
<1>1. ASSUME Unresolved PROVE RunInv'
  <2>1. /\ pc = "stage" /\ pc' = "finalize" /\ UNCHANGED <<call, answer>>
        /\ end'.how = "missing" /\ end'.evidence.form = "none"
        /\ UNCHANGED <<installed, upgrades, gaps, argv, version, spent>>
    BY <1>1 DEF Unresolved, Ending, Nothing, Refusal
  <2> QED
    BY <2>1, StepOnPath
    DEF RunInv, TypeOK, Path, Ended, ModelIsKnown, BoundaryHolds
<1>2. ASSUME Stage PROVE RunInv'
  <2>1. ~AdapterRefuses
    <3>1. pc = "stage"
      BY <1>2 DEF Stage
    <3> QED
      BY <1>0, <3>1, RequestsAssumption DEF AdapterRefuses, RunInv, Path
  <2>2. PICK help \in Heard :
           /\ pc = "stage" /\ pc' = "probe" /\ UNCHANGED <<call, answer>>
           /\ argv' = Command(call.request, call.entries, help)
    BY <1>2, <2>1 DEF Stage
  <2>3. UNCHANGED <<installed, upgrades, gaps, version, end, spent>>
    BY <1>2 DEF Stage
  <2>4. help \in {"lists", "omits", "silent"}
    BY <1>0, BuildsAssumption DEF Absent, Heard
  <2>5. LineIsBuilt'
    BY <2>2, <2>4 DEF LineIsBuilt
  <2> QED
    BY <2>2, <2>3, <2>5, StepOnPath
    DEF RunInv, TypeOK, Path, Ended, ModelIsKnown, BoundaryHolds
<1>3. ASSUME ProbeVersion PROVE RunInv'
  <2>1. /\ pc = "probe" /\ pc' = "spawn" /\ UNCHANGED <<call, answer>>
        /\ UNCHANGED <<installed, upgrades, gaps, argv, end, spent>>
    BY <1>3 DEF ProbeVersion
  <2>2. LineIsBuilt' <=> LineIsBuilt
    BY <2>1 DEF LineIsBuilt
  <2> QED
    BY <2>1, <2>2, StepOnPath
    DEF RunInv, TypeOK, Path, Ended, ModelIsKnown, BoundaryHolds
<1>4. ASSUME Upgrade PROVE RunInv'
  <2>1. /\ pc \in {"probe", "spawn"} /\ UNCHANGED <<pc, call, answer>>
        /\ UNCHANGED <<gaps, argv, version, end, spent>>
        /\ installed' \in Builds \cup {Absent}
        /\ upgrades < MaxUpgrades /\ upgrades' = upgrades + 1
    BY <1>4 DEF Upgrade
  <2>2. LineIsBuilt' <=> LineIsBuilt
    BY <2>1 DEF LineIsBuilt
  <2>3. upgrades' \in 0..MaxUpgrades
    BY <2>1, MaxUpgradesAssumption DEF RunInv, TypeOK
  <2> QED
    BY <2>1, <2>2, <2>3, StepOnPath
    DEF RunInv, TypeOK, Path, Ended, ModelIsKnown, BoundaryHolds
<1> QED
  BY <1>1, <1>2, <1>3, <1>4

-----------------------------------------------------------------------------
(* The line meets the build that is installed by then. *)
LEMMA SpawnKeepsInv ==
    RunInv /\ (SpawnFindsNothing \/ SpawnIsRefused \/ CallModel) => RunInv'
<1> SUFFICES ASSUME RunInv
             PROVE  SpawnFindsNothing \/ SpawnIsRefused \/ CallModel => RunInv'
  OBVIOUS
<1>1. ASSUME SpawnFindsNothing PROVE RunInv'
  <2>1. /\ pc = "spawn" /\ pc' = "finalize" /\ UNCHANGED <<call, answer>>
        /\ end'.how = "missing" /\ end'.evidence.form = "none" /\ version' = "none"
        /\ UNCHANGED <<installed, upgrades, gaps, argv, spent>>
    BY <1>1 DEF SpawnFindsNothing, Ending, Nothing, Refusal
  <2> QED
    BY <2>1, StepOnPath
    DEF RunInv, TypeOK, Path, Ended, ModelIsKnown, BoundaryHolds
<1>2. ASSUME SpawnIsRefused PROVE RunInv'
  <2>1. /\ pc = "spawn" /\ pc' = "finalize" /\ UNCHANGED <<call, answer>>
        /\ UNCHANGED <<installed, upgrades, gaps, argv, version, spent>>
        /\ installed # Absent /\ end'.how = "failed"
        /\ end'.evidence \in Refusals(installed, argv, call.home)
    BY <1>2 DEF SpawnIsRefused, Ending
  <2>2. LineIsBuilt' /\ ~spent'.called /\ installed \in Builds
    BY <2>1 DEF LineIsBuilt, RunInv, Path, TypeOK
  <2>3. Ended'
    BY <2>1, <2>2 DEF Ended
  <2> QED
    BY <2>1, <2>2, <2>3, StepOnPath
    DEF RunInv, TypeOK, Path, ModelIsKnown, BoundaryHolds
<1>3. ASSUME CallModel PROVE RunInv'
  <2>1. /\ pc = "spawn" /\ pc' = "running" /\ UNCHANGED <<call, answer>>
        /\ UNCHANGED <<installed, upgrades, gaps, argv, version, end>>
        /\ Refusals(installed, argv, call.home) = {}
        /\ spent'.called = TRUE /\ spent'.model = ("--model" \in argv.own)
        /\ spent'.honoured = Honoured(installed, argv)
        /\ spent'.off = SwitchedOff(installed, argv)
    BY <1>3 DEF CallModel
  <2>2. PICK help : argv = Command(call.request, call.entries, help)
    BY <2>1 DEF RunInv, Path, LineIsBuilt
  <2>3. LineIsBuilt'
    BY <2>1 DEF LineIsBuilt, RunInv, Path
  <2>4. BoundaryHolds'
    <3>1. /\ PinsFor(call.request) \subseteq Honoured(installed, argv)
          /\ OwnedFeatures \subseteq SwitchedOff(installed, argv)
      BY <2>1, <2>2, UnrefusedIsHonoured
    <3> QED
      BY <2>1, <3>1 DEF BoundaryHolds
  <2>5. ModelIsKnown'
    <3>1. call.request.model /\ ~argv.dropped => "--model" \in argv.own
      BY <2>2 DEF Command, OwnFlags
    <3> QED
      BY <2>1, <3>1 DEF ModelIsKnown
  <2>6. TypeOK' /\ Path' /\ Ended'
    BY <2>1, <2>3, StepOnPath DEF RunInv, TypeOK, Path, Ended
  <2> QED
    BY <2>1, <2>4, <2>5, <2>6, StepOnPath DEF RunInv
<1> QED
  BY <1>1, <1>2, <1>3

LEMMA RunKeepsInv == RunInv /\ (RunSucceeds \/ RunFails) => RunInv'
<1> SUFFICES ASSUME RunInv PROVE RunSucceeds \/ RunFails => RunInv'
  OBVIOUS
<1>1. ASSUME RunSucceeds PROVE RunInv'
  <2>1. /\ pc = "running" /\ pc' = "finalize" /\ UNCHANGED <<call, answer>>
        /\ UNCHANGED <<installed, upgrades, gaps, argv, version, spent>>
        /\ end'.how = "success" /\ end'.evidence.form = "none"
    BY <1>1 DEF RunSucceeds, Ending, Nothing, Refusal
  <2> QED
    BY <2>1, StepOnPath
    DEF RunInv, TypeOK, Path, Ended, ModelIsKnown, BoundaryHolds
<1>2. ASSUME RunFails PROVE RunInv'
  <2>1. /\ pc = "running" /\ pc' = "finalize" /\ UNCHANGED <<call, answer>>
        /\ UNCHANGED <<installed, upgrades, gaps, argv, version, spent>>
        /\ end'.how \in {"timeout", "failed"} /\ end'.evidence.form = "run"
        /\ end'.evidence.from = "none"
    BY <1>2 DEF RunFails, Ending, Refusal
  <2> QED
    BY <2>1, StepOnPath
    DEF RunInv, TypeOK, Path, Ended, ModelIsKnown, BoundaryHolds
<1> QED
  BY <1>1, <1>2

-----------------------------------------------------------------------------
(* The envelope of a run that was spawned, or was meant to be. *)
LEMMA FinalizeKeepsInv == RunInv /\ (FinalizeFailure \/ FinalizeSuccess) => RunInv'
<1> SUFFICES ASSUME RunInv, pc = "finalize"
             PROVE  FinalizeFailure \/ FinalizeSuccess => RunInv'
  BY DEF FinalizeFailure, FinalizeSuccess
<1>0. call \in [request : Requests, entries : Passthroughs, home : Homes]
  BY DEF RunInv, TypeOK
<1>1. spent.called /\ StampedModel => spent.model
  BY DEF RunInv, ModelIsKnown, StampedModel
<1>2. version # "none" => end.how \notin {"none", "missing"}
  BY DEF RunInv, Path
<1>3. ASSUME FinalizeFailure PROVE RunInv'
  <2>1. /\ pc' = "answered" /\ end.how # "success"
        /\ answer' = Failed(Failure, StampedModel, version)
        /\ UNCHANGED <<call, installed, upgrades, gaps, argv, version, end, spent>>
    BY <1>3 DEF FinalizeFailure, Deliver
  <2>2. /\ answer'.ok = FALSE /\ answer'.code = Failure.code
        /\ answer'.caveat = Failure.caveat /\ answer'.verdict = "none"
        /\ answer'.model = StampedModel /\ answer'.version = version
    BY <2>1 DEF Failed
  <2> DEFINE request == call.request
             said == ClassifyFailure(end.evidence, call.entries, request.effort,
                                     PinsFor(request))
  <2>3. Failure = IF end.how = "missing" THEN Verdict("codex_not_found")
                  ELSE IF end.how = "timeout" THEN Verdict("timeout") ELSE said
    BY PinsAreRecomputed DEF Failure
  <2>4. /\ said.code \in Codes
        /\ said.code # "internal_error"
        /\ end.evidence.form \notin {"file", "value"}
              => said.code # "user_config_rejected"
    BY VerdictIsACode
  <2>5. /\ Failure.code \in Codes
        /\ Failure.code # "internal_error"
        /\ Failure.code = "user_config_rejected" => ~spent.called
    <3>1. CASE end.how = "missing"
      BY <2>3, <3>1 DEF Verdict, Codes
    <3>2. CASE end.how = "timeout"
      BY <2>3, <3>2 DEF Verdict, Codes
    <3>3. CASE end.how \notin {"missing", "timeout"}
      <4>1. end.how = "failed"
        BY <2>1, <3>3 DEF RunInv, Path, TypeOK
      <4>2. spent.called => end.evidence.form = "run"
        BY <4>1 DEF RunInv, Ended
      <4> QED
        BY <2>3, <2>4, <3>3, <4>2
    <3> QED
      BY <3>1, <3>2, <3>3
  <2>6. end.how = "failed" => Told(end.evidence, said, call.entries)
    <3> SUFFICES ASSUME end.how = "failed"
                 PROVE  Told(end.evidence, said, call.entries)
      OBVIOUS
    <3>1. CASE spent.called
      <4>1. end.evidence.form = "run" /\ end.evidence.from = "none"
        BY <3>1 DEF RunInv, Ended
      <4>2. said.code # "user_config_rejected"
        BY <2>4, <4>1
      <4> QED
        BY <4>1, <4>2 DEF Told
    <3>2. CASE ~spent.called
      <4>1. PICK help : argv = Command(request, call.entries, help)
        BY <3>2 DEF RunInv, Ended, LineIsBuilt
      <4>2. PICK b \in Builds : end.evidence \in Refusals(b, argv, call.home)
        BY <3>2 DEF RunInv, Ended
      <4>3. call.entries \in Passthroughs /\ request.effort \in BOOLEAN
        BY <1>0, RequestsAssumption
      <4> QED
        BY <4>1, <4>2, <4>3, RefusalsAreBlamed
    <3> QED
      BY <3>1, <3>2, <1>0 DEF RunInv, TypeOK
  <2>7. OwnerIsTold'
    <3>1. end.how = "failed" => Failure = said
      BY <2>3
    <3> QED
      BY <2>1, <2>2, <2>6, <3>1 DEF OwnerIsTold, Told
  <2>8. TypeOK'
    BY <2>1, <2>2, <2>5 DEF RunInv, TypeOK
  <2>9. Path' /\ Ended' /\ ModelIsKnown' /\ BoundaryHolds'
    BY <2>1 DEF RunInv, Path, Ended, ModelIsKnown, BoundaryHolds
  <2>10. /\ NoCallMeansNoCall' /\ ProvenanceIsHonest'
         /\ PassIsEarned' /\ AdmittedRunsAreStaged'
    BY <1>1, <1>2, <2>1, <2>2, <2>5
    DEF NoCallMeansNoCall, ProvenanceIsHonest, PassIsEarned, AdmittedRunsAreStaged
  <2> QED
    BY <2>7, <2>8, <2>9, <2>10 DEF RunInv
<1>4. ASSUME FinalizeSuccess PROVE RunInv'
  <2>1. /\ pc' = "answered" /\ end.how = "success" /\ spent.called
        /\ UNCHANGED <<call, installed, upgrades, gaps, argv, version, end, spent>>
    BY <1>4 DEF FinalizeSuccess, Deliver, RunInv, Ended
  <2>2. /\ answer'.ok \in BOOLEAN
        /\ answer'.code \in {"none", "invalid_json", "schema_violation"}
        /\ answer'.verdict \in Verdicts \cup {"none"}
        /\ answer'.model = StampedModel /\ answer'.version = version
        /\ answer'.verdict = "pass" =>
             /\ end.message.verdict = "pass"
             /\ OmissionReasons(call.request.scope, gaps) = {}
    <3>1. CASE call.request.kind # "review"
      <4>1. answer' = Answered("none", StampedModel, version)
        BY <1>4, <3>1 DEF FinalizeSuccess, Deliver
      <4> QED
        BY <4>1 DEF Answered
    <3>2. CASE call.request.kind = "review"
      <4>1. answer' = ReviewEnvelope
        BY <1>4, <3>2 DEF FinalizeSuccess, Deliver
      <4>2. CASE Structure(end.message) # "ok"
        <5>1. answer' = Failed(Verdict(Structure(end.message)), StampedModel, version)
          BY <4>1, <4>2 DEF ReviewEnvelope
        <5>2. Structure(end.message) \in {"invalid_json", "schema_violation"}
          BY <4>2 DEF Structure
        <5> QED
          BY <5>1, <5>2 DEF Failed, Verdict
      <4>3. CASE Structure(end.message) = "ok"
        <5> DEFINE verdict == ApplyCoverage(VerdictOf(end.message.verdict),
                                            Coverage(call.request.scope, gaps))
        <5>1. answer' = Answered(verdict, StampedModel, version)
          BY <4>1, <4>3 DEF ReviewEnvelope
        <5>2. /\ verdict \in Verdicts
              /\ verdict = "pass" =>
                   /\ end.message.verdict = "pass"
                   /\ OmissionReasons(call.request.scope, gaps) = {}
          BY DEF ApplyCoverage, VerdictOf, Coverage, Verdicts
        <5> QED
          BY <5>1, <5>2 DEF Answered
      <4> QED
        BY <4>2, <4>3
    <3> QED
      BY <3>1, <3>2
  <2>3. TypeOK'
    BY <2>1, <2>2 DEF RunInv, TypeOK, Codes
  <2>4. Path' /\ Ended' /\ ModelIsKnown' /\ BoundaryHolds'
    BY <2>1 DEF RunInv, Path, Ended, ModelIsKnown, BoundaryHolds
  <2>5. /\ OwnerIsTold' /\ NoCallMeansNoCall' /\ ProvenanceIsHonest'
        /\ PassIsEarned' /\ AdmittedRunsAreStaged'
    BY <1>1, <1>2, <2>1, <2>2
    DEF OwnerIsTold, NoCallMeansNoCall, ProvenanceIsHonest, PassIsEarned,
        AdmittedRunsAreStaged
  <2> QED
    BY <2>3, <2>4, <2>5 DEF RunInv
<1> QED
  BY <1>3, <1>4

-----------------------------------------------------------------------------
(* A run that stands still keeps what it has. *)
LEMMA StutterKeepsInv == RunInv /\ UNCHANGED vars => RunInv'
BY DEF RunInv, vars, TypeOK, Path, Ended, ModelIsKnown, LineIsBuilt, BoundaryHolds,
       OwnerIsTold, NoCallMeansNoCall, ProvenanceIsHonest, PassIsEarned,
       AdmittedRunsAreStaged

(* The inductive invariant of a paid run. *)
THEOREM RunInvariant == Spec => []RunInv
<1>1. RunInv /\ [Next]_vars => RunInv'
  BY PreparationKeepsInv, LaunchKeepsInv, SpawnKeepsInv, RunKeepsInv,
     FinalizeKeepsInv, StutterKeepsInv DEF Next
<1> QED
  BY <1>1, RunInvInit, PTL DEF Spec

(***************************************************************************)
(* codex.py, cli_contract.py: a model is called only by a build that       *)
(* honours every restriction of the command line, whichever build that is  *)
(* and whenever it was installed.                                          *)
(***************************************************************************)
THEOREM NoRunOutgrowsItsBoundary == Spec => []BoundaryHolds
BY RunInvariant, PTL DEF RunInv

(***************************************************************************)
(* codex.classify_failure: whoever's word a build refused is the one told. *)
(***************************************************************************)
THEOREM BlameIsDeserved == Spec => []OwnerIsTold
BY RunInvariant, PTL DEF RunInv

(***************************************************************************)
(* codex.classify_failure: no run that called a model is reported with a   *)
(* code that says it did not.                                              *)
(***************************************************************************)
THEOREM SpendIsAdmitted == Spec => []NoCallMeansNoCall
BY RunInvariant, PTL DEF RunInv

(***************************************************************************)
(* orchestration.finalize_*: what an envelope claims of the model and of   *)
(* the codex version is so.                                                *)
(***************************************************************************)
THEOREM EnvelopesAreHonest == Spec => []ProvenanceIsHonest
BY RunInvariant, PTL DEF RunInv

(***************************************************************************)
(* orchestration.finalize_review: a pass is the model's verdict on all     *)
(* there was to review.                                                    *)
(***************************************************************************)
THEOREM PassesAreEarned == Spec => []PassIsEarned
BY RunInvariant, PTL DEF RunInv

(* A run is at a place of its path, and its envelope is well formed.       *)
THEOREM RunsAreTyped == Spec => []TypeOK
BY RunInvariant, PTL DEF RunInv

(***************************************************************************)
(* server._prepare_*: what the server admits the adapter accepts.          *)
(***************************************************************************)
THEOREM AdmissionIsFinal == Spec => []AdmittedRunsAreStaged
BY RunInvariant, PTL DEF RunInv

-----------------------------------------------------------------------------
(***************************************************************************)
(* server.codex_status, codex_dry_run, codex_delegate_dry_run: the free    *)
(* calls are free.  A run that was preceded by them is a run that could    *)
(* have happened without them.                                             *)
(***************************************************************************)
THEOREM FreeCallsChangeNothing == FreeSpec => Spec
<1>1. FreeInit => Init
  BY DEF FreeInit
<1>2. [FreeNext]_freeVars => [Next]_vars
  BY DEF FreeNext, freeVars, vars, DryRun, Status, Run
<1> QED
  BY <1>1, <1>2, PTL DEF FreeSpec, Spec

-----------------------------------------------------------------------------
(* The first check of a preview's list that a call fails. *)
FirstFlaw(checks, code) ==
    \E i \in DOMAIN checks :
        /\ checks[i] = code
        /\ Foreseen(code)
        /\ \A j \in DOMAIN checks : Foreseen(checks[j]) => i <= j

Passes(checks) == \A i \in DOMAIN checks : ~Foreseen(checks[i])

(* What a preview said, in terms of the call alone. *)
SaidOfTheCall ==
    preview.made =>
        LET kind == call.request.kind
            checks == PreviewChecks[kind]
        IN  /\ kind \in {"review", "delegate"}
            /\ preview.calls \in BOOLEAN
            /\ preview.code \notin {"none", "gather"} =>
                  FirstFlaw(checks, preview.code) /\ ~preview.calls
            /\ preview.code \in {"none", "gather"} => Passes(checks)
            /\ preview.code = "gather" => kind = "review" /\ ~preview.calls
            /\ preview.code = "none" /\ kind = "delegate" => preview.calls
            /\ preview.omits =>
                  /\ Coverage(call.request.scope, preview.left) = "partial"
                  /\ preview.code = "none" /\ kind = "review"

(* How far the run has borne it out. *)
BorneOut ==
    preview.made =>
        /\ pc = "gather" => /\ preview.code \in {"none", "gather"}
                            /\ call.request.kind = "review"
        /\ pc \in {"stage", "probe", "spawn", "running", "finalize"} =>
              /\ preview.code = "none" /\ preview.calls
              /\ call.request.kind = "review" => gaps = preview.left
        /\ pc \in {"prepare", "gather", "stage"} =>
              (preview.model <=> EffectiveModel(preview.heard))
        /\ preview.heard = argv.heard =>
              /\ pc \in {"probe", "spawn"} => (preview.model <=> "--model" \in argv.own)
              /\ spent.called => (preview.model <=> spent.model)

(* What ready still says of a run that is under way. *)
StillSetUp ==
    /\ ready \in BOOLEAN
    /\ ready => /\ SetUp
                /\ pc = "finalize" => end.how # "missing"

FreeInv ==
    /\ SaidOfTheCall
    /\ BorneOut
    /\ StillSetUp
    /\ PreviewIsFaithful
    /\ ReadyMeansSetUp

-----------------------------------------------------------------------------
(***************************************************************************)
(* The two lists of checks agree in order: the first check a call fails is *)
(* the first one its preview fails, or it is one that previews leave out - *)
(* by itself, or of what the developer instructions add to the size.       *)
(***************************************************************************)
LEMMA SameChecksSameOrder ==
    ASSUME call.request.kind \in {"review", "delegate"},
           NEW i \in DOMAIN ChecksOf(call.request.kind),
           Flawed(ChecksOf(call.request.kind)[i]),
           \A j \in DOMAIN ChecksOf(call.request.kind) :
               Flawed(ChecksOf(call.request.kind)[j]) => i <= j
    PROVE  LET refusal == ChecksOf(call.request.kind)[i]
               checks  == PreviewChecks[call.request.kind]
           IN  /\ Passes(checks) => refusal \in NotPreviewed
               /\ \A code : FirstFlaw(checks, code)
                              => refusal \in {code} \cup NotPreviewed
<1> DEFINE paid    == ChecksOf(call.request.kind)
           checks  == PreviewChecks[call.request.kind]
           place   == IF call.request.kind = "review"
                      THEN <<1, 3, 4, 5, 6, 8>> ELSE <<1, 2, 3, 4, 5, 6, 7, 9>>
<1>1. /\ DOMAIN place = DOMAIN checks /\ DOMAIN checks \subseteq Nat
      /\ \A j \in DOMAIN checks :
            /\ place[j] \in DOMAIN paid
            /\ checks[j] = paid[place[j]]
            /\ \A k \in DOMAIN checks : k < j => place[k] < place[j]
  <2>1. CASE call.request.kind = "review"
    <3>1. /\ paid = ReviewChecks
          /\ checks = <<"isolation", "workspace", "placeholder", "extra_args",
                        "effort", "size">>
          /\ place = <<1, 3, 4, 5, 6, 8>>
      BY <2>1 DEF ChecksOf, PreviewChecks
    <3> HIDE DEF paid, checks, place
    <3> QED
      BY <3>1 DEF ReviewChecks
  <2>2. CASE call.request.kind = "delegate"
    <3>1. /\ paid = DelegateChecks
          /\ checks = <<"isolation", "workspace", "placeholder", "extra_args",
                        "effort", "size", "blank", "repository">>
          /\ place = <<1, 2, 3, 4, 5, 6, 7, 9>>
      BY <2>2 DEF ChecksOf, PreviewChecks
    <3> HIDE DEF paid, checks, place
    <3> QED
      BY <3>1 DEF DelegateChecks
  <2> QED
    BY <2>1, <2>2
<1>2. /\ DOMAIN paid \subseteq Nat
      /\ paid[i] \in NotPreviewed \/ \E j \in DOMAIN checks : place[j] = i
  <2>1. CASE call.request.kind = "review"
    <3>1. paid = ReviewChecks /\ place = <<1, 3, 4, 5, 6, 8>>
      BY <2>1 DEF ChecksOf
    <3> HIDE DEF paid, checks, place
    <3>2. i \in 1..8
      BY <3>1 DEF paid, ReviewChecks
    <3> QED
      BY <3>1, <3>2, <1>1 DEF ReviewChecks, NotPreviewed
  <2>2. CASE call.request.kind = "delegate"
    <3>1. paid = DelegateChecks /\ place = <<1, 2, 3, 4, 5, 6, 7, 9>>
      BY <2>2 DEF ChecksOf
    <3> HIDE DEF paid, checks, place
    <3>2. i \in 1..9
      BY <3>1 DEF paid, DelegateChecks
    <3> QED
      BY <3>1, <3>2, <1>1 DEF DelegateChecks, NotPreviewed
  <2> QED
    BY <2>1, <2>2
<1> HIDE DEF place
<1>0. /\ Foreseen(paid[i]) \/ paid[i] \in NotPreviewed
      /\ \A check : Foreseen(check) => Flawed(check)
  BY DEF Foreseen, Flawed, NotPreviewed
<1>3. ASSUME Passes(checks) PROVE paid[i] \in NotPreviewed
  BY <1>0, <1>1, <1>2, <1>3 DEF Passes
<1>4. ASSUME NEW code, FirstFlaw(checks, code)
      PROVE  paid[i] \in {code} \cup NotPreviewed
  <2> SUFFICES ASSUME paid[i] \notin NotPreviewed PROVE paid[i] = code
    OBVIOUS
  <2>1. PICK j \in DOMAIN checks : place[j] = i
    BY <1>2
  <2>2. PICK m \in DOMAIN checks :
           /\ checks[m] = code /\ Foreseen(code)
           /\ \A k \in DOMAIN checks : Foreseen(checks[k]) => m <= k
    BY <1>4 DEF FirstFlaw
  <2>3. m <= j
    BY <1>0, <1>1, <2>1, <2>2
  <2>4. i <= place[m]
    BY <1>0, <1>1, <2>2
  <2>5. ~(m < j)
    BY <1>1, <1>2, <2>1, <2>4
  <2>6. m = j
    BY <1>1, <2>3, <2>5
  <2> QED
    BY <1>1, <2>1, <2>2, <2>6
<1> QED
  BY <1>3, <1>4

(* With a login at home no build asks for one, whatever else it refuses. *)
LEMMA NoLoginIsAskedFor ==
    ASSUME NEW build, NEW line, NEW home, home.login,
           NEW e \in Refusals(build, line, home),
           NEW entries, NEW effort, NEW pinned
    PROVE  ClassifyFailure(e, entries, effort, pinned).code
             \notin {"codex_not_found", "codex_auth_required"}
<1>1. LoginRefusals(home) = {}
  BY DEF LoginRefusals
<1>2. \/ e \in UnknownKeys(build, line, home)
      \/ e \in ValueRefusals(build, line, home)
      \/ e \in FlagRefusals(build, line) \cup FeatureRefusals(build, line)
                 \cup EffortRefusals(build, line, home)
  <2> DEFINE f == FlagRefusals(build, line)
             u == UnknownKeys(build, line, home)
             v == ValueRefusals(build, line, home)
             n == FeatureRefusals(build, line)
             l == LoginRefusals(home)
             r == EffortRefusals(build, line, home)
  <2>1. e \in IF f # {} THEN f ELSE IF u \cup v \cup n # {} THEN u \cup v \cup n
              ELSE IF l # {} THEN l ELSE r
    BY DEF Refusals
  <2>2. l = {}
    BY <1>1
  <2> HIDE DEF f, u, v, n, l, r
  <2>3. e \in u \/ e \in v \/ e \in f \cup n \cup r
    BY <2>1, <2>2
  <2> QED
    BY <2>3 DEF f, u, v, n, r
<1>3. e.form \in {"override", "file", "value"} \/ "auth" \notin e.says
  BY <1>2 DEF UnknownKeys, ValueRefusals, FlagRefusals, FeatureRefusals,
              EffortRefusals, Refusal
<1> QED
  BY <1>3 DEF ClassifyFailure, StrictConfigError, ConfigValueError, DriftError, Verdict

-----------------------------------------------------------------------------
LEMMA FreeInvInit == FreeInit => FreeInv
<1> SUFFICES ASSUME FreeInit PROVE FreeInv
  OBVIOUS
<1>1. ~preview.made /\ ready = FALSE /\ pc = "prepare"
  BY DEF FreeInit, Init, NoPreview
<1> QED
  BY <1>1 DEF FreeInv, SaidOfTheCall, BorneOut, StillSetUp, PreviewIsFaithful,
              ReadyMeansSetUp

(* A preview is made of the call as it stands. *)
LEMMA DryRunKeepsInv == RunInv /\ FreeInv /\ DryRun => FreeInv'
<1> SUFFICES ASSUME RunInv, FreeInv, DryRun
             PROVE  FreeInv'
  OBVIOUS
<1> DEFINE kind   == call.request.kind
           checks == PreviewChecks[kind]
<1>1. /\ pc = "prepare" /\ pc' = pc /\ call' = call /\ ready' = ready
      /\ UNCHANGED vars /\ ~ready /\ ~spent.called
      /\ kind \in {"review", "delegate"}
  BY DEF DryRun, vars, PreviewChecks, RunInv, Path
<1>2. PICK help \in Remembered :
         LET failing == {i \in DOMAIN checks : Foreseen(checks[i])}
         IN  \/ \E i \in failing : /\ \A j \in failing : i <= j
                                   /\ preview' = Preview(checks[i], FALSE, {}, help)
             \/ failing = {} /\ preview' \in Outlooks(help)
  BY DEF DryRun
<1>3. /\ preview'.made /\ preview'.model = EffectiveModel(help)
      /\ preview'.heard = help
      /\ preview'.omits = (Coverage(call.request.scope, preview'.left) = "partial")
  BY <1>2 DEF Preview, Outlooks
<1>4. Coverage(call.request.scope, {}) = "complete"
  BY DEF Coverage, OmissionReasons
<1>5. SaidOfTheCall'
  <2>1. CASE \E i \in DOMAIN checks :
                /\ Foreseen(checks[i])
                /\ \A j \in DOMAIN checks : Foreseen(checks[j]) => i <= j
                /\ preview' = Preview(checks[i], FALSE, {}, help)
    <3>1. FirstFlaw(checks, preview'.code) /\ ~preview'.calls /\ preview'.left = {}
      BY <2>1 DEF FirstFlaw, Preview
    <3>2. preview'.code \notin {"none", "gather"}
      <4>1. PICK i \in DOMAIN checks : checks[i] = preview'.code
        BY <3>1 DEF FirstFlaw
      <4>2. CASE kind = "review"
        <5>1. checks = <<"isolation", "workspace", "placeholder", "extra_args",
                         "effort", "size">>
          BY <4>2 DEF PreviewChecks
        <5> HIDE DEF checks
        <5> QED
          BY <4>1, <5>1
      <4>3. CASE kind = "delegate"
        <5>1. checks = <<"isolation", "workspace", "placeholder", "extra_args",
                         "effort", "size", "blank", "repository">>
          BY <4>3 DEF PreviewChecks
        <5> HIDE DEF checks
        <5> QED
          BY <4>1, <5>1
      <4> QED
        BY <1>1, <4>2, <4>3
    <3>3. ~preview'.omits
      BY <1>3, <1>4, <3>1
    <3>4. FirstFlaw(PreviewChecks[call.request.kind], preview.code)'
      BY <1>1, <3>1 DEF FirstFlaw, Foreseen
    <3>5. preview'.calls = FALSE
      BY <2>1 DEF Preview
    <3> QED
      BY <1>1, <3>2, <3>3, <3>4, <3>5 DEF SaidOfTheCall
  <2>2. CASE Passes(checks) /\ preview' \in Outlooks(help)
    <3>1. Passes(checks)'
      BY <1>1, <2>2 DEF Passes, Foreseen
    <3>2. \/ /\ preview'.code = "gather" /\ preview'.calls = FALSE
             /\ preview'.left = {} /\ kind = "review"
          \/ /\ preview'.code = "none" /\ preview'.calls \in BOOLEAN /\ kind = "review"
          \/ /\ preview'.code = "none" /\ preview'.calls = TRUE
             /\ preview'.left = {} /\ kind # "review"
      BY <2>2 DEF Outlooks, Preview
    <3> QED
      BY <1>1, <1>3, <1>4, <3>1, <3>2 DEF SaidOfTheCall
  <2> QED
    BY <1>2, <2>1, <2>2 DEF Passes
<1>6. BorneOut'
  BY <1>1, <1>3 DEF BorneOut, vars, EffectiveModel
<1>7. StillSetUp' /\ PreviewIsFaithful' /\ ReadyMeansSetUp'
  BY <1>1 DEF StillSetUp, PreviewIsFaithful, ReadyMeansSetUp, FreeInv
<1> QED
  BY <1>5, <1>6, <1>7 DEF FreeInv

LEMMA StatusKeepsInv == FreeInv /\ Status => FreeInv'
BY DEF FreeInv, Status, vars, SetUp, SaidOfTheCall, BorneOut, StillSetUp,
       PreviewIsFaithful, ReadyMeansSetUp

-----------------------------------------------------------------------------
(* What was said of the call stays said. *)
LEMMA WhatWasSaidStands ==
    SaidOfTheCall /\ UNCHANGED <<call, preview>> => SaidOfTheCall'
BY DEF SaidOfTheCall, FirstFlaw, Passes, Foreseen

(***************************************************************************)
(* The server's checks.  A call that is refused was previewed as refused,  *)
(* or for an argument previews do not take; one that is admitted was not   *)
(* previewed as refused.                                                   *)
(***************************************************************************)
LEMMA ChecksKeepInv ==
    ASSUME RunInv, FreeInv, Run, Refused \/ Admitted
    PROVE  FreeInv'
<1> DEFINE kind   == call.request.kind
           paid   == ChecksOf(kind)
           checks == PreviewChecks[kind]
<1>1. /\ pc = "prepare" /\ UNCHANGED <<call, preview, installed, spent, gaps, end>>
      /\ ready' = ready /\ ~spent.called
  BY DEF Run, Refused, Admitted, RunInv, Path, FreeInv, StillSetUp
<1>2. SaidOfTheCall'
  BY <1>1, WhatWasSaidStands DEF FreeInv
<1>3. ASSUME Refused PROVE BorneOut' /\ StillSetUp' /\ PreviewIsFaithful' /\ ReadyMeansSetUp'
  <2>1. PICK i \in DOMAIN paid :
           /\ Flawed(paid[i]) /\ \A j \in DOMAIN paid : Flawed(paid[j]) => i <= j
           /\ Refuse(paid[i])
    BY <1>3 DEF Refused, Failing
  <2>2. /\ pc' = "answered"
        /\ answer' = Failed(Verdict(paid[i]), call.request.model, "none")
    BY <2>1 DEF Refuse, Deliver
  <2>3. answer'.code = paid[i] /\ answer'.verdict = "none"
    BY <2>2 DEF Failed, Verdict
  <2>4. paid[i] \in {"isolation", "detail", "workspace", "placeholder", "extra_args",
                     "effort", "advice", "size", "blank", "repository"}
    <3>1. kind \in {"consult", "review", "delegate"}
      BY RequestsAssumption DEF RunInv, TypeOK
    <3>2. paid \in {ConsultChecks, ReviewChecks, DelegateChecks}
      BY <3>1 DEF ChecksOf
    <3> HIDE DEF paid
    <3> QED
      BY <3>2 DEF ConsultChecks, ReviewChecks, DelegateChecks
  <2>5. PreviewIsFaithful'
    <3> SUFFICES ASSUME preview.made
                 PROVE  /\ preview.code # "none" =>
                             paid[i] \in {preview.code} \cup NotPreviewed
                        /\ preview.code = "none" => paid[i] \in NotPreviewed
      BY <1>1, <2>3 DEF PreviewIsFaithful, NotPreviewed, Previewed, OverTogether
    <3>1. kind \in {"review", "delegate"}
      BY DEF FreeInv, SaidOfTheCall
    <3>2. /\ Passes(checks) => paid[i] \in NotPreviewed
          /\ FirstFlaw(checks, preview.code) => paid[i] \in {preview.code} \cup NotPreviewed
      BY <2>1, <3>1, SameChecksSameOrder
    <3> QED
      BY <3>2 DEF FreeInv, SaidOfTheCall
  <2> QED
    BY <1>1, <2>2, <2>3, <2>4, <2>5
    DEF BorneOut, StillSetUp, ReadyMeansSetUp, FreeInv, SetUp
<1>4. ASSUME Admitted PROVE BorneOut' /\ StillSetUp' /\ PreviewIsFaithful' /\ ReadyMeansSetUp'
  <2>1. pc' = IF kind = "review" THEN "gather" ELSE "stage"
    BY <1>4 DEF Admitted
  <2>2. ASSUME preview.made PROVE preview.code \in {"none", "gather"}
    <3> SUFFICES ASSUME preview.code \notin {"none", "gather"} PROVE FALSE
      OBVIOUS
    <3>1. PICK j \in DOMAIN checks : checks[j] = preview.code /\ Flawed(preview.code)
      BY <2>2 DEF FreeInv, SaidOfTheCall, FirstFlaw, Foreseen, Flawed
    <3>2. \E i \in DOMAIN paid : paid[i] = checks[j]
      <4>1. CASE kind = "review"
        <5>1. /\ paid = ReviewChecks
              /\ checks = <<"isolation", "workspace", "placeholder", "extra_args",
                            "effort", "size">>
          BY <4>1 DEF ChecksOf, PreviewChecks
        <5> HIDE DEF paid, checks
        <5> QED
          BY <3>1, <5>1 DEF ReviewChecks
      <4>2. CASE kind = "delegate"
        <5>1. /\ paid = DelegateChecks
              /\ checks = <<"isolation", "workspace", "placeholder", "extra_args",
                            "effort", "size", "blank", "repository">>
          BY <4>2 DEF ChecksOf, PreviewChecks
        <5> HIDE DEF paid, checks
        <5> QED
          BY <3>1, <5>1 DEF DelegateChecks
      <4> QED
        BY <2>2, <4>1, <4>2 DEF FreeInv, SaidOfTheCall
    <3> QED
      BY <1>4, <3>1, <3>2 DEF Admitted, Failing
  <2>3. BorneOut'
    <3> SUFFICES ASSUME preview.made PROVE BorneOut'
      BY <1>1 DEF BorneOut
    <3>1. kind \in {"review", "delegate"}
      BY DEF FreeInv, SaidOfTheCall
    <3>2. CASE kind = "review"
      BY <1>1, <2>1, <2>2, <3>2 DEF BorneOut, FreeInv, EffectiveModel
    <3>3. CASE kind = "delegate"
      BY <1>1, <2>1, <2>2, <3>3 DEF BorneOut, FreeInv, SaidOfTheCall, EffectiveModel
    <3> QED
      BY <3>1, <3>2, <3>3
  <2> QED
    BY <1>1, <2>1, <2>3
    DEF StillSetUp, PreviewIsFaithful, ReadyMeansSetUp, FreeInv, SetUp
<1> QED
  BY <1>2, <1>3, <1>4 DEF FreeInv

(* The gathering, on the tree that was previewed. *)
LEMMA GatheringKeepsInv ==
    ASSUME RunInv, FreeInv, Run, GatherFails \/ NothingToReview \/ Gather
    PROVE  FreeInv'
<1>1. /\ pc = "gather" /\ UNCHANGED <<call, preview, installed, spent, end>>
      /\ ready' = ready /\ ~spent.called /\ SameTree /\ answer = NoAnswer
  BY DEF Run, GatherFails, NothingToReview, Gather, RunInv, Path, FreeInv, StillSetUp
<1>2. SaidOfTheCall'
  BY <1>1, WhatWasSaidStands DEF FreeInv
<1>3. answer.code = "none"
  BY <1>1 DEF NoAnswer, Failed, Verdict
<1>4. ASSUME GatherFails
      PROVE  BorneOut' /\ StillSetUp' /\ PreviewIsFaithful' /\ ReadyMeansSetUp'
  <2>1. /\ pc' = "answered" /\ answer'.code = "gather" /\ answer'.verdict = "none"
        /\ gaps' = gaps
    BY <1>4 DEF GatherFails, Refuse, Deliver, Failed, Verdict
  <2> QED
    BY <1>1, <2>1 DEF SameTree, BorneOut, StillSetUp, PreviewIsFaithful,
       ReadyMeansSetUp, FreeInv, SetUp
<1>5. ASSUME NothingToReview
      PROVE  BorneOut' /\ StillSetUp' /\ PreviewIsFaithful' /\ ReadyMeansSetUp'
  <2>1. /\ pc' = "answered" /\ answer'.code = "none" /\ answer'.verdict = "unknown"
    BY <1>5 DEF NothingToReview, Deliver, Answered
  <2>2. preview.made => preview.code = "none"
    BY <1>1, <2>1 DEF SameTree, BorneOut, FreeInv
  <2> QED
    BY <1>1, <2>1, <2>2 DEF SameTree, BorneOut, StillSetUp, PreviewIsFaithful,
       Previewed, ReadyMeansSetUp, FreeInv, SetUp
<1>6. ASSUME Gather
      PROVE  BorneOut' /\ StillSetUp' /\ PreviewIsFaithful' /\ ReadyMeansSetUp'
  <2>1. pc' = "stage" /\ answer' = answer
    BY <1>6 DEF Gather
  <2>2. preview.made => /\ preview.code = "none" /\ preview.calls
                        /\ gaps' = preview.left
    BY <1>1, <1>3, <2>1 DEF SameTree, BorneOut, FreeInv
  <2>3. BorneOut'
    BY <1>1, <2>1, <2>2 DEF BorneOut, FreeInv, EffectiveModel
  <2> QED
    BY <1>1, <2>1, <2>3 DEF StillSetUp, PreviewIsFaithful, ReadyMeansSetUp, FreeInv, SetUp
<1> QED
  BY <1>2, <1>4, <1>5, <1>6 DEF FreeInv

(* The worker's own help probe decides whether --model is sent. *)
LEMMA StagingKeepsInv ==
    ASSUME RunInv, FreeInv, Run, Unresolved \/ Stage
    PROVE  FreeInv'
<1>1. /\ pc = "stage" /\ UNCHANGED <<call, preview, installed, spent, gaps>>
      /\ ready' = ready /\ ~spent.called /\ end = NotEnded /\ answer = NoAnswer
      /\ call.request.flaws \cap {"effort", "advice"} = {}
  BY DEF Run, Unresolved, Stage, RunInv, Path, FreeInv, StillSetUp
<1>2. SaidOfTheCall'
  BY <1>1, WhatWasSaidStands DEF FreeInv
<1>3. ASSUME Unresolved
      PROVE  BorneOut' /\ StillSetUp' /\ PreviewIsFaithful' /\ ReadyMeansSetUp'
  <2>1. pc' = "finalize" /\ "binary" \in call.request.flaws
    BY <1>3 DEF Unresolved
  <2>2. ~ready
    BY <2>1 DEF FreeInv, StillSetUp, SetUp
  <2> QED
    BY <1>1, <2>1, <2>2 DEF BorneOut, StillSetUp, PreviewIsFaithful,
       ReadyMeansSetUp, FreeInv
<1>4. ASSUME Stage
      PROVE  BorneOut' /\ StillSetUp' /\ PreviewIsFaithful' /\ ReadyMeansSetUp'
  <2>1. ~AdapterRefuses
    BY <1>1, RequestsAssumption DEF AdapterRefuses, RunInv, TypeOK
  <2>2. PICK help \in Heard :
           pc' = "probe" /\ argv' = Command(call.request, call.entries, help)
    BY <1>4, <2>1 DEF Stage
  <2>3. argv'.heard = help /\ ("--model" \in argv'.own <=> EffectiveModel(help))
    BY <2>2 DEF Command, OwnFlags, IsolationFlags, GuardFlags, Dropped, EffectiveModel
  <2> QED
    BY <1>1, <2>2, <2>3 DEF BorneOut, StillSetUp, PreviewIsFaithful, ReadyMeansSetUp,
       FreeInv, SetUp
<1> QED
  BY <1>2, <1>3, <1>4 DEF FreeInv

(* From the probe to the end of the run, and the machine's own doings. *)
LEMMA FlightKeepsInv ==
    ASSUME RunInv, FreeInv, Run,
           \/ ProbeVersion \/ SpawnFindsNothing \/ SpawnIsRefused \/ CallModel
           \/ RunSucceeds \/ RunFails \/ Upgrade
    PROVE  FreeInv'
<1>1. /\ UNCHANGED <<call, preview, gaps, argv>>
      /\ pc \in {"probe", "spawn", "running"}
      /\ pc' \in {"probe", "spawn", "running", "finalize"}
  BY DEF Run, ProbeVersion, SpawnFindsNothing, SpawnIsRefused, CallModel,
         RunSucceeds, RunFails, Upgrade
<1>2. SaidOfTheCall'
  BY <1>1, WhatWasSaidStands DEF FreeInv
<1>3. PreviewIsFaithful' /\ ReadyMeansSetUp'
  BY <1>1 DEF PreviewIsFaithful, ReadyMeansSetUp
<1>4. BorneOut'
  <2>1. CASE CallModel
    <3>1. /\ pc = "spawn" /\ pc' = "running"
          /\ spent'.called /\ spent'.model = ("--model" \in argv.own)
      BY <2>1 DEF CallModel
    <3> QED
      BY <1>1, <3>1 DEF BorneOut, FreeInv
  <2>2. CASE UNCHANGED spent
    <3>1. pc' \in {"probe", "spawn"} => pc \in {"probe", "spawn"}
      BY <1>1 DEF ProbeVersion, SpawnFindsNothing, SpawnIsRefused, CallModel,
                  RunSucceeds, RunFails, Upgrade
    <3> QED
      BY <1>1, <2>2, <3>1 DEF BorneOut, FreeInv
  <2> QED
    BY <2>1, <2>2 DEF ProbeVersion, SpawnFindsNothing, SpawnIsRefused,
                      RunSucceeds, RunFails, Upgrade
<1>5. StillSetUp'
  <2>1. ready' = (ready /\ installed' = installed) /\ ready \in BOOLEAN
    BY DEF Run, FreeInv, StillSetUp
  <2>2. ASSUME ready' PROVE SetUp' /\ installed # Absent
    BY <1>1, <2>1, <2>2 DEF FreeInv, StillSetUp, SetUp
  <2>3. ASSUME ready', pc' = "finalize" PROVE end'.how # "missing"
    <3>1. end'.how \in {"failed", "success", "timeout"}
      BY <1>1, <2>2, <2>3 DEF ProbeVersion, SpawnFindsNothing, SpawnIsRefused,
         CallModel, RunSucceeds, RunFails, Upgrade, Ending
    <3> QED
      BY <3>1
  <2> QED
    BY <2>1, <2>2, <2>3 DEF StillSetUp
<1> QED
  BY <1>2, <1>3, <1>4, <1>5 DEF FreeInv

(***************************************************************************)
(* The envelope of a run.  None of its codes is one a preview can give,    *)
(* and only a build that found no login asks for one.                      *)
(***************************************************************************)
LEMMA EndingKeepsInv ==
    ASSUME RunInv, FreeInv, Run, FinalizeFailure \/ FinalizeSuccess
    PROVE  FreeInv'
<1>1. /\ pc = "finalize" /\ pc' = "answered"
      /\ UNCHANGED <<call, preview, installed, spent, gaps, argv, end>>
      /\ ready' = ready
  BY DEF Run, FinalizeFailure, FinalizeSuccess, Deliver, FreeInv, StillSetUp
<1>2. SaidOfTheCall'
  BY <1>1, WhatWasSaidStands DEF FreeInv
<1>3. BorneOut' /\ StillSetUp'
  BY <1>1 DEF BorneOut, StillSetUp, FreeInv, SetUp
<1>4. /\ answer'.code \notin {"isolation", "workspace", "placeholder", "extra_args",
                              "effort", "size", "blank", "repository", "gather"}
      /\ answer'.verdict = "pass" =>
            /\ call.request.kind = "review"
            /\ Coverage(call.request.scope, gaps) # "partial"
      /\ ready /\ ~spent.called =>
            answer'.code \notin {"codex_not_found", "codex_auth_required"}
  <2>1. CASE FinalizeFailure
    <3> DEFINE pinned == PluginConfigKeys(SandboxOf(call.request.kind),
                             call.request.effort, call.request.advice)
               verdict == ClassifyFailure(end.evidence, call.entries,
                                          call.request.effort, pinned)
    <3>1. /\ answer'.code = Failure.code /\ answer'.verdict = "none"
          /\ end.how # "success"
      BY <2>1 DEF FinalizeFailure, Deliver, Failed
    <3>2. \/ end.how = "missing" /\ Failure = Verdict("codex_not_found")
          \/ end.how = "timeout" /\ Failure = Verdict("timeout")
          \/ end.how = "failed" /\ Failure = verdict
      BY <1>1, <3>1 DEF Failure, RunInv, TypeOK, Path
    <3>3. verdict.code \notin {"isolation", "workspace", "placeholder", "extra_args",
                               "effort", "size", "blank", "repository", "gather"}
      BY DEF ClassifyFailure, StrictConfigError, ConfigValueError, DriftError, Verdict
    <3>4. ASSUME ready, ~spent.called, end.how = "failed"
          PROVE  verdict.code \notin {"codex_not_found", "codex_auth_required"}
      <4>1. PICK b \in Builds : end.evidence \in Refusals(b, argv, call.home)
        BY <1>1, <3>4 DEF RunInv, Ended
      <4>2. call.home.login
        BY <3>4 DEF FreeInv, StillSetUp, SetUp
      <4> QED
        BY <4>1, <4>2, NoLoginIsAskedFor
    <3>5. ready => end.how # "missing"
      BY <1>1 DEF FreeInv, StillSetUp
    <3> HIDE DEF verdict, pinned
    <3> QED
      BY <3>1, <3>2, <3>3, <3>4, <3>5 DEF Verdict
  <2>2. CASE FinalizeSuccess /\ call.request.kind # "review"
    <3>1. answer' = Answered("none", StampedModel, version)
      BY <2>2 DEF FinalizeSuccess, Deliver
    <3> QED
      BY <3>1 DEF Answered
  <2>3. CASE FinalizeSuccess /\ call.request.kind = "review"
    <3> DEFINE verdict == ApplyCoverage(VerdictOf(end.message.verdict),
                                        Coverage(call.request.scope, gaps))
    <3>1. answer' = ReviewEnvelope
      BY <2>3 DEF FinalizeSuccess, Deliver
    <3>2. CASE Structure(end.message) # "ok"
      <4>1. /\ answer' = Failed(Verdict(Structure(end.message)), StampedModel, version)
            /\ Structure(end.message) \in {"invalid_json", "schema_violation"}
        BY <3>1, <3>2 DEF ReviewEnvelope, Structure
      <4> QED
        BY <4>1 DEF Failed, Verdict
    <3>3. CASE Structure(end.message) = "ok"
      <4>1. answer' = Answered(verdict, StampedModel, version)
        BY <3>1, <3>3 DEF ReviewEnvelope
      <4>2. verdict = "pass" => Coverage(call.request.scope, gaps) # "partial"
        BY DEF ApplyCoverage
      <4> QED
        BY <2>3, <4>1, <4>2 DEF Answered
    <3> QED
      BY <3>2, <3>3
  <2> QED
    BY <2>1, <2>2, <2>3
<1>5. PreviewIsFaithful'
  <2> SUFFICES ASSUME preview.made PROVE PreviewIsFaithful'
    BY <1>1 DEF PreviewIsFaithful
  <2>1. /\ preview.code = "none" /\ preview.calls
        /\ call.request.kind = "review" => gaps = preview.left
        /\ spent.called /\ preview.heard = argv.heard =>
              (preview.model <=> spent.model)
        /\ preview.omits => /\ Coverage(call.request.scope, preview.left) = "partial"
                            /\ call.request.kind = "review"
    BY <1>1 DEF BorneOut, SaidOfTheCall, FreeInv
  <2> QED
    BY <1>1, <1>4, <2>1 DEF PreviewIsFaithful, Previewed
<1>6. ReadyMeansSetUp'
  BY <1>1, <1>4 DEF ReadyMeansSetUp
<1> QED
  BY <1>2, <1>3, <1>5, <1>6 DEF FreeInv

-----------------------------------------------------------------------------
(* The inductive invariant of a run with free calls before it. *)
THEOREM FreeInvariant == FreeSpec => []FreeInv
<1>1. FreeSpec => []RunInv
  BY FreeCallsChangeNothing, RunInvariant, PTL
<1>2. FreeInit => FreeInv
  BY FreeInvInit
<1>3. RunInv /\ FreeInv /\ [FreeNext]_freeVars => FreeInv'
  <2>1. ASSUME RunInv, FreeInv, Run PROVE FreeInv'
    BY <2>1, ChecksKeepInv, GatheringKeepsInv, StagingKeepsInv, FlightKeepsInv,
       EndingKeepsInv DEF Run, Next
  <2>2. ASSUME FreeInv, UNCHANGED freeVars PROVE FreeInv'
    <3>1. UNCHANGED <<pc, call, installed, gaps, argv, end, spent, answer, preview, ready>>
      BY <2>2 DEF freeVars, vars
    <3>2. SaidOfTheCall'
      BY <2>2, <3>1, WhatWasSaidStands DEF FreeInv
    <3> QED
      BY <2>2, <3>1, <3>2 DEF FreeInv, BorneOut, StillSetUp, SetUp, EffectiveModel,
         PreviewIsFaithful, Previewed, NotPreviewed, OverTogether, ReadyMeansSetUp
  <2> QED
    BY <2>1, <2>2, DryRunKeepsInv, StatusKeepsInv DEF FreeNext
<1> QED
  BY <1>1, <1>2, <1>3, PTL DEF FreeSpec

(***************************************************************************)
(* server.codex_dry_run, codex_delegate_dry_run: what a preview says of a  *)
(* call - its refusal, whether a model is called, the model override, the  *)
(* omissions - is what the call then does, unless it is refused for the    *)
(* developer instructions, which no preview takes, or for what they add to *)
(* the size of its input.                                                  *)
(***************************************************************************)
THEOREM PreviewsAreKept == FreeSpec => []PreviewIsFaithful
BY FreeInvariant, PTL DEF FreeInv

(***************************************************************************)
(* server.codex_status: ready is never followed by a missing codex or a    *)
(* missing login, while codex stays what it was.                           *)
(***************************************************************************)
THEOREM ReadinessIsKept == FreeSpec => []ReadyMeansSetUp
BY FreeInvariant, PTL DEF FreeInv
=============================================================================

--------------------------- MODULE InstalledCodex ---------------------------
(***************************************************************************)
(* The codex CLI the plugin drives, which is not part of this repository:  *)
(* what one installed build does with one command line, as cli_contract.py *)
(* and codex.py describe it from probes.  A build is a record              *)
(*                                                                         *)
(*   flags     the options its parser knows                                *)
(*   help      "lists", "omits" (--model) or "silent", exec --help's answer *)
(*   keys      the configuration keys it reads                             *)
(*   refuses   those whose present value it turns down                     *)
(*   features  the feature names it knows                                  *)
(*   efforts   whether the account's backend takes the effort in force     *)
(*                                                                         *)
(* and a home is what it finds on disk: the keys of config.toml (file) and *)
(* of the profile an operator may select (profile), and a login.           *)
(*                                                                         *)
(* A refusal is what codex leaves behind when it exits before calling a    *)
(* model: its form, the key or the names it quotes, the file it blames (a  *)
(* profile, or <<>> for config.toml) and the phrases (says) a substring    *)
(* search would find in the text.  The field "from" is the truth nobody    *)
(* prints: whose word was refused.                                         *)
(***************************************************************************)
EXTENDS ExtraArgs

CONSTANTS Echoes,          \* what the key, value or path of a config refusal may say
          SignatureWords   \* names spelled like the backend's effort markers

ASSUME EchoesAssumption == Echoes # {}

Refusal(form, key, file, names, says, from) ==
    [form |-> form, key |-> key, file |-> file, names |-> names,
     says |-> says, from |-> from]

Nothing == Refusal("none", <<>>, <<>>, {}, {}, "none")

Sender(word, own) == IF word \in own THEN "plugin" ELSE "operator"

ReadFromFile(argv, home) ==
    IF "--ignore-user-config" \in argv.flags THEN {} ELSE home.file

ReadFromProfile(argv, home) == IF argv.profiles = {} THEN {} ELSE home.profile

(* A -c override replaces the whole table it names. *)
Overridden(key, argv) == \E o \in argv.overrides : Within(key, o)

-----------------------------------------------------------------------------
(***************************************************************************)
(* Options first: an unknown one is clap's error, naming the option.       *)
(***************************************************************************)
FlagRefusals(build, argv) ==
    {Refusal("flag", <<>>, <<>>, {<<f>>}, {"drift"},
             Sender(f, argv.own)) : f \in argv.flags \ build.flags}

(***************************************************************************)
(* Then the configuration.  Under --strict-config an unknown key anywhere  *)
(* in it is an error; without the option it is ignored.                    *)
(***************************************************************************)
UnknownKeys(build, argv, home) ==
    IF "--strict-config" \notin argv.flags THEN {} ELSE
       {Refusal("override", k, <<>>, {}, s, Sender(k, argv.pins)) :
           k \in argv.overrides \ build.keys, s \in Echoes}
  \cup {Refusal("file", k, p, {}, s, "operator") :
           k \in ReadFromProfile(argv, home) \ build.keys,
           p \in argv.profiles, s \in Echoes}
  \cup {Refusal("file", k, <<>>, {}, s, "user") :
           k \in ReadFromFile(argv, home) \ build.keys, s \in Echoes}

(***************************************************************************)
(* A known key whose value is refused, in the layer that is in force: an   *)
(* override, else the profile, else config.toml.  No file is reported.     *)
(***************************************************************************)
ValueRefusals(build, argv, home) ==
    LET fromProfile == {k \in ReadFromProfile(argv, home) : ~Overridden(k, argv)}
        fromFile == {k \in ReadFromFile(argv, home) \ fromProfile :
                        ~Overridden(k, argv)}
        refused(keys, who) ==
            {Refusal("value", k, <<>>, {}, s, who) :
                k \in keys \cap build.keys \cap build.refuses, s \in Echoes}
    IN  refused(argv.pins, "plugin")
          \cup refused(argv.overrides \ argv.pins, "operator")
          \cup refused(fromProfile, "operator")
          \cup refused(fromFile, "user")

(* A feature name codex does not know, quoted in its complaint. *)
FeatureRefusals(build, argv) ==
    {Refusal("feature", <<>>, <<>>, {f},
             {"drift"} \cup {m \in {"effort"} : f \in SignatureWords},
             Sender(f, OwnedFeatures)) :
        f \in (argv.disabled \cup argv.enabled) \ build.features}

(***************************************************************************)
(* Then the account, and last the backend, which judges the effort in      *)
(* force and, in its list of supported values, may quote any word.         *)
(***************************************************************************)
LoginRefusals(home) ==
    IF home.login THEN {}
    ELSE {Refusal("login", <<>>, <<>>, {}, {"auth"}, "user")}

EffortRefusals(build, argv, home) ==
    LET inForce == argv.overrides \cup ReadFromProfile(argv, home)
                                  \cup ReadFromFile(argv, home)
    IN  IF build.efforts \/ Effort \notin inForce THEN {}
        ELSE {Refusal("effort", <<>>, <<>>, quoted, {"drift", "effort"},
                      IF Effort \in argv.pins THEN "caller" ELSE "user") :
                  quoted \in {{}, argv.profiles \ SignatureWords}}

Refusals(build, argv, home) ==
    LET flags  == FlagRefusals(build, argv)
        config == UnknownKeys(build, argv, home)
                    \cup ValueRefusals(build, argv, home)
                    \cup FeatureRefusals(build, argv)
        login  == LoginRefusals(home)
    IN  IF flags # {} THEN flags
        ELSE IF config # {} THEN config
        ELSE IF login # {} THEN login
        ELSE EffortRefusals(build, argv, home)

(***************************************************************************)
(* What a run that reached the model is bounded by: the settings its build *)
(* actually honours, an unknown key being read by nobody.                  *)
(***************************************************************************)
Honoured(build, argv) == argv.pins \cap build.keys

SwitchedOff(build, argv) == argv.disabled \cap build.features
=============================================================================

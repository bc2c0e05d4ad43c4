---------------------------- MODULE CodexProbes ----------------------------
(***************************************************************************)
(* How the server finds the codex CLI and asks it things: the resolution   *)
(* of the binary (binresolve.py), remembered for the life of the process   *)
(* (binpath._cache); the probes of its version, its login and its help;    *)
(* and the help text remembered for TTL (preflight._cache).  Three tools   *)
(* ask: codex_status, codex_transfer before it spawns anything, and a dry  *)
(* run that announces a model override.                                    *)
(*                                                                         *)
(* codex_status runs in a thread of its own; the other two probe on the    *)
(* event loop, one at a time.  Each probe first locates the binary, then   *)
(* spawns it, and the machine may change in between: codex is installed,   *)
(* removed or upgraded at some place, the user logs in or out.  The worker *)
(* of a paid run is a new process that remembers nothing.                  *)
(***************************************************************************)
EXTENDS Naturals, Sequences

CONSTANTS
    Calls,
    Places,        \* where a codex may lie
    Candidates,    \* those looked at first under WSL2, in order
    NpmPlace,      \* the one npm prefix -g names, when it answers
    SearchPath,    \* the places on PATH, in order
    Builds,        \* what may lie there ...
    Running,       \* ... and which of it runs here
    Hosts,         \* the environments considered, and ...
    Machines,      \* ... the machines, at the start
    TTL,           \* HELP_CACHE_TTL_SECONDS
    MaxTime,       \* bound: the last moment considered
    MaxChanges,    \* bound: changes of the machine
    None,          \* no place, no build, no answer
    Bare           \* the literal "codex", looked up on PATH when it is spawned

ASSUME PlacesAssumption ==
    /\ Candidates \in Seq(Places) /\ SearchPath \in Seq(Places)
    /\ NpmPlace \in Places
    /\ None \notin Places \cup Builds /\ Bare \notin Places /\ None # Bare

ASSUME SetupAssumption ==
    /\ Running \subseteq Builds
    /\ Hosts \subseteq [wsl : BOOLEAN, override : {None} \cup Places]
    /\ Machines \subseteq [at : [Places -> Builds \cup {None}], login : BOOLEAN]

ASSUME TimeAssumption == TTL \in Nat /\ MaxTime \in Nat /\ MaxChanges \in Nat

VARIABLES
    host,         \* the environment of the server and of its workers
    at,           \* the build at each place
    login,
    clock,
    changed,      \* when the machine last changed, ...
    changes,      \* ... and how often it did
    remembered,   \* binpath._cache
    basis,        \* history: what the remembered resolution was based on
    memory,       \* preflight._cache
    call

machine == <<at, login, changed, changes>>
vars == <<host, machine, clock, remembered, basis, memory, call>>

Tools == {"status", "transfer", "preview"}

-----------------------------------------------------------------------------
(* Resolution: the first place of an order that is among those given.      *)
FirstOf(order, places) ==
    LET hits == {i \in DOMAIN order : order[i] \in places}
    IN  IF hits = {} THEN None
        ELSE order[CHOOSE i \in hits : \A j \in hits : i <= j]

(* What codex_bin falls back to when no source yields a candidate.         *)
OrBare(place) == IF place = None THEN Bare ELSE place

Present == {p \in Places : at[p] # None}

OnPath == FirstOf(SearchPath, Present)

(* Mutated: the directory npm names is not checked for an executable.      *)
NpmHit_Unchecked(answers) == answers

NpmHit(answers) == answers /\ NpmPlace \in Present

(* What a process runs that spawns this path now.                          *)
Runs(path) ==
    LET place == IF path = Bare THEN OnPath ELSE path
    IN  IF place = None THEN None ELSE at[place]

(* What a new process resolves to when these places have a codex and npm   *)
(* answers: the override exactly as given; else, under WSL2, the           *)
(* candidates and npm's directory before PATH.                             *)
Resolved(places) ==
    IF host.override # None
    THEN IF host.override \in places THEN host.override ELSE None
    ELSE IF host.wsl /\ FirstOf(Candidates, places) # None
    THEN FirstOf(Candidates, places)
    ELSE IF host.wsl /\ NpmPlace \in places THEN NpmPlace
    ELSE OrBare(FirstOf(SearchPath, places))

Fresh == Resolved(Present)

-----------------------------------------------------------------------------
(***************************************************************************)
(* A call: the probe it is at, and how far with it; what the probes told   *)
(* (blamed: the override was turned down; found; auth; says, the help      *)
(* text); since when it asks for the help; and of its own history, whether *)
(* the machine was steady since it was made, whether it relied only on     *)
(* resolutions that still hold (sure), whether a probe of it hung.         *)
(***************************************************************************)
Idle == [tool |-> "none", probe |-> "none", stage |-> "idle", path |-> None,
         seen |-> {}, blamed |-> FALSE, found |-> FALSE, auth |-> "unknown",
         says |-> None, began |-> 0, verdict |-> "none",
         steady |-> TRUE, sure |-> TRUE, hung |-> FALSE]

Records ==
    [tool : Tools \cup {"none"},
     probe : {"none", "override", "version", "login", "help"},
     stage : {"idle", "locate", "ask", "spawn", "read", "answered"},
     path : Places \cup {Bare, None}, seen : SUBSET Places,
     blamed : BOOLEAN, found : BOOLEAN,
     auth : {"yes", "no", "unknown"},
     says : Builds \cup {None}, began : Nat,
     verdict : {"none", "previewed", "not_found", "bad_override", "no_login",
                "indeterminate", "ready"},
     steady : BOOLEAN, sure : BOOLEAN, hung : BOOLEAN]

TypeOK ==
    /\ host \in [wsl : BOOLEAN, override : {None} \cup Places]
    /\ at \in [Places -> Builds \cup {None}] /\ login \in BOOLEAN
    /\ clock \in 0..MaxTime /\ changed \in 0..clock /\ changes \in 0..MaxChanges
    /\ remembered \in Places \cup {Bare, None}
    /\ basis \in [known : BOOLEAN, places : SUBSET Places]
    /\ memory \in [made : BOOLEAN, stamp : 0..clock, says : Builds \cup {None},
                   clean : BOOLEAN]
    /\ call \in [Calls -> Records]
    /\ \A c \in Calls : call[c].began <= clock

Init ==
    /\ host \in Hosts
    /\ \E m \in Machines : at = m.at /\ login = m.login
    /\ clock = 0 /\ changed = 0 /\ changes = 0
    /\ remembered = None
    /\ basis = [known |-> FALSE, places |-> {}]
    /\ memory = [made |-> FALSE, stamp |-> 0, says |-> None, clean |-> FALSE]
    /\ call = [c \in Calls |-> Idle]

Asking(c) == call[c].stage \in {"locate", "ask", "spawn", "read"}

(* The handlers of these tools block the event loop while they probe.      *)
LoopIsFree == \A d \in Calls : Asking(d) => call[d].tool = "status"

Answered(c, tool) == call[c].stage = "answered" /\ call[c].tool = tool

(* The next probe of a call, from its first step.                          *)
To(probe, r) == [r EXCEPT !.probe = probe, !.stage = "locate", !.path = None,
                          !.began = IF probe = "help" THEN clock ELSE @]

(* An answer is about the machine as it is; how it came about is forgotten, *)
(* but for what the properties ask.                                        *)
Answer(verdict, r) ==
    IF ~r.steady THEN Idle
    ELSE [Idle EXCEPT !.tool = r.tool, !.stage = "answered", !.verdict = verdict,
                      !.says = r.says, !.sure = r.sure, !.hung = r.hung,
                      !.began = IF verdict = "previewed" THEN r.began ELSE 0]

(* Mutated: a transfer asks for the login first.                           *)
FirstProbe_LoginFirst(tool) ==
    CASE tool = "status"   -> IF host.override # None THEN "override" ELSE "version"
      [] tool = "transfer" -> "login"
      [] tool = "preview"  -> "help"

FirstProbe(tool) ==
    CASE tool = "status"   -> IF host.override # None THEN "override" ELSE "version"
      [] tool = "transfer" -> "version"
      [] tool = "preview"  -> "help"

(* The remembered help text still counts: it is younger than TTL.          *)
Remembers == memory.made /\ clock - memory.stamp < TTL

Ask(c, tool) ==
    LET r == [Idle EXCEPT !.tool = tool]
    IN  /\ ~Asking(c)
        /\ tool # "status" => LoopIsFree
        /\ call' = [call EXCEPT ![c] =
              IF tool = "preview" /\ Remembers
              THEN Answer("previewed", [r EXCEPT !.began = clock,
                                                 !.says = memory.says,
                                                 !.sure = memory.clean])
              ELSE To(FirstProbe(tool), r)]
        /\ UNCHANGED <<host, machine, clock, remembered, basis, memory>>

-----------------------------------------------------------------------------
(***************************************************************************)
(* A path holds if what it was based on is as it was: PATH itself, for the *)
(* bare name on a plain host; else which places had a codex.               *)
(***************************************************************************)
Holds(path, b) ==
    \/ path = None
    \/ path = Bare /\ ~host.wsl
    \/ b.known /\ b.places = Present

(* The call has its path; status only wanted to know of the override.      *)
Located(c, path, b) ==
    LET r == [call[c] EXCEPT !.path = path, !.seen = {}, !.sure = @ /\ Holds(path, b)]
    IN  call' = [call EXCEPT ![c] =
                    IF r.probe = "override"
                    THEN To("version", [r EXCEPT !.blamed = path = None])
                    ELSE [r EXCEPT !.stage = "spawn"]]

Settle(c, path, known) ==
    LET b == [known |-> known, places |-> IF known THEN Present ELSE {}]
    IN  remembered' = path /\ basis' = b /\ Located(c, path, b)

Recall(c) ==
    /\ remembered # None
    /\ Located(c, remembered, basis)
    /\ UNCHANGED <<remembered, basis>>

(* An override that is turned down is not remembered: it is tried again.   *)
TakeOverride(c) ==
    /\ remembered = None /\ host.override # None
    /\ IF host.override \in Present
       THEN Settle(c, host.override, TRUE)
       ELSE Located(c, None, basis) /\ UNCHANGED <<remembered, basis>>

Search(c) ==
    /\ remembered = None /\ host.override = None
    /\ IF ~host.wsl THEN Settle(c, OrBare(OnPath), TRUE)
       ELSE IF FirstOf(Candidates, Present) # None
       THEN Settle(c, FirstOf(Candidates, Present), TRUE)
       ELSE /\ call' = [call EXCEPT ![c].stage = "ask", ![c].seen = Present]
            /\ UNCHANGED <<remembered, basis>>

Locate(c) ==
    /\ call[c].stage = "locate"
    /\ Recall(c) \/ TakeOverride(c) \/ Search(c)
    /\ UNCHANGED <<host, machine, clock, memory>>

(* npm is asked, and may not answer; whoever ends last is remembered.      *)
AskNpm(c) ==
    /\ call[c].stage = "ask"
    /\ \E answers \in BOOLEAN :
          Settle(c, IF NpmHit(answers) THEN NpmPlace ELSE OrBare(OnPath),
                 answers /\ call[c].seen = Present)
    /\ UNCHANGED <<host, machine, clock, memory>>

-----------------------------------------------------------------------------
(***************************************************************************)
(* The probes, once located.  A codex that hangs is killed at the timeout; *)
(* its version then counts as missing, its login as unknown.               *)
(***************************************************************************)
Spawning(c, probe) ==
    /\ call[c].stage = "spawn" /\ call[c].probe = probe
    /\ UNCHANGED <<host, machine, clock, remembered, basis>>

Hangs(c) == IF Runs(call[c].path) = None THEN {FALSE} ELSE BOOLEAN

ProbeVersion(c) ==
    /\ Spawning(c, "version")
    /\ \E hangs \in Hangs(c) :
          LET found == Runs(call[c].path) \in Running /\ ~hangs
              r == [call[c] EXCEPT !.found = found, !.hung = @ \/ hangs]
          IN  call' = [call EXCEPT ![c] =
                 IF found THEN To("login", r)
                 ELSE IF r.tool = "status" THEN To("help", r)
                 ELSE Answer("not_found", r)]
    /\ UNCHANGED memory

(* login_status is tri-state: a codex that is not there has no say.        *)
LoginSays(build, hangs) ==
    IF build = None \/ hangs THEN "unknown"
    ELSE IF build \in Running /\ login THEN "yes" ELSE "no"

OfLogin(auth) == CASE auth = "yes"     -> "ready"
                   [] auth = "no"      -> "no_login"
                   [] auth = "unknown" -> "indeterminate"

ProbeLogin(c) ==
    /\ Spawning(c, "login")
    /\ \E hangs \in Hangs(c) :
          LET auth == LoginSays(Runs(call[c].path), hangs)
              r == [call[c] EXCEPT !.auth = auth, !.hung = @ \/ hangs]
          IN  call' = [call EXCEPT ![c] =
                 IF r.tool = "status" THEN To("help", r) ELSE Answer(OfLogin(auth), r)]
    /\ UNCHANGED memory

Readiness(r) ==
    IF ~r.found THEN IF r.blamed THEN "bad_override" ELSE "not_found"
    ELSE OfLogin(r.auth)

(* Mutated: the help text is dated by the end of its probe.                *)
Stamp_AtTheEnd(c) == clock

Stamp(c) == call[c].began

(* A hung codex leaves no help, or a torn part of it: nobody's answer.     *)
ProbeHelp(c) ==
    /\ Spawning(c, "help")
    /\ \E hangs \in Hangs(c) :
          call' = [call EXCEPT ![c].stage = "read", ![c].hung = @ \/ hangs,
                     ![c].says = IF hangs THEN None ELSE Runs(call[c].path)]
    /\ UNCHANGED memory

(* The text is remembered, in the place of any other that came in between. *)
Remember(c) ==
    /\ call[c].stage = "read"
    /\ memory' = [made |-> TRUE, stamp |-> Stamp(c), says |-> call[c].says,
                  clean |-> call[c].sure /\ ~call[c].hung]
    /\ call' = [call EXCEPT ![c] =
          Answer(IF @.tool = "status" THEN Readiness(@) ELSE "previewed", @)]
    /\ UNCHANGED <<host, machine, clock, remembered, basis>>

-----------------------------------------------------------------------------
(* The world: what the user does to the machine, and time.  An answer is   *)
(* compared with the machine it was about, so a change retires it.         *)
Change ==
    /\ changes < MaxChanges
    /\ changes' = changes + 1 /\ changed' = clock
    /\ call' = [c \in Calls |-> IF Asking(c) THEN [call[c] EXCEPT !.steady = FALSE]
                                ELSE Idle]
    /\ UNCHANGED <<host, clock, remembered, basis, memory>>

Install(p, b) ==
    /\ at[p] # b /\ at' = [at EXCEPT ![p] = b]
    /\ Change /\ UNCHANGED login

Remove(p) ==
    /\ at[p] # None /\ at' = [at EXCEPT ![p] = None]
    /\ Change /\ UNCHANGED login

LogInOrOut == login' = ~login /\ Change /\ UNCHANGED at

Tick ==
    /\ clock < MaxTime /\ clock' = clock + 1
    /\ UNCHANGED <<host, machine, remembered, basis, memory, call>>

World ==
    \/ \E p \in Places, b \in Builds : Install(p, b)
    \/ \E p \in Places : Remove(p)
    \/ LogInOrOut
    \/ Tick

Probe(c) == ProbeVersion(c) \/ ProbeLogin(c) \/ ProbeHelp(c) \/ Remember(c)

Next ==
    \/ \E c \in Calls, tool \in Tools : Ask(c, tool)
    \/ \E c \in Calls : Locate(c) \/ AskNpm(c) \/ Probe(c)
    \/ World

Spec == Init /\ [][Next]_vars

-----------------------------------------------------------------------------
(***************************************************************************)
(* What a worker that starts now would find, as the tools put it.          *)
(***************************************************************************)
WorkerFinds(tool) ==
    IF tool = "status" /\ host.override # None /\ host.override \notin Present
    THEN "bad_override"
    ELSE IF Runs(Fresh) \notin Running THEN "not_found"
    ELSE IF login THEN "ready" ELSE "no_login"

(***************************************************************************)
(* codex_status and codex_transfer speak for the runs to come: unless the  *)
(* machine changed since, a probe hung, or the server went by a resolution *)
(* that no longer holds (it remembers one for life), what they say of      *)
(* codex and its login is what the next worker finds for itself.  That a   *)
(* resolution holds must not be lost to two that run at once.              *)
(***************************************************************************)
ProbesSpeakForWorkers ==
    \A c \in Calls, tool \in {"status", "transfer"} :
        Answered(c, tool) /\ call[c].sure /\ ~call[c].hung =>
            /\ call[c].verdict = WorkerFinds(tool)
            /\ tool = "status" => call[c].says = Runs(Fresh)

(***************************************************************************)
(* codex_auth_indeterminate is announced as temporary, which is true only  *)
(* because the binary is ruled out first (errors.py): a caller told so has *)
(* a codex that runs, whatever did not answer, and retrying can settle it. *)
(***************************************************************************)
IndeterminateIsTemporary ==
    \A c \in Calls :
        Answered(c, "transfer") /\ call[c].sure =>
            (call[c].verdict = "indeterminate" => Runs(Fresh) \in Running)

(***************************************************************************)
(* A preview is not misled by the remembered help for longer than TTL: if  *)
(* the last change of the machine lies that far back, the text it goes by  *)
(* is the one the next worker reads, however long the probe took and       *)
(* whichever of several probes wrote last.                                 *)
(***************************************************************************)
PreviewSpeaksForWorkers ==
    \A c \in Calls :
        Answered(c, "preview") /\ call[c].sure /\ ~call[c].hung =>
            (call[c].began >= changed + TTL => call[c].says = Runs(Fresh))
=============================================================================

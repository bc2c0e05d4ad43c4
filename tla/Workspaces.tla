------------------------------ MODULE Workspaces ------------------------------
(***************************************************************************)
(* Which workspace a tool call acts on.  Every call of the job tools asks  *)
(* the client for its roots (server._roots_from_ctx), resolves a directory *)
(* from what it was given and what it was told, and then looks in that     *)
(* directory's share of the job store.  The answer to the probe may differ *)
(* from call to call: the client opens another project, reconnects in      *)
(* another protocol era, or just fails to answer.                          *)
(*                                                                         *)
(* Modelled: starts (one async tool, with an idempotency key or without),  *)
(* fetches (codex_job_result) and codex_job_list.  A sync call is a start  *)
(* and a fetch in one handler; what a handler does between the start and   *)
(* the answer, retention and consumption are JobServer's.  Here a store    *)
(* operation and the answer made of it are one step.                       *)
(***************************************************************************)
EXTENDS Naturals, FiniteSets

CONSTANTS
    Calls,       \* tool calls, and the ids of the runs they start
    Dirs,        \* directories that exist
    ServerDir,   \* workspace.server_cwd(): where the server was launched
    Enclosing,   \* the directories that each directory lies in, itself included
    Keys,        \* idempotency keys
    Args,        \* effective arguments of a start, as they are hashed
    Requests,    \* the requests considered
    Clients,     \* the clients considered
    MaxChanges,  \* bound: how often the client changes
    NoDir,       \* workspace_root left out
    BadDir,      \* a workspace_root that is no absolute path of a directory
    NoKey,       \* no idempotency_key
    NoJob,       \* no job_id
    NoLimit      \* codex_job_list without limit

States == {"running", "done", "failed"}
Tools == {"start", "fetch", "list"}

ASSUME DirsAssumption ==
    /\ ServerDir \in Dirs /\ NoDir \notin Dirs /\ BadDir \notin Dirs
    /\ NoDir # BadDir
    /\ Enclosing \in [Dirs -> SUBSET Dirs]
    /\ \A d \in Dirs : d \in Enclosing[d]

ASSUME RequestsAssumption ==
    /\ IsFiniteSet(Calls)
    /\ NoKey \notin Keys /\ NoJob \notin Calls /\ NoLimit \notin Nat
    /\ Requests \subseteq
         [tool : Tools, names : Dirs \cup {NoDir, BadDir}, key : Keys \cup {NoKey},
          args : Args, job : Calls \cup {NoJob}, status : States \cup {"any"},
          limit : (Nat \ {0}) \cup {NoLimit}]

(* A client that does not advertise roots has none to offer; one of the    *)
(* 2026-07-28 era advertises roots but cannot be asked by a push.          *)
ASSUME ClientsAssumption ==
    /\ MaxChanges \in Nat
    /\ Clients \subseteq [advertises : BOOLEAN, answers : BOOLEAN, roots : SUBSET Dirs]
    /\ \A k \in Clients : ~k.advertises => k.roots = {}

VARIABLES
    client,    \* the connected client
    changes,   \* how often it changed
    call,      \* the handler of each call
    job        \* the record of the run each call started

vars == <<client, changes, call, job>>

-----------------------------------------------------------------------------
(* schemas.workspace_warning_for: the server's own directory is suspect.   *)
(* Mutated: only a client without roots is warned.                         *)
Warns_NotNegotiated(at) == at.source = "cwd" /\ at.probe = "not_negotiated"

Warns(at) == at.source = "cwd"

(* What the meta of an envelope says of the workspace.                     *)
Meta(at) == [at |-> at, warned |-> Warns(at)]

Probes == {"client", "not_negotiated", "probe_failed"}
Places == [dir : Dirs, source : {"param", "roots", "cwd", "none"}, probe : Probes]
Metas == [at : Places, warned : BOOLEAN]

(* workspace.resolve_workspace: a named directory wins if the roots, when  *)
(* there are any, enclose it; else one of the roots, always the same; else *)
(* the server's directory.  On an error it gives no path and no source, and *)
(* the callers put the server's directory in its place.                    *)
Outside(names, roots) ==
    names \in Dirs /\ roots # {} /\ Enclosing[names] \cap roots = {}

Resolution(names, roots) ==
    IF names = BadDir \/ Outside(names, roots)
    THEN [dir |-> ServerDir, source |-> "none"]
    ELSE IF names \in Dirs THEN [dir |-> names, source |-> "param"]
    ELSE IF roots # {} THEN [dir |-> CHOOSE r \in roots : TRUE, source |-> "roots"]
    ELSE [dir |-> ServerDir, source |-> "cwd"]

-----------------------------------------------------------------------------
(***************************************************************************)
(* A call: its request, the roots the client had when the probe ended      *)
(* (offered, history), where it was resolved to (at), and its answer.      *)
(***************************************************************************)
Nowhere == [dir |-> ServerDir, source |-> "none", probe |-> "not_negotiated"]

Reply(verdict, meta) == [verdict |-> verdict, meta |-> meta, shown |-> {}, cut |-> FALSE]

NoAnswer == Reply("none", Meta(Nowhere))

Verdicts == {"none", "refused", "started", "replayed", "conflict", "result",
             "unfinished", "not_found", "listing"}

Answers == [verdict : Verdicts, meta : Metas, shown : SUBSET Calls, cut : BOOLEAN]

CallRecords ==
    [stage : {"probing", "resolved", "answered", "lost"}, request : Requests,
     offered : SUBSET Dirs, at : Places, answer : Answers]

IdleCall == [stage |-> "idle"]

(* A run: its key and arguments, the provenance in its spec, the meta of   *)
(* the result.json its worker wrote, and its place in the order of starts. *)
JobRecords ==
    [state : States, key : Keys \cup {NoKey}, args : Args, spec : Places,
     stored : Metas, began : Nat]

NoRun == [state |-> "none"]

TypeOK ==
    /\ client \in Clients /\ changes \in 0..MaxChanges
    /\ call \in [Calls -> CallRecords \cup {IdleCall}]
    /\ job \in [Calls -> JobRecords \cup {NoRun}]

Init ==
    /\ client \in Clients /\ changes = 0
    /\ call = [c \in Calls |-> IdleCall]
    /\ job = [j \in Calls |-> NoRun]

Ran(j) == job[j].state # "none"
Runs == {j \in Calls : Ran(j)}
Stage(c, stage) == call[c].stage = stage
Told(c, verdict) == Stage(c, "answered") /\ call[c].answer.verdict = verdict

-----------------------------------------------------------------------------
(* The resolution: a call for which it is an error stops here.             *)
(* Mutated: the error is overlooked, and with it the missing path.         *)
Refused_Never(found) == FALSE

Refused(found) == found.source = "none"

Settled(request, offered, roots, probe) ==
    LET found == Resolution(request.names, roots)
        at == [dir |-> found.dir, source |-> found.source, probe |-> probe]
    IN  [stage |-> IF Refused(found) THEN "answered" ELSE "resolved",
         request |-> request, offered |-> offered, at |-> at,
         answer |-> IF Refused(found) THEN Reply("refused", Meta(at)) ELSE NoAnswer]

(* A caller fetches a run by the id it was told; it is asked for its roots *)
(* if it advertised them.                                                  *)
Ask(c, request) ==
    /\ Stage(c, "idle")
    /\ request.tool = "fetch" => request.job \in Runs
    /\ call' = [call EXCEPT ![c] =
          IF client.advertises
          THEN [stage |-> "probing", request |-> request, offered |-> {},
                at |-> Nowhere, answer |-> NoAnswer]
          ELSE Settled(request, {}, {}, "not_negotiated")]
    /\ UNCHANGED <<client, changes, job>>

(* Any probe may fail; that of a modern client always does.                *)
ProbeEnds(c) ==
    /\ Stage(c, "probing")
    /\ \E probe \in IF client.answers THEN {"client", "probe_failed"} ELSE {"probe_failed"} :
          call' = [call EXCEPT ![c] =
             Settled(@.request, client.roots, IF probe = "client" THEN client.roots ELSE {},
                     probe)]
    /\ UNCHANGED <<client, changes, job>>

-----------------------------------------------------------------------------
Answer(c, verdict, meta) ==
    call' = [call EXCEPT ![c].stage = "answered", ![c].answer = Reply(verdict, meta)]

Serves(c, tool) == Stage(c, "resolved") /\ call[c].request.tool = tool

(* The runs the store keeps for a directory.                               *)
Kept(dir) == {j \in Runs : job[j].spec.dir = dir}

(* That of them that is published under a key.                             *)
Published(dir, key) == {j \in Kept(dir) : key # NoKey /\ job[j].key = key}

(* _arg_hash_for_spec: how a call was resolved is not part of what it asks. *)
(* Mutated: the state of the probe is.                                     *)
Hash_WithProbe(args, at) == <<args, at.probe>>

Hash(args, at) == args

(* start or start_idempotent in the resolved directory, and the handle     *)
(* made of its outcome: also that of a replay is about the present call.   *)
Start(c) ==
    LET request == call[c].request
        at == call[c].at
        verdict(j) == IF Hash(job[j].args, job[j].spec) = Hash(request.args, at)
                      THEN "replayed" ELSE "conflict"
    IN  /\ Serves(c, "start")
        /\ \/ /\ Published(at.dir, request.key) = {}
              /\ job' = [job EXCEPT ![c] =
                    [state |-> "running", key |-> request.key, args |-> request.args,
                     spec |-> at, stored |-> Meta(at), began |-> Cardinality(Runs)]]
              /\ Answer(c, "started", Meta(at))
           \/ /\ \E j \in Published(at.dir, request.key) : Answer(c, verdict(j), Meta(at))
              /\ UNCHANGED job
        /\ UNCHANGED <<client, changes>>

(* The worker's meta comes from the spec it was given (_meta_from_spec).   *)
(* Mutated: the worker resolves the workspace once more, without a client. *)
Stored_Resolved(spec) == Meta([spec EXCEPT !.probe = "not_negotiated"])

Stored(spec) == Meta(spec)

WorkerEnds(j) ==
    /\ job[j].state = "running"
    /\ \E state \in {"done", "failed"} :
          job' = [job EXCEPT ![j].state = state, ![j].stored = Stored(job[j].spec)]
    /\ UNCHANGED <<client, changes, call>>

(* A stored result is delivered as it is; everything else that is said of  *)
(* a run, or of its absence, is about the present call.                    *)
Fetch(c) ==
    LET j == call[c].request.job
    IN  /\ Serves(c, "fetch")
        /\ IF j \notin Kept(call[c].at.dir) THEN Answer(c, "not_found", Meta(call[c].at))
           ELSE IF job[j].state = "done" THEN Answer(c, "result", job[j].stored)
           ELSE Answer(c, "unfinished", Meta(call[c].at))
        /\ UNCHANGED <<client, changes, job>>

-----------------------------------------------------------------------------
(* codex_job_list: the filter first, then the limit, newest first.         *)
Matching(rows, status) == {j \in rows : status = "any" \/ job[j].state = status}

Exceeds(rows, limit) == limit # NoLimit /\ Cardinality(rows) > limit

Newest(rows, limit) ==
    IF Exceeds(rows, limit)
    THEN {j \in rows : Cardinality({i \in rows : job[i].began > job[j].began}) < limit}
    ELSE rows

(* Mutated: the limit cuts what the filter has not seen yet.               *)
Listed_CutFirst(rows, status, limit) ==
    LET matching == Matching(Newest(rows, limit), status)
    IN  [shown |-> matching, cut |-> Exceeds(matching, limit)]

Listed(rows, status, limit) ==
    LET matching == Matching(rows, status)
    IN  [shown |-> Newest(matching, limit), cut |-> Exceeds(matching, limit)]

List(c) ==
    LET request == call[c].request
        listed == Listed(Kept(call[c].at.dir), request.status, request.limit)
    IN  /\ Serves(c, "list")
        /\ call' = [call EXCEPT ![c].stage = "answered",
              ![c].answer = [verdict |-> "listing", meta |-> Meta(call[c].at),
                             shown |-> listed.shown, cut |-> listed.cut]]
        /\ UNCHANGED <<client, changes, job>>

-----------------------------------------------------------------------------
(* The client opens or closes a project, under the feet of its calls.      *)
RootsChange ==
    /\ changes < MaxChanges /\ changes' = changes + 1
    /\ client' \in {k \in Clients : k.advertises = client.advertises
                                      /\ k.answers = client.answers} \ {client}
    /\ UNCHANGED <<call, job>>

(* Another client, or the same one in another era: a server of its own,    *)
(* which knows nothing of the calls the last one left; detached runs go on. *)
Reconnect ==
    /\ changes < MaxChanges /\ changes' = changes + 1
    /\ client' \in Clients \ {client}
    /\ call' = [c \in Calls |-> IF call[c].stage \in {"probing", "resolved"}
                                THEN [call[c] EXCEPT !.stage = "lost"] ELSE call[c]]
    /\ UNCHANGED job

Next ==
    \/ \E c \in Calls, request \in Requests : Ask(c, request)
    \/ \E c \in Calls : ProbeEnds(c) \/ Start(c) \/ Fetch(c) \/ List(c)
    \/ \E j \in Calls : WorkerEnds(j)
    \/ RootsChange
    \/ Reconnect

Spec == Init /\ [][Next]_vars

-----------------------------------------------------------------------------
(* Starts that ask for the same thing under the same key.                  *)
SameRequest(c, j) ==
    LET p == call[c].request
        q == call[j].request
    IN  p.tool = "start" /\ p.key # NoKey /\ p.key = q.key /\ p.args = q.args

Roots(c) == IF call[c].at.probe = "client" THEN call[c].offered ELSE {}

(***************************************************************************)
(* A run works where its caller sent it: in the directory it named, unless *)
(* the roots the client reported do not enclose it; or in one of those     *)
(* roots; and in the server's own directory only if it was given neither.  *)
(* The callers of resolve_workspace fill the path an error leaves out with *)
(* exactly that directory, so an error must stop them.                     *)
(***************************************************************************)
RunsStayInBounds ==
    \A c \in Calls : Ran(c) =>
        LET named == call[c].request.names
            dir == job[c].spec.dir
        IN  \/ named = dir /\ (Roots(c) = {} \/ Enclosing[dir] \cap Roots(c) # {})
            \/ named = NoDir /\ dir \in Roots(c)
            \/ named = NoDir /\ Roots(c) = {} /\ dir = ServerDir

(***************************************************************************)
(* workspace_root is the durable path: who names the directory of a run,   *)
(* by the handle's follow_up for instance, meets that run whatever became  *)
(* of the roots, unless it is refused.  It does not pay for the run again, *)
(* is not told of a conflict and does not miss the record.                 *)
(***************************************************************************)
NamedCallsMeet ==
    \A c, j \in Calls :
        /\ Ran(j) /\ c # j /\ ~Stage(c, "idle")
        /\ call[c].request.names = job[j].spec.dir
        => /\ SameRequest(c, j) => ~Ran(c) /\ ~Told(c, "conflict")
           /\ Told(c, "not_found") => call[c].request.job # j

(***************************************************************************)
(* A call that names no directory may stray when its probe fails: it pays  *)
(* for the same request once more, or misses the run it asks for.  If the  *)
(* client offered the same roots both times, one of the two answers warned *)
(* of the directory it went to (workspace_warning).                        *)
(***************************************************************************)
StrayCallsAreFlagged ==
    \A c, j \in Calls :
        /\ Ran(j) /\ c # j
        /\ \/ Told(c, "started") /\ SameRequest(c, j)
           \/ Told(c, "not_found") /\ call[c].request.job = j
        /\ call[c].request.names = NoDir /\ call[j].request.names = NoDir
        /\ call[c].offered = call[j].offered
        => call[c].answer.meta.warned \/ call[j].answer.meta.warned

(***************************************************************************)
(* A delivered result speaks of the run: where it was resolved to and how, *)
(* as its own start was, and not of the call that fetches it; every other  *)
(* answer speaks of the call it answers (Meta.roots_source, #393; a        *)
(* listing shows its directory and source only).                           *)
(***************************************************************************)
AnswersNameTheirOrigin ==
    \A c \in Calls : Stage(c, "answered") =>
        call[c].answer.meta =
            Meta(call[IF Told(c, "result") THEN call[c].request.job ELSE c].at)

(***************************************************************************)
(* A listing that does not say it was cut shows every run its workspace    *)
(* has in the state asked for, and one that was cut leaves out only older  *)
(* ones; a lost job_id is recovered from it (codex_job_list).              *)
(***************************************************************************)
IsListed(c) ==
    LET request == call[c].request
        asked(j) == /\ Ran(j) /\ job[j].spec.dir = call[c].at.dir
                    /\ request.status \in {"any", job[j].state}
        answer == call'[c].answer
    IN  \A j \in Calls :
           /\ j \in answer.shown => asked(j)
           /\ asked(j) /\ j \notin answer.shown =>
                 answer.cut /\ \A i \in answer.shown : job[i].began > job[j].began

ListingsAreComplete ==
    [][\A c \in Calls : Serves(c, "list") /\ Told(c, "listing")' => IsListed(c)]_vars
=============================================================================

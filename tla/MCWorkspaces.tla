---------------------------- MODULE MCWorkspaces ----------------------------
(***************************************************************************)
(* A small instance of Workspaces: two projects, one with a part of it a   *)
(* caller may name, and the directory the server was launched in.          *)
(***************************************************************************)
EXTENDS Workspaces, TLC

CONSTANTS home, repo, part, other

MCEnclosing ==
    (home :> {home}) @@ (repo :> {repo}) @@ (part :> {part, repo}) @@ (other :> {other})

AnyArgs == CHOOSE a \in Args : TRUE

Request(tool, names) ==
    [tool |-> tool, names |-> names, key |-> NoKey, args |-> AnyArgs, job |-> NoJob,
     status |-> "any", limit |-> NoLimit]

(* Keyed starts, named and not, and one with other arguments; an unkeyed   *)
(* one; a path that is none; fetches of every run; listings that are cut.  *)
MCRequests ==
    {[Request("start", d) EXCEPT !.key = k] : d \in {NoDir, repo}, k \in Keys}
      \cup {[Request("start", repo) EXCEPT !.key = k, !.args = a] : k \in Keys, a \in Args}
      \cup {Request("start", d) : d \in {repo, BadDir}}
      \cup {[Request("fetch", d) EXCEPT !.job = j] : d \in {NoDir, repo}, j \in Calls}
      \cup {[Request("list", repo) EXCEPT !.status = s, !.limit = 1] : s \in {"any", "done"}}

(* No roots; roots that are none; one project; a part of it and another;   *)
(* and a client of the modern era.                                         *)
MCClients ==
    {[advertises |-> FALSE, answers |-> FALSE, roots |-> {}],
     [advertises |-> TRUE, answers |-> TRUE, roots |-> {}],
     [advertises |-> TRUE, answers |-> TRUE, roots |-> {repo}],
     [advertises |-> TRUE, answers |-> TRUE, roots |-> {part, other}],
     [advertises |-> TRUE, answers |-> FALSE, roots |-> {repo}]}

CallSymmetry == Permutations(Calls)
=============================================================================

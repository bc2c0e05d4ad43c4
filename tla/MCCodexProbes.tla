--------------------------- MODULE MCCodexProbes ---------------------------
(***************************************************************************)
(* A small instance of CodexProbes: a machine with a directory of the      *)
(* user's, npm's and one of the system's, the last two on PATH.            *)
(***************************************************************************)
EXTENDS CodexProbes, TLC

CONSTANTS home, npm, bin, codex, shim

MCCandidates == <<home>>
MCSearchPath == <<bin, npm>>

Machine(h, n, b, l) ==
    [at |-> (home :> h) @@ (npm :> n) @@ (bin :> b), login |-> l]

(* No codex; one on PATH; npm's behind a Windows shim; all of them.        *)
MCMachines ==
    {Machine(None, None, None, TRUE), Machine(None, None, codex, FALSE),
     Machine(None, codex, shim, TRUE), Machine(codex, codex, shim, TRUE)}

(* A plain host; WSL2; and an override, which is used on either.           *)
MCHosts == {[wsl |-> FALSE, override |-> None], [wsl |-> TRUE, override |-> None],
            [wsl |-> FALSE, override |-> home]}

CallSymmetry == Permutations(Calls)
=============================================================================

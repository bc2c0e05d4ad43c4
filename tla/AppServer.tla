------------------------------ MODULE AppServer ------------------------------
(***************************************************************************)
(* The one-shot `codex app-server` calls of appserver.py: transfer_session  *)
(* (run in a thread by the codex_transfer tool) and read_rate_limits.       *)
(*                                                                          *)
(* A call is four actors: the loop, the stdout reader thread behind a       *)
(* bounded queue, the stderr drain thread, and the child process.  The      *)
(* child, its import ledger, the transcript's writer and the pid table of   *)
(* the operating system are outside the repository.                         *)
(***************************************************************************)
EXTENDS AppServerWire, Sequences

CONSTANTS
  Transfers, Reads,  \* the calls, by what they ask
  Pids,              \* process ids the system hands out
  QueueCap,          \* _MAX_QUEUED_MESSAGES
  Escapees,          \* calls whose child left a descendant holding its pipes
  Wire,              \* the lines the child of each call may write unprompted
  MaxLines,          \* bound: lines a child writes
  MaxVersion         \* bound: versions of the transcript

Calls == Transfers \cup Reads

ASSUME AppServerAssumption ==
  /\ Transfers \cap Reads = {}
  /\ Escapees \subseteq Calls
  /\ QueueCap \in Nat \ {0}
  /\ MaxLines \in Nat
  /\ MaxVersion \in Nat \ {0}
  /\ \A c \in Calls :
       Wire[c] \subseteq InitResponses \cup Responses \cup Guesses \cup Other
                          \cup {Completed("empty", 0)}

KindOf(c) == IF c \in Transfers THEN "transfer" ELSE "read"

VARIABLES
  (* the tool and the loop *)
  tool,      \* "idle", "refused", "waiting", "cancelled"
  place,     \* where the loop stands
  stop,      \* stop_event
  late,      \* the deadline has passed
  home,      \* codex_home is known
  asked,     \* requests written
  verdict,   \* what the settling call will answer
  notice,    \* the completed notification to resolve
  status,    \* the outcome's status
  thread,    \* the outcome's thread
  tail,      \* the outcome's stderr tail has the child's last words
  (* the reader and drain threads *)
  reader, held, inbox, released,
  (* the child and the world *)
  child, pid, pipe, wrote, words, imports, report, transcript, ledger, began,
  strangers  \* the processes of others at pids the calls held before

loopVars == <<place, home, asked, verdict, notice, status, thread, tail>>
threadVars == <<reader, held, inbox, released>>
childVars == <<child, pid, pipe, wrote, words, imports, report>>
worldVars == <<transcript, ledger, began, strangers>>
vars == <<tool, stop, late, loopVars, threadVars, childVars, worldVars>>

NoPid == "no pid"
Places == {"idle", "spawning", "turning", "getting", "releasing", "killing",
           "reaping", "settling", "returned"}
Versions == 0..MaxVersion
Notices == {Completed(s, v) : s \in {"target", "invalid", "failures", "empty"},
                              v \in Versions}
Messages == InitResponses \cup Responses \cup Guesses \cup Other
            \cup {Eof, BadLine} \cup Notices
NoReport == Eof

TypeOK ==
  /\ tool \in [Calls -> {"idle", "refused", "waiting", "cancelled"}]
  /\ place \in [Calls -> Places]
  /\ stop \in [Calls -> BOOLEAN]
  /\ late \in [Calls -> BOOLEAN]
  /\ home \in [Calls -> BOOLEAN]
  /\ asked \in [Calls -> 0..1]
  /\ verdict \in [Calls -> {"none", "completed"} \cup Facts \cup Failures]
  /\ notice \in [Calls -> Messages]
  /\ status \in [Calls -> {"none"} \cup Facts \cup Failures]
  /\ thread \in [Calls -> Versions]
  /\ tail \in [Calls -> BOOLEAN]
  /\ reader \in [Calls -> {"none", "reading", "putting", "gone"}]
  /\ held \in [Calls -> Messages]
  /\ inbox \in [Calls -> Seq(Messages)]
  /\ \A c \in Calls : Len(inbox[c]) <= QueueCap
  /\ released \in [Calls -> BOOLEAN]
  /\ child \in [Calls -> {"none", "running", "exited", "killed", "reaped"}]
  /\ pid \in [Calls -> Pids \cup {NoPid}]
  /\ pipe \in [Calls -> Seq(Messages)]
  /\ wrote \in [Calls -> 0..MaxLines]
  /\ words \in [Calls -> {"none", "piped", "drained"}]
  /\ imports \in [Calls -> Nat]
  /\ report \in [Calls -> Notices \cup {NoReport}]
  /\ transcript \in 1..MaxVersion
  /\ ledger \subseteq 1..MaxVersion
  /\ began \in [Calls -> Versions]
  /\ strangers \in [Pids -> {"none", "running", "killed"}]

Init ==
  /\ tool = [c \in Calls |-> "idle"]
  /\ place = [c \in Calls |-> "idle"]
  /\ stop = [c \in Calls |-> FALSE]
  /\ late = [c \in Calls |-> FALSE]
  /\ home = [c \in Calls |-> FALSE]
  /\ asked = [c \in Calls |-> 0]
  /\ verdict = [c \in Calls |-> "none"]
  /\ notice = [c \in Calls |-> NoReport]
  /\ status = [c \in Calls |-> "none"]
  /\ thread = [c \in Calls |-> 0]
  /\ tail = [c \in Calls |-> FALSE]
  /\ reader = [c \in Calls |-> "none"]
  /\ held = [c \in Calls |-> Eof]
  /\ inbox = [c \in Calls |-> <<>>]
  /\ released = [c \in Calls |-> FALSE]
  /\ child = [c \in Calls |-> "none"]
  /\ pid = [c \in Calls |-> NoPid]
  /\ pipe = [c \in Calls |-> <<>>]
  /\ wrote = [c \in Calls |-> 0]
  /\ words = [c \in Calls |-> "none"]
  /\ imports = [c \in Calls |-> 0]
  /\ report = [c \in Calls |-> NoReport]
  /\ transcript \in 1..MaxVersion
  /\ ledger \in SUBSET (1..transcript)  \* earlier transfers of the path
  /\ began = [c \in Calls |-> 0]
  /\ strangers = [p \in Pids |-> "none"]

-----------------------------------------------------------------------------
(* The tool                                                                 *)

(* codex_transfer refuses a bad path, an unready codex or workspace before  *)
(* any side effect; codex_status reads no quota when codex is not ready.    *)
Call(c) ==
  /\ tool[c] = "idle"
  /\ \/ tool' = [tool EXCEPT ![c] = "refused"] /\ UNCHANGED <<place, began>>
     \/ /\ tool' = [tool EXCEPT ![c] = "waiting"]
        /\ place' = [place EXCEPT ![c] = "spawning"]
        /\ began' = [began EXCEPT ![c] = transcript]
  /\ UNCHANGED <<stop, late, home, asked, verdict, notice, status, thread,
                 tail, threadVars, childVars, transcript, ledger, strangers>>

(* An MCP cancellation abandons the thread and sets its stop event; it may  *)
(* come when the thread already has its outcome.  Only codex_transfer       *)
(* passes a stop event.                                                     *)
Cancel(c) ==
  /\ c \in Transfers
  /\ tool[c] = "waiting"
  /\ tool' = [tool EXCEPT ![c] = "cancelled"]
  /\ stop' = [stop EXCEPT ![c] = TRUE]
  /\ UNCHANGED <<late, loopVars, threadVars, childVars, worldVars>>

-----------------------------------------------------------------------------
(* The loop                                                                 *)

Holds(c) == child[c] \in {"running", "exited", "killed"}
FreePids == {p \in Pids : strangers[p] = "none"
                           /\ \A c \in Calls : Holds(c) => pid[c] # p}

Goto(c, where) == place' = [place EXCEPT ![c] = where]

(* Popen fails, or the child, the reader and the drain start and initialize *)
(* is written.                                                              *)
Spawn(c) ==
  /\ place[c] = "spawning"
  /\ \/ /\ Goto(c, "returned")
        /\ status' = [status EXCEPT ![c] = "spawn_failed"]
        /\ UNCHANGED <<child, pid, reader>>
     \/ \E p \in FreePids :
          /\ Goto(c, "turning")
          /\ child' = [child EXCEPT ![c] = "running"]
          /\ pid' = [pid EXCEPT ![c] = p]
          /\ reader' = [reader EXCEPT ![c] = "reading"]
          /\ UNCHANGED status
  /\ UNCHANGED <<tool, stop, late, home, asked, verdict, notice, thread, tail,
                 held, inbox, released, pipe, wrote, words, imports, report,
                 worldVars>>

(* Every exit decides its verdict here and settles before it answers.       *)
Settle(c, v) ==
  /\ Goto(c, "releasing")
  /\ verdict' = [verdict EXCEPT ![c] = v]

(* Mutated: a turn does not look at the stop event.                         *)
Turn_IgnoresStop(c) ==
  /\ place[c] = "turning"
  /\ \/ late[c] /\ Settle(c, "timed_out")
     \/ ~late[c] /\ Goto(c, "getting") /\ UNCHANGED verdict
  /\ UNCHANGED <<tool, stop, late, home, asked, notice, status, thread, tail,
                 threadVars, childVars, worldVars>>

(* The head of the while loop: stop event, then deadline, then the queue.   *)
Turn(c) ==
  /\ place[c] = "turning"
  /\ \/ stop[c] /\ Settle(c, "stopped")
     \/ ~stop[c] /\ late[c] /\ Settle(c, "timed_out")
     \/ ~stop[c] /\ ~late[c] /\ Goto(c, "getting") /\ UNCHANGED verdict
  /\ UNCHANGED <<tool, stop, late, home, asked, notice, status, thread, tail,
                 threadVars, childVars, worldVars>>

(* The get times out after at most _POLL_SECONDS.                           *)
GetNothing(c) ==
  /\ place[c] = "getting"
  /\ inbox[c] = <<>>
  /\ Goto(c, "turning")
  /\ UNCHANGED <<tool, stop, late, home, asked, verdict, notice, status, thread,
                 tail, threadVars, childVars, worldVars>>

Take(c, m) ==
  /\ place[c] = "getting"
  /\ inbox[c] # <<>>
  /\ m = Head(inbox[c])
  /\ inbox' = [inbox EXCEPT ![c] = Tail(inbox[c])]

(* A transfer needs codexHome to find the ledger; a read does not.          *)
Usable(c, m) == m.says = "home" \/ (m.says = "no_home" /\ c \in Reads)

(* Mutated: a repeated initialize response asks again.                      *)
Handshake_Repeats(c, m) ==
  /\ Take(c, m)
  /\ m.is = "init"
  /\ Usable(c, m)
  /\ Goto(c, "turning")
  /\ home' = [home EXCEPT ![c] = (m.says = "home")]
  /\ asked' = [asked EXCEPT ![c] = asked[c] + 1]
  /\ UNCHANGED <<tool, stop, late, verdict, notice, status, thread, tail,
                 reader, held, released, childVars, worldVars>>

(* The first initialize response: initialized, then the one request.        *)
Handshake(c, m) ==
  /\ Take(c, m)
  /\ m.is = "init"
  /\ Usable(c, m)
  /\ asked[c] = 0
  /\ Goto(c, "turning")
  /\ home' = [home EXCEPT ![c] = (m.says = "home")]
  /\ asked' = [asked EXCEPT ![c] = 1]
  /\ UNCHANGED <<tool, stop, late, verdict, notice, status, thread, tail,
                 reader, held, released, childVars, worldVars>>

(* The messages that end the call, and as what.                             *)
Breaks(c, m) ==
  \/ m \in {Eof, BadLine, Line("init", "error")}
  \/ m = Line("init", "no_home") /\ c \in Transfers /\ asked[c] = 0

Answers(c, m) == AnswersUs(KindOf(c), m) /\ (IsError(m) \/ c \in Reads)

Verdict(c, m) ==
  IF Breaks(c, m) THEN "protocol_error"
  ELSE IF IsError(m) THEN Classified(KindOf(c), m)
  ELSE ParsedRateLimits(m)

Conclude(c, m) ==
  /\ Take(c, m)
  /\ Breaks(c, m) \/ Answers(c, m)
  /\ Settle(c, Verdict(c, m))
  /\ UNCHANGED <<tool, stop, late, home, asked, notice, status, thread, tail,
                 reader, held, released, childVars, worldVars>>

(* The completed notification counts once codexHome is known.               *)
Announces(c, m) == m.is = "completed" /\ c \in Transfers /\ home[c]

Complete(c, m) ==
  /\ Take(c, m)
  /\ Announces(c, m)
  /\ Settle(c, "completed")
  /\ notice' = [notice EXCEPT ![c] = m]
  /\ UNCHANGED <<tool, stop, late, home, asked, status, thread, tail, reader,
                 held, released, childVars, worldVars>>

(* Tolerant decoding, the import's importId included.                       *)
Ignore(c, m) ==
  /\ Take(c, m)
  /\ ~(m.is = "init" /\ Usable(c, m) /\ asked[c] = 0)
  /\ ~Breaks(c, m) /\ ~Answers(c, m) /\ ~Announces(c, m)
  /\ Goto(c, "turning")
  /\ UNCHANGED <<tool, stop, late, home, asked, verdict, notice, status, thread,
                 tail, reader, held, released, childVars, worldVars>>

(* An exception that no return path covers leaves through the finally.      *)
Raise(c) ==
  /\ place[c] \in {"turning", "getting"}
  /\ Settle(c, "raised")
  /\ UNCHANGED <<tool, stop, late, home, asked, notice, status, thread, tail,
                 threadVars, childVars, worldVars>>

-----------------------------------------------------------------------------
(* Settling: _settle_and_tail, then the outcome                             *)

(* Mutated: the child is left to notice its closed pipes.                   *)
Release_SkipsKill(c) ==
  /\ place[c] = "releasing"
  /\ Goto(c, "settling")
  /\ released' = [released EXCEPT ![c] = TRUE]
  /\ UNCHANGED <<tool, stop, late, home, asked, verdict, notice, status, thread,
                 tail, reader, held, inbox, childVars, worldVars>>

(* First, so that a reader parked on a full queue can leave.                *)
Release(c) ==
  /\ place[c] = "releasing"
  /\ Goto(c, "killing")
  /\ released' = [released EXCEPT ![c] = TRUE]
  /\ UNCHANGED <<tool, stop, late, home, asked, verdict, notice, status, thread,
                 tail, reader, held, inbox, childVars, worldVars>>

(* killpg signals whatever process group the pid names.                     *)
KillGroup(p) ==
  /\ child' = [d \in Calls |-> IF child[d] = "running" /\ pid[d] = p
                               THEN "killed" ELSE child[d]]
  /\ strangers' = [strangers EXCEPT ![p] = IF @ = "running" THEN "killed" ELSE @]

Kill(c) ==
  /\ place[c] = "killing"
  /\ Goto(c, "reaping")
  /\ KillGroup(pid[c])
  /\ UNCHANGED <<tool, stop, late, home, asked, verdict, notice, status, thread,
                 tail, threadVars, pid, pipe, wrote, words, imports, report,
                 transcript, ledger, began>>

(* proc.wait frees the pid; it gives up after five seconds on a process the *)
(* kernel does not let go.                                                  *)
Reap(c) ==
  /\ place[c] = "reaping"
  /\ Goto(c, "settling")
  /\ \E now \in {child[c], "reaped"} : child' = [child EXCEPT ![c] = now]
  /\ UNCHANGED <<tool, stop, late, home, asked, verdict, notice, status, thread,
                 tail, threadVars, pid, pipe, wrote, words, imports, report,
                 worldVars>>

(* Mutated: the ledger is searched by path alone, the last record wins.     *)
LedgerLookup_AnyContent ==
  {0} \cup {v \in ledger : \A u \in ledger : u <= v}

(* _lookup_ledger: the record of exactly these bytes, or none - it may also *)
(* be missing, oversized or malformed.                                      *)
LedgerLookup == {0} \cup (ledger \cap {transcript})

(* _resolve_completed: target, then failures, then the ledger.              *)
Resolved(m) ==
  IF m.says = "invalid" THEN {<<"protocol_error", 0>>}
  ELSE IF m.says = "target" THEN {<<"ok", m.thread>>}
  ELSE IF m.says = "failures" THEN {<<"item_failure", 0>>}
  ELSE {<<IF v = 0 THEN "incomplete" ELSE "ok", v>> : v \in LedgerLookup}

Outcomes(c) ==
  IF verdict[c] = "completed" THEN Resolved(notice[c])
  ELSE {<<verdict[c], 0>>}

(* What the drain has goes into every outcome but one: the outcome of a     *)
(* stopped call carries no stderr_tail.  A call that raises has no outcome. *)
ShowsTail(c) == words[c] = "drained" /\ verdict[c] \notin {"stopped", "raised"}

(* Mutated: a second kill after the leader was reaped (#449).               *)
Answer_KillsAgain(c) ==
  /\ place[c] = "settling"
  /\ c \in Escapees \/ words[c] # "piped"
  /\ Goto(c, "returned")
  /\ \E o \in Outcomes(c) : status' = [status EXCEPT ![c] = o[1]]
                            /\ thread' = [thread EXCEPT ![c] = o[2]]
  /\ tail' = [tail EXCEPT ![c] = ShowsTail(c)]
  /\ KillGroup(pid[c])
  /\ UNCHANGED <<tool, stop, late, home, asked, verdict, notice, threadVars, pid,
                 pipe, wrote, words, imports, report, transcript, ledger, began>>

(* Mutated: the tail is taken before the drain catches up.                  *)
Answer_Hurries(c) ==
  /\ place[c] = "settling"
  /\ Goto(c, "returned")
  /\ \E o \in Outcomes(c) : status' = [status EXCEPT ![c] = o[1]]
                            /\ thread' = [thread EXCEPT ![c] = o[2]]
  /\ tail' = [tail EXCEPT ![c] = ShowsTail(c)]
  /\ UNCHANGED <<tool, stop, late, home, asked, verdict, notice, threadVars,
                 childVars, worldVars>>

(* The bounded joins.  The drain reaches its end at once when the child is  *)
(* dead, unless a descendant still holds the pipe.                          *)
Answer(c) ==
  /\ place[c] = "settling"
  /\ verdict[c] = "raised" \/ c \in Escapees \/ words[c] # "piped"
  /\ Goto(c, "returned")
  /\ \E o \in Outcomes(c) : status' = [status EXCEPT ![c] = o[1]]
                            /\ thread' = [thread EXCEPT ![c] = o[2]]
  /\ tail' = [tail EXCEPT ![c] = ShowsTail(c)]
  /\ UNCHANGED <<tool, stop, late, home, asked, verdict, notice, threadVars,
                 childVars, worldVars>>

(* The deadline passes.                                                     *)
Deadline(c) ==
  /\ place[c] \in {"turning", "getting"}
  /\ ~late[c]
  /\ late' = [late EXCEPT ![c] = TRUE]
  /\ UNCHANGED <<tool, stop, loopVars, threadVars, childVars, worldVars>>

-----------------------------------------------------------------------------
(* The reader and drain threads                                             *)

Hold(c, m) ==
  /\ reader' = [reader EXCEPT ![c] = "putting"]
  /\ held' = [held EXCEPT ![c] = m]

(* One line: after the release the reader leaves, a bad line ends it, and   *)
(* only what the loop can act on is queued.                                 *)
ReadLine(c) ==
  /\ reader[c] = "reading"
  /\ pipe[c] # <<>>
  /\ pipe' = [pipe EXCEPT ![c] = Tail(pipe[c])]
  /\ LET m == Head(pipe[c]) IN
     IF released[c] \/ m = HangUp THEN Hold(c, Eof)
     ELSE IF m.is = "garbage" THEN Hold(c, BadLine)
     ELSE IF Relevant(KindOf(c), m) THEN Hold(c, m)
     ELSE UNCHANGED <<reader, held>>
  /\ UNCHANGED <<tool, stop, late, loopVars, inbox, released, child, pid, wrote,
                 words, imports, report, worldVars>>

ReadEof(c) ==
  /\ reader[c] = "reading"
  /\ pipe[c] = <<>>
  /\ child[c] # "running"
  /\ c \notin Escapees
  /\ Hold(c, Eof)
  /\ UNCHANGED <<tool, stop, late, loopVars, inbox, released, childVars,
                 worldVars>>

(* A bad line still has the finally's _EOF to put; _EOF is the last.        *)
AfterPut(c) ==
  /\ reader' = [reader EXCEPT ![c] =
       IF held[c] = Eof THEN "gone"
       ELSE IF held[c] = BadLine THEN "putting" ELSE "reading"]
  /\ held' = [held EXCEPT ![c] = Eof]

(* A put waits for room in slices of _POLL_SECONDS.                         *)
Put(c) ==
  /\ reader[c] = "putting"
  /\ Len(inbox[c]) < QueueCap
  /\ inbox' = [inbox EXCEPT ![c] = Append(inbox[c], held[c])]
  /\ AfterPut(c)
  /\ UNCHANGED <<tool, stop, late, loopVars, released, childVars, worldVars>>

(* Mutated: a put blocks until there is room.                               *)
Drop_Never(c) ==
  /\ reader[c] = "putting"
  /\ released[c]
  /\ Len(inbox[c]) < QueueCap
  /\ AfterPut(c)
  /\ UNCHANGED <<tool, stop, late, loopVars, inbox, released, childVars,
                 worldVars>>

(* _put_or_stop gives the item up once the loop is done.                    *)
Drop(c) ==
  /\ reader[c] = "putting"
  /\ released[c]
  /\ AfterPut(c)
  /\ UNCHANGED <<tool, stop, late, loopVars, inbox, released, childVars,
                 worldVars>>

Drain(c) ==
  /\ words[c] = "piped"
  /\ words' = [words EXCEPT ![c] = "drained"]
  /\ UNCHANGED <<tool, stop, late, loopVars, threadVars, child, pid, pipe, wrote,
                 imports, report, worldVars>>

-----------------------------------------------------------------------------
(* The child, its ledger, and the writer of the transcript                  *)

Write(c, m) ==
  /\ child[c] = "running"
  /\ wrote[c] < MaxLines
  /\ pipe' = [pipe EXCEPT ![c] = Append(pipe[c], m)]
  /\ wrote' = [wrote EXCEPT ![c] = wrote[c] + 1]

(* Any line at any time, but a response carries a read's id only after the  *)
(* child read the request.                                                  *)
Speak(c, m) ==
  /\ Write(c, m)
  /\ m.is = "answer" => asked[c] > 0
  /\ UNCHANGED <<tool, stop, late, loopVars, threadVars, child, pid, words,
                 imports, report, worldVars>>

(* An import makes a thread unless the ledger has these very bytes; codex   *)
(* may reject the transcript, loudly or not, and report a bad thread id.    *)
Import(c) ==
  /\ c \in Transfers
  /\ child[c] = "running"
  /\ imports[c] < asked[c]
  /\ imports' = [imports EXCEPT ![c] = imports[c] + 1]
  /\ \/ \E s \in {"target", "invalid"} :
          /\ transcript \notin ledger
          /\ ledger' = ledger \cup {transcript}
          /\ report' = [report EXCEPT ![c] =
               Completed(s, IF s = "target" THEN transcript ELSE 0)]
     \/ \E s \in {"failures", "empty"} :
          /\ report' = [report EXCEPT ![c] = Completed(s, 0)]
          /\ UNCHANGED ledger
  /\ UNCHANGED <<tool, stop, late, loopVars, threadVars, child, pid, pipe, wrote,
                 words, transcript, began, strangers>>

Report(c) ==
  /\ report[c] # NoReport
  /\ Write(c, report[c])
  /\ report' = [report EXCEPT ![c] = NoReport]
  /\ UNCHANGED <<tool, stop, late, loopVars, threadVars, child, pid, words,
                 imports, worldVars>>

(* It exits by itself, perhaps with last words on stderr.                   *)
Exit(c) ==
  /\ child[c] = "running"
  /\ child' = [child EXCEPT ![c] = "exited"]
  /\ \E w \in {"none", "piped"} : words' = [words EXCEPT ![c] = w]
  /\ UNCHANGED <<tool, stop, late, loopVars, threadVars, pid, pipe, wrote,
                 imports, report, worldVars>>

(* A live session appends to its transcript.                                *)
Edit ==
  /\ transcript < MaxVersion
  /\ transcript' = transcript + 1
  /\ UNCHANGED <<tool, stop, late, loopVars, threadVars, childVars, ledger,
                 began, strangers>>

(* Another codex process imports the transcript as it is.                   *)
OtherImport ==
  /\ ledger' = ledger \cup {transcript}
  /\ UNCHANGED <<tool, stop, late, loopVars, threadVars, childVars, transcript,
                 began, strangers>>

(* The system gives the pid of a reaped child to a process of its own.      *)
Recycle(p) ==
  /\ p \in FreePids
  /\ \E c \in Calls : pid[c] = p
  /\ strangers' = [strangers EXCEPT ![p] = "running"]
  /\ UNCHANGED <<tool, stop, late, loopVars, threadVars, childVars, transcript,
                 ledger, began>>

-----------------------------------------------------------------------------
(* What the loop may find at the head of its queue.                         *)
Queued(c) == {inbox[c][i] : i \in 1..Len(inbox[c])} \cap Messages
Handle(c) == \E m \in Queued(c) : Handshake(c, m) \/ Conclude(c, m)
                                  \/ Complete(c, m) \/ Ignore(c, m)
Loop(c) == Spawn(c) \/ Turn(c) \/ GetNothing(c) \/ Handle(c) \/ Release(c)
           \/ Kill(c) \/ Reap(c) \/ Answer(c)
Threads(c) == ReadLine(c) \/ ReadEof(c) \/ Put(c) \/ Drop(c) \/ Drain(c)
Child(c) == (\E m \in Wire[c] : Speak(c, m)) \/ Import(c) \/ Report(c) \/ Exit(c)

Next ==
  \/ \E c \in Calls : Call(c) \/ Cancel(c) \/ Loop(c) \/ Raise(c) \/ Deadline(c)
                      \/ Threads(c) \/ Child(c)
  \/ Edit \/ OtherImport \/ \E p \in Pids : Recycle(p)

Spec == Init /\ [][Next]_vars

(* The loop and the two threads are scheduled; neither the child, nor the   *)
(* deadline, nor anything else of the world is fair.                        *)
Fairness ==
  \A c \in Calls : WF_vars(Loop(c)) /\ WF_vars(Drain(c))
    /\ WF_vars(ReadLine(c) \/ ReadEof(c) \/ Put(c) \/ Drop(c))

FairSpec == Spec /\ Fairness

-----------------------------------------------------------------------------
(* Properties                                                               *)

(* A group kill only ever hits the call's own child: _terminate runs once,  *)
(* before the pid can be another call's, or anybody's (#449).               *)
KillsOnlyItsOwnChild ==
  [][/\ \A c \in Calls : child[c] # "killed" /\ child'[c] = "killed"
                            => place[c] = "killing"
     /\ \A p \in Pids : strangers'[p] = "killed" => strangers[p] = "killed"]_vars

(* A transfer that succeeds names a thread holding the transcript as it was *)
(* at some moment of the call, however the live session went on, and        *)
(* whatever older threads the ledger has of the same path.                  *)
NamedThreadHoldsTheTranscript ==
  \A c \in Calls :
    status[c] = "ok" /\ c \in Transfers =>
      began[c] <= thread[c] /\ thread[c] <= transcript /\ thread[c] \in ledger

(* The last words of a child that died by itself reach the outcome's tail,  *)
(* though the drain runs in a thread of its own (#449) - of every outcome   *)
(* but a stopped call's, which has no tail and which nobody reads.          *)
LastWordsReachTheTail ==
  \A c \in Calls \ Escapees :
    /\ place[c] = "returned" /\ words[c] # "none"
    /\ status[c] \notin {"stopped", "raised"}
    => tail[c]

StageOf(c) ==
  IF place[c] \in {"idle", "spawning"} THEN "idle"
  ELSE IF place[c] = "returned" THEN "closed" ELSE "open"
ChildOf(c) == IF child[c] = "running" THEN "up" ELSE "down"
AnswerOf(c) ==
  IF status[c] = "none" THEN "none"
  ELSE IF status[c] \in Facts THEN "fact" ELSE "failure"

Abstract == INSTANCE OneShotCall WITH
  stage <- [c \in Calls |-> StageOf(c)], asks <- asked,
  child <- [c \in Calls |-> ChildOf(c)],
  answer <- [c \in Calls |-> AnswerOf(c)]

(* Every call keeps the promise of a one-shot call: one child, one request, *)
(* no child left at the answer, no fact that was not asked for - whatever   *)
(* the child writes, and however the stop, the deadline and the end of the  *)
(* child race the loop.                                                     *)
ImplementsOneShotCall == Abstract!Spec

(* An answer stands: a stop, a deadline, a late line of the child, a thread *)
(* of the call that is still running, or another call change nothing of     *)
(* what the call returned, and no child of it ever runs again.              *)
AnswersStand ==
  [][\A c \in Calls :
       place[c] = "returned" =>
         /\ child'[c] # "running"
         /\ UNCHANGED <<place[c], status[c], thread[c], tail[c], asked[c]>>]_vars

(* A call whose deadline passed, or that was cancelled, returns: a chatty,  *)
(* silent or wedged child cannot hold it.                                   *)
CalledOffReturns ==
  \A c \in Calls : late[c] \/ stop[c] ~> place[c] = "returned"

(* No reader stays parked on a full queue nobody empties any more.          *)
ReadersAreReleased ==
  \A c \in Calls : reader[c] = "putting" ~> reader[c] # "putting"
=============================================================================

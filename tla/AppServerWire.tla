---------------------------- MODULE AppServerWire ----------------------------
(***************************************************************************)
(* The lines the app-server writes and what each means to the two loops of  *)
(* appserver.py.  A message is its role and what it says; a thread is       *)
(* named by the version of the transcript it holds, 0 for none.             *)
(***************************************************************************)
EXTENDS Naturals

Line(is, says) == [is |-> is, says |-> says, thread |-> 0]
Completed(says, thread) ==
  [is |-> "completed", says |-> says, thread |-> thread]

Eof == Line("sentinel", "eof")          \* queued by the reader, never written
BadLine == Line("sentinel", "bad_line")
HangUp == Line("pipe", "closed")        \* the child closes its stdout

(* Everything a child writes: the responses to initialize and to the one    *)
(* request ("guess": a response whose id the child made up), the completed  *)
(* notification, other traffic, and a line that is not bounded JSON.        *)
InitResponses == {Line("init", s) : s \in {"home", "no_home", "error"}}
Responses == {Line("answer", s) :
                s \in {"missing", "reserved", "rejected", "accepted",
                       "quota", "no_quota", "malformed"}}
Guesses == {Line("guess", s) : s \in {"missing", "quota"}}
Other == {Line("noise", "any"), Line("garbage", "any"), HangUp}

Failures == {"spawn_failed", "protocol_error", "unsupported", "item_failure",
             "incomplete", "timed_out", "stopped", "raised"}
Facts == {"ok", "no_quota"}

(* Mutated: the id of a read request is predictable.                        *)
AnswersUs_Guessed(kind, m) == m.is \in {"answer", "guess"}

(* The id is that of this call's request.  A transfer's is always 2; a      *)
(* read's is drawn at random, so no guess carries it.                       *)
AnswersUs(kind, m) ==
  m.is = "answer" \/ (kind = "transfer" /\ m.is = "guess")

(* _relevant_to_loop and the filter of read_rate_limits: what the reader    *)
(* queues.  Everything else is dropped before it can fill the queue.        *)
Relevant(kind, m) ==
  \/ m.is = "init"
  \/ AnswersUs(kind, m)
  \/ kind = "transfer" /\ m.is = "completed"

(* classify_import_error: a missing method is an old codex, a reserved or   *)
(* malformed code is our request at fault, any other is the transcript.     *)
(* _classify_read_error has no transcript to blame.                         *)
Classified(kind, m) ==
  IF m.says = "missing" THEN "unsupported"
  ELSE IF kind = "transfer" /\ m.says = "rejected" THEN "item_failure"
  ELSE "protocol_error"

(* _parse_rate_limits: absent or malformed data is drift, never "no quota". *)
ParsedRateLimits(m) ==
  IF m.says = "quota" THEN "ok"
  ELSE IF m.says = "no_quota" THEN "no_quota"
  ELSE "protocol_error"

IsError(m) == m.says \in {"missing", "reserved", "rejected"}
=============================================================================

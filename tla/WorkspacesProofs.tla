--------------------------- MODULE WorkspacesProofs ---------------------------
(***************************************************************************)
(* Calls find their workspace, or say that they may not have: for any      *)
(* number of calls, directories and clients, however the directories lie   *)
(* in one another and however often the client changes.                    *)
(***************************************************************************)
EXTENDS Workspaces, FiniteSetTheorems, TLAPS

(* What is known of a call: where it went follows from what it named and   *)
(* what it was told, and its answer from where it went and what is there.  *)
Landed(c) == call[c].stage \in {"resolved", "answered"}

WellPlaced(c) ==
    LET found == Resolution(call[c].request.names, Roots(c))
    IN  /\ call[c].at.dir = found.dir /\ call[c].at.source = found.source
        /\ ~Told(c, "refused") => found.source # "none"

WellAnswered(c) ==
    LET request == call[c].request
        at == call[c].at
        answer == call[c].answer
    IN  /\ answer.verdict = "result" =>
              /\ request.job \in Runs
              /\ answer.meta = Meta(job[request.job].spec)
        /\ answer.verdict # "result" => answer.meta = Meta(at)
        /\ answer.verdict = "started" => Ran(c)
        /\ answer.verdict = "conflict" =>
              \E j \in Published(at.dir, request.key) : job[j].args # request.args
        /\ answer.verdict = "not_found" =>
              request.job \in Runs /\ job[request.job].spec.dir # at.dir

CallInv(c) ==
    /\ Landed(c) => WellPlaced(c)
    /\ Stage(c, "answered") => WellAnswered(c)
    /\ ~Stage(c, "idle") /\ call[c].request.tool = "fetch" => call[c].request.job \in Runs

(* What is known of a run: its record says what its start was asked and    *)
(* where it went, and no other run in that directory has its key.          *)
JobInv(j) ==
    Ran(j) => /\ Told(j, "started") /\ call[j].request.tool = "start"
              /\ job[j].spec = call[j].at
              /\ job[j].key = call[j].request.key /\ job[j].args = call[j].request.args
              /\ job[j].stored = Meta(job[j].spec)

OneRunPerKeyAndPlace ==
    \A i, j \in Runs :
        job[i].key # NoKey /\ job[i].key = job[j].key /\ job[i].spec.dir = job[j].spec.dir
            => i = j

Inv ==
    /\ TypeOK
    /\ \A c \in Calls : CallInv(c) /\ JobInv(c)
    /\ OneRunPerKeyAndPlace

-----------------------------------------------------------------------------
(* Types.                                                                  *)

(* A resolution is in a directory that exists.                             *)
LEMMA ResolutionType ==
    ASSUME NEW names, NEW roots \in SUBSET Dirs
    PROVE  /\ Resolution(names, roots).dir \in Dirs
           /\ Resolution(names, roots).source \in {"param", "roots", "cwd", "none"}
<1>1. roots # {} => (CHOOSE r \in roots : TRUE) \in Dirs
  OBVIOUS
<1> QED
  BY <1>1, DirsAssumption DEF Resolution

(* The states of calls and runs tell which records they are.               *)
LEMMA RecordTypes ==
    ASSUME TypeOK
    PROVE  /\ \A c \in Calls : ~Stage(c, "idle") => call[c] \in CallRecords
           /\ \A c \in Calls : Stage(c, "idle") => call[c] = IdleCall
           /\ \A j \in Runs : job[j] \in JobRecords
           /\ \A j \in Calls : job[j] \in JobRecords => Ran(j)
  BY DEF TypeOK, Stage, Runs, Ran, IdleCall, NoRun, CallRecords, JobRecords, States

LEMMA NowhereType ==
    /\ Nowhere \in Places
    /\ NoAnswer \in Answers
    /\ \A at \in Places : Meta(at) \in Metas
<1>1. Nowhere \in Places
  BY DirsAssumption DEF Nowhere, Places, Probes
<1>2. ASSUME NEW at \in Places  PROVE Meta(at) \in Metas
  BY DEF Meta, Metas, Warns
<1> QED
  BY <1>1, <1>2 DEF NoAnswer, Reply, Answers, Verdicts

(* What a settled call knows.                                              *)
LEMMA SettledIs ==
    ASSUME NEW request \in Requests, NEW offered \in SUBSET Dirs,
           NEW roots \in SUBSET Dirs, NEW probe \in Probes
    PROVE  LET s == Settled(request, offered, roots, probe)
           IN  /\ s \in CallRecords
               /\ s.stage \in {"resolved", "answered"}
               /\ s.request = request /\ s.offered = offered
               /\ s.at = [dir |-> Resolution(request.names, roots).dir,
                          source |-> Resolution(request.names, roots).source,
                          probe |-> probe]
               /\ s.stage = "answered" => s.answer.verdict = "refused"
                                          /\ s.answer.meta = Meta(s.at)
               /\ s.stage = "resolved" => s.at.source # "none"
<1> DEFINE s == Settled(request, offered, roots, probe)
           found == Resolution(request.names, roots)
           at == [dir |-> found.dir, source |-> found.source, probe |-> probe]
           answer == IF Refused(found) THEN Reply("refused", Meta(at)) ELSE NoAnswer
<1>1. at \in Places
  BY ResolutionType DEF Places
<1>2. Meta(at) \in Metas
  BY <1>1, NowhereType
<1>3. Reply("refused", Meta(at)) \in Answers /\ NoAnswer \in Answers
  BY <1>2, NowhereType DEF Answers, Verdicts, Reply
<1>4. /\ Reply("refused", Meta(at)).verdict = "refused"
      /\ Reply("refused", Meta(at)).meta = Meta(at)
  BY DEF Reply
<1>5. /\ at = [dir |-> Resolution(request.names, roots).dir,
               source |-> Resolution(request.names, roots).source, probe |-> probe]
      /\ at.source = found.source
  OBVIOUS
<1>6. s = [stage |-> IF Refused(found) THEN "answered" ELSE "resolved",
           request |-> request, offered |-> offered, at |-> at, answer |-> answer]
  BY DEF Settled
<1> HIDE DEF s, found, at
<1>7. answer \in Answers /\ (Refused(found) => answer.verdict = "refused"
                                            /\ answer.meta = Meta(at))
  BY <1>3, <1>4
<1> HIDE DEF answer
<1>8. s \in CallRecords
  BY <1>1, <1>6, <1>7 DEF CallRecords
<1> QED
  BY <1>5, <1>6, <1>7, <1>8 DEF Refused, s

-----------------------------------------------------------------------------
(* Steps and types.                                                        *)

(* An answer of a handler that got its directory.                          *)
LEMMA AnswerType ==
    ASSUME TypeOK, NEW c \in Calls, Stage(c, "resolved"),
           NEW verdict \in Verdicts, NEW meta \in Metas, Answer(c, verdict, meta)
    PROVE  /\ call' \in [Calls -> CallRecords \cup {IdleCall}]
           /\ \A d \in Calls \ {c} : call'[d] = call[d]
           /\ call'[c].stage = "answered" /\ call'[c].answer = Reply(verdict, meta)
           /\ call'[c].request = call[c].request /\ call'[c].at = call[c].at
           /\ call'[c].offered = call[c].offered
<1>1. call[c] \in CallRecords
  BY RecordTypes DEF Stage
<1>2. Reply(verdict, meta) \in Answers
  BY DEF Reply, Answers
<1> DEFINE r == [call[c] EXCEPT !.stage = "answered", !.answer = Reply(verdict, meta)]
<1>3. /\ r \in CallRecords
      /\ r.stage = "answered" /\ r.answer = Reply(verdict, meta)
      /\ r.request = call[c].request /\ r.at = call[c].at /\ r.offered = call[c].offered
  BY <1>1, <1>2 DEF CallRecords
<1>4. call' = [call EXCEPT ![c] = r]
  BY DEF Answer
<1> HIDE DEF r
<1> QED
  BY <1>3, <1>4 DEF TypeOK

(* Requests are what the assumption says.                                  *)
LEMMA RequestTypes ==
    ASSUME NEW r \in Requests
    PROVE  /\ r.tool \in Tools /\ r.names \in Dirs \cup {NoDir, BadDir}
           /\ r.key \in Keys \cup {NoKey} /\ r.args \in Args
           /\ r.job \in Calls \cup {NoJob} /\ r.status \in States \cup {"any"}
           /\ r.limit \in (Nat \ {0}) \cup {NoLimit}
  BY RequestsAssumption

LEMMA RunsAreFinite == IsFiniteSet(Runs) /\ Cardinality(Runs) \in Nat
<1>1. Runs \subseteq Calls
  BY DEF Runs
<1> QED
  BY <1>1, RequestsAssumption, FS_Subset, FS_CardinalityType

(* What a start leaves in the store.                                       *)
LEMMA StartIs ==
    ASSUME TypeOK, NEW c \in Calls, Start(c)
    PROVE  LET request == call[c].request
               at == call[c].at
               kept == Published(at.dir, request.key)
           IN  \/ /\ kept = {} /\ Answer(c, "started", Meta(at))
                  /\ job' \in [Calls -> JobRecords \cup {NoRun}]
                  /\ \A d \in Calls \ {c} : job'[d] = job[d]
                  /\ job'[c].state = "running" /\ job'[c].spec = at
                  /\ job'[c].key = request.key /\ job'[c].args = request.args
                  /\ job'[c].stored = Meta(at)
               \/ /\ \E j \in kept :
                        \/ job[j].args = request.args /\ Answer(c, "replayed", Meta(at))
                        \/ job[j].args # request.args /\ Answer(c, "conflict", Meta(at))
                  /\ job' = job
<1> DEFINE request == call[c].request
           at == call[c].at
           new == [state |-> "running", key |-> request.key, args |-> request.args,
                   spec |-> at, stored |-> Meta(at), began |-> Cardinality(Runs)]
<1>1. call[c] \in CallRecords
  BY RecordTypes DEF Start, Serves, Stage
<1>2. request \in Requests /\ at \in Places
  BY <1>1 DEF CallRecords
<1>3. new \in JobRecords
  BY <1>2, RequestTypes, NowhereType, RunsAreFinite DEF JobRecords, States
<1>4. CASE Published(at.dir, request.key) = {} /\ job' = [job EXCEPT ![c] = new]
           /\ Answer(c, "started", Meta(at))
  <2>1. /\ new.state = "running" /\ new.spec = at /\ new.key = request.key
        /\ new.args = request.args /\ new.stored = Meta(at)
    OBVIOUS
  <2> HIDE DEF new
  <2> QED
    BY <1>3, <1>4, <2>1 DEF TypeOK
<1>5. CASE /\ \E j \in Published(at.dir, request.key) :
                 Answer(c, IF Hash(job[j].args, job[j].spec) = Hash(request.args, at)
                           THEN "replayed" ELSE "conflict", Meta(at))
           /\ UNCHANGED job
  <2>1. PICK j \in Published(at.dir, request.key) :
                 Answer(c, IF job[j].args = request.args THEN "replayed" ELSE "conflict",
                        Meta(at))
    BY <1>5 DEF Hash
  <2> QED
    BY <1>5, <2>1
<1> QED
  BY <1>4, <1>5 DEF Start

(* What the worker leaves.                                                 *)
LEMMA WorkerEndsIs ==
    ASSUME TypeOK, NEW j \in Calls, WorkerEnds(j)
    PROVE  /\ job' \in [Calls -> JobRecords \cup {NoRun}]
           /\ \A i \in Calls \ {j} : job'[i] = job[i]
           /\ j \in Runs /\ job'[j].state \in {"done", "failed"}
           /\ job'[j].spec = job[j].spec /\ job'[j].key = job[j].key
           /\ job'[j].args = job[j].args /\ job'[j].stored = Meta(job[j].spec)
<1>1. PICK state \in {"done", "failed"} :
          job' = [job EXCEPT ![j].state = state, ![j].stored = Stored(job[j].spec)]
  BY DEF WorkerEnds
<1>2. j \in Runs
  BY DEF WorkerEnds, Runs, Ran
<1>3. job[j] \in JobRecords
  BY <1>2, RecordTypes
<1>4. Stored(job[j].spec) = Meta(job[j].spec) /\ Meta(job[j].spec) \in Metas
  BY <1>3, NowhereType DEF Stored, JobRecords
<1> DEFINE r == [job[j] EXCEPT !.state = state, !.stored = Meta(job[j].spec)]
<1>5. /\ r \in JobRecords /\ r.state = state /\ r.stored = Meta(job[j].spec)
      /\ r.spec = job[j].spec /\ r.key = job[j].key /\ r.args = job[j].args
  BY <1>3, <1>4 DEF JobRecords, States
<1>6. job' = [job EXCEPT ![j] = r]
  BY <1>1, <1>4
<1> HIDE DEF r
<1> QED
  BY <1>2, <1>5, <1>6 DEF TypeOK

(* What a handler that starts out, or that hears of the roots, knows.      *)
LEMMA AskIs ==
    ASSUME TypeOK, NEW c \in Calls, NEW request \in Requests, Ask(c, request)
    PROVE  /\ call' \in [Calls -> CallRecords \cup {IdleCall}]
           /\ \A d \in Calls \ {c} : call'[d] = call[d]
           /\ call'[c].request = request
           /\ \/ call'[c].stage = "probing"
              \/ call'[c] = Settled(request, {}, {}, "not_negotiated")
<1> DEFINE p == [stage |-> "probing", request |-> request, offered |-> {},
                 at |-> Nowhere, answer |-> NoAnswer]
           t == Settled(request, {}, {}, "not_negotiated")
<1>1. p \in CallRecords /\ p.stage = "probing" /\ p.request = request
  BY NowhereType DEF CallRecords
<1>2. t \in CallRecords /\ t.request = request
  <2>1. {} \in SUBSET Dirs /\ "not_negotiated" \in Probes
    BY DEF Probes
  <2>2. t \in CallRecords
    BY <2>1, SettledIs
  <2>3. t.request = request
    BY DEF Settled
  <2> QED
    BY <2>2, <2>3
<1>3. call' = [call EXCEPT ![c] = IF client.advertises THEN p ELSE t]
  BY DEF Ask
<1> HIDE DEF p, t
<1>4. /\ call' \in [Calls -> CallRecords \cup {IdleCall}]
      /\ \A d \in Calls \ {c} : call'[d] = call[d]
      /\ call'[c] = p \/ call'[c] = t
  BY <1>1, <1>2, <1>3 DEF TypeOK
<1> QED
  BY <1>1, <1>2, <1>4 DEF t

LEMMA ProbeEndsIs ==
    ASSUME TypeOK, NEW c \in Calls, ProbeEnds(c)
    PROVE  /\ call' \in [Calls -> CallRecords \cup {IdleCall}]
           /\ \A d \in Calls \ {c} : call'[d] = call[d]
           /\ client.roots \in SUBSET Dirs
           /\ call[c] \in CallRecords
           /\ \E probe \in {"client", "probe_failed"} :
                 call'[c] = Settled(call[c].request, client.roots,
                                    IF probe = "client" THEN client.roots ELSE {}, probe)
<1>1. call[c] \in CallRecords
  BY RecordTypes DEF ProbeEnds, Stage
<1>2. client.roots \in SUBSET Dirs
  BY ClientsAssumption DEF TypeOK
<1>3. PICK probe \in {"client", "probe_failed"} :
          call' = [call EXCEPT ![c] =
             Settled(call[c].request, client.roots,
                     IF probe = "client" THEN client.roots ELSE {}, probe)]
  BY DEF ProbeEnds
<1> DEFINE roots == IF probe = "client" THEN client.roots ELSE {}
           t == Settled(call[c].request, client.roots, roots, probe)
<1>4. call[c].request \in Requests
  BY <1>1 DEF CallRecords
<1>5. roots \in SUBSET Dirs /\ probe \in Probes
  BY <1>2 DEF Probes
<1>6. t \in CallRecords
  BY <1>2, <1>4, <1>5, SettledIs
<1>7. call' = [call EXCEPT ![c] = t]
  BY <1>3
<1> HIDE DEF t
<1>8. /\ call' \in [Calls -> CallRecords \cup {IdleCall}]
      /\ \A d \in Calls \ {c} : call'[d] = call[d]
      /\ call'[c] = t
  BY <1>6, <1>7 DEF TypeOK
<1> QED
  BY <1>1, <1>2, <1>8 DEF t

LEMMA FetchIs ==
    ASSUME TypeOK, NEW c \in Calls, Fetch(c)
    PROVE  LET j == call[c].request.job
               at == call[c].at
           IN  \/ j \notin Kept(at.dir) /\ Answer(c, "not_found", Meta(at))
               \/ j \in Runs /\ Answer(c, "result", job[j].stored)
               \/ Answer(c, "unfinished", Meta(at))
  BY DEF Fetch, Kept

(* A listing shows runs.                                                   *)
LEMMA ListIs ==
    ASSUME TypeOK, NEW c \in Calls, List(c)
    PROVE  /\ call' \in [Calls -> CallRecords \cup {IdleCall}]
           /\ \A d \in Calls \ {c} : call'[d] = call[d]
           /\ call'[c].stage = "answered" /\ call'[c].answer.verdict = "listing"
           /\ call'[c].answer.meta = Meta(call[c].at)
           /\ call'[c].answer.shown =
                 Listed(Kept(call[c].at.dir), call[c].request.status,
                        call[c].request.limit).shown
           /\ call'[c].answer.cut =
                 Listed(Kept(call[c].at.dir), call[c].request.status,
                        call[c].request.limit).cut
           /\ call'[c].request = call[c].request /\ call'[c].at = call[c].at
           /\ call'[c].offered = call[c].offered
<1> DEFINE listed == Listed(Kept(call[c].at.dir), call[c].request.status,
                            call[c].request.limit)
           reply == [verdict |-> "listing", meta |-> Meta(call[c].at),
                     shown |-> listed.shown, cut |-> listed.cut]
           r == [call[c] EXCEPT !.stage = "answered", !.answer = reply]
<1>1. call[c] \in CallRecords
  BY RecordTypes DEF List, Serves, Stage
<1>2. call[c].at \in Places
  BY <1>1 DEF CallRecords
<1>3. listed.shown \in SUBSET Calls /\ listed.cut \in BOOLEAN
  BY DEF Listed, Newest, Matching, Exceeds, Kept, Runs
<1>4. call' = [call EXCEPT ![c].stage = "answered", ![c].answer = reply]
  BY DEF List
<1> HIDE DEF listed
<1>5. reply \in Answers
  BY <1>2, <1>3, NowhereType DEF Answers, Verdicts
<1>6. /\ reply.verdict = "listing" /\ reply.meta = Meta(call[c].at)
      /\ reply.shown = listed.shown /\ reply.cut = listed.cut
  OBVIOUS
<1> HIDE DEF reply
<1>7. /\ r \in CallRecords /\ r.stage = "answered" /\ r.answer = reply
      /\ r.request = call[c].request /\ r.at = call[c].at /\ r.offered = call[c].offered
  BY <1>1, <1>5 DEF CallRecords
<1>8. call' = [call EXCEPT ![c] = r]
  BY <1>4
<1> HIDE DEF r
<1>9. /\ call' \in [Calls -> CallRecords \cup {IdleCall}]
      /\ \A d \in Calls \ {c} : call'[d] = call[d]
      /\ call'[c] = r
  BY <1>7, <1>8 DEF TypeOK
<1> QED
  BY <1>6, <1>7, <1>9 DEF listed

-----------------------------------------------------------------------------
(* Types are kept.                                                         *)
LEMMA TypesKept == TypeOK /\ [Next]_vars => TypeOK'
<1> SUFFICES ASSUME TypeOK, [Next]_vars  PROVE TypeOK'
  OBVIOUS
<1> DEFINE CallsTyped == call \in [Calls -> CallRecords \cup {IdleCall}]
           JobsTyped == job \in [Calls -> JobRecords \cup {NoRun}]
<1>1. ASSUME NEW c \in Calls, NEW request \in Requests, Ask(c, request)
      PROVE  TypeOK'
  <2>1. CallsTyped'
    BY <1>1, AskIs
  <2> QED
    BY <1>1, <2>1 DEF Ask, TypeOK
<1>2. ASSUME NEW c \in Calls, ProbeEnds(c)  PROVE TypeOK'
  <2>1. CallsTyped'
    BY <1>2, ProbeEndsIs
  <2> QED
    BY <1>2, <2>1 DEF ProbeEnds, TypeOK
<1>3. ASSUME NEW c \in Calls, Stage(c, "resolved")
      PROVE  /\ Meta(call[c].at) \in Metas
             /\ \A verdict \in Verdicts, meta \in Metas :
                   Answer(c, verdict, meta) => CallsTyped'
  <2>1. call[c] \in CallRecords
    BY <1>3, RecordTypes DEF Stage
  <2>2. Meta(call[c].at) \in Metas
    BY <2>1, NowhereType DEF CallRecords
  <2> QED
    BY <1>3, <2>2, AnswerType
<1>4. ASSUME NEW c \in Calls, Start(c)  PROVE TypeOK'
  <2>1. JobsTyped' /\ \E verdict \in {"started", "replayed", "conflict"} :
                        Answer(c, verdict, Meta(call[c].at))
    BY <1>4, StartIs DEF TypeOK
  <2>2. CallsTyped'
    BY <1>3, <1>4, <2>1 DEF Start, Serves, Verdicts
  <2> QED
    BY <1>4, <2>1, <2>2 DEF Start, TypeOK
<1>5. ASSUME NEW c \in Calls, Fetch(c)  PROVE TypeOK'
  <2>1. \A j \in Runs : job[j].stored \in Metas
    BY RecordTypes DEF JobRecords
  <2>2. \E verdict \in {"not_found", "result", "unfinished"}, meta \in Metas :
            Answer(c, verdict, meta)
    BY <1>3, <1>5, <2>1, FetchIs DEF Fetch, Serves
  <2>3. CallsTyped'
    BY <1>3, <1>5, <2>2 DEF Fetch, Serves, Verdicts
  <2> QED
    BY <1>5, <2>3 DEF Fetch, TypeOK
<1>6. ASSUME NEW c \in Calls, List(c)  PROVE TypeOK'
  <2>1. CallsTyped'
    BY <1>6, ListIs
  <2> QED
    BY <1>6, <2>1 DEF List, TypeOK
<1>7. ASSUME NEW j \in Calls, WorkerEnds(j)  PROVE TypeOK'
  <2>1. JobsTyped'
    BY <1>7, WorkerEndsIs
  <2> QED
    BY <1>7, <2>1 DEF WorkerEnds, TypeOK
<1>8. CASE RootsChange
  BY <1>8, ClientsAssumption DEF RootsChange, TypeOK
<1>9. CASE Reconnect
  <2>1. ASSUME NEW c \in Calls, call[c].stage \in {"probing", "resolved"}
        PROVE  [call[c] EXCEPT !.stage = "lost"] \in CallRecords
    <3>1. call[c] \in CallRecords
      BY <2>1, RecordTypes DEF Stage
    <3> QED
      BY <3>1 DEF CallRecords
  <2>2. CallsTyped'
    BY <1>9, <2>1 DEF Reconnect, TypeOK
  <2> QED
    BY <1>9, <2>2, ClientsAssumption DEF Reconnect, TypeOK
<1>10. CASE UNCHANGED vars
  BY <1>10 DEF vars, TypeOK
<1> QED
  BY <1>1, <1>2, <1>4, <1>5, <1>6, <1>7, <1>8, <1>9, <1>10 DEF Next

-----------------------------------------------------------------------------
(* What is known of a call, and of a run, does not get lost.               *)

(* Runs keep what they were started with, and new ones may come.           *)
JobsKeep ==
    \A j \in Runs :
        /\ j \in Runs'
        /\ job'[j].spec = job[j].spec /\ job'[j].key = job[j].key
        /\ job'[j].args = job[j].args

LEMMA CallInvKept ==
    ASSUME TypeOK, JobsKeep, NEW c \in Calls, CallInv(c), call'[c] = call[c]
    PROVE  CallInv(c)'
<1>1. Landed(c)' = Landed(c) /\ Roots(c)' = Roots(c) /\ WellPlaced(c)' = WellPlaced(c)
  BY DEF Landed, Roots, WellPlaced, Told, Stage
<1>2. ASSUME Stage(c, "answered")  PROVE WellAnswered(c)'
  <2>1. WellAnswered(c)
    BY <1>2 DEF CallInv
  <2>2. \A dir, key : \A j \in Published(dir, key) :
            j \in Published(dir, key)' /\ job'[j].args = job[j].args
    BY DEF JobsKeep, Published, Kept
  <2>3. call[c].answer.verdict = "started" => Ran(c)'
    BY <2>1 DEF WellAnswered, JobsKeep, Runs
  <2>4. call[c].answer.verdict = "conflict" =>
           \E j \in Published(call[c].at.dir, call[c].request.key)' :
               job'[j].args # call[c].request.args
    BY <2>1, <2>2 DEF WellAnswered
  <2> QED
    BY <2>1, <2>3, <2>4 DEF WellAnswered, JobsKeep, Published, Kept
<1> QED
  BY <1>1, <1>2 DEF CallInv, JobsKeep, Stage

LEMMA JobInvKept ==
    ASSUME NEW j \in Calls, JobInv(j), job'[j] = job[j],
           Stage(j, "answered") => call'[j] = call[j]
    PROVE  JobInv(j)'
  BY DEF JobInv, Ran, Told, Stage

(* One call takes a step, which was not answered before, and at most the   *)
(* run it starts is new.                                                   *)
LEMMA StepOfACall ==
    ASSUME Inv, TypeOK', JobsKeep, NEW c \in Calls, ~Stage(c, "answered"),
           \A d \in Calls \ {c} : call'[d] = call[d] /\ job'[d] = job[d],
           CallInv(c)', JobInv(c)', OneRunPerKeyAndPlace'
    PROVE  Inv'
<1>1. ASSUME NEW d \in Calls  PROVE CallInv(d)' /\ JobInv(d)'
  <2>1. CASE d = c
    BY <2>1
  <2>2. CASE d # c
    <3>1. CallInv(d) /\ JobInv(d) /\ call'[d] = call[d] /\ job'[d] = job[d]
      BY <2>2 DEF Inv
    <3> QED
      BY <3>1, CallInvKept, JobInvKept DEF Inv
  <2> QED
    BY <2>1, <2>2
<1> QED
  BY <1>1 DEF Inv

(* A step of a call that starts no run.                                    *)
LEMMA StepWithoutAStart ==
    ASSUME Inv, TypeOK', UNCHANGED job, NEW c \in Calls, ~Stage(c, "answered"),
           \A d \in Calls \ {c} : call'[d] = call[d], CallInv(c)'
    PROVE  Inv'
<1>1. JobsKeep /\ (OneRunPerKeyAndPlace' = OneRunPerKeyAndPlace)
  BY DEF JobsKeep, OneRunPerKeyAndPlace, Runs, Ran
<1>2. JobInv(c)'
  BY JobInvKept DEF Inv
<1> QED
  BY <1>1, <1>2, StepOfACall DEF Inv

(* A call that got its directory, or was refused one.                      *)
LEMMA SettledKnows ==
    ASSUME NEW c \in Calls, NEW request, NEW offered, NEW roots, NEW probe,
           roots = IF probe = "client" THEN offered ELSE {},
           call'[c] = Settled(request, offered, roots, probe),
           request.tool = "fetch" => request.job \in Runs'
    PROVE  CallInv(c)'
<1> DEFINE found == Resolution(request.names, roots)
<1>1. /\ call'[c].request = request /\ call'[c].offered = offered
      /\ call'[c].at.dir = found.dir /\ call'[c].at.source = found.source
      /\ call'[c].at.probe = probe
  BY DEF Settled
<1>2. \/ /\ call'[c].stage = "resolved" /\ found.source # "none"
      \/ /\ call'[c].stage = "answered"
         /\ call'[c].answer = Reply("refused", Meta(call'[c].at))
  BY DEF Settled, Refused
<1> HIDE DEF found
<1>3. Roots(c)' = roots
  BY <1>1 DEF Roots
<1>4. WellPlaced(c)'
  <2>1. Resolution(call'[c].request.names, Roots(c)') = found
    BY <1>1, <1>3 DEF found
  <2>2. ~Told(c, "refused")' => found.source # "none"
    BY <1>2 DEF Told, Stage, Reply
  <2> QED
    BY <1>1, <2>1, <2>2 DEF WellPlaced
<1>5. Stage(c, "answered")' => WellAnswered(c)'
  <2>1. CASE call'[c].stage = "resolved"
    BY <2>1 DEF Stage
  <2>2. CASE call'[c].answer = Reply("refused", Meta(call'[c].at))
    <3>1. /\ call'[c].answer.verdict = "refused"
          /\ call'[c].answer.meta = Meta(call'[c].at)
      BY <2>2 DEF Reply
    <3> QED
      BY <3>1 DEF WellAnswered, Meta, Warns
  <2> QED
    BY <1>2, <2>1, <2>2
<1> QED
  BY <1>1, <1>4, <1>5 DEF CallInv

(* A call that had its directory gets its answer.                          *)
LEMMA AnswerKnows ==
    ASSUME TypeOK, NEW c \in Calls, CallInv(c), Stage(c, "resolved"), JobsKeep,
           call'[c].stage = "answered", call'[c].request = call[c].request,
           call'[c].at = call[c].at, call'[c].offered = call[c].offered,
           WellAnswered(c)'
    PROVE  CallInv(c)'
<1>1. WellPlaced(c) /\ ~Told(c, "refused")
  BY DEF CallInv, Landed, Stage, Told
<1>2. Roots(c)' = Roots(c)
  BY DEF Roots
<1>3. WellPlaced(c)'
  BY <1>1, <1>2 DEF WellPlaced
<1>4. call[c].request.tool = "fetch" => call[c].request.job \in Runs'
  BY DEF CallInv, Stage, JobsKeep
<1> QED
  BY <1>3, <1>4 DEF CallInv

-----------------------------------------------------------------------------
(* The invariant, action by action.                                        *)
LEMMA SettlingKeepsInv ==
    ASSUME Inv, TypeOK', NEW c \in Calls,
           (\E request \in Requests : Ask(c, request)) \/ ProbeEnds(c)
    PROVE  Inv'
<1> USE DEF Inv
<1>1. UNCHANGED job /\ Runs' = Runs /\ ~Stage(c, "answered")
  BY DEF Ask, ProbeEnds, Stage, Runs, Ran
<1>2. ASSUME NEW request \in Requests, Ask(c, request)
      PROVE  CallInv(c)' /\ \A d \in Calls \ {c} : call'[d] = call[d]
  <2>1. request.tool = "fetch" => request.job \in Runs'
    BY <1>1, <1>2 DEF Ask
  <2>2. CASE call'[c].stage = "probing"
    BY <1>2, <2>1, <2>2, AskIs DEF CallInv, Landed, Stage
  <2>3. CASE call'[c] = Settled(request, {}, {}, "not_negotiated")
    <3>1. {} = IF "not_negotiated" = "client" THEN {} ELSE {}
      OBVIOUS
    <3>2. CallInv(c)'
      BY <2>1, <2>3, <3>1, SettledKnows
    <3> QED
      BY <1>2, <3>2, AskIs
  <2> QED
    BY <1>2, <2>2, <2>3, AskIs
<1>3. ASSUME ProbeEnds(c)
      PROVE  CallInv(c)' /\ \A d \in Calls \ {c} : call'[d] = call[d]
  <2>1. PICK probe \in {"client", "probe_failed"} :
            call'[c] = Settled(call[c].request, client.roots,
                               IF probe = "client" THEN client.roots ELSE {}, probe)
    BY <1>3, ProbeEndsIs
  <2>2. call[c].request.tool = "fetch" => call[c].request.job \in Runs'
    BY <1>1, <1>3 DEF CallInv, ProbeEnds, Stage
  <2> DEFINE request == call[c].request
             roots == IF probe = "client" THEN client.roots ELSE {}
  <2>3. call'[c] = Settled(request, client.roots, roots, probe)
    BY <2>1
  <2>4. CallInv(c)'
    BY <2>2, <2>3, SettledKnows
  <2> QED
    BY <1>3, <2>4, ProbeEndsIs
<1> QED
  BY <1>1, <1>2, <1>3, StepWithoutAStart

LEMMA StartKeepsInv ==
    ASSUME Inv, TypeOK', NEW c \in Calls, Start(c)
    PROVE  Inv'
<1> DEFINE request == call[c].request
           at == call[c].at
           kept == Published(at.dir, request.key)
<1>1. Stage(c, "resolved") /\ request.tool = "start" /\ TypeOK /\ CallInv(c) /\ JobInv(c)
  BY DEF Start, Serves, Inv
<1>2. ~Ran(c) /\ ~Stage(c, "answered")
  BY <1>1 DEF JobInv, Told, Stage
<1>3. Meta(at) \in Metas
  <2>1. call[c] \in CallRecords
    BY <1>1, RecordTypes DEF Stage
  <2> QED
    BY <2>1, NowhereType DEF CallRecords
<1>4. CASE /\ kept = {} /\ Answer(c, "started", Meta(at))
           /\ \A d \in Calls \ {c} : job'[d] = job[d]
           /\ job'[c].state = "running" /\ job'[c].spec = at
           /\ job'[c].key = request.key /\ job'[c].args = request.args
           /\ job'[c].stored = Meta(at)
  <2>1. /\ \A d \in Calls \ {c} : call'[d] = call[d]
        /\ call'[c].stage = "answered" /\ call'[c].answer = Reply("started", Meta(at))
        /\ call'[c].request = request /\ call'[c].at = at
        /\ call'[c].offered = call[c].offered
    BY <1>1, <1>3, <1>4, AnswerType DEF Verdicts
  <2>2. Runs' = Runs \cup {c}
    BY <1>4 DEF Runs, Ran
  <2>3. JobsKeep
    BY <1>2, <1>4, <2>2 DEF JobsKeep, Runs
  <2>4. call'[c].answer.verdict = "started" /\ call'[c].answer.meta = Meta(at)
    BY <2>1 DEF Reply
  <2>5. CallInv(c)'
    <3>1. WellAnswered(c)'
      BY <2>1, <2>2, <2>4 DEF WellAnswered, Runs, Meta, Warns
    <3> QED
      BY <1>1, <2>1, <2>3, <3>1, AnswerKnows
  <2>6. JobInv(c)'
    BY <1>1, <1>4, <2>1, <2>4 DEF JobInv, Told, Stage, Meta, Warns
  <2>7. OneRunPerKeyAndPlace'
    <3>1. \A i \in Runs :
             ~(job[i].key # NoKey /\ job[i].key = request.key /\ job[i].spec.dir = at.dir)
      BY <1>4 DEF Published, Kept
    <3>2. \A i \in Runs : i # c /\ job'[i] = job[i]
      BY <1>2, <1>4 DEF Runs
    <3>3. OneRunPerKeyAndPlace
      BY DEF Inv
    <3> QED
      BY <1>4, <2>2, <3>1, <3>2, <3>3 DEF OneRunPerKeyAndPlace
  <2> QED
    BY <1>2, <1>4, <2>1, <2>3, <2>5, <2>6, <2>7, StepOfACall
<1>5. CASE /\ job' = job
           /\ \E j \in kept :
                 \/ job[j].args = request.args /\ Answer(c, "replayed", Meta(at))
                 \/ job[j].args # request.args /\ Answer(c, "conflict", Meta(at))
  <2>1. PICK verdict \in {"replayed", "conflict"} :
           /\ Answer(c, verdict, Meta(at))
           /\ verdict = "conflict" => \E j \in kept : job[j].args # request.args
    BY <1>5
  <2>2. /\ \A d \in Calls \ {c} : call'[d] = call[d]
        /\ call'[c].stage = "answered" /\ call'[c].answer = Reply(verdict, Meta(at))
        /\ call'[c].request = request /\ call'[c].at = at
        /\ call'[c].offered = call[c].offered
    BY <1>1, <1>3, <2>1, AnswerType DEF Verdicts
  <2>3. JobsKeep /\ kept' = kept
    BY <1>5, <2>2 DEF JobsKeep, Published, Kept, Runs, Ran
  <2>4. call'[c].answer.verdict = verdict /\ call'[c].answer.meta = Meta(at)
    BY <2>2 DEF Reply
  <2>5. WellAnswered(c)'
    BY <1>5, <2>1, <2>2, <2>3, <2>4 DEF WellAnswered, Meta, Warns
  <2>6. CallInv(c)'
    BY <1>1, <2>2, <2>3, <2>5, AnswerKnows
  <2> QED
    BY <1>2, <1>5, <2>2, <2>6, StepWithoutAStart
<1> QED
  BY <1>1, <1>4, <1>5, StartIs

LEMMA FetchKeepsInv ==
    ASSUME Inv, TypeOK', NEW c \in Calls, Fetch(c)
    PROVE  Inv'
<1> DEFINE j == call[c].request.job
           at == call[c].at
<1>1. /\ Stage(c, "resolved") /\ TypeOK /\ CallInv(c) /\ UNCHANGED job
      /\ ~Stage(c, "answered") /\ call[c].request.tool = "fetch"
  BY DEF Fetch, Serves, Stage, Inv
<1>2. j \in Runs /\ Runs' = Runs /\ JobsKeep
  BY <1>1 DEF CallInv, Stage, JobsKeep, Runs, Ran
<1>3. call[c] \in CallRecords /\ job[j] \in JobRecords
  BY <1>1, <1>2, RecordTypes DEF Stage
<1>4. Meta(at) \in Metas /\ job[j].stored \in Metas
  BY <1>3, NowhereType DEF CallRecords, JobRecords
<1>5. job[j].stored = Meta(job[j].spec)
  BY <1>2 DEF Inv, JobInv, Runs
<1>6. PICK verdict \in {"not_found", "result", "unfinished"}, meta \in Metas :
         /\ Answer(c, verdict, meta)
         /\ verdict = "not_found" => j \notin Kept(at.dir)
         /\ verdict = "result" => meta = job[j].stored
         /\ verdict # "result" => meta = Meta(at)
  BY <1>1, <1>4, FetchIs
<1>7. /\ \A d \in Calls \ {c} : call'[d] = call[d]
      /\ call'[c].stage = "answered" /\ call'[c].answer = Reply(verdict, meta)
      /\ call'[c].request = call[c].request /\ call'[c].at = at
      /\ call'[c].offered = call[c].offered
  BY <1>1, <1>6, AnswerType DEF Verdicts
<1>8. call'[c].answer.verdict = verdict /\ call'[c].answer.meta = meta
  BY <1>7 DEF Reply
<1>9. WellAnswered(c)'
  <2>1. verdict = "not_found" => job[j].spec.dir # at.dir
    BY <1>2, <1>6 DEF Kept
  <2> QED
    BY <1>1, <1>2, <1>5, <1>6, <1>7, <1>8, <2>1 DEF WellAnswered, Meta, Warns
<1>10. CallInv(c)'
  BY <1>1, <1>2, <1>7, <1>9, AnswerKnows
<1> QED
  BY <1>1, <1>7, <1>10, StepWithoutAStart

LEMMA ListKeepsInv ==
    ASSUME Inv, TypeOK', NEW c \in Calls, List(c)
    PROVE  Inv'
<1>1. /\ Stage(c, "resolved") /\ TypeOK /\ CallInv(c) /\ UNCHANGED job
      /\ ~Stage(c, "answered")
  BY DEF List, Serves, Stage, Inv
<1>2. JobsKeep
  BY <1>1 DEF JobsKeep, Runs, Ran
<1>3. /\ \A d \in Calls \ {c} : call'[d] = call[d]
      /\ call'[c].stage = "answered" /\ call'[c].answer.verdict = "listing"
      /\ call'[c].answer.meta = Meta(call[c].at)
      /\ call'[c].request = call[c].request /\ call'[c].at = call[c].at
      /\ call'[c].offered = call[c].offered
  BY <1>1, ListIs
<1>4. WellAnswered(c)'
  BY <1>3 DEF WellAnswered, Meta, Warns
<1>5. CallInv(c)'
  BY <1>1, <1>2, <1>3, <1>4, AnswerKnows
<1> QED
  BY <1>1, <1>3, <1>5, StepWithoutAStart

LEMMA WorkerKeepsInv ==
    ASSUME Inv, TypeOK', NEW j \in Calls, WorkerEnds(j)
    PROVE  Inv'
<1>1. TypeOK /\ UNCHANGED call
  BY DEF Inv, WorkerEnds
<1>2. /\ \A i \in Calls \ {j} : job'[i] = job[i]
      /\ j \in Runs /\ job'[j].state \in {"done", "failed"}
      /\ job'[j].spec = job[j].spec /\ job'[j].key = job[j].key
      /\ job'[j].args = job[j].args /\ job'[j].stored = Meta(job[j].spec)
  BY <1>1, WorkerEndsIs
<1>3. Runs' = Runs
  BY <1>2 DEF Runs, Ran
<1>4. JobsKeep
  BY <1>2, <1>3 DEF JobsKeep, Runs
<1>5. ASSUME NEW c \in Calls  PROVE CallInv(c)' /\ JobInv(c)'
  <2>1. CallInv(c) /\ JobInv(c)
    BY DEF Inv
  <2>2. CallInv(c)'
    BY <1>1, <1>4, <2>1, CallInvKept
  <2>3. ASSUME c = j  PROVE JobInv(c)'
    BY <1>1, <1>2, <2>1, <2>3 DEF JobInv, Runs, Told, Stage, Meta, Warns
  <2>4. ASSUME c # j  PROVE JobInv(c)'
    BY <1>1, <1>2, <2>1, <2>4, JobInvKept
  <2> QED
    BY <2>2, <2>3, <2>4
<1>6. OneRunPerKeyAndPlace'
  <2>1. \A i \in Runs : job'[i].key = job[i].key /\ job'[i].spec = job[i].spec
    BY <1>4 DEF JobsKeep
  <2> QED
    BY <1>3, <2>1 DEF Inv, OneRunPerKeyAndPlace
<1> QED
  BY <1>5, <1>6 DEF Inv

LEMMA ClientKeepsInv ==
    ASSUME Inv, TypeOK', RootsChange \/ Reconnect \/ UNCHANGED vars
    PROVE  Inv'
<1>1. UNCHANGED job /\ JobsKeep
  BY DEF RootsChange, Reconnect, vars, JobsKeep, Runs, Ran
<1>2. ASSUME NEW c \in Calls
      PROVE  \/ call'[c] = call[c]
             \/ /\ call[c] \in CallRecords /\ ~Stage(c, "answered")
                /\ call'[c] = [call[c] EXCEPT !.stage = "lost"]
  BY RecordTypes DEF RootsChange, Reconnect, vars, Inv, TypeOK, Stage
<1>3. ASSUME NEW c \in Calls  PROVE CallInv(c)' /\ JobInv(c)'
  <2>1. CallInv(c) /\ JobInv(c) /\ TypeOK
    BY DEF Inv
  <2>2. CASE call'[c] = call[c]
    <3>1. CallInv(c)'
      BY <1>1, <2>1, <2>2, CallInvKept
    <3>2. JobInv(c)'
      BY <1>1, <2>1, <2>2, JobInvKept
    <3> QED
      BY <3>1, <3>2
  <2>3. CASE /\ call[c] \in CallRecords /\ ~Stage(c, "answered")
             /\ call'[c] = [call[c] EXCEPT !.stage = "lost"]
    <3>1. call'[c].stage = "lost" /\ call'[c].request = call[c].request
      BY <2>3 DEF CallRecords
    <3>2. call[c].stage # "idle"
      BY <2>3 DEF CallRecords
    <3>3. CallInv(c)'
      BY <1>1, <2>1, <3>1, <3>2 DEF CallInv, Landed, Stage, JobsKeep
    <3>4. JobInv(c)'
      BY <1>1, <2>1, <2>3, JobInvKept
    <3> QED
      BY <3>3, <3>4
  <2> QED
    BY <1>2, <2>2, <2>3
<1>4. OneRunPerKeyAndPlace'
  BY <1>1 DEF Inv, OneRunPerKeyAndPlace, Runs, Ran
<1> QED
  BY <1>3, <1>4 DEF Inv

LEMMA InvInit == Init => Inv
<1> SUFFICES ASSUME Init  PROVE Inv
  OBVIOUS
<1>1. Runs = {}
  BY DEF Init, Runs, Ran, NoRun
<1>2. TypeOK
  BY ClientsAssumption DEF Init, TypeOK
<1>3. \A c \in Calls : CallInv(c) /\ JobInv(c)
  BY <1>1 DEF Init, CallInv, JobInv, Landed, Stage, IdleCall, Runs
<1> QED
  BY <1>1, <1>2, <1>3 DEF Inv, OneRunPerKeyAndPlace

(***************************************************************************)
(* The invariant: where a call went follows from what it named and heard,  *)
(* and what it was told from where it went; and there is one run of a key  *)
(* in a directory.                                                         *)
(***************************************************************************)
THEOREM PlacesInvariant == Spec => []Inv
<1>1. ASSUME Inv, [Next]_vars  PROVE Inv'
  <2>1. TypeOK'
    BY <1>1, TypesKept DEF Inv
  <2> QED
    BY <1>1, <2>1, SettlingKeepsInv, StartKeepsInv, FetchKeepsInv, ListKeepsInv,
       WorkerKeepsInv, ClientKeepsInv DEF Next
<1> QED
  BY <1>1, InvInit, PTL DEF Spec

-----------------------------------------------------------------------------
(* The promises.                                                           *)

(* A run is where its start was resolved to.                               *)
LEMMA RunsArePlaced ==
    ASSUME Inv, NEW j \in Calls, Ran(j)
    PROVE  LET found == Resolution(call[j].request.names, Roots(j))
           IN  /\ job[j].spec = call[j].at
               /\ job[j].spec.dir = found.dir /\ job[j].spec.source = found.source
               /\ found.source # "none"
               /\ call[j].answer.meta = Meta(job[j].spec)
<1>1. Told(j, "started") /\ job[j].spec = call[j].at
  BY DEF Inv, JobInv
<1>2. Landed(j) /\ ~Told(j, "refused") /\ Stage(j, "answered")
  BY <1>1 DEF Landed, Told, Stage
<1>3. WellPlaced(j) /\ WellAnswered(j)
  BY <1>2 DEF Inv, CallInv
<1> QED
  BY <1>1, <1>2, <1>3 DEF WellPlaced, WellAnswered, Told, Stage

(***************************************************************************)
(* server._prepare_consult: a run works where its caller sent it, never    *)
(* where an error left the path open.                                      *)
(***************************************************************************)
THEOREM RunsWorkWhereTheyWereSent == Spec => []RunsStayInBounds
<1>1. ASSUME Inv, NEW c \in Calls, Ran(c)
      PROVE  LET named == call[c].request.names
                 dir == job[c].spec.dir
             IN  \/ named = dir /\ (Roots(c) = {} \/ Enclosing[dir] \cap Roots(c) # {})
                 \/ named = NoDir /\ dir \in Roots(c)
                 \/ named = NoDir /\ Roots(c) = {} /\ dir = ServerDir
  <2> DEFINE named == call[c].request.names
             found == Resolution(named, Roots(c))
  <2>1. job[c].spec.dir = found.dir /\ found.source # "none"
    BY <1>1, RunsArePlaced
  <2>2. named \in Dirs \cup {NoDir, BadDir}
    <3>1. call[c] \in CallRecords
      BY <1>1, RecordTypes DEF Inv, JobInv, Told, Stage
    <3> QED
      BY <3>1, RequestTypes DEF CallRecords
  <2>3. named # BadDir /\ ~Outside(named, Roots(c))
    BY <2>1 DEF Resolution
  <2>4. CASE named \in Dirs
    BY <2>1, <2>3, <2>4, DirsAssumption DEF Resolution, Outside
  <2>5. CASE named = NoDir
    <3>1. Roots(c) # {} => (CHOOSE r \in Roots(c) : TRUE) \in Roots(c)
      OBVIOUS
    <3> QED
      BY <2>1, <2>3, <2>5, <3>1, DirsAssumption DEF Resolution
  <2> QED
    BY <2>2, <2>3, <2>4, <2>5
<1>2. Inv => RunsStayInBounds
  BY <1>1 DEF RunsStayInBounds
<1> QED
  BY <1>2, PlacesInvariant, PTL

(***************************************************************************)
(* workspace_root is durable: who names the directory of a run meets it.   *)
(***************************************************************************)
THEOREM WhoNamesAWorkspaceMeetsItsRuns == Spec => []NamedCallsMeet
<1>1. ASSUME Inv, NEW c \in Calls, NEW j \in Calls, Ran(j), c # j,
             call[c].request.names = job[j].spec.dir
      PROVE  /\ SameRequest(c, j) => ~Ran(c) /\ ~Told(c, "conflict")
             /\ Told(c, "not_found") => call[c].request.job # j
  <2>1. /\ j \in Runs /\ job[j].spec = call[j].at
        /\ job[j].key = call[j].request.key /\ job[j].args = call[j].request.args
    BY <1>1 DEF Inv, JobInv, Runs
  <2>2. job[j].spec.dir \in Dirs
    BY <1>1, <2>1, RecordTypes DEF Inv, JobRecords, Places
  <2>3. ASSUME Landed(c), ~Told(c, "refused")  PROVE call[c].at.dir = job[j].spec.dir
    <3>1. WellPlaced(c)
      BY <1>1, <2>3 DEF Inv, CallInv
    <3> QED
      BY <1>1, <2>2, <2>3, <3>1 DEF WellPlaced, Resolution
  <2>4. ASSUME SameRequest(c, j), Ran(c)  PROVE FALSE
    <3>1. /\ c \in Runs /\ job[c].spec = call[c].at /\ job[c].key = call[c].request.key
          /\ Told(c, "started")
      BY <1>1, <2>4 DEF Inv, JobInv, Runs
    <3>2. call[c].at.dir = job[j].spec.dir
      BY <2>3, <3>1 DEF Landed, Told, Stage
    <3> QED
      BY <1>1, <2>1, <2>4, <3>1, <3>2 DEF Inv, OneRunPerKeyAndPlace, SameRequest
  <2>5. ASSUME SameRequest(c, j), Told(c, "conflict")  PROVE FALSE
    <3>1. WellAnswered(c)
      BY <1>1, <2>5 DEF Inv, CallInv, Told
    <3>2. PICK i \in Published(call[c].at.dir, call[c].request.key) :
             job[i].args # call[c].request.args
      BY <2>5, <3>1 DEF WellAnswered, Told
    <3>3. call[c].at.dir = job[j].spec.dir
      BY <2>3, <2>5 DEF Landed, Told, Stage
    <3>4. i = j
      BY <1>1, <2>1, <2>5, <3>2, <3>3
         DEF Inv, OneRunPerKeyAndPlace, SameRequest, Published, Kept
    <3> QED
      BY <2>1, <2>5, <3>2, <3>4 DEF SameRequest
  <2>6. ASSUME Told(c, "not_found"), call[c].request.job = j  PROVE FALSE
    <3>1. WellAnswered(c)
      BY <1>1, <2>6 DEF Inv, CallInv, Told
    <3>2. call[c].at.dir = job[j].spec.dir
      BY <2>3, <2>6 DEF Landed, Told, Stage
    <3> QED
      BY <2>6, <3>1, <3>2 DEF WellAnswered, Told
  <2> QED
    BY <2>4, <2>5, <2>6
<1>2. Inv => NamedCallsMeet
  BY <1>1 DEF NamedCallsMeet
<1> QED
  BY <1>2, PlacesInvariant, PTL

(***************************************************************************)
(* A call that strays for want of an answer about the roots is told so, or *)
(* the one that it misses was.                                             *)
(***************************************************************************)
THEOREM WhoStraysIsWarned == Spec => []StrayCallsAreFlagged
<1>1. ASSUME Inv, NEW c \in Calls, NEW j \in Calls, Ran(j), c # j,
             \/ Told(c, "started") /\ SameRequest(c, j)
             \/ Told(c, "not_found") /\ call[c].request.job = j,
             call[c].request.names = NoDir, call[j].request.names = NoDir,
             call[c].offered = call[j].offered,
             ~call[c].answer.meta.warned, ~call[j].answer.meta.warned
      PROVE  FALSE
  <2>1. WellPlaced(c) /\ WellAnswered(c) /\ ~Told(c, "refused")
    BY <1>1 DEF Inv, CallInv, Landed, Told, Stage
  <2>2. /\ call[c].answer.meta = Meta(call[c].at)
        /\ call[j].answer.meta = Meta(job[j].spec) /\ job[j].spec = call[j].at
    BY <1>1, <2>1, RunsArePlaced DEF WellAnswered, Told
  <2>3. call[c].at.source # "cwd" /\ call[j].at.source # "cwd"
    <3>1. ASSUME NEW at, at.source = "cwd"  PROVE Meta(at).warned
      <4>1. Warns(at)
        BY <3>1 DEF Warns
      <4>2. Meta(at).warned = Warns(at)
        BY DEF Meta
      <4> QED
        BY <4>1, <4>2
    <3> QED
      BY <1>1, <2>2, <3>1
  <2>4. WellPlaced(j)
    BY <1>1 DEF Inv, CallInv, JobInv, Landed, Told, Stage
  <2>5. Roots(c) # {} /\ call[c].at.dir = CHOOSE r \in Roots(c) : TRUE
    BY <1>1, <2>1, <2>3, DirsAssumption DEF WellPlaced, Resolution, Outside
  <2>6. Roots(j) # {} /\ call[j].at.dir = CHOOSE r \in Roots(j) : TRUE
    BY <1>1, <2>3, <2>4, DirsAssumption DEF WellPlaced, Resolution, Outside
  <2>7. Roots(c) = Roots(j)
    BY <1>1, <2>5, <2>6 DEF Roots
  <2>8. call[c].at.dir = job[j].spec.dir
    BY <2>2, <2>5, <2>6, <2>7
  <2>9. CASE Told(c, "started") /\ SameRequest(c, j)
    <3>1. Ran(c)
      BY <2>1, <2>9 DEF WellAnswered, Told
    <3>2. /\ job[c].spec = call[c].at /\ job[c].key = call[c].request.key
          /\ job[j].key = call[j].request.key /\ c \in Runs /\ j \in Runs
      BY <1>1, <3>1 DEF Inv, JobInv, Runs
    <3> QED
      BY <1>1, <2>8, <2>9, <3>2 DEF Inv, OneRunPerKeyAndPlace, SameRequest
  <2>10. CASE Told(c, "not_found") /\ call[c].request.job = j
    BY <2>1, <2>8, <2>10 DEF WellAnswered, Told
  <2> QED
    BY <1>1, <2>9, <2>10
<1>2. Inv => StrayCallsAreFlagged
  BY <1>1 DEF StrayCallsAreFlagged
<1> QED
  BY <1>2, PlacesInvariant, PTL

(***************************************************************************)
(* A result keeps the provenance of its run through the spec, the worker   *)
(* and the record; every other answer has that of its own call.            *)
(***************************************************************************)
THEOREM ProvenanceSurvivesTheStore == Spec => []AnswersNameTheirOrigin
<1>1. ASSUME Inv, NEW c \in Calls, Stage(c, "answered")
      PROVE  call[c].answer.meta =
                Meta(call[IF Told(c, "result") THEN call[c].request.job ELSE c].at)
  <2>1. WellAnswered(c)
    BY <1>1 DEF Inv, CallInv
  <2>2. CASE Told(c, "result")
    <3>1. /\ call[c].request.job \in Runs
          /\ call[c].answer.meta = Meta(job[call[c].request.job].spec)
      BY <2>1, <2>2 DEF WellAnswered, Told
    <3>2. job[call[c].request.job].spec = call[call[c].request.job].at
      BY <1>1, <3>1 DEF Inv, JobInv, Runs
    <3> QED
      BY <2>2, <3>1, <3>2
  <2>3. CASE ~Told(c, "result")
    BY <1>1, <2>1, <2>3 DEF WellAnswered, Told
  <2> QED
    BY <2>2, <2>3
<1>2. Inv => AnswersNameTheirOrigin
  BY <1>1 DEF AnswersNameTheirOrigin
<1> QED
  BY <1>2, PlacesInvariant, PTL

(* The limit keeps the newest; of runs that were left out, none is newer   *)
(* than one that was kept.                                                 *)
LEMMA NewestAreNewer ==
    ASSUME Inv, NEW rows \in SUBSET Runs,
           NEW limit \in (Nat \ {0}) \cup {NoLimit}, Exceeds(rows, limit),
           NEW i \in Newest(rows, limit), NEW j \in rows \ Newest(rows, limit)
    PROVE  job[i].began > job[j].began
<1> DEFINE Newer(k) == {h \in rows : job[h].began > job[k].began}
<1>1. /\ i \in rows /\ Cardinality(Newer(i)) < limit
      /\ ~(Cardinality(Newer(j)) < limit) /\ limit \in Nat
  BY DEF Newest, Exceeds
<1>2. \A k \in rows : job[k].began \in Nat
  BY RecordTypes DEF Inv, JobRecords
<1>3. IsFiniteSet(rows)
  BY RunsAreFinite, FS_Subset
<1>4. IsFiniteSet(Newer(i)) /\ IsFiniteSet(Newer(j))
  BY <1>3, FS_Subset
<1>5. Cardinality(Newer(i)) \in Nat /\ Cardinality(Newer(j)) \in Nat
  BY <1>4, FS_CardinalityType
<1>6. ASSUME ~(job[i].began > job[j].began)  PROVE FALSE
  <2>1. Newer(j) \subseteq Newer(i)
    BY <1>1, <1>2, <1>6
  <2>2. Cardinality(Newer(j)) <= Cardinality(Newer(i))
    BY <1>4, <2>1, FS_Subset
  <2> HIDE DEF Newer
  <2> QED
    BY <1>1, <1>5, <2>2
<1> QED
  BY <1>6

(***************************************************************************)
(* codex_job_list loses nothing silently: what it leaves out is older than *)
(* what it shows, and it says so.                                          *)
(***************************************************************************)
THEOREM ListingsLoseNothingSilently == Spec => ListingsAreComplete
<1>1. ASSUME Inv, [Next]_vars, NEW c \in Calls, Serves(c, "list"), Told(c, "listing")'
      PROVE  IsListed(c)
  <2>1. TypeOK /\ call[c] \in CallRecords
    BY <1>1, RecordTypes DEF Inv, Serves, Stage
  <2>2. List(c)
    <3>1. call'[c] # call[c]
      BY <1>1 DEF Serves, Told, Stage
    <3>2. ASSUME NEW d \in Calls, d # c,
                 (\E r \in Requests : Ask(d, r)) \/ ProbeEnds(d) \/ Start(d) \/ Fetch(d)
                   \/ List(d)
          PROVE  call'[c] = call[c]
      BY <2>1, <3>2 DEF Ask, ProbeEnds, Start, Fetch, List, Answer, TypeOK
    <3>3. ~(\E r \in Requests : Ask(c, r)) /\ ~ProbeEnds(c) /\ ~Start(c) /\ ~Fetch(c)
      BY <1>1 DEF Ask, ProbeEnds, Start, Fetch, Serves, Stage
    <3>4. ~Reconnect
      <4>1. ASSUME Reconnect  PROVE call'[c] = [call[c] EXCEPT !.stage = "lost"]
        BY <1>1, <4>1, <2>1 DEF Reconnect, Serves, Stage, TypeOK
      <4>2. [call[c] EXCEPT !.stage = "lost"].stage = "lost"
        BY <2>1 DEF CallRecords
      <4> QED
        BY <1>1, <4>1, <4>2 DEF Told, Stage
    <3>5. (\E d \in Calls : WorkerEnds(d)) \/ RootsChange \/ UNCHANGED vars
             => call'[c] = call[c]
      BY DEF WorkerEnds, RootsChange, vars
    <3> QED
      BY <1>1, <3>1, <3>2, <3>3, <3>4, <3>5 DEF Next
  <2> DEFINE request == call[c].request
             kept == Kept(call[c].at.dir)
             matching == Matching(kept, request.status)
  <2>3. /\ call'[c].answer.shown = Newest(matching, request.limit)
        /\ call'[c].answer.cut = Exceeds(matching, request.limit)
    BY <2>1, <2>2, ListIs DEF Listed
  <2>4. request.limit \in (Nat \ {0}) \cup {NoLimit}
    BY <2>1, RequestTypes DEF CallRecords
  <2>5. \A j \in Calls :
           j \in matching <=> /\ Ran(j) /\ job[j].spec.dir = call[c].at.dir
                              /\ request.status \in {"any", job[j].state}
    BY DEF Matching, Kept, Runs
  <2>6. matching \subseteq Runs /\ Newest(matching, request.limit) \subseteq matching
    BY DEF Matching, Kept, Newest
  <2>7. ASSUME NEW j \in matching, j \notin Newest(matching, request.limit)
        PROVE  /\ Exceeds(matching, request.limit)
               /\ \A i \in Newest(matching, request.limit) : job[i].began > job[j].began
    <3>1. Exceeds(matching, request.limit)
      BY <2>7 DEF Newest
    <3> HIDE DEF matching, request
    <3> QED
      BY <1>1, <2>4, <2>6, <2>7, <3>1, NewestAreNewer
  <2> HIDE DEF matching, kept
  <2> QED
    BY <2>3, <2>5, <2>6, <2>7 DEF IsListed
<1>2. Inv /\ [Next]_vars =>
         \A c \in Calls : Serves(c, "list") /\ Told(c, "listing")' => IsListed(c)
  BY <1>1
<1> QED
  BY <1>2, PlacesInvariant, PTL DEF ListingsAreComplete, Spec
=============================================================================

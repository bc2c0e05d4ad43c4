--------------------------- MODULE AppServerProofs ---------------------------
(***************************************************************************)
(* Theorems about AppServer, for any number of calls, process ids, lines    *)
(* and versions.                                                            *)
(***************************************************************************)
EXTENDS AppServer, TLAPS

(* The library's facts about sequences, at the messages.                    *)
LEMMA QueueFacts ==
  ASSUME NEW S, NEW q \in Seq(S), q # <<>>
  PROVE  Head(q) \in S /\ Tail(q) \in Seq(S) /\ Len(Tail(q)) = Len(q) - 1
OBVIOUS

LEMMA AppendFacts ==
  ASSUME NEW S, NEW q \in Seq(S), NEW m \in S
  PROVE  Append(q, m) \in Seq(S) /\ Len(Append(q, m)) = Len(q) + 1
OBVIOUS

LEMMA MessageFacts ==
  /\ \A m \in Messages : m.thread \in Versions
  /\ {Eof, BadLine, NoReport} \subseteq Messages
  /\ \A c \in Calls : Wire[c] \subseteq Messages
  /\ \A s \in {"target", "invalid", "failures", "empty"}, v \in Versions :
       Completed(s, v) \in Notices
<1>1. MaxVersion \in Nat
  BY AppServerAssumption
<1>2. \A m \in Messages : m.thread \in Versions
  BY <1>1 DEF Messages, Notices, Versions, InitResponses, Responses, Guesses, Other, Eof,
              BadLine, HangUp, Line, Completed
<1>3. {Eof, BadLine, NoReport} \subseteq Messages
  BY DEF Messages, NoReport
<1>4. \A s \in {"target", "invalid", "failures", "empty"}, v \in Versions :
        Completed(s, v) \in Notices
  BY DEF Notices
<1>5. \A c \in Calls : Wire[c] \subseteq Messages
  <2>1. 0 \in Versions
    BY <1>1 DEF Versions
  <2>2. Completed("empty", 0) \in Messages
    BY <1>4, <2>1 DEF Messages
  <2>. QED  BY <2>2, AppServerAssumption DEF Messages
<1>. QED  BY <1>2, <1>3, <1>4, <1>5

(* What a settling call may answer is a status of the type.                 *)
LEMMA OutcomeFacts ==
  ASSUME TypeOK, NEW c \in Calls, verdict[c] # "none", NEW o \in Outcomes(c)
  PROVE  /\ o[1] \in Facts \cup Failures
         /\ o[2] \in Versions
         /\ o[1] \in Facts => verdict[c] = "completed" \/ verdict[c] \in Facts
<1>1. MaxVersion \in Nat
  BY AppServerAssumption
<1>2. notice[c].thread \in Versions /\ LedgerLookup \subseteq Versions
  BY <1>1, MessageFacts DEF TypeOK, LedgerLookup, Versions
<1>3. CASE verdict[c] = "completed"
  BY <1>1, <1>2, <1>3 DEF Outcomes, Resolved, Facts, Failures, Versions
<1>4. CASE verdict[c] # "completed"
  BY <1>1, <1>4 DEF Outcomes, TypeOK, Facts, Failures, Versions
<1>. QED  BY <1>3, <1>4

LEMMA VerdictFacts ==
  ASSUME NEW c \in Calls, NEW m
  PROVE  /\ Verdict(c, m) \in Facts \cup Failures
         /\ Verdict(c, m) \in Facts => ~Breaks(c, m) /\ ~IsError(m)
BY DEF Verdict, Classified, ParsedRateLimits, Facts, Failures

-----------------------------------------------------------------------------
(* Type correctness                                                         *)

LEMMA LoopTypes ==
  ASSUME TypeOK, NEW c \in Calls, Loop(c) \/ Raise(c), verdict[c] # "none" \/ place[c] # "settling"
  PROVE  TypeOK'
<1>. USE DEF TypeOK, loopVars, threadVars, childVars, worldVars, Places, Facts,
             Failures
<1>1. CASE Spawn(c)
  <2>1. UNCHANGED <<tool, stop, late, home, asked, verdict, notice, thread, tail,
                    held, inbox, released, pipe, wrote, words, imports, report,
                    worldVars>>
    BY <1>1 DEF Spawn
  <2>2. ASSUME Goto(c, "returned"),
               status' = [status EXCEPT ![c] = "spawn_failed"],
               UNCHANGED <<child, pid, reader>>
        PROVE  TypeOK'
    BY <2>1, <2>2 DEF Goto
  <2>3. ASSUME NEW p \in FreePids,
               Goto(c, "turning"), child' = [child EXCEPT ![c] = "running"],
               pid' = [pid EXCEPT ![c] = p],
               reader' = [reader EXCEPT ![c] = "reading"], UNCHANGED status
        PROVE  TypeOK'
    BY <2>1, <2>3 DEF Goto, FreePids
  <2>. QED  BY <1>1, <2>2, <2>3 DEF Spawn
<1>2. CASE Turn(c)
  <2>1. UNCHANGED <<tool, stop, late, home, asked, notice, status, thread, tail,
                    threadVars, childVars, worldVars>>
    BY <1>2 DEF Turn
  <2>2. ASSUME NEW v \in {"stopped", "timed_out"}, Settle(c, v) PROVE TypeOK'
    BY <2>1, <2>2 DEF Settle, Goto
  <2>3. ASSUME Goto(c, "getting"), UNCHANGED verdict PROVE TypeOK'
    BY <2>1, <2>3 DEF Goto
  <2>. QED  BY <1>2, <2>2, <2>3 DEF Turn
<1>3. CASE GetNothing(c)
  BY <1>3 DEF GetNothing, Goto, Settle
<1>4. ASSUME NEW m \in Messages, Take(c, m)
      PROVE  /\ inbox' \in [Calls -> Seq(Messages)]
             /\ \A d \in Calls : Len(inbox'[d]) <= QueueCap
  <2>1. Tail(inbox[c]) \in Seq(Messages)
    BY <1>4, QueueFacts DEF Take
  <2>2. Len(Tail(inbox[c])) = Len(inbox[c]) - 1 /\ Len(inbox[c]) \in Nat
    BY <1>4, QueueFacts DEF Take
  <2>3. inbox' = [inbox EXCEPT ![c] = Tail(inbox[c])]
    BY <1>4 DEF Take
  <2>4. QueueCap \in Nat
    BY AppServerAssumption
  <2>. QED  BY <2>1, <2>2, <2>3, <2>4
<1>5. ASSUME NEW m \in Messages, Handshake(c, m) PROVE TypeOK'
  BY <1>4, <1>5 DEF Handshake, Goto, Settle
<1>6. ASSUME NEW m \in Messages, Conclude(c, m) PROVE TypeOK'
  BY <1>4, <1>6, VerdictFacts DEF Conclude, Goto, Settle
<1>7. ASSUME NEW m \in Messages, Complete(c, m) PROVE TypeOK'
  BY <1>4, <1>7 DEF Complete, Goto, Settle
<1>8. ASSUME NEW m \in Messages, Ignore(c, m) PROVE TypeOK'
  BY <1>4, <1>8 DEF Ignore, Goto, Settle
<1>9. CASE Release(c)
  BY <1>9 DEF Release, Goto, Settle
<1>10. CASE Kill(c)
  BY <1>10 DEF Kill, KillGroup, Goto
<1>11. CASE Reap(c)
  <2>1. PICK now \in {child[c], "reaped"} : child' = [child EXCEPT ![c] = now]
    BY <1>11 DEF Reap
  <2>. QED  BY <1>11, <2>1 DEF Reap, Goto
<1>12. CASE Answer(c)
  <2>1. verdict[c] # "none"
    BY <1>12 DEF Answer
  <2>2. PICK o \in Outcomes(c) : /\ status' = [status EXCEPT ![c] = o[1]]
                                 /\ thread' = [thread EXCEPT ![c] = o[2]]
    BY <1>12 DEF Answer
  <2>3. o[1] \in Facts \cup Failures /\ o[2] \in Versions
    BY <2>1, OutcomeFacts
  <2>4. ShowsTail(c) \in BOOLEAN
    BY DEF ShowsTail
  <2>. QED  BY <1>12, <2>2, <2>3, <2>4 DEF Answer, Goto
<1>13. CASE Raise(c)
  BY <1>13 DEF Raise, Goto, Settle
<1>. QED  BY <1>1, <1>2, <1>3, <1>5, <1>6, <1>7, <1>8, <1>9, <1>10, <1>11, <1>12,
             <1>13 DEF Loop, Handle, Queued

LEMMA ThreadTypes ==
  ASSUME TypeOK, NEW c \in Calls, Threads(c)
  PROVE  TypeOK'
<1>. USE DEF TypeOK, loopVars, threadVars, childVars, worldVars, AfterPut
<1>1. Eof \in Messages /\ BadLine \in Messages
  BY MessageFacts
<1>2. CASE ReadLine(c)
  <2>1. Head(pipe[c]) \in Messages /\ Tail(pipe[c]) \in Seq(Messages)
    BY <1>2, QueueFacts DEF ReadLine
  <2>2. ASSUME NEW m \in Messages, Hold(c, m)
        PROVE  /\ reader' \in [Calls -> {"none", "reading", "putting", "gone"}]
               /\ held' \in [Calls -> Messages]
    BY <2>2 DEF Hold
  <2>3. \/ \E m \in Messages : Hold(c, m)
        \/ UNCHANGED <<reader, held>>
    BY <1>1, <1>2, <2>1 DEF ReadLine
  <2>4. /\ reader' \in [Calls -> {"none", "reading", "putting", "gone"}]
        /\ held' \in [Calls -> Messages]
    BY <2>2, <2>3
  <2>5. pipe' \in [Calls -> Seq(Messages)]
    BY <1>2, <2>1 DEF ReadLine
  <2>. QED  BY <1>2, <2>4, <2>5 DEF ReadLine
<1>3. CASE ReadEof(c)
  BY <1>1, <1>3 DEF ReadEof, Hold
<1>4. CASE Put(c)
  <2>1. /\ Append(inbox[c], held[c]) \in Seq(Messages)
        /\ Len(Append(inbox[c], held[c])) = Len(inbox[c]) + 1
    BY AppendFacts
  <2>2. Len(inbox[c]) \in Nat /\ QueueCap \in Nat
    BY AppServerAssumption
  <2>3. \A d \in Calls : Len(inbox'[d]) <= QueueCap
    BY <1>4, <2>1, <2>2 DEF Put
  <2>. QED  BY <1>1, <1>4, <2>1, <2>3 DEF Put
<1>5. CASE Drop(c)
  BY <1>1, <1>5 DEF Drop
<1>6. CASE Drain(c)
  BY <1>6 DEF Drain
<1>. QED  BY <1>2, <1>3, <1>4, <1>5, <1>6 DEF Threads

LEMMA ChildTypes ==
  ASSUME TypeOK, NEW c \in Calls, Child(c)
  PROVE  TypeOK'
<1>. USE DEF TypeOK, loopVars, threadVars, childVars, worldVars
<1>1. ASSUME NEW m \in Messages, Write(c, m)
      PROVE  /\ pipe' \in [Calls -> Seq(Messages)]
             /\ wrote' \in [Calls -> 0..MaxLines]
  <2>1. Append(pipe[c], m) \in Seq(Messages)
    BY AppendFacts
  <2>2. MaxLines \in Nat
    BY AppServerAssumption
  <2>. QED  BY <1>1, <2>1, <2>2 DEF Write
<1>2. ASSUME NEW m \in Wire[c], Speak(c, m) PROVE TypeOK'
  <2>1. m \in Messages
    BY MessageFacts
  <2>. QED  BY <1>1, <1>2, <2>1 DEF Speak
<1>3. CASE Import(c)
  <2>1. MaxVersion \in Nat
    BY AppServerAssumption
  <2>2. transcript \in Versions /\ 0 \in Versions
    BY <2>1 DEF Versions
  <2>3. ASSUME NEW s \in {"target", "invalid"},
               ledger' = ledger \cup {transcript},
               report' = [report EXCEPT ![c] =
                 Completed(s, IF s = "target" THEN transcript ELSE 0)]
        PROVE  ledger' \subseteq 1..MaxVersion /\ report' \in [Calls -> Notices \cup {NoReport}]
    <3>1. Completed(s, IF s = "target" THEN transcript ELSE 0) \in Notices
      BY <2>2, MessageFacts
    <3>. QED  BY <2>3, <3>1
  <2>4. ASSUME NEW s \in {"failures", "empty"},
               report' = [report EXCEPT ![c] = Completed(s, 0)],
               UNCHANGED ledger
        PROVE  ledger' \subseteq 1..MaxVersion /\ report' \in [Calls -> Notices \cup {NoReport}]
    <3>1. Completed(s, 0) \in Notices
      BY <2>2, MessageFacts
    <3>. QED  BY <2>4, <3>1
  <2>5. ledger' \subseteq 1..MaxVersion /\ report' \in [Calls -> Notices \cup {NoReport}]
    BY <1>3, <2>3, <2>4 DEF Import
  <2>6. imports' \in [Calls -> Nat]
    BY <1>3 DEF Import
  <2>. QED  BY <1>3, <2>5, <2>6 DEF Import
<1>4. CASE Report(c)
  <2>1. report[c] \in Messages
    BY MessageFacts DEF Messages
  <2>2. report' \in [Calls -> Notices \cup {NoReport}]
    BY <1>4 DEF Report
  <2>. QED  BY <1>1, <1>4, <2>1, <2>2 DEF Report
<1>5. CASE Exit(c)
  BY <1>5 DEF Exit
<1>. QED  BY <1>2, <1>3, <1>4, <1>5 DEF Child

LEMMA WorldTypes ==
  ASSUME TypeOK,
         \/ \E c \in Calls : Call(c) \/ Cancel(c) \/ Deadline(c)
         \/ Edit \/ OtherImport \/ \E p \in Pids : Recycle(p)
  PROVE  TypeOK'
<1>. USE DEF TypeOK, loopVars, threadVars, childVars, worldVars
<1>0. MaxVersion \in Nat
  BY AppServerAssumption
<1>1. ASSUME NEW c \in Calls, Call(c) PROVE TypeOK'
  <2>1. transcript \in Versions
    BY <1>0 DEF Versions
  <2>2. UNCHANGED <<stop, late, home, asked, verdict, notice, status, thread,
                    tail, threadVars, childVars, transcript, ledger, strangers>>
    BY <1>1 DEF Call
  <2>3. CASE tool' = [tool EXCEPT ![c] = "refused"] /\ UNCHANGED <<place, began>>
    BY <2>2, <2>3
  <2>4. CASE /\ tool' = [tool EXCEPT ![c] = "waiting"]
             /\ place' = [place EXCEPT ![c] = "spawning"]
             /\ began' = [began EXCEPT ![c] = transcript]
    BY <2>1, <2>2, <2>4 DEF Places
  <2>. QED  BY <1>1, <2>3, <2>4 DEF Call
<1>2. ASSUME NEW c \in Calls, Cancel(c) PROVE TypeOK'
  BY <1>2 DEF Cancel
<1>3. ASSUME NEW c \in Calls, Deadline(c) PROVE TypeOK'
  BY <1>3 DEF Deadline
<1>4. CASE Edit
  BY <1>0, <1>4 DEF Edit
<1>5. CASE OtherImport
  BY <1>0, <1>5 DEF OtherImport
<1>6. ASSUME NEW p \in Pids, Recycle(p) PROVE TypeOK'
  BY <1>6 DEF Recycle
<1>. QED  BY <1>1, <1>2, <1>3, <1>4, <1>5, <1>6

-----------------------------------------------------------------------------
(* The inductive invariant                                                  *)

(* Each place of the loop bounds what became of the child, and what is      *)
(* decided: the child is signalled once, before it is reaped.               *)
Placed(c) ==
  /\ tool[c] = "idle" => place[c] = "idle"
  /\ place[c] \in {"idle", "spawning"} => child[c] = "none" /\ asked[c] = 0
  /\ place[c] \in {"turning", "getting", "releasing", "killing"}
       => child[c] \in {"running", "exited"}
  /\ place[c] = "reaping" => child[c] \in {"exited", "killed"}
  /\ place[c] \in {"settling", "returned"} => child[c] # "running"
  /\ place[c] \in {"releasing", "killing", "reaping", "settling"}
       => verdict[c] # "none"
  /\ place[c] # "returned" => status[c] = "none"
  /\ home[c] => asked[c] = 1
  /\ verdict[c] \in Facts \cup {"completed"} => asked[c] = 1

(* A pid names one process until it is reaped.                              *)
PidsAreOwned ==
  /\ \A c, d \in Calls : c # d /\ Holds(c) /\ Holds(d) => pid[c] # pid[d]
  /\ \A c \in Calls : Holds(c) => pid[c] \in Pids /\ strangers[pid[c]] = "none"

(* No response to a read is on its way before the read was requested.       *)
Unanswered(q) == \A i \in 1..Len(q) : q[i].is # "answer"
NothingGuessed(c) ==
  c \in Reads /\ asked[c] = 0 =>
    Unanswered(pipe[c]) /\ Unanswered(inbox[c]) /\ held[c].is # "answer"

CallInv ==
  /\ TypeOK
  /\ \A c \in Calls : Placed(c) /\ NothingGuessed(c)
  /\ PidsAreOwned

LEMMA UnansweredFacts ==
  ASSUME NEW q \in Seq(Messages), NEW m \in Messages
  PROVE  /\ Unanswered(q) /\ m.is # "answer" => Unanswered(Append(q, m))
         /\ Unanswered(q) /\ q # <<>> => Unanswered(Tail(q)) /\ Head(q).is # "answer"
BY DEF Unanswered

LEMMA InitInv == Init => CallInv
<1>. SUFFICES ASSUME Init PROVE CallInv
  OBVIOUS
<1>1. {Eof, NoReport} \subseteq Messages /\ Eof.is # "answer"
  BY MessageFacts DEF Eof, Line
<1>2. MaxVersion \in Nat \ {0} /\ QueueCap \in Nat /\ MaxLines \in Nat
  BY AppServerAssumption
<1>3. TypeOK
  BY <1>1, <1>2 DEF Init, TypeOK, Places, Versions, Facts, Failures
<1>4. \A c \in Calls : Placed(c)
  BY DEF Init, Placed, Facts
<1>5. \A c \in Calls : NothingGuessed(c)
  BY <1>1 DEF Init, NothingGuessed, Unanswered
<1>6. PidsAreOwned
  BY DEF Init, PidsAreOwned, Holds
<1>. QED  BY <1>3, <1>4, <1>5, <1>6 DEF CallInv

LEMMA PlacedStep ==
  ASSUME CallInv, [Next]_vars
  PROVE  \A d \in Calls : Placed(d)'
<1>. USE DEF TypeOK, loopVars, threadVars, childVars, worldVars, Placed
<1>0. TypeOK /\ (\A d \in Calls : Placed(d)) /\ PidsAreOwned
  BY DEF CallInv
<1>. SUFFICES ASSUME NEW d \in Calls PROVE Placed(d)'
  OBVIOUS
<1>1. ASSUME NEW c \in Calls, Call(c) PROVE Placed(d)'
  <2>1. UNCHANGED <<asked, home, verdict, status, child>>
    BY <1>1 DEF Call
  <2>2. place[c] = "idle"
    BY <1>0, <1>1 DEF Call
  <2>3. CASE tool' = [tool EXCEPT ![c] = "refused"] /\ UNCHANGED <<place, began>>
    BY <1>0, <2>1, <2>2, <2>3
  <2>4. CASE /\ tool' = [tool EXCEPT ![c] = "waiting"]
             /\ place' = [place EXCEPT ![c] = "spawning"]
    BY <1>0, <2>1, <2>2, <2>4
  <2>. QED  BY <1>1, <2>3, <2>4 DEF Call
<1>2. ASSUME NEW c \in Calls, Cancel(c) PROVE Placed(d)'
  BY <1>0, <1>2 DEF Cancel
<1>3. ASSUME NEW c \in Calls, Deadline(c) PROVE Placed(d)'
  BY <1>0, <1>3 DEF Deadline
<1>4. ASSUME NEW c \in Calls, Threads(c) PROVE Placed(d)'
  <2>1. UNCHANGED <<tool, place, home, asked, verdict, status, child>>
    BY <1>4 DEF Threads, ReadLine, ReadEof, Put, Drop, Drain
  <2>. QED  BY <1>0, <2>1
<1>5. ASSUME NEW c \in Calls, Child(c) PROVE Placed(d)'
  <2>1. UNCHANGED <<tool, place, home, asked, verdict, status>>
    BY <1>5 DEF Child, Speak, Import, Report, Exit
  <2>2. UNCHANGED child \/ (child[c] = "running"
                            /\ child' = [child EXCEPT ![c] = "exited"])
    BY <1>5 DEF Child, Speak, Import, Report, Exit, Write
  <2>. QED  BY <1>0, <2>1, <2>2
<1>6. ASSUME NEW c \in Calls, Spawn(c) PROVE Placed(d)'
  <2>1. UNCHANGED <<tool, asked, home, verdict>> /\ place[c] = "spawning"
    BY <1>6 DEF Spawn
  <2>2. CASE Goto(c, "returned") /\ UNCHANGED child
             /\ status' = [status EXCEPT ![c] = "spawn_failed"]
    BY <1>0, <2>1, <2>2 DEF Goto
  <2>3. CASE Goto(c, "turning") /\ UNCHANGED status
             /\ child' = [child EXCEPT ![c] = "running"]
    BY <1>0, <2>1, <2>3 DEF Goto
  <2>. QED  BY <1>6, <2>2, <2>3 DEF Spawn
<1>7. ASSUME NEW c \in Calls, Turn(c) PROVE Placed(d)'
  <2>1. UNCHANGED <<tool, asked, home, child, status>> /\ place[c] = "turning"
    BY <1>7 DEF Turn
  <2>2. ASSUME NEW v \in {"stopped", "timed_out"}, Settle(c, v) PROVE Placed(d)'
    BY <1>0, <2>1, <2>2 DEF Settle, Goto, Facts
  <2>3. CASE Goto(c, "getting") /\ UNCHANGED verdict
    BY <1>0, <2>1, <2>3 DEF Goto
  <2>. QED  BY <1>7, <2>2, <2>3 DEF Turn
<1>8. ASSUME NEW c \in Calls, GetNothing(c) PROVE Placed(d)'
  BY <1>0, <1>8 DEF GetNothing, Goto
<1>9. ASSUME NEW c \in Calls, NEW m \in Messages, Handshake(c, m)
      PROVE  Placed(d)'
  BY <1>0, <1>9 DEF Handshake, Take, Goto
<1>10. ASSUME NEW c \in Calls, NEW m \in Messages, Conclude(c, m)
       PROVE  Placed(d)'
  <2>1. /\ UNCHANGED <<tool, asked, home, child, status>>
        /\ place[c] = "getting"
        /\ Settle(c, Verdict(c, m))
    BY <1>10 DEF Conclude, Take
  <2>2. Verdict(c, m) \in Facts \cup Failures
    BY VerdictFacts
  <2>3. Verdict(c, m) \in Facts => asked[c] = 1
    <3>1. SUFFICES ASSUME ~Breaks(c, m), ~IsError(m) PROVE asked[c] = 1
      BY VerdictFacts
    <3>2. c \in Reads /\ m.is = "answer"
      <4>1. c \in Reads /\ AnswersUs(KindOf(c), m)
        BY <1>10, <3>1 DEF Conclude, Answers
      <4>2. KindOf(c) = "read"
        BY <4>1, AppServerAssumption DEF KindOf
      <4>. QED  BY <4>1, <4>2 DEF AnswersUs
    <3>3. inbox[c] # <<>> /\ m = Head(inbox[c])
      BY <1>10 DEF Conclude, Take
    <3>4. ~Unanswered(inbox[c])
      BY <1>0, <3>2, <3>3, UnansweredFacts
    <3>5. asked[c] # 0
      BY <3>2, <3>4 DEF CallInv, NothingGuessed
    <3>. QED  BY <1>0, <3>5
  <2>4. Verdict(c, m) # "completed" /\ Verdict(c, m) # "none"
    BY <2>2 DEF Facts, Failures
  <2>. QED  BY <1>0, <2>1, <2>2, <2>3, <2>4 DEF Settle, Goto
<1>11. ASSUME NEW c \in Calls, NEW m \in Messages, Complete(c, m)
       PROVE  Placed(d)'
  BY <1>0, <1>11 DEF Complete, Take, Announces, Settle, Goto
<1>12. ASSUME NEW c \in Calls, NEW m \in Messages, Ignore(c, m)
       PROVE  Placed(d)'
  BY <1>0, <1>12 DEF Ignore, Take, Goto
<1>13. ASSUME NEW c \in Calls, Raise(c) PROVE Placed(d)'
  BY <1>0, <1>13 DEF Raise, Settle, Goto, Facts
<1>14. ASSUME NEW c \in Calls, Release(c) PROVE Placed(d)'
  BY <1>0, <1>14 DEF Release, Goto
<1>15. ASSUME NEW c \in Calls, Kill(c) PROVE Placed(d)'
  <2>1. child'[d] = child[d] \/ (c = d /\ child'[d] = "killed")
    BY <1>0, <1>15 DEF Kill, KillGroup, PidsAreOwned, Holds
  <2>2. c = d => child'[d] \in {"exited", "killed"}
    BY <1>0, <1>15 DEF Kill, KillGroup
  <2>. QED  BY <1>0, <1>15, <2>1, <2>2 DEF Kill, Goto
<1>16. ASSUME NEW c \in Calls, Reap(c) PROVE Placed(d)'
  <2>1. PICK now \in {child[c], "reaped"} : child' = [child EXCEPT ![c] = now]
    BY <1>16 DEF Reap
  <2>. QED  BY <1>0, <1>16, <2>1 DEF Reap, Goto
<1>17. ASSUME NEW c \in Calls, Answer(c) PROVE Placed(d)'
  <2>1. PICK s : status' = [status EXCEPT ![c] = s]
    BY <1>17 DEF Answer
  <2>. QED  BY <1>0, <1>17, <2>1 DEF Answer, Goto
<1>18. CASE Edit \/ OtherImport \/ \E p \in Pids : Recycle(p)
  BY <1>0, <1>18 DEF Edit, OtherImport, Recycle
<1>19. CASE UNCHANGED vars
  BY <1>0, <1>19 DEF vars
<1>. QED
  BY <1>1, <1>2, <1>3, <1>4, <1>5, <1>6, <1>7, <1>8, <1>9, <1>10, <1>11, <1>12,
     <1>13, <1>14, <1>15, <1>16, <1>17, <1>18, <1>19 DEF Next, Loop, Handle, Queued

LEMMA TypeStep ==
  ASSUME CallInv, [Next]_vars
  PROVE  TypeOK'
<1>1. TypeOK
  BY DEF CallInv
<1>2. \A c \in Calls : verdict[c] # "none" \/ place[c] # "settling"
  BY DEF CallInv, Placed
<1>3. CASE UNCHANGED vars
  BY <1>1, <1>3 DEF TypeOK, vars, loopVars, threadVars, childVars, worldVars
<1>. QED
  BY <1>1, <1>2, <1>3, LoopTypes, ThreadTypes, ChildTypes, WorldTypes DEF Next

(* Up to the kill the child holds its pid, even if it exited.               *)
LEMMA KillSparesStrangers ==
  ASSUME TypeOK, PidsAreOwned, NEW c \in Calls, Placed(c), Kill(c)
  PROVE  strangers' = strangers
<1>1. pid[c] \in Pids /\ strangers[pid[c]] = "none"
  BY DEF PidsAreOwned, Kill, Placed, Holds
<1>. QED  BY <1>1 DEF Kill, KillGroup, TypeOK

(* Only Spawn makes a process, at a pid nobody holds.                       *)
LEMMA PidsStep ==
  ASSUME CallInv, [Next]_vars
  PROVE  PidsAreOwned'
<1>0. TypeOK /\ (\A d \in Calls : Placed(d)) /\ PidsAreOwned
  BY DEF CallInv
<1>1. ASSUME UNCHANGED <<pid, strangers>>, \A d \in Calls : Holds(d)' => Holds(d)
      PROVE  PidsAreOwned'
  BY <1>0, <1>1 DEF PidsAreOwned
<1>2. ASSUME NEW c \in Calls, Spawn(c) PROVE PidsAreOwned'
  <2>0. UNCHANGED strangers
    BY <1>2 DEF Spawn, worldVars
  <2>1. CASE UNCHANGED <<child, pid>>
    BY <1>1, <2>0, <2>1 DEF Holds
  <2>2. ASSUME NEW p \in FreePids,
               child' = [child EXCEPT ![c] = "running"],
               pid' = [pid EXCEPT ![c] = p]
        PROVE  PidsAreOwned'
    <3>1. /\ \A d \in Calls : Holds(d) => pid[d] # p
          /\ p \in Pids /\ strangers[p] = "none"
      BY <2>2 DEF FreePids
    <3>2. \A d \in Calls : d # c => (Holds(d)' <=> Holds(d)) /\ pid'[d] = pid[d]
      BY <1>0, <2>2 DEF Holds, TypeOK
    <3>3. pid'[c] = p
      BY <1>0, <2>2 DEF TypeOK
    <3>. QED  BY <1>0, <2>0, <3>1, <3>2, <3>3 DEF PidsAreOwned
  <2>. QED  BY <1>2, <2>1, <2>2 DEF Spawn
<1>3. ASSUME NEW c \in Calls, Kill(c) PROVE PidsAreOwned'
  <2>1. UNCHANGED strangers
    BY <1>0, <1>3, KillSparesStrangers
  <2>2. UNCHANGED pid /\ \A d \in Calls : Holds(d)' => Holds(d)
    BY <1>0, <1>3 DEF Kill, KillGroup, Holds
  <2>. QED  BY <1>1, <2>1, <2>2
<1>4. ASSUME NEW c \in Calls, Reap(c) PROVE PidsAreOwned'
  <2>0. UNCHANGED <<pid, strangers>>
    BY <1>4 DEF Reap, worldVars
  <2>1. PICK now \in {child[c], "reaped"} : child' = [child EXCEPT ![c] = now]
    BY <1>4 DEF Reap
  <2>. QED  BY <1>0, <1>1, <1>4, <2>0, <2>1 DEF Reap, Holds, TypeOK
<1>5. ASSUME NEW c \in Calls, Child(c) PROVE PidsAreOwned'
  <2>1. UNCHANGED <<pid, strangers>>
    BY <1>5 DEF Child, Speak, Import, Report, Exit, worldVars
  <2>2. UNCHANGED child \/ (child[c] = "running"
                            /\ child' = [child EXCEPT ![c] = "exited"])
    BY <1>5 DEF Child, Speak, Import, Report, Exit, Write
  <2>. QED  BY <1>0, <1>1, <2>1, <2>2 DEF Holds, TypeOK
<1>6. CASE UNCHANGED <<child, pid, strangers>>
  BY <1>1, <1>6 DEF Holds
<1>7. ASSUME NEW c \in Calls, Threads(c) PROVE PidsAreOwned'
  <2>1. UNCHANGED <<child, pid, strangers>>
    BY <1>7 DEF Threads, ReadLine, ReadEof, Put, Drop, Drain, childVars, worldVars
  <2>. QED  BY <1>6, <2>1
<1>8. ASSUME NEW c \in Calls,
             Turn(c) \/ GetNothing(c) \/ Handle(c) \/ Release(c) \/ Answer(c)
      PROVE  PidsAreOwned'
  <2>1. UNCHANGED <<child, pid, strangers>>
    BY <1>8 DEF Turn, GetNothing, Handle, Queued, Handshake, Conclude, Complete, Ignore,
                Release, Answer, childVars, worldVars
  <2>. QED  BY <1>6, <2>1
<1>9. ASSUME NEW c \in Calls, Call(c) \/ Cancel(c) \/ Raise(c) \/ Deadline(c)
      PROVE  PidsAreOwned'
  <2>1. UNCHANGED <<child, pid, strangers>>
    BY <1>9 DEF Call, Cancel, Raise, Deadline, childVars, worldVars
  <2>. QED  BY <1>6, <2>1
<1>10. CASE Edit \/ OtherImport
  BY <1>6, <1>10 DEF Edit, OtherImport, childVars, worldVars
<1>12. ASSUME NEW p \in Pids, Recycle(p) PROVE PidsAreOwned'
  <2>1. UNCHANGED <<child, pid>>
    BY <1>12 DEF Recycle, childVars
  <2>2. \A c \in Calls : Holds(c) => pid[c] # p
    BY <1>12 DEF Recycle, FreePids
  <2>3. \A q \in Pids \ {p} : strangers'[q] = strangers[q]
    BY <1>0, <1>12 DEF Recycle, TypeOK
  <2>. QED  BY <1>0, <2>1, <2>2, <2>3 DEF PidsAreOwned, Holds
<1>11. CASE UNCHANGED vars
  BY <1>6, <1>11 DEF vars, childVars, worldVars
<1>. QED
  BY <1>2, <1>3, <1>4, <1>5, <1>7, <1>8, <1>9, <1>10, <1>11, <1>12 DEF Next, Loop

(* What the reader has in hand after it read a line.                        *)
LEMMA ReadHolds ==
  ASSUME TypeOK, NEW c \in Calls, NEW d \in Calls, ReadLine(c)
  PROVE  held'[d] \in {held[d], Eof, BadLine} \/ (c = d /\ held'[d] = Head(pipe[c]))
<1>1. \/ UNCHANGED held
      \/ \E m \in {Eof, BadLine, Head(pipe[c])} : held' = [held EXCEPT ![c] = m]
  BY Zenon DEF ReadLine, Hold
<1>2. DOMAIN held = Calls
  BY DEF TypeOK
<1>. QED  BY <1>1, <1>2

LEMMA GuessStep ==
  ASSUME CallInv, [Next]_vars
  PROVE  \A d \in Calls : NothingGuessed(d)'
<1>0. TypeOK /\ (\A d \in Calls : NothingGuessed(d))
  BY DEF CallInv
<1>. SUFFICES ASSUME NEW d \in Calls PROVE NothingGuessed(d)'
  OBVIOUS
<1>1. CASE UNCHANGED <<asked, pipe, inbox, held>>
  BY <1>0, <1>1 DEF NothingGuessed, Unanswered
<1>2. ASSUME NEW c \in Calls, NEW m \in Messages, Handshake(c, m)
      PROVE  NothingGuessed(d)'
  <2>1. CASE c = d
    BY <1>0, <1>2, <2>1 DEF Handshake, NothingGuessed, TypeOK
  <2>2. CASE c # d
    BY <1>0, <1>2, <2>2 DEF Handshake, Take, NothingGuessed, Unanswered, TypeOK,
                            childVars
  <2>. QED  BY <2>1, <2>2
<1>3. ASSUME NEW c \in Calls, NEW m \in Messages, Take(c, m),
             UNCHANGED <<asked, pipe, held>>
      PROVE  NothingGuessed(d)'
  <2>1. inbox'[d] = inbox[d] \/ (inbox[d] # <<>> /\ inbox'[d] = Tail(inbox[d]))
    BY <1>0, <1>3 DEF Take, TypeOK
  <2>2. Unanswered(inbox[d]) => Unanswered(inbox'[d])
    BY <1>0, <2>1, UnansweredFacts DEF TypeOK
  <2>3. Unanswered(inbox[d]') <=> Unanswered(inbox'[d])
    OBVIOUS
  <2>. QED  BY <1>0, <1>3, <2>2 DEF NothingGuessed, Unanswered
<1>4. ASSUME NEW c \in Calls, ReadLine(c) PROVE NothingGuessed(d)'
  <2>1. /\ UNCHANGED <<asked, inbox>>
        /\ pipe[c] # <<>>
        /\ pipe' = [pipe EXCEPT ![c] = Tail(pipe[c])]
    BY <1>4 DEF ReadLine, loopVars
  <2>2. held'[d] \in {held[d], Eof, BadLine} \/ (c = d /\ held'[d] = Head(pipe[c]))
    BY <1>0, <1>4, ReadHolds
  <2>3. Eof.is # "answer" /\ BadLine.is # "answer"
    BY DEF Eof, BadLine, Line
  <2>4. Unanswered(pipe[d]) => Unanswered(pipe'[d])
    BY <1>0, <2>1, UnansweredFacts DEF TypeOK
  <2>5. Unanswered(pipe[d]) /\ held[d].is # "answer" => held'[d].is # "answer"
    BY <1>0, <2>1, <2>2, <2>3, UnansweredFacts DEF TypeOK
  <2>. QED  BY <1>0, <2>1, <2>4, <2>5 DEF NothingGuessed, Unanswered
<1>5. ASSUME NEW c \in Calls, ReadEof(c) PROVE NothingGuessed(d)'
  <2>1. Eof.is # "answer"
    BY DEF Eof, Line
  <2>. QED  BY <1>0, <1>5, <2>1 DEF ReadEof, Hold, NothingGuessed, Unanswered,
                                    TypeOK, loopVars, childVars
<1>6. ASSUME NEW c \in Calls, Put(c) \/ Drop(c) PROVE NothingGuessed(d)'
  <2>1. UNCHANGED <<asked, pipe>>
    BY <1>6 DEF Put, Drop, loopVars, childVars
  <2>2. held'[d] \in {held[d], Eof}
    BY <1>0, <1>6 DEF Put, Drop, AfterPut, TypeOK
  <2>3. inbox'[d] \in {inbox[d], Append(inbox[d], held[d])}
    BY <1>0, <1>6 DEF Put, Drop, TypeOK
  <2>4. Eof.is # "answer"
    BY DEF Eof, Line
  <2>5. inbox[d] \in Seq(Messages) /\ held[d] \in Messages
    BY <1>0 DEF TypeOK
  <2>6. Unanswered(inbox[d]) /\ held[d].is # "answer" => Unanswered(inbox'[d])
    BY <2>3, <2>5, UnansweredFacts
  <2>. QED  BY <1>0, <2>1, <2>2, <2>4, <2>6 DEF NothingGuessed, Unanswered
<1>7. ASSUME NEW c \in Calls, NEW m \in Messages, Write(c, m),
             m.is = "answer" => asked[c] > 0 \/ c \in Transfers,
             UNCHANGED <<asked, inbox, held>>
      PROVE  NothingGuessed(d)'
  <2>1. pipe'[d] = pipe[d] \/ (c = d /\ pipe'[d] = Append(pipe[d], m))
    BY <1>0, <1>7 DEF Write, TypeOK
  <2>2. CASE pipe'[d] = pipe[d]
    BY <1>0, <1>7, <2>2 DEF NothingGuessed, Unanswered
  <2>3. CASE c = d /\ pipe'[d] = Append(pipe[d], m)
    <3>1. SUFFICES ASSUME d \in Reads, asked[d] = 0 PROVE NothingGuessed(d)'
      BY <1>7 DEF NothingGuessed
    <3>2. m.is # "answer"
      BY <1>7, <2>3, <3>1, AppServerAssumption
    <3>3. Unanswered(pipe'[d])
      BY <1>0, <2>3, <3>1, <3>2, UnansweredFacts DEF NothingGuessed, TypeOK
    <3>. QED  BY <1>0, <1>7, <3>1, <3>3 DEF NothingGuessed, Unanswered
  <2>. QED  BY <2>1, <2>2, <2>3
<1>8. ASSUME NEW c \in Calls, Child(c) PROVE NothingGuessed(d)'
  <2>1. ASSUME NEW m \in Wire[c], Speak(c, m) PROVE NothingGuessed(d)'
    BY <1>7, <2>1, MessageFacts DEF Speak, loopVars, threadVars
  <2>2. CASE Report(c)
    <3>1. report[c] \in Notices
      BY <1>0, <2>2 DEF Report, TypeOK
    <3>2. report[c] \in Messages /\ report[c].is # "answer"
      BY <3>1 DEF Notices, Completed, Messages
    <3>. QED  BY <1>0, <1>7, <2>2, <3>2 DEF Report, TypeOK, loopVars, threadVars
  <2>3. CASE Import(c) \/ Exit(c)
    BY <1>1, <2>3 DEF Import, Exit, loopVars, threadVars
  <2>. QED  BY <1>8, <2>1, <2>2, <2>3 DEF Child
<1>9. ASSUME NEW c \in Calls,
             Drain(c) \/ Spawn(c) \/ Turn(c) \/ GetNothing(c) \/ Release(c)
             \/ Kill(c) \/ Reap(c) \/ Answer(c) \/ Raise(c) \/ Call(c)
             \/ Cancel(c) \/ Deadline(c)
      PROVE  NothingGuessed(d)'
  BY <1>1, <1>9 DEF Drain, Spawn, Turn, GetNothing, Release, Kill, Reap, Answer,
       Raise, Call, Cancel, Deadline, loopVars, threadVars, childVars
<1>10. ASSUME NEW c \in Calls, NEW m \in Messages,
              Conclude(c, m) \/ Complete(c, m) \/ Ignore(c, m)
       PROVE  NothingGuessed(d)'
  BY <1>3, <1>10 DEF Conclude, Complete, Ignore, childVars
<1>11. CASE Edit \/ OtherImport \/ (\E p \in Pids : Recycle(p)) \/ UNCHANGED vars
  BY <1>1, <1>11 DEF Edit, OtherImport, Recycle, vars, loopVars, threadVars, childVars
<1>. QED
  BY <1>2, <1>4, <1>5, <1>6, <1>8, <1>9, <1>10, <1>11 DEF Next, Loop, Handle, Queued, Threads

-----------------------------------------------------------------------------
(* Theorems                                                                 *)

(* The inductive invariant of the calls (appserver.py): the child is        *)
(* signalled once and before it is reaped, pids are not shared, and a quota *)
(* is only ever on its way to a call that asked for it.                     *)
THEOREM CallInvariant == Spec => []CallInv
<1>1. CallInv /\ [Next]_vars => CallInv'
  BY PlacedStep, TypeStep, PidsStep, GuessStep DEF CallInv
<1>. QED  BY InitInv, <1>1, PTL DEF Spec

(* Every variable keeps its type; in particular the queue between the       *)
(* reader thread and the loop never exceeds _MAX_QUEUED_MESSAGES, and the   *)
(* request is written at most once.                                         *)
THEOREM CallTypes == Spec => []TypeOK
<1>1. CallInv => TypeOK
  BY DEF CallInv
<1>. QED  BY CallInvariant, <1>1, PTL

(* _terminate signals no process group but that of the call's own child,    *)
(* whatever pids the system hands out again (#449).                         *)
THEOREM KillsStayHome == Spec => KillsOnlyItsOwnChild
<1>1. ASSUME CallInv, [Next]_vars, NEW d \in Calls,
             child[d] # "killed", child'[d] = "killed"
      PROVE  place[d] = "killing"
  <2>0. TypeOK /\ PidsAreOwned /\ \A c \in Calls : Placed(c)
    BY <1>1 DEF CallInv
  <2>1. ASSUME NEW c \in Calls, Kill(c) PROVE place[d] = "killing"
    <3>1. child[d] = "running" /\ pid[d] = pid[c]
      BY <1>1, <2>0, <2>1 DEF Kill, KillGroup, TypeOK
    <3>2. Holds(c) /\ Holds(d)
      BY <2>0, <2>1, <3>1 DEF Kill, Placed, Holds
    <3>3. c = d
      BY <2>0, <3>1, <3>2 DEF PidsAreOwned
    <3>. QED  BY <2>1, <3>3 DEF Kill
  <2>2. CASE UNCHANGED child
    BY <1>1, <2>2
  <2>3. ASSUME NEW c \in Calls, Spawn(c) PROVE FALSE
    <3>1. UNCHANGED child \/ child' = [child EXCEPT ![c] = "running"]
      BY <2>3 DEF Spawn
    <3>. QED  BY <1>1, <2>0, <3>1 DEF TypeOK
  <2>4. ASSUME NEW c \in Calls, Reap(c) PROVE FALSE
    <3>1. PICK now \in {child[c], "reaped"} : child' = [child EXCEPT ![c] = now]
      BY <2>4 DEF Reap
    <3>. QED  BY <1>1, <2>0, <3>1 DEF TypeOK
  <2>5. ASSUME NEW c \in Calls, Child(c) PROVE FALSE
    <3>1. UNCHANGED child \/ child' = [child EXCEPT ![c] = "exited"]
      BY <2>5 DEF Child, Speak, Import, Report, Exit
    <3>. QED  BY <1>1, <2>0, <3>1 DEF TypeOK
  <2>6. ASSUME NEW c \in Calls, Threads(c) PROVE FALSE
    <3>1. UNCHANGED child
      BY <2>6 DEF Threads, ReadLine, ReadEof, Put, Drop, Drain, childVars
    <3>. QED  BY <1>1, <3>1
  <2>7. ASSUME NEW c \in Calls,
               \/ Turn(c) \/ GetNothing(c) \/ Handle(c) \/ Release(c)
               \/ Answer(c) \/ Call(c) \/ Cancel(c) \/ Raise(c) \/ Deadline(c)
        PROVE  FALSE
    <3>1. UNCHANGED child
      BY <2>7 DEF Turn, GetNothing, Handle, Queued, Handshake, Conclude, Complete,
                  Ignore, Release, Answer, Call, Cancel, Raise, Deadline, childVars
    <3>. QED  BY <1>1, <3>1
  <2>8. CASE Edit \/ OtherImport \/ (\E p \in Pids : Recycle(p)) \/ UNCHANGED vars
    BY <2>2, <2>8 DEF Edit, OtherImport, Recycle, vars, childVars
  <2>. QED
    BY <1>1, <2>1, <2>3, <2>4, <2>5, <2>6, <2>7, <2>8 DEF Next, Loop
<1>2. ASSUME CallInv, [Next]_vars, NEW p \in Pids, strangers'[p] = "killed"
      PROVE  strangers[p] = "killed"
  <2>0. TypeOK /\ PidsAreOwned /\ \A c \in Calls : Placed(c)
    BY <1>2 DEF CallInv
  <2>1. CASE UNCHANGED strangers
    BY <1>2, <2>1
  <2>2. CASE \E c \in Calls : Kill(c)
    BY <2>0, <2>1, <2>2, KillSparesStrangers
  <2>3. ASSUME NEW q \in Pids, Recycle(q) PROVE strangers[p] = "killed"
    BY <1>2, <2>0, <2>3 DEF Recycle, TypeOK
  <2>4. ASSUME NEW c \in Calls,
               \/ Spawn(c) \/ Turn(c) \/ GetNothing(c) \/ Handle(c) \/ Release(c)
               \/ Reap(c) \/ Answer(c) \/ Call(c) \/ Cancel(c) \/ Raise(c)
               \/ Deadline(c)
        PROVE  UNCHANGED strangers
    BY <2>4 DEF Spawn, Turn, GetNothing, Handle, Queued, Handshake, Conclude, Complete,
         Ignore, Release, Reap, Answer, Call, Cancel, Raise, Deadline, worldVars
  <2>5. ASSUME NEW c \in Calls, Threads(c) \/ Child(c)
        PROVE  UNCHANGED strangers
    BY <2>5 DEF Threads, ReadLine, ReadEof, Put, Drop, Drain, Child, Speak,
         Import, Report, Exit, worldVars
  <2>6. CASE Edit \/ OtherImport \/ UNCHANGED vars
    BY <2>1, <2>6 DEF Edit, OtherImport, vars, worldVars
  <2>. QED  BY <1>2, <2>1, <2>2, <2>3, <2>4, <2>5, <2>6 DEF Next, Loop
<1>3. CallInv /\ [Next]_vars =>
        [/\ \A c \in Calls : child[c] # "killed" /\ child'[c] = "killed"
                               => place[c] = "killing"
         /\ \A p \in Pids : strangers'[p] = "killed"
                               => strangers[p] = "killed"]_vars
  BY <1>1, <1>2
<1>. QED  BY CallInvariant, <1>3, PTL DEF Spec, KillsOnlyItsOwnChild

-----------------------------------------------------------------------------
(* What a call returned                                                     *)

(* What the caller of a call has of it.                                     *)
Reply(d) == <<place[d], status[d], thread[d], tail[d], asked[d]>>

(* Every step of a loop is taken from a place before the return, and writes *)
(* only what belongs to its own call.                                       *)
LEMMA LoopKeepsReplies ==
  ASSUME TypeOK, NEW c \in Calls, Loop(c) \/ Raise(c), NEW d \in Calls,
         place[d] = "returned"
  PROVE  Reply(d)' = Reply(d)
<1>. USE DEF Reply, Goto, Settle
<1>0. /\ DOMAIN place = Calls /\ DOMAIN status = Calls /\ DOMAIN thread = Calls
      /\ DOMAIN tail = Calls /\ DOMAIN asked = Calls
  BY DEF TypeOK
<1>1. ASSUME place[c] # "returned",
             \E p : Goto(c, p),
             UNCHANGED status \/ (\E s : status' = [status EXCEPT ![c] = s]),
             UNCHANGED thread \/ (\E v : thread' = [thread EXCEPT ![c] = v]),
             UNCHANGED tail \/ (\E b : tail' = [tail EXCEPT ![c] = b]),
             UNCHANGED asked \/ (\E n : asked' = [asked EXCEPT ![c] = n])
      PROVE  Reply(d)' = Reply(d)
  <2>0. c # d
    BY <1>1
  <2>1. place'[d] = place[d]
    BY <1>0, <1>1, <2>0
  <2>2. status'[d] = status[d]
    BY <1>0, <1>1, <2>0
  <2>3. thread'[d] = thread[d]
    BY <1>0, <1>1, <2>0
  <2>4. tail'[d] = tail[d]
    BY <1>0, <1>1, <2>0
  <2>5. asked'[d] = asked[d]
    BY <1>0, <1>1, <2>0
  <2>. QED  BY <2>1, <2>2, <2>3, <2>4, <2>5
<1>2. CASE Spawn(c)
  <2>1. /\ place[c] # "returned" /\ \E p : Goto(c, p)
        /\ UNCHANGED <<thread, tail, asked>>
    BY <1>2 DEF Spawn
  <2>2. UNCHANGED status \/ (\E s : status' = [status EXCEPT ![c] = s])
    BY <1>2 DEF Spawn
  <2>. QED  BY <1>1, <2>1, <2>2
<1>3. CASE Turn(c) \/ GetNothing(c) \/ Release(c) \/ Kill(c) \/ Reap(c) \/ Raise(c)
  <2>1. place[c] # "returned" /\ UNCHANGED <<status, thread, tail, asked>>
    BY <1>3 DEF Turn, GetNothing, Release, Kill, Reap, Raise
  <2>2. \E p : Goto(c, p)
    BY <1>3 DEF Turn, GetNothing, Release, Kill, Reap, Raise
  <2>. QED  BY <1>1, <2>1, <2>2
<1>4. ASSUME NEW m \in Messages,
             Handshake(c, m) \/ Conclude(c, m) \/ Complete(c, m) \/ Ignore(c, m)
      PROVE  Reply(d)' = Reply(d)
  <2>1. place[c] # "returned" /\ UNCHANGED <<status, thread, tail>>
    BY <1>4 DEF Handshake, Conclude, Complete, Ignore, Take
  <2>2. \E p : Goto(c, p)
    BY <1>4 DEF Handshake, Conclude, Complete, Ignore
  <2>3. UNCHANGED asked \/ (\E n : asked' = [asked EXCEPT ![c] = n])
    BY <1>4 DEF Handshake, Conclude, Complete, Ignore
  <2>. QED  BY <1>1, <2>1, <2>2, <2>3
<1>5. CASE Answer(c)
  <2>1. place[c] # "returned" /\ UNCHANGED asked /\ \E p : Goto(c, p)
    BY <1>5 DEF Answer
  <2>2. PICK o \in Outcomes(c) : /\ status' = [status EXCEPT ![c] = o[1]]
                                 /\ thread' = [thread EXCEPT ![c] = o[2]]
    BY <1>5 DEF Answer
  <2>3. \E b : tail' = [tail EXCEPT ![c] = b]
    BY <1>5 DEF Answer
  <2>. QED  BY <1>1, <2>1, <2>2, <2>3
<1>. QED  BY <1>2, <1>3, <1>4, <1>5 DEF Loop, Handle, Queued

LEMMA RepliesStay ==
  ASSUME CallInv, [Next]_vars, NEW d \in Calls, place[d] = "returned"
  PROVE  Reply(d)' = Reply(d)
<1>0. TypeOK
  BY DEF CallInv
<1>1. ASSUME UNCHANGED <<place, status, thread, tail, asked>>
      PROVE  Reply(d)' = Reply(d)
  BY <1>1 DEF Reply
<1>2. ASSUME NEW c \in Calls, Call(c) PROVE Reply(d)' = Reply(d)
  <2>1. UNCHANGED <<status, thread, tail, asked>>
    BY <1>2 DEF Call
  <2>2. c # d
    BY <1>2 DEF Call, CallInv, Placed
  <2>3. UNCHANGED place \/ place' = [place EXCEPT ![c] = "spawning"]
    BY <1>2 DEF Call
  <2>4. place'[d] = place[d]
    BY <1>0, <2>2, <2>3 DEF TypeOK
  <2>. QED  BY <2>1, <2>4 DEF Reply
<1>3. ASSUME NEW c \in Calls, Cancel(c) \/ Deadline(c) PROVE Reply(d)' = Reply(d)
  BY <1>1, <1>3 DEF Cancel, Deadline, loopVars
<1>4. ASSUME NEW c \in Calls, Threads(c) PROVE Reply(d)' = Reply(d)
  BY <1>1, <1>4 DEF Threads, ReadLine, ReadEof, Put, Drop, Drain, loopVars
<1>5. ASSUME NEW c \in Calls, Child(c) PROVE Reply(d)' = Reply(d)
  BY <1>1, <1>5 DEF Child, Speak, Import, Report, Exit, loopVars
<1>6. CASE Edit \/ OtherImport \/ (\E p \in Pids : Recycle(p)) \/ UNCHANGED vars
  BY <1>1, <1>6 DEF Edit, OtherImport, Recycle, vars, loopVars
<1>. QED  BY <1>0, <1>2, <1>3, <1>4, <1>5, <1>6, LoopKeepsReplies DEF Next

(* An answer stands, and the call that gave it has no child any more,       *)
(* however late a stop, a deadline, a line or a thread of the call comes.   *)
THEOREM WhatWasAnsweredStands == Spec => AnswersStand
<1>1. ASSUME CallInv, CallInv', [Next]_vars, NEW d \in Calls,
             place[d] = "returned"
      PROVE  /\ child'[d] # "running"
             /\ UNCHANGED <<place[d], status[d], thread[d], tail[d], asked[d]>>
  <2>1. Reply(d)' = Reply(d)
    BY <1>1, RepliesStay
  <2>2. UNCHANGED <<place[d], status[d], thread[d], tail[d], asked[d]>>
    BY <2>1 DEF Reply
  <2>3. child'[d] # "running"
    BY <1>1, <2>2 DEF CallInv, Placed
  <2>. QED  BY <2>2, <2>3
<1>2. CallInv /\ CallInv' /\ [Next]_vars =>
        [\A c \in Calls :
           place[c] = "returned" =>
             /\ child'[c] # "running"
             /\ UNCHANGED <<place[c], status[c], thread[c], tail[c], asked[c]>>]_vars
  BY <1>1
<1>. QED  BY CallInvariant, <1>2, PTL DEF Spec, AnswersStand

-----------------------------------------------------------------------------
(* The refinement                                                           *)

(* What OneShotCall sees of a call.                                         *)
View(c) == <<StageOf(c), asked[c], ChildOf(c), AnswerOf(c)>>

LEMMA ViewFacts ==
  ASSUME TypeOK, TypeOK', NEW c \in Calls, \A d \in Calls \ {c} : View(d)' = View(d)
  PROVE  /\ View(c)' = View(c) => UNCHANGED Abstract!vars
         /\ View(c) = <<"idle", 0, "down", "none">>
              /\ View(c)' = <<"open", 0, "up", "none">> => Abstract!Open(c)
         /\ StageOf(c) = "open" /\ asked[c] = 0
              /\ View(c)' = <<StageOf(c), 1, ChildOf(c), AnswerOf(c)>>
              => Abstract!Ask(c)
         /\ ChildOf(c) = "up"
              /\ View(c)' = <<StageOf(c), asked[c], "down", AnswerOf(c)>>
              => Abstract!Down(c)
         /\ \A a \in {"fact", "failure"} :
              /\ StageOf(c) # "closed" /\ ChildOf(c) = "down"
              /\ a = "fact" => asked[c] = 1
              /\ View(c)' = <<"closed", asked[c], ChildOf(c), a>>
              => Abstract!Close(c, a)
<1>. DEFINE stage == [d \in Calls |-> StageOf(d)]
            up == [d \in Calls |-> ChildOf(d)]
            answer == [d \in Calls |-> AnswerOf(d)]
<1>1. stage' = [stage EXCEPT ![c] = StageOf(c)']
  BY DEF View
<1>2. asked' = [asked EXCEPT ![c] = asked'[c]]
  BY DEF View, TypeOK
<1>3. up' = [up EXCEPT ![c] = ChildOf(c)']
  BY DEF View
<1>4. answer' = [answer EXCEPT ![c] = AnswerOf(c)']
  BY DEF View
<1>5. asked \in [Calls -> 0..1]
  BY DEF TypeOK
<1>6. View(c)' = View(c) => UNCHANGED Abstract!vars
  <2>1. SUFFICES ASSUME View(c)' = View(c) PROVE UNCHANGED Abstract!vars
    OBVIOUS
  <2>2. stage' = stage /\ up' = up /\ answer' = answer
    BY <1>1, <1>3, <1>4, <2>1 DEF View
  <2>3. asked' = asked
    BY <1>2, <1>5, <2>1 DEF View
  <2>. QED  BY <2>2, <2>3 DEF Abstract!vars
<1>7. View(c) = <<"idle", 0, "down", "none">>
        /\ View(c)' = <<"open", 0, "up", "none">> => Abstract!Open(c)
  <2>1. SUFFICES ASSUME View(c) = <<"idle", 0, "down", "none">>,
                        View(c)' = <<"open", 0, "up", "none">>
                 PROVE  Abstract!Open(c)
    OBVIOUS
  <2>2. stage[c] = "idle" /\ stage' = [stage EXCEPT ![c] = "open"]
    BY <1>1, <2>1 DEF View
  <2>3. up' = [up EXCEPT ![c] = "up"]
    BY <1>3, <2>1 DEF View
  <2>4. asked' = asked
    BY <1>2, <1>5, <2>1 DEF View
  <2>5. answer' = answer
    BY <1>4, <2>1 DEF View
  <2>. QED  BY <2>2, <2>3, <2>4, <2>5 DEF Abstract!Open
<1>8. StageOf(c) = "open" /\ asked[c] = 0
        /\ View(c)' = <<StageOf(c), 1, ChildOf(c), AnswerOf(c)>> => Abstract!Ask(c)
  BY <1>1, <1>2, <1>3, <1>4, <1>5 DEF View, Abstract!Ask
<1>9. ChildOf(c) = "up"
        /\ View(c)' = <<StageOf(c), asked[c], "down", AnswerOf(c)>> => Abstract!Down(c)
  BY <1>1, <1>2, <1>3, <1>4, <1>5 DEF View, Abstract!Down
<1>10. ASSUME NEW a \in {"fact", "failure"}, StageOf(c) # "closed",
              ChildOf(c) = "down", a = "fact" => asked[c] = 1,
              View(c)' = <<"closed", asked[c], ChildOf(c), a>>
       PROVE  Abstract!Close(c, a)
  BY <1>1, <1>2, <1>3, <1>4, <1>5, <1>10 DEF View, Abstract!Close
<1>. QED  BY <1>6, <1>7, <1>8, <1>9, <1>10

LEMMA AbstractStep ==
  ASSUME CallInv, TypeOK', [Next]_vars
  PROVE  Abstract!Next \/ UNCHANGED Abstract!vars
<1>. USE DEF View, StageOf, ChildOf, AnswerOf
<1>0. TypeOK /\ PidsAreOwned /\ \A d \in Calls : Placed(d)
  BY DEF CallInv
<1>1. CASE \A d \in Calls : View(d)' = View(d)
  <2>1. asked' = asked
    BY <1>0, <1>1 DEF TypeOK
  <2>2. \A d \in Calls : /\ StageOf(d)' = StageOf(d)
                        /\ ChildOf(d)' = ChildOf(d)
                        /\ AnswerOf(d)' = AnswerOf(d)
    BY <1>1
  <2>. QED  BY <2>1, <2>2 DEF Abstract!vars
<1>2. CASE UNCHANGED <<place, asked, child, status>>
  BY <1>1, <1>2
<1>3. ASSUME NEW c \in Calls, Spawn(c) PROVE Abstract!Next
  <2>1. UNCHANGED asked /\ place[c] = "spawning"
    BY <1>3 DEF Spawn
  <2>2. View(c) = <<"idle", 0, "down", "none">>
    BY <1>0, <2>1 DEF Placed
  <2>3. CASE /\ Goto(c, "returned") /\ UNCHANGED child
             /\ status' = [status EXCEPT ![c] = "spawn_failed"]
    <3>1. \A d \in Calls \ {c} : View(d)' = View(d)
      BY <1>0, <2>1, <2>3 DEF Goto, TypeOK
    <3>2. View(c)' = <<"closed", asked[c], ChildOf(c), "failure">>
      BY <1>0, <2>1, <2>3 DEF Goto, TypeOK, Facts
    <3>3. Abstract!Close(c, "failure")
      BY <1>0, <2>2, <3>1, <3>2, ViewFacts
    <3>. QED  BY <3>3 DEF Abstract!Next
  <2>4. CASE /\ Goto(c, "turning") /\ UNCHANGED status
             /\ child' = [child EXCEPT ![c] = "running"]
    <3>1. \A d \in Calls \ {c} : View(d)' = View(d)
      BY <1>0, <2>1, <2>4 DEF Goto, TypeOK
    <3>2. View(c)' = <<"open", 0, "up", "none">>
      BY <1>0, <2>1, <2>4 DEF Goto, TypeOK, Placed
    <3>3. Abstract!Open(c)
      BY <1>0, <2>2, <3>1, <3>2, ViewFacts
    <3>. QED  BY <3>3 DEF Abstract!Next
  <2>. QED  BY <1>3, <2>3, <2>4 DEF Spawn
<1>4. ASSUME NEW c \in Calls, NEW m \in Messages, Handshake(c, m)
      PROVE  Abstract!Next
  <2>1. /\ place[c] = "getting" /\ asked[c] = 0
        /\ Goto(c, "turning")
        /\ asked' = [asked EXCEPT ![c] = 1]
        /\ UNCHANGED <<child, status>>
    BY <1>4 DEF Handshake, Take, childVars
  <2>2. \A d \in Calls \ {c} : View(d)' = View(d)
    BY <1>0, <2>1 DEF Goto, TypeOK
  <2>3. View(c)' = <<StageOf(c), 1, ChildOf(c), AnswerOf(c)>>
    BY <1>0, <2>1 DEF Goto, TypeOK
  <2>4. Abstract!Ask(c)
    BY <1>0, <2>1, <2>2, <2>3, ViewFacts
  <2>. QED  BY <2>4 DEF Abstract!Next
<1>5. ASSUME NEW c \in Calls, child[c] = "running", child'[c] # "running",
             \A d \in Calls \ {c} : child'[d] = child[d],
             \A d \in Calls : StageOf(d)' = StageOf(d),
             UNCHANGED <<asked, status>>
      PROVE  Abstract!Next
  <2>1. \A d \in Calls \ {c} : View(d)' = View(d)
    BY <1>5
  <2>2. View(c)' = <<StageOf(c), asked[c], "down", AnswerOf(c)>>
    BY <1>5
  <2>3. Abstract!Down(c)
    BY <1>0, <1>5, <2>1, <2>2, ViewFacts
  <2>. QED  BY <2>3 DEF Abstract!Next
<1>6. ASSUME NEW c \in Calls, Kill(c)
      PROVE  Abstract!Next \/ UNCHANGED Abstract!vars
  <2>1. /\ \A d \in Calls : StageOf(d)' = StageOf(d)
        /\ UNCHANGED <<asked, status>>
    BY <1>0, <1>6 DEF Kill, Goto, TypeOK
  <2>2. \A d \in Calls \ {c} : child'[d] = child[d]
    BY <1>0, <1>6 DEF Kill, KillGroup, PidsAreOwned, Holds, Placed
  <2>3. CASE child[c] = "running"
    BY <1>5, <1>6, <2>1, <2>2, <2>3 DEF Kill, KillGroup
  <2>4. CASE child[c] # "running"
    <3>1. child'[c] = child[c]
      BY <1>6, <2>4 DEF Kill, KillGroup
    <3>. QED  BY <1>1, <2>1, <2>2, <3>1
  <2>. QED  BY <2>3, <2>4
<1>7. ASSUME NEW c \in Calls, Reap(c) PROVE UNCHANGED Abstract!vars
  <2>1. PICK now \in {child[c], "reaped"} : child' = [child EXCEPT ![c] = now]
    BY <1>7 DEF Reap
  <2>2. \A d \in Calls : ChildOf(d)' = ChildOf(d)
    <3>1. child[c] # "running"
      BY <1>0, <1>7 DEF Reap, Placed
    <3>2. DOMAIN child = Calls
      BY <1>0 DEF TypeOK
    <3>3. \A d \in Calls : child'[d] = IF d = c THEN now ELSE child[d]
      BY <2>1, <3>2
    <3>. QED  BY <2>1, <3>1, <3>3
  <2>3. \A d \in Calls : View(d)' = View(d)
    BY <1>0, <1>7, <2>2 DEF Reap, Goto, TypeOK
  <2>. QED  BY <1>0, <2>3, <1>7, ViewFacts
<1>8. ASSUME NEW c \in Calls, Answer(c) PROVE Abstract!Next
  <2>1. PICK o \in Outcomes(c) : status' = [status EXCEPT ![c] = o[1]]
    BY <1>8 DEF Answer
  <2>2. /\ place[c] = "settling" /\ Goto(c, "returned")
        /\ UNCHANGED <<asked, child>>
    BY <1>8 DEF Answer, childVars
  <2>3. verdict[c] # "none"
    BY <1>0, <2>2 DEF Placed
  <2>4. o[1] \in Facts \cup Failures
        /\ (o[1] \in Facts => verdict[c] = "completed" \/ verdict[c] \in Facts)
    BY <1>0, <2>3, OutcomeFacts
  <2>5. o[1] \in Facts => asked[c] = 1
    BY <1>0, <2>4 DEF Placed
  <2>6. \A d \in Calls \ {c} : View(d)' = View(d)
    BY <1>0, <2>1, <2>2 DEF Goto, TypeOK
  <2>7. PICK a \in {"fact", "failure"} :
          /\ View(c)' = <<"closed", asked[c], ChildOf(c), a>>
          /\ a = "fact" => o[1] \in Facts
    <3>1. status'[c] = o[1] /\ place'[c] = "returned"
      BY <1>0, <2>1, <2>2 DEF Goto, TypeOK
    <3>2. o[1] # "none"
      BY <2>4 DEF Facts, Failures
    <3>3. CASE o[1] \in Facts
      BY <2>2, <3>1, <3>2, <3>3
    <3>4. CASE o[1] \notin Facts
      BY <2>2, <3>1, <3>2, <3>4
    <3>. QED  BY <3>3, <3>4
  <2>8. StageOf(c) # "closed" /\ ChildOf(c) = "down"
    BY <1>0, <2>2 DEF Placed
  <2>9. Abstract!Close(c, a)
    BY <1>0, <2>5, <2>6, <2>7, <2>8, ViewFacts
  <2>. QED  BY <2>9 DEF Abstract!Next
<1>9. ASSUME NEW c \in Calls, Child(c)
      PROVE  Abstract!Next \/ UNCHANGED Abstract!vars
  <2>1. UNCHANGED <<place, asked, status>>
    BY <1>9 DEF Child, Speak, Import, Report, Exit, loopVars
  <2>2. CASE UNCHANGED child
    BY <1>2, <2>1, <2>2
  <2>3. CASE child[c] = "running" /\ child' = [child EXCEPT ![c] = "exited"]
    BY <1>0, <1>5, <2>1, <2>3 DEF TypeOK
  <2>. QED  BY <1>9, <2>2, <2>3 DEF Child, Speak, Import, Report, Exit
<1>10. ASSUME NEW c \in Calls, UNCHANGED <<asked, child, status>>,
              place[c] \in Places \ {"idle", "spawning", "returned"},
              \E p \in Places \ {"idle", "spawning", "returned"} : Goto(c, p)
       PROVE  UNCHANGED Abstract!vars
  <2>. DEFINE between == Places \ {"idle", "spawning", "returned"}
  <2>1. PICK p \in between : place' = [place EXCEPT ![c] = p]
    BY <1>10 DEF Goto
  <2>2. DOMAIN place = Calls
    BY <1>0 DEF TypeOK
  <2>3. \A d \in Calls : place'[d] = IF d = c THEN p ELSE place[d]
    BY <2>1, <2>2
  <2>4. \A d \in Calls : StageOf(d)' = StageOf(d)
    BY <1>10, <2>3
  <2>5. \A d \in Calls : View(d)' = View(d)
    BY <1>10, <2>4
  <2>. QED  BY <1>0, <1>10, <2>5, ViewFacts
<1>11. ASSUME NEW c \in Calls, NEW m \in Messages,
              Conclude(c, m) \/ Complete(c, m) \/ Ignore(c, m)
       PROVE  UNCHANGED Abstract!vars
  BY <1>10, <1>11 DEF Conclude, Complete, Ignore, Take, Settle, Places, childVars
<1>12. ASSUME NEW c \in Calls,
              Turn(c) \/ GetNothing(c) \/ Release(c) \/ Raise(c)
       PROVE  UNCHANGED Abstract!vars
  BY <1>10, <1>12 DEF Turn, GetNothing, Release, Raise, Settle, Places, childVars
<1>13. ASSUME NEW c \in Calls, Call(c)
       PROVE  Abstract!Next \/ UNCHANGED Abstract!vars
  <2>1. UNCHANGED <<asked, child, status>> /\ place[c] = "idle"
    BY <1>0, <1>13 DEF Call, Placed, childVars
  <2>2. \A d \in Calls : StageOf(d)' = StageOf(d)
    <3>1. CASE UNCHANGED place
      BY <3>1
    <3>2. CASE place' = [place EXCEPT ![c] = "spawning"]
      <4>1. DOMAIN place = Calls
        BY <1>0 DEF TypeOK
      <4>2. \A d \in Calls : place'[d] = IF d = c THEN "spawning" ELSE place[d]
        BY <3>2, <4>1
      <4>. QED  BY <2>1, <4>2
    <3>. QED  BY <1>13, <3>1, <3>2 DEF Call
  <2>3. \A d \in Calls : View(d)' = View(d)
    BY <2>1, <2>2
  <2>. QED  BY <1>1, <2>3
<1>14. ASSUME NEW c \in Calls, Threads(c) \/ Cancel(c) \/ Deadline(c)
       PROVE  UNCHANGED Abstract!vars
  <2>1. UNCHANGED <<place, asked, child, status>>
    BY <1>14 DEF Threads, ReadLine, ReadEof, Put, Drop, Drain, Cancel, Deadline,
                 loopVars, childVars
  <2>. QED  BY <1>0, <1>14, <2>1, ViewFacts
<1>15. CASE Edit \/ OtherImport \/ (\E p \in Pids : Recycle(p)) \/ UNCHANGED vars
  BY <1>2, <1>15 DEF Edit, OtherImport, Recycle, vars, loopVars, childVars
<1>. QED
  BY <1>3, <1>4, <1>6, <1>7, <1>8, <1>9, <1>11, <1>12, <1>13, <1>14, <1>15
     DEF Next, Loop, Handle, Queued

(* The four actors of a call implement the one-shot call: one child, one    *)
(* request, no child left at the answer, no fact that was not asked for.    *)
THEOREM CallsAreOneShot == Spec => ImplementsOneShotCall
<1>1. Init => Abstract!Init
  BY DEF Init, Abstract!Init, StageOf, ChildOf, AnswerOf
<1>2. CallInv /\ CallInv' /\ [Next]_vars => [Abstract!Next]_(Abstract!vars)
  BY AbstractStep DEF CallInv
<1>. QED
  BY <1>1, <1>2, CallInvariant, PTL
     DEF Spec, ImplementsOneShotCall, Abstract!Spec

-----------------------------------------------------------------------------
(* A transfer's thread is of the transcript as it was during the call       *)

Words(q) == {q[i] : i \in 1..Len(q)}

(* All that a call has in hand, or that is on its way to it.                *)
Said(c) ==
  {report[c], held[c], notice[c]} \cup Words(pipe[c]) \cup Words(inbox[c])

Covers(c, v) == began[c] <= v /\ v <= transcript /\ v \in ledger

(* A thread that is named to a call holds the transcript since the call     *)
(* began; nothing was said to it before.                                    *)
NamedTruly(c) ==
  /\ began[c] <= transcript
  /\ \A m \in Said(c) : m.says = "target" => Covers(c, m.thread)
  /\ place[c] = "idle" => \A m \in Said(c) : m.says # "target"
  /\ c \in Transfers => verdict[c] \notin Facts
  /\ c \in Transfers /\ status[c] = "ok" => Covers(c, thread[c])

LEMMA WordsFacts ==
  ASSUME NEW q \in Seq(Messages), NEW m \in Messages
  PROVE  /\ Words(Append(q, m)) \subseteq Words(q) \cup {m}
         /\ q # <<>> => Words(Tail(q)) \subseteq Words(q) /\ Head(q) \in Words(q)
BY DEF Words

LEMMA UntargetedFacts ==
  /\ Eof.says # "target" /\ BadLine.says # "target" /\ NoReport.says # "target"
  /\ \A c \in Calls : \A m \in Wire[c] : m.says # "target"
  /\ \A s \in {"invalid", "failures", "empty"}, v \in Versions :
       Completed(s, v).says # "target"
<1>1. \A m \in InitResponses \cup Responses \cup Guesses \cup Other : m.says # "target"
  BY DEF InitResponses, Responses, Guesses, Other, Line, HangUp
<1>2. Completed("empty", 0).says # "target"
  BY DEF Completed
<1>3. \A c \in Calls : \A m \in Wire[c] : m.says # "target"
  BY <1>1, <1>2, AppServerAssumption
<1>. QED  BY <1>3 DEF Eof, BadLine, NoReport, Line, Completed

(* Whatever is new to a call names no thread, but for its child's import of *)
(* the transcript as it is.                                                 *)
LEMMA SaidStep ==
  ASSUME CallInv, [Next]_vars, NEW d \in Calls, NEW w \in Said(d)'
  PROVE  \/ w \in Said(d) \/ w.says # "target"
         \/ /\ w.thread = transcript /\ transcript \in ledger'
            /\ child[d] = "running"
<1>0. TypeOK
  BY DEF CallInv
<1>. DEFINE Known == \/ w \in Said(d) \/ w.says # "target"
                     \/ /\ w.thread = transcript /\ transcript \in ledger'
                        /\ child[d] = "running"
<1>. SUFFICES Known
  OBVIOUS
<1>1. /\ report[d] \in Messages /\ held[d] \in Messages
      /\ pipe[d] \in Seq(Messages) /\ inbox[d] \in Seq(Messages)
  BY <1>0, MessageFacts DEF TypeOK, Messages
<1>2. \/ w \in {report'[d], held'[d], notice'[d]}
      \/ w \in Words(pipe'[d]) \/ w \in Words(inbox'[d])
  BY DEF Said, Words
<1>3. CASE UNCHANGED <<report, held, notice, pipe, inbox>>
  BY <1>2, <1>3 DEF Said
<1>4. ASSUME NEW c \in Calls, NEW m \in Messages,
             Handshake(c, m) \/ Conclude(c, m) \/ Complete(c, m) \/ Ignore(c, m)
      PROVE  Known
  <2>1. /\ UNCHANGED <<report, held, pipe>>
        /\ inbox[c] # <<>> /\ m = Head(inbox[c])
        /\ inbox' = [inbox EXCEPT ![c] = Tail(inbox[c])]
        /\ notice' \in {notice, [notice EXCEPT ![c] = m]}
    BY <1>4 DEF Handshake, Conclude, Complete, Ignore, Take, childVars
  <2>2. inbox'[d] = inbox[d] \/ (c = d /\ inbox'[d] = Tail(inbox[d]))
    BY <1>0, <2>1 DEF TypeOK
  <2>3. notice'[d] = notice[d] \/ (c = d /\ notice'[d] = Head(inbox[d]))
    BY <1>0, <2>1 DEF TypeOK
  <2>4. c = d => /\ Words(Tail(inbox[d])) \subseteq Words(inbox[d])
                 /\ Head(inbox[d]) \in Words(inbox[d])
    BY <1>1, <2>1, WordsFacts
  <2>. QED  BY <1>2, <2>1, <2>2, <2>3, <2>4 DEF Said
<1>5. ASSUME NEW c \in Calls, ReadLine(c)  PROVE Known
  <2>1. /\ UNCHANGED <<report, notice, inbox>> /\ pipe[c] # <<>>
        /\ pipe' = [pipe EXCEPT ![c] = Tail(pipe[c])]
    BY <1>5 DEF ReadLine, loopVars
  <2>2. held'[d] \in {held[d], Eof, BadLine} \/ (c = d /\ held'[d] = Head(pipe[d]))
    BY <1>0, <1>5, ReadHolds
  <2>3. pipe'[d] = pipe[d] \/ (c = d /\ pipe'[d] = Tail(pipe[d]))
    BY <1>0, <2>1 DEF TypeOK
  <2>4. c = d => /\ Words(Tail(pipe[d])) \subseteq Words(pipe[d])
                 /\ Head(pipe[d]) \in Words(pipe[d])
    BY <1>1, <2>1, WordsFacts
  <2>. QED  BY <1>2, <2>1, <2>2, <2>3, <2>4, UntargetedFacts DEF Said
<1>6. ASSUME NEW c \in Calls, ReadEof(c) \/ Put(c) \/ Drop(c)  PROVE Known
  <2>1. UNCHANGED <<report, notice, pipe>>
    BY <1>6 DEF ReadEof, Put, Drop, loopVars, childVars
  <2>2. held'[d] \in {held[d], Eof}
    BY <1>0, <1>6 DEF ReadEof, Put, Drop, Hold, AfterPut, TypeOK
  <2>3. inbox'[d] \in {inbox[d], Append(inbox[d], held[d])}
    <3>1. UNCHANGED inbox \/ inbox' = [inbox EXCEPT ![c] = Append(inbox[c], held[c])]
      BY <1>6 DEF ReadEof, Put, Drop
    <3>2. DOMAIN inbox = Calls
      BY <1>0 DEF TypeOK
    <3>. QED  BY <3>1, <3>2
  <2>4. Words(Append(inbox[d], held[d])) \subseteq Words(inbox[d]) \cup {held[d]}
    BY <1>1, WordsFacts
  <2>. QED  BY <1>2, <2>1, <2>2, <2>3, <2>4, UntargetedFacts DEF Said
<1>7. ASSUME NEW c \in Calls, NEW m \in Messages, Write(c, m),
             UNCHANGED <<held, notice, inbox>>,
             report'[d] \in {report[d], NoReport},
             c = d => m = report[d] \/ m.says # "target"
      PROVE  Known
  <2>1. pipe'[d] = pipe[d] \/ (c = d /\ pipe'[d] = Append(pipe[d], m))
    BY <1>0, <1>7 DEF Write, TypeOK
  <2>2. Words(Append(pipe[d], m)) \subseteq Words(pipe[d]) \cup {m}
    BY <1>1, WordsFacts
  <2>. QED  BY <1>2, <1>7, <2>1, <2>2, UntargetedFacts DEF Said
<1>8. ASSUME NEW c \in Calls, Child(c)  PROVE Known
  <2>1. ASSUME NEW m \in Wire[c], Speak(c, m)  PROVE Known
    BY <1>7, <2>1, MessageFacts, UntargetedFacts DEF Speak, loopVars, threadVars
  <2>2. CASE Report(c)
    <3>1. report[c] \in Messages /\ report'[d] \in {report[d], NoReport}
      BY <1>0, <2>2, MessageFacts DEF Report, TypeOK, Messages
    <3>. QED  BY <1>7, <2>2, <3>1 DEF Report, loopVars, threadVars
  <2>3. CASE Import(c)
    <3>1. UNCHANGED <<held, notice, pipe, inbox>> /\ child[c] = "running"
      BY <2>3 DEF Import, loopVars, threadVars
    <3>2. \/ report'[d] = report[d] \/ report'[d].says # "target"
          \/ /\ c = d /\ report'[d] = Completed("target", transcript)
             /\ transcript \in ledger'
      BY <1>0, <2>3 DEF Import, TypeOK, Completed
    <3>3. Completed("target", transcript).thread = transcript
      BY DEF Completed
    <3>. QED  BY <1>2, <3>1, <3>2, <3>3 DEF Said
  <2>4. CASE Exit(c)
    BY <1>3, <2>4 DEF Exit, loopVars, threadVars
  <2>. QED  BY <1>8, <2>1, <2>2, <2>3, <2>4 DEF Child
<1>9. ASSUME NEW c \in Calls,
             Drain(c) \/ Spawn(c) \/ Turn(c) \/ GetNothing(c) \/ Release(c)
             \/ Kill(c) \/ Reap(c) \/ Answer(c) \/ Raise(c) \/ Call(c)
             \/ Cancel(c) \/ Deadline(c)
      PROVE  Known
  BY <1>3, <1>9 DEF Drain, Spawn, Turn, GetNothing, Release, Kill, Reap, Answer,
       Raise, Call, Cancel, Deadline, loopVars, threadVars, childVars
<1>10. CASE Edit \/ OtherImport \/ (\E p \in Pids : Recycle(p)) \/ UNCHANGED vars
  BY <1>3, <1>10 DEF Edit, OtherImport, Recycle, vars, loopVars, threadVars, childVars
<1>. QED
  BY <1>4, <1>5, <1>6, <1>8, <1>9, <1>10 DEF Next, Loop, Handle, Queued, Threads

(* The transcript and its ledger only grow.                                 *)
LEMMA WorldStep ==
  ASSUME CallInv, [Next]_vars, NEW d \in Calls
  PROVE  /\ transcript <= transcript' /\ ledger \subseteq ledger'
         /\ \/ began'[d] = began[d]
            \/ place[d] = "idle" /\ began'[d] = transcript
<1>. DEFINE Grown == /\ transcript <= transcript' /\ ledger \subseteq ledger'
                     /\ \/ began'[d] = began[d]
                        \/ place[d] = "idle" /\ began'[d] = transcript
<1>. SUFFICES Grown
  OBVIOUS
<1>0. TypeOK /\ \A c \in Calls : Placed(c)
  BY DEF CallInv
<1>1. transcript \in Nat
  BY <1>0, AppServerAssumption DEF TypeOK
<1>2. UNCHANGED <<transcript, ledger, began>> => Grown
  BY <1>1
<1>3. ASSUME NEW c \in Calls, Call(c)  PROVE Grown
  BY <1>0, <1>1, <1>3 DEF Call, Placed, TypeOK
<1>4. ASSUME NEW c \in Calls, Import(c)
      PROVE  Grown
  BY <1>1, <1>4 DEF Import
<1>5. ASSUME NEW c \in Calls,
             Cancel(c) \/ Loop(c) \/ Raise(c) \/ Deadline(c) \/ Threads(c)
      PROVE  Grown
  BY <1>2, <1>5 DEF Cancel, Loop, Spawn, Turn, GetNothing, Handle, Queued, Handshake, Conclude,
       Complete, Ignore, Release, Kill, Reap, Answer, Raise, Deadline, Threads,
       ReadLine, ReadEof, Put, Drop, Drain, worldVars
<1>6. ASSUME NEW c \in Calls, Child(c)
      PROVE  Grown
  BY <1>2, <1>4, <1>6 DEF Child, Speak, Report, Exit, worldVars
<1>7. CASE (\E p \in Pids : Recycle(p)) \/ UNCHANGED vars
  BY <1>2, <1>7 DEF Recycle, vars, worldVars
<1>8. CASE Edit \/ OtherImport
  BY <1>1, <1>8 DEF Edit, OtherImport
<1>. HIDE DEF Grown
<1>. QED  BY <1>3, <1>5, <1>6, <1>7, <1>8 DEF Next

(* No step goes back to "idle", a transfer never settles with the answer to *)
(* a read, and only an answer names a thread.                               *)
LEMMA LoopStep ==
  ASSUME CallInv, [Next]_vars, NEW d \in Calls
  PROVE  /\ place'[d] = "idle" => place[d] = "idle"
         /\ d \in Transfers /\ verdict'[d] \in Facts => verdict[d] \in Facts
         /\ \/ status'[d] = status[d] /\ thread'[d] = thread[d]
            \/ status'[d] = "spawn_failed"
            \/ Answer(d)
<1>. DEFINE Kept == /\ place'[d] = "idle" => place[d] = "idle"
                    /\ d \in Transfers /\ verdict'[d] \in Facts => verdict[d] \in Facts
                    /\ \/ status'[d] = status[d] /\ thread'[d] = thread[d]
                       \/ status'[d] = "spawn_failed"
                       \/ Answer(d)
<1>. SUFFICES Kept
  OBVIOUS
<1>0. TypeOK
  BY DEF CallInv
<1>1. CASE UNCHANGED <<place, verdict, status, thread>>
  BY <1>1
<1>2. ASSUME NEW c \in Calls,
             Spawn(c) \/ GetNothing(c) \/ Release(c) \/ Kill(c) \/ Reap(c) \/ Call(c)
      PROVE  Kept
  BY <1>0, <1>2 DEF Spawn, GetNothing, Release, Kill, Reap, Call, Goto, TypeOK
<1>3. ASSUME NEW c \in Calls, Answer(c)  PROVE Kept
  <2>1. /\ verdict' = verdict
        /\ \E s, t : /\ status' = [status EXCEPT ![c] = s]
                     /\ thread' = [thread EXCEPT ![c] = t]
    BY <1>3, Zenon DEF Answer
  <2>2. place'[d] = "idle" => place[d] = "idle"
    BY <1>0, <1>3 DEF Answer, Goto, TypeOK
  <2>3. CASE c = d
    BY <1>3, <2>1, <2>2, <2>3
  <2>4. CASE c # d
    <3>1. DOMAIN status = Calls /\ DOMAIN thread = Calls
      BY <1>0 DEF TypeOK
    <3>2. status'[d] = status[d] /\ thread'[d] = thread[d]
      BY <2>1, <2>4, <3>1
    <3>. QED  BY <2>1, <2>2, <3>2
  <2>. QED  BY <2>3, <2>4
<1>4. ASSUME NEW c \in Calls, NEW v, Settle(c, v), UNCHANGED <<status, thread>>,
             c \in Transfers => v \notin Facts
      PROVE  Kept
  BY <1>0, <1>4 DEF Settle, Goto, TypeOK
<1>5. ASSUME NEW c \in Calls, Goto(c, "turning") \/ Goto(c, "getting"),
             UNCHANGED <<verdict, status, thread>>
      PROVE  Kept
  BY <1>0, <1>5 DEF Goto, TypeOK
<1>6. ASSUME NEW c \in Calls, Turn(c) \/ Raise(c)  PROVE Kept
  BY <1>4, <1>5, <1>6 DEF Turn, Raise, Facts
<1>7. ASSUME NEW c \in Calls, NEW m \in Messages,
             Handshake(c, m) \/ Conclude(c, m) \/ Complete(c, m) \/ Ignore(c, m)
      PROVE  Kept
  <2>1. CASE Handshake(c, m) \/ Ignore(c, m)
    BY <1>5, <2>1 DEF Handshake, Ignore
  <2>2. CASE Complete(c, m)
    BY <1>4, <2>2 DEF Complete, Facts
  <2>3. CASE Conclude(c, m)
    <3>1. c \in Transfers => Verdict(c, m) \notin Facts
      <4>1. c \in Transfers => c \notin Reads
        BY AppServerAssumption
      <4>. QED  BY <2>3, <4>1, VerdictFacts DEF Conclude, Answers
    <3>. QED  BY <1>4, <2>3, <3>1 DEF Conclude
  <2>. QED  BY <1>7, <2>1, <2>2, <2>3
<1>8. ASSUME NEW c \in Calls, Cancel(c) \/ Deadline(c) \/ Threads(c) \/ Child(c)
      PROVE  Kept
  BY <1>1, <1>8 DEF Cancel, Deadline, Threads, ReadLine, ReadEof, Put, Drop, Drain,
       Child, Speak, Import, Report, Exit, loopVars
<1>9. CASE Edit \/ OtherImport \/ (\E p \in Pids : Recycle(p)) \/ UNCHANGED vars
  BY <1>1, <1>9 DEF Edit, OtherImport, Recycle, vars, loopVars
<1>. QED
  BY <1>2, <1>3, <1>6, <1>7, <1>8, <1>9 DEF Next, Loop, Handle, Queued

(* What an answer names is what was said to the call, or the ledger's       *)
(* record of the transcript as it is.                                       *)
LEMMA AnswerNamesTruly ==
  ASSUME CallInv, NEW d \in Transfers, NamedTruly(d), Answer(d), status'[d] = "ok"
  PROVE  Covers(d, thread'[d])
<1>. d \in Calls
  BY DEF Calls
<1>0. TypeOK
  BY DEF CallInv
<1>1. PICK o \in Outcomes(d) : status'[d] = o[1] /\ thread'[d] = o[2]
  BY <1>0 DEF Answer, TypeOK
<1>2. verdict[d] = "completed"
  BY <1>1 DEF Outcomes, NamedTruly, Facts
<1>3. o \in Resolved(notice[d])
  BY <1>1, <1>2 DEF Outcomes
<1>4. CASE notice[d].says = "target"
  BY <1>1, <1>3, <1>4 DEF Resolved, NamedTruly, Said
<1>5. CASE notice[d].says # "target"
  <2>1. PICK v \in LedgerLookup : o = <<IF v = 0 THEN "incomplete" ELSE "ok", v>>
    BY <1>1, <1>3, <1>5 DEF Resolved
  <2>2. v = transcript /\ v \in ledger
    BY <1>1, <2>1 DEF LedgerLookup
  <2>3. transcript \in Nat
    BY <1>0, AppServerAssumption DEF TypeOK
  <2>. QED  BY <1>1, <2>1, <2>2, <2>3 DEF NamedTruly, Covers
<1>. QED  BY <1>4, <1>5

(* The inductive invariant of the named threads.                             *)
NamedInv == \A d \in Calls : NamedTruly(d)

LEMMA NamedStep ==
  ASSUME CallInv, CallInv', [Next]_vars, NEW d \in Calls, NamedTruly(d)
  PROVE  NamedTruly(d)'
<1>0. TypeOK /\ TypeOK' /\ Placed(d) /\ Placed(d)'
  BY DEF CallInv
<1>1. transcript \in Nat /\ transcript' \in Nat /\ began[d] \in Nat /\ began'[d] \in Nat
  BY <1>0, AppServerAssumption DEF TypeOK, Versions
<1>2. began'[d] <= transcript'
  BY <1>1, WorldStep DEF NamedTruly
<1>3. ASSUME NEW v, Covers(d, v), place[d] # "idle"  PROVE Covers(d, v)'
  <2>1. began'[d] = began[d] /\ v \in ledger' /\ v \in Nat
    BY <1>0, <1>3, WorldStep, AppServerAssumption DEF Covers, TypeOK
  <2>. QED  BY <1>1, <1>3, <2>1, WorldStep DEF Covers
<1>4. ASSUME NEW w \in Said(d)', w.says = "target"
      PROVE  place[d] # "idle" /\ Covers(d, w.thread)'
  <2>1. CASE w \in Said(d)
    BY <1>3, <1>4, <2>1 DEF NamedTruly
  <2>2. CASE /\ w.thread = transcript /\ transcript \in ledger'
             /\ child[d] = "running"
    <3>1. place[d] # "idle"
      BY <1>0, <2>2 DEF Placed
    <3>2. began'[d] = began[d]
      BY <3>1, WorldStep
    <3>. QED  BY <1>1, <2>2, <3>1, <3>2, WorldStep DEF NamedTruly, Covers
  <2>. QED  BY <1>4, <2>1, <2>2, SaidStep
<1>5. d \in Transfers => verdict'[d] \notin Facts
  BY LoopStep DEF NamedTruly
<1>6. ASSUME d \in Transfers, status'[d] = "ok"  PROVE Covers(d, thread[d])'
  <2>1. CASE status'[d] = status[d] /\ thread'[d] = thread[d]
    <3>1. place[d] # "idle" /\ Covers(d, thread[d])
      BY <1>0, <1>6, <2>1 DEF Placed, NamedTruly
    <3>2. Covers(d, thread'[d])
      BY <2>1, <3>1
    <3>. QED  BY <1>3, <2>1, <3>1 DEF Covers
  <2>2. CASE Answer(d)
    <3>1. place[d] # "idle" /\ Covers(d, thread'[d])
      BY <1>6, <2>2, AnswerNamesTruly DEF Answer
    <3>. QED  BY <1>3, <3>1 DEF Covers
  <2>. QED  BY <1>6, <2>1, <2>2, LoopStep
<1>7. place'[d] = "idle" => place[d] = "idle"
  BY LoopStep
<1>. QED  BY <1>2, <1>4, <1>5, <1>6, <1>7 DEF NamedTruly

(* A transfer that succeeds names a thread holding the transcript as it was *)
(* at some moment of the call, whatever older threads the ledger has.       *)
THEOREM TransfersNameTheTranscript == Spec => []NamedThreadHoldsTheTranscript
<1>1. Init => NamedInv
  BY AppServerAssumption, UntargetedFacts
     DEF Init, NamedInv, NamedTruly, Said, Words, Facts
<1>2. ASSUME CallInv, CallInv', [Next]_vars, NamedInv
      PROVE  NamedInv'
  BY <1>2, NamedStep DEF NamedInv
<1>3. NamedInv => NamedThreadHoldsTheTranscript
  BY DEF NamedInv, NamedTruly, Covers, NamedThreadHoldsTheTranscript, Calls
<1>. QED  BY <1>1, <1>2, <1>3, CallInvariant, PTL DEF Spec
=============================================================================

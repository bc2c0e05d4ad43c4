-------------------------- MODULE ToolRepliesProofs --------------------------
(***************************************************************************)
(* What the callers of codex_transfer and codex_status are told is true,    *)
(* for any number of calls, lines and quota blocks.                         *)
(***************************************************************************)
EXTENDS ToolReplies, AppServerProofs

-----------------------------------------------------------------------------
(***************************************************************************)
(* The promises of a quota reading, for every block the app-server may     *)
(* answer with and every moment.                                           *)
(***************************************************************************)
(* A window counts as open exactly if, as it was sent, it is in force; what*)
(* remains of it is then read off the percentage sent (_window, _is_open). *)
LEMMA OpenIsInForce ==
    ASSUME NEW w \in Windows, NEW now \in Nat
    PROVE  /\ IsOpen(FromWire(w), now) <=> InForce(w, now)
           /\ InForce(w, now) => Remaining(FromWire(w), now) = 100 - w.used
           /\ FromWire(w).there = w.there
<1>1. CASE ~w.there
  BY <1>1 DEF IsOpen, InForce, FromWire, NoWindow, Windows
<1>2. CASE w.there
  <2>1. /\ FromWire(w).there = w.there /\ FromWire(w).resets = w.resets
        /\ FromWire(w).used = Percent(w.used)
    BY <1>2 DEF FromWire, Windows
  <2>2. w.used \in Int /\ w.resets \in Nat \cup {-1} /\ MaxTime \in Nat
    BY MaxTimeAssumption DEF Windows, Absent
  <2> HIDE DEF FromWire
  <2> QED
    BY <1>2, <2>1, <2>2
    DEF IsOpen, InForce, Remaining, ResetPassed, Percent, Known, Absent
<1> QED BY <1>1, <1>2

(* Re-slotting neither invents nor loses a window (_assign_window_slots).  *)
LEMMA SlotsHoldWhatWasSent ==
    ASSUME NEW p, NEW s, p.there \in BOOLEAN, s.there \in BOOLEAN
    PROVE  LET a == Assigned(p, s) IN
           /\ a.primary \in {p, s, NoWindow} /\ a.secondary \in {p, s, NoWindow}
           /\ p.there => p \in {a.primary, a.secondary}
           /\ s.there => s \in {a.primary, a.secondary}
BY DEF Assigned, NoWindow

(* No block that reads as a quota, however its windows are ordered, missing*)
(* or half filled in, is interpreted more favourably or more alarmingly    *)
(* than what it says (_status).                                            *)
THEOREM ReadingIsConservative ==
    ASSUME NEW b \in Block, NEW now \in Nat
    PROVE  Conservative(b, Interpret(b, now), now)
<1> DEFINE windows == Snapshot(b)
           open == {n \in Slots : IsOpen(windows[n], now)}
           present == {n \in Slots : windows[n].there}
           exhausted == {n \in open : Remaining(windows[n], now) <= 0}
           limited == {n \in open : Remaining(windows[n], now) < LimitedThreshold}
           sent == {b.primary, b.secondary}
           v == Interpret(b, now)
<1>1. b.primary \in Windows /\ b.secondary \in Windows /\ b.reached \in Reasons
  BY DEF Block
<1>2. \A n \in Slots : windows[n].there => \E w \in sent : windows[n] = FromWire(w)
  BY <1>1, OpenIsInForce, SlotsHoldWhatWasSent DEF Snapshot, Slots, Windows, NoWindow
<1>3. \A w \in sent : w.there => \E n \in Slots : windows[n] = FromWire(w)
  BY <1>1, OpenIsInForce, SlotsHoldWhatWasSent DEF Snapshot, Slots, Windows
<1>4. \A n \in open : \E w \in sent :
        InForce(w, now) /\ Remaining(windows[n], now) = 100 - w.used
  BY <1>1, <1>2, OpenIsInForce DEF IsOpen
<1>5. \A w \in sent : w.there =>
        \E n \in present : windows[n] = FromWire(w)
  BY <1>1, <1>3, OpenIsInForce
<1>6. v = IF b.spend = "reached" THEN Reading("blocked", "none")
        ELSE IF present = {} THEN Reading("unknown", "none")
        ELSE IF b.reached \in open THEN Reading("exhausted", b.reached)
        ELSE IF b.reached \in Slots \/ (b.reached # "none" /\ open = {})
             THEN Reading("unknown", "none")
        ELSE IF b.reached # "none"
             THEN Reading("exhausted", Tightest(open, windows, now))
        ELSE IF exhausted # {}
             THEN Reading("exhausted", Tightest(exhausted, windows, now))
        ELSE IF limited # {}
             THEN Reading("limited", Tightest(limited, windows, now))
        ELSE IF present \ open # {} THEN Reading("unknown", "none")
        ELSE Reading("available", Tightest(open, windows, now))
  BY DEF Interpret, Status
<1>7. v.status = "available" =>
        /\ b.spend # "reached" /\ b.reached = "none" /\ present # {}
        /\ exhausted = {} /\ limited = {} /\ present \subseteq open
  <2> HIDE DEF open, present, exhausted, limited, windows, v
  <2> QED BY <1>6, Zenon DEF Reading
<1>8. v.status = "limited" => limited # {}
  <2> HIDE DEF open, present, exhausted, limited, windows, v
  <2> QED BY <1>6, Zenon DEF Reading
<1>9. v.status = "exhausted" =>
        exhausted # {} \/ (b.reached # "none" /\ open # {})
  <2>1. "none" \notin open
    BY DEF Slots
  <2> HIDE DEF open, present, exhausted, limited, windows, v
  <2> QED BY <1>6, <2>1, Zenon DEF Reading
<1>10. (v.status = "blocked") <=> (b.spend = "reached")
  <2> HIDE DEF open, present, exhausted, limited, windows, v
  <2> QED BY <1>6 DEF Reading
<1>11. ASSUME v.status = "available"
       PROVE  /\ \E w \in sent : w.there
              /\ \A w \in sent : w.there =>
                    InForce(w, now) /\ 100 - w.used >= LimitedThreshold
  <2>1. PICK n \in Slots : windows[n].there
    BY <1>7, <1>11
  <2>2. \E w \in sent : w.there
    BY <1>1, <1>2, <2>1, OpenIsInForce
  <2>3. ASSUME NEW w \in sent, w.there
        PROVE  InForce(w, now) /\ 100 - w.used >= LimitedThreshold
    <3>1. PICK k \in present : windows[k] = FromWire(w)
      BY <1>5, <2>3
    <3>2. k \in open
      BY <1>7, <1>11, <3>1
    <3>3. InForce(w, now) /\ Remaining(windows[k], now) = 100 - w.used
      BY <1>1, <3>1, <3>2, OpenIsInForce
    <3>4. ~(Remaining(windows[k], now) < LimitedThreshold)
      BY <1>7, <1>11, <3>2
    <3> HIDE DEF windows, open, present, limited
    <3> QED
      BY <1>1, <3>3, <3>4 DEF LimitedThreshold, InForce
  <2> QED BY <2>2, <2>3
<1>12. ASSUME v.status = "limited"
       PROVE  \E w \in sent : InForce(w, now) /\ 100 - w.used < LimitedThreshold
  <2>1. PICK n \in open : Remaining(windows[n], now) < LimitedThreshold
    BY <1>8, <1>12
  <2> QED BY <1>4, <2>1
<1>13. ASSUME v.status = "exhausted"
       PROVE  \E w \in sent : InForce(w, now) /\ (w.used = 100 \/ b.reached # "none")
  <2>1. CASE exhausted # {}
    <3>1. PICK n \in open : Remaining(windows[n], now) <= 0
      BY <2>1
    <3>2. PICK w \in sent : InForce(w, now) /\ Remaining(windows[n], now) = 100 - w.used
      BY <1>4
    <3> HIDE DEF windows, open
    <3> QED BY <3>1, <3>2 DEF InForce
  <2>2. CASE b.reached # "none" /\ open # {}
    BY <1>4, <2>2
  <2> QED BY <1>9, <1>13, <2>1, <2>2
<1> QED
  <2> HIDE DEF open, present, exhausted, limited, windows
  <2> QED BY <1>7, <1>10, <1>11, <1>12, <1>13, Zenon DEF Conservative

(* For every block: windows whose durations differ read the same whichever *)
(* slot the app-server put them in (_assign_window_slots, #321).           *)
THEOREM SlotOrderDoesNotMatter ==
    ASSUME NEW b \in Block, NEW now \in Nat
    PROVE  SlotOrderIsIrrelevant(b, now)
<1> SUFFICES ASSUME b.primary.there, b.secondary.there,
                    Known(b.primary.minutes), Known(b.secondary.minutes),
                    b.primary.minutes # b.secondary.minutes
             PROVE  Interpret(Swapped(b), now) = Interpret(b, now)
  BY DEF SlotOrderIsIrrelevant
<1>1. /\ Swapped(b).primary = b.secondary /\ Swapped(b).secondary = b.primary
      /\ Swapped(b).reached = b.reached /\ Swapped(b).spend = b.spend
  BY DEF Swapped, Block
<1>2. /\ FromWire(b.primary).there /\ FromWire(b.secondary).there
      /\ FromWire(b.primary).minutes = b.primary.minutes
      /\ FromWire(b.secondary).minutes = b.secondary.minutes
  BY DEF FromWire, Block, Windows
<1>3. b.primary.minutes \in Nat /\ b.secondary.minutes \in Nat
  BY DEF Known, Absent, Block, Windows
<1>4. Snapshot(Swapped(b)) = Snapshot(b)
  <2> HIDE DEF FromWire
  <2> QED BY <1>1, <1>2, <1>3 DEF Snapshot, Assigned
<1> QED BY <1>1, <1>4, Zenon DEF Interpret, Status

-----------------------------------------------------------------------------
(***************************************************************************)
(* What the callers are told.                                              *)
(***************************************************************************)

(* What the verdict and the status of a call remember of how it went.       *)
Faithful(c) ==
  /\ stop[c] => tool[c] = "cancelled"
  /\ verdict[c] = "timed_out" \/ status[c] = "timed_out" => late[c]
  /\ verdict[c] = "stopped" \/ status[c] = "stopped" => stop[c]
  /\ verdict[c] = "completed" => home[c]
  /\ verdict[c] # "spawn_failed"
  /\ c \in Transfers => verdict[c] \notin Facts /\ status[c] # "no_quota"
  /\ status[c] \in Facts => asked[c] = 1 /\ (c \in Transfers => home[c])
  /\ child[c] = "none" => words[c] = "none"
                          /\ place[c] \in {"idle", "spawning", "returned"}
  /\ place[c] = "returned" =>
       /\ status[c] # "none"
       /\ status[c] = "spawn_failed" <=> child[c] = "none"
       /\ c \notin Escapees /\ status[c] \notin {"stopped", "raised"}
            /\ words[c] # "none" => tail[c]
       /\ c \notin Escapees /\ status[c] # "raised" => words[c] # "piped"

LEMMA FaithfulInit == Init => \A c \in Calls : Faithful(c)
BY DEF Init, Faithful, Facts

(* Where the call ends: the outcome follows from the verdict.               *)
LEMMA FaithfulAnswer ==
  ASSUME CallInv, NEW d \in Calls, Faithful(d), NEW c \in Calls, Answer(c)
  PROVE  Faithful(d)'
<1>0. TypeOK /\ Placed(c) /\ Placed(d)
  BY DEF CallInv
<1>1. /\ UNCHANGED <<tool, stop, late, home, asked, verdict, child, words>>
      /\ place[c] = "settling"
      /\ verdict[c] = "raised" \/ c \in Escapees \/ words[c] # "piped"
      /\ Goto(c, "returned")
      /\ tail' = [tail EXCEPT ![c] = ShowsTail(c)]
  BY DEF Answer, childVars
<1>2. PICK o \in Outcomes(c) : status' = [status EXCEPT ![c] = o[1]]
  BY DEF Answer
<1>3. CASE c # d
  <2>1. UNCHANGED <<tool[d], stop[d], late[d], home[d], asked[d], verdict[d], child[d],
                    words[d], place[d], tail[d], status[d]>>
    BY <1>0, <1>1, <1>2, <1>3 DEF TypeOK, Goto
  <2>. QED  BY <2>1 DEF Faithful
<1>4. CASE c = d
  <2>1. status'[d] = o[1] /\ place'[d] = "returned" /\ tail'[d] = ShowsTail(d)
    BY <1>0, <1>1, <1>2, <1>4 DEF TypeOK, Goto
  <2>2. verdict[d] # "none" /\ child[d] # "none"
    BY <1>0, <1>1, <1>4 DEF Placed, Faithful
  <2>3. CASE verdict[d] = "completed"
    <3>1. o[1] \in {"ok", "protocol_error", "item_failure", "incomplete"}
      BY <1>2, <1>4, <2>3 DEF Outcomes, Resolved
    <3>2. asked[d] = 1 /\ home[d]
      BY <1>0, <1>4, <2>3 DEF Placed, Faithful
    <3>. QED
      BY <1>0, <1>1, <1>4, <2>1, <2>2, <2>3, <3>1, <3>2 DEF Faithful, ShowsTail, TypeOK
  <2>4. CASE verdict[d] # "completed"
    <3>1. o[1] = verdict[d]
      BY <1>2, <1>4, <2>4 DEF Outcomes
    <3>2. verdict[d] \in Facts => asked[d] = 1
      BY <1>0, <1>4 DEF Placed
    <3>3. words[d] \in {"none", "piped", "drained"}
      BY <1>0 DEF TypeOK
    <3>. QED
      BY <1>1, <1>4, <2>1, <2>2, <2>4, <3>1, <3>2, <3>3 DEF Faithful, ShowsTail, Facts
  <2>. QED  BY <2>3, <2>4
<1>. QED  BY <1>3, <1>4

LEMMA FaithfulStep ==
  ASSUME CallInv, [Next]_vars, NEW d \in Calls, Faithful(d)
  PROVE  Faithful(d)'
<1>. USE DEF TypeOK, loopVars, threadVars, childVars, worldVars, Faithful
<1>0. TypeOK /\ (\A c \in Calls : Placed(c)) /\ PidsAreOwned
  BY DEF CallInv
<1>1. ASSUME NEW c \in Calls, Call(c) PROVE Faithful(d)'
  <2>1. /\ UNCHANGED <<stop, late, home, asked, verdict, status, tail, child, words>>
        /\ tool[c] = "idle" /\ place[c] = "idle"
    BY <1>0, <1>1 DEF Call, Placed
  <2>2. /\ tool'[d] = "cancelled" <=> tool[d] = "cancelled"
        /\ place'[d] = place[d] \/ place'[d] = "spawning"
    BY <1>0, <1>1, <2>1 DEF Call
  <2>. QED  BY <2>1, <2>2
<1>2. ASSUME NEW c \in Calls, Cancel(c) PROVE Faithful(d)'
  BY <1>0, <1>2 DEF Cancel
<1>3. ASSUME NEW c \in Calls, Deadline(c) PROVE Faithful(d)'
  BY <1>0, <1>3 DEF Deadline
<1>4. ASSUME NEW c \in Calls, ReadLine(c) \/ ReadEof(c) \/ Put(c) \/ Drop(c)
      PROVE Faithful(d)'
  <2>1. UNCHANGED <<tool, place, stop, late, home, asked, verdict, status, tail, child,
                    words>>
    BY <1>4 DEF ReadLine, ReadEof, Put, Drop
  <2>. QED  BY <2>1
<1>5. ASSUME NEW c \in Calls, Drain(c) PROVE Faithful(d)'
  <2>1. /\ UNCHANGED <<tool, place, stop, late, home, asked, verdict, status, tail, child>>
        /\ words[c] = "piped" /\ words' = [words EXCEPT ![c] = "drained"]
    BY <1>5 DEF Drain
  <2>. QED  BY <1>0, <2>1
<1>6. ASSUME NEW c \in Calls, Child(c) PROVE Faithful(d)'
  <2>1. UNCHANGED <<tool, place, stop, late, home, asked, verdict, status, tail>>
    BY <1>6 DEF Child, Speak, Import, Report, Exit
  <2>2. CASE UNCHANGED <<child, words>>
    BY <2>1, <2>2
  <2>3. CASE Exit(c)
    <3>1. PICK w : words' = [words EXCEPT ![c] = w]
      BY <2>3 DEF Exit
    <3>2. child[c] = "running" /\ child' = [child EXCEPT ![c] = "exited"]
      BY <2>3 DEF Exit
    <3>3. place[c] # "returned"
      BY <1>0, <3>2 DEF Placed
    <3>. QED  BY <1>0, <2>1, <3>1, <3>2, <3>3
  <2>. QED  BY <1>6, <2>2, <2>3 DEF Child, Speak, Import, Report, Write
<1>7. ASSUME NEW c \in Calls, Spawn(c) PROVE Faithful(d)'
  <2>1. /\ UNCHANGED <<tool, stop, late, home, asked, verdict, tail, words>>
        /\ place[c] = "spawning" /\ child[c] = "none"
    BY <1>0, <1>7 DEF Spawn, Placed
  <2>2. CASE Goto(c, "returned") /\ UNCHANGED child
             /\ status' = [status EXCEPT ![c] = "spawn_failed"]
    BY <1>0, <2>1, <2>2 DEF Goto, Facts
  <2>3. CASE Goto(c, "turning") /\ UNCHANGED status
             /\ child' = [child EXCEPT ![c] = "running"]
    BY <1>0, <2>1, <2>3 DEF Goto
  <2>. QED  BY <1>7, <2>2, <2>3 DEF Spawn
<1>8. ASSUME NEW c \in Calls, NEW v, Settle(c, v), child[c] # "none",
             UNCHANGED <<tool, stop, late, home, asked, status, tail, child, words>>,
             v = "timed_out" => late[c], v = "stopped" => stop[c],
             v = "completed" => home[c], v # "spawn_failed",
             c \in Transfers => v \notin Facts
      PROVE  Faithful(d)'
  <2>1. /\ verdict' = [verdict EXCEPT ![c] = v]
        /\ place' = [place EXCEPT ![c] = "releasing"]
    BY <1>8 DEF Settle, Goto
  <2>2. CASE c = d
    <3>1. verdict'[d] = v /\ place'[d] = "releasing"
      BY <1>0, <2>1, <2>2
    <3>. QED  BY <1>8, <2>2, <3>1
  <2>3. CASE c # d
    <3>1. verdict'[d] = verdict[d] /\ place'[d] = place[d]
      BY <1>0, <2>1, <2>3
    <3>. QED  BY <1>8, <2>3, <3>1
  <2>. QED  BY <2>2, <2>3
<1>9. ASSUME NEW c \in Calls, place[c] \in {"turning", "getting"}
      PROVE  child[c] # "none"
  BY <1>0, <1>9 DEF Placed
<1>10. ASSUME NEW c \in Calls, Turn(c) PROVE Faithful(d)'
  <2>1. /\ UNCHANGED <<tool, stop, late, home, asked, child, status, tail, words>>
        /\ place[c] = "turning"
    BY <1>10 DEF Turn
  <2>2. CASE Goto(c, "getting") /\ UNCHANGED verdict
    BY <1>0, <2>1, <2>2 DEF Goto
  <2>3. CASE stop[c] /\ Settle(c, "stopped")
    BY <1>8, <1>9, <2>1, <2>3 DEF Facts
  <2>4. CASE late[c] /\ Settle(c, "timed_out")
    BY <1>8, <1>9, <2>1, <2>4 DEF Facts
  <2>. QED  BY <1>10, <2>2, <2>3, <2>4 DEF Turn
<1>11. ASSUME NEW c \in Calls, NEW m \in Messages, Conclude(c, m) PROVE Faithful(d)'
  <2>1. /\ UNCHANGED <<tool, stop, late, home, asked, child, status, tail, words>>
        /\ place[c] = "getting" /\ Settle(c, Verdict(c, m))
        /\ Breaks(c, m) \/ IsError(m) \/ c \in Reads
    BY <1>11 DEF Conclude, Take, Answers
  <2>2. Verdict(c, m) \in {"protocol_error", "unsupported", "item_failure", "ok", "no_quota"}
    BY DEF Verdict, Classified, ParsedRateLimits
  <2>3. c \in Transfers => Verdict(c, m) \notin Facts
    BY <2>1, VerdictFacts, AppServerAssumption
  <2>. QED  BY <1>8, <1>9, <2>1, <2>2, <2>3
<1>12. ASSUME NEW c \in Calls, NEW m \in Messages, Complete(c, m) PROVE Faithful(d)'
  <2>1. /\ UNCHANGED <<tool, stop, late, home, asked, child, status, tail, words>>
        /\ place[c] = "getting" /\ home[c] /\ Settle(c, "completed")
    BY <1>12 DEF Complete, Take, Announces
  <2>. QED  BY <1>8, <1>9, <2>1 DEF Facts
<1>13. ASSUME NEW c \in Calls, Raise(c) PROVE Faithful(d)'
  <2>1. /\ UNCHANGED <<tool, stop, late, home, asked, child, status, tail, words>>
        /\ place[c] \in {"turning", "getting"} /\ Settle(c, "raised")
    BY <1>13 DEF Raise
  <2>. QED  BY <1>8, <1>9, <2>1 DEF Facts
<1>14. ASSUME NEW c \in Calls, NEW m \in Messages, Handshake(c, m) PROVE Faithful(d)'
  <2>1. /\ UNCHANGED <<tool, stop, late, verdict, child, status, tail, words>>
        /\ place[c] = "getting" /\ asked[c] = 0 /\ Goto(c, "turning")
        /\ \E h : home' = [home EXCEPT ![c] = h]
        /\ asked' = [asked EXCEPT ![c] = 1]
    BY <1>14 DEF Handshake, Take
  <2>2. ~home[c] /\ status[c] = "none"
    BY <1>0, <2>1 DEF Placed
  <2>. QED  BY <1>0, <1>9, <2>1, <2>2 DEF Goto, Facts
<1>15. ASSUME NEW c \in Calls, Goto(c, "turning"), child[c] # "none", place[c] # "returned",
              UNCHANGED <<tool, stop, late, home, asked, verdict, status, tail, child, words>>
       PROVE  Faithful(d)'
  BY <1>0, <1>15 DEF Goto
<1>16. ASSUME NEW c \in Calls, GetNothing(c) \/ \E m \in Messages : Ignore(c, m)
       PROVE  Faithful(d)'
  <2>1. /\ place[c] = "getting" /\ Goto(c, "turning")
        /\ UNCHANGED <<tool, stop, late, home, asked, verdict, status, tail, child, words>>
    BY <1>16 DEF GetNothing, Ignore, Take
  <2>. QED  BY <1>9, <1>15, <2>1
<1>17. ASSUME NEW c \in Calls, Release(c) PROVE Faithful(d)'
  BY <1>0, <1>17 DEF Release, Goto
<1>18. ASSUME NEW c \in Calls, Kill(c) PROVE Faithful(d)'
  <2>1. child'[d] = child[d] \/ (child[d] = "running" /\ child'[d] = "killed")
    BY <1>0, <1>18 DEF Kill, KillGroup
  <2>2. /\ UNCHANGED <<tool, stop, late, home, asked, verdict, status, tail, words>>
        /\ place[c] = "killing" /\ Goto(c, "reaping")
    BY <1>18 DEF Kill
  <2>. QED  BY <1>0, <2>1, <2>2 DEF Goto
<1>19. ASSUME NEW c \in Calls, Reap(c) PROVE Faithful(d)'
  <2>1. PICK now \in {child[c], "reaped"} : child' = [child EXCEPT ![c] = now]
    BY <1>19 DEF Reap
  <2>. QED  BY <1>0, <1>19, <2>1 DEF Reap, Goto
<1>20. ASSUME NEW c \in Calls, Answer(c) PROVE Faithful(d)'
  BY <1>20, FaithfulAnswer
<1>21. CASE Edit \/ OtherImport \/ (\E p \in Pids : Recycle(p)) \/ UNCHANGED vars
  BY <1>0, <1>21 DEF Edit, OtherImport, Recycle, vars
<1>. QED
  BY <1>1, <1>2, <1>3, <1>4, <1>5, <1>6, <1>7, <1>10, <1>11, <1>12, <1>13, <1>14, <1>16,
     <1>17, <1>18, <1>19, <1>20, <1>21 DEF Next, Loop, Handle, Queued, Threads

LEMMA RepliesInvariant == Spec => [](\A c \in Calls : Faithful(c))
<1>1. (\A c \in Calls : Faithful(c)) /\ CallInv /\ [Next]_vars
        => (\A c \in Calls : Faithful(c))'
  BY FaithfulStep
<1>. QED  BY FaithfulInit, <1>1, CallInvariant, PTL DEF Spec

-----------------------------------------------------------------------------
(* The caller of codex_transfer is told the truth of a call that returned:  *)
(* a missing codex, a passed deadline, a thread it may resume, and the last *)
(* words of a child that broke the contract.                                *)
THEOREM TransfersAreToldTruly == Spec => []TransferRepliesAreTrue
<1>1. ASSUME CallInv, NEW c \in Transfers, Faithful(c), Replied(c)
      PROVE  LET code == TransferCode(status[c]) IN
             /\ code = "codex_not_found" <=> child[c] = "none"
             /\ code = "timeout" => late[c]
             /\ code = "none" => asked[c] = 1 /\ home[c]
             /\ code = "cli_contract_changed" /\ words[c] # "none" /\ c \notin Escapees
                  => TailIsShown(c)
  <2>1. c \in Calls /\ status[c] \in {"none"} \cup Facts \cup Failures
    BY <1>1 DEF CallInv, TypeOK, Calls
  <2>2. place[c] = "returned" /\ tool[c] # "cancelled"
    BY <1>1 DEF Replied
  <2>. QED
    BY <1>1, <2>1, <2>2 DEF Faithful, TransferCode, TailIsShown, Facts, Failures
<1>2. CallInv /\ (\A c \in Calls : Faithful(c)) => TransferRepliesAreTrue
  BY <1>1 DEF TransferRepliesAreTrue, Calls
<1>. QED  BY <1>2, CallInvariant, RepliesInvariant, PTL

(* What a child said when it died by itself reaches the outcome, whichever  *)
(* way the two threads and the loop interleave (_settle_and_tail, #449) -   *)
(* any outcome but a stopped call's, which carries no tail.                 *)
THEOREM LastWordsArrive == Spec => []LastWordsReachTheTail
<1>1. (\A c \in Calls : Faithful(c)) => LastWordsReachTheTail
  BY DEF Faithful, LastWordsReachTheTail
<1>. QED  BY <1>1, RepliesInvariant, PTL

(* What codex_status says of the quota was asked for and is conservative,   *)
(* and a failed read never looks like one, for any blocks and any time.     *)
THEOREM QuotasAreToldConservatively == Spec => []QuotaIsConservative
<1>1. QuotasReadConservatively
  <2>1. \A b \in Quotas : b \in Block
    BY RepliesAssumption DEF Quotas
  <2>. QED
    BY <2>1, ReadingIsConservative, RepliesAssumption DEF QuotasReadConservatively, LiveRead
<1>2. ASSUME CallInv, NEW c \in Reads, Faithful(c), Replied(c)
      PROVE  /\ status[c] = "ok" => asked[c] = 1
             /\ child[c] = "none" => status[c] = "spawn_failed"
  BY <1>2 DEF Faithful, Replied, Facts
<1>3. ASSUME NEW ended, ended # "ok", NEW b
      PROVE  /\ LiveRead(ended, b, Now).status \in {"unknown", "unavailable"}
             /\ ended \in {"timed_out", "spawn_failed"}
                  => LiveRead(ended, b, Now).status = "unknown"
  BY <1>3 DEF LiveRead, Reading
<1>4. ASSUME CallInv, \A c \in Calls : Faithful(c) PROVE QuotaIsConservative
  <2>. SUFFICES ASSUME NEW c \in Reads, Replied(c)
                PROVE  /\ status[c] = "ok" => asked[c] = 1 /\ QuotasReadConservatively
                       /\ status[c] # "ok" =>
                            \A r \in Readings : r[1] = status[c] =>
                              IF status[c] = "timed_out" \/ child[c] = "none"
                              THEN r[2].status = "unknown"
                              ELSE r[2].status \in {"unknown", "unavailable"}
    BY DEF QuotaIsConservative
  <2>1. /\ status[c] = "ok" => asked[c] = 1
        /\ child[c] = "none" => status[c] = "spawn_failed"
    BY <1>2, <1>4 DEF Calls
  <2>2. ASSUME status[c] # "ok", NEW r \in Readings, r[1] = status[c]
        PROVE  IF status[c] = "timed_out" \/ child[c] = "none"
               THEN r[2].status = "unknown" ELSE r[2].status \in {"unknown", "unavailable"}
    <3>1. PICK b \in Quotas : r[2] = LiveRead(status[c], b, Now)
      BY <2>2 DEF Readings
    <3>. QED  BY <1>3, <2>1, <2>2, <3>1
  <2>. QED  BY <1>1, <2>1, <2>2
<1>. QED  BY <1>4, CallInvariant, RepliesInvariant, PTL

(* No reply depends on the order in which the app-server put the windows.   *)
THEOREM RepliesDoNotDependOnSlots == Spec => []RepliesIgnoreSlotOrder
<1>1. SlotsReadAlike
  <2>1. Now \in Nat /\ Quotas \subseteq Block
    BY RepliesAssumption DEF Quotas
  <2>2. ASSUME NEW b \in Block  PROVE SlotOrderIsIrrelevant(b, Now)
    BY <2>1, SlotOrderDoesNotMatter
  <2>. QED  BY <2>1, <2>2 DEF SlotsReadAlike
<1>2. RepliesIgnoreSlotOrder
  BY <1>1 DEF RepliesIgnoreSlotOrder
<1>. QED  BY <1>2, PTL
=============================================================================

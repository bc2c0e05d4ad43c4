-------------------------- MODULE CodexProbesProofs --------------------------
(***************************************************************************)
(* What the server says of codex is what the next worker finds, for any    *)
(* number of calls, places, builds and changes, and any TTL.               *)
(***************************************************************************)
EXTENDS CodexProbes, TLAPS, WellFoundedInduction

-----------------------------------------------------------------------------
(* Types.                                                                  *)
LEMMA SetsHaveALeast ==
    ASSUME NEW S \in SUBSET Nat, S # {}
    PROVE  \E i \in S : \A j \in S : i <= j
<1>. DEFINE less == OpToRel(<, Nat)
<1>1. \A i, j \in Nat : <<j, i>> \in less <=> j < i
  BY DEF OpToRel
<1>2. IsWellFoundedOn(less, Nat)
  BY NatLessThanWellFounded
<1>. HIDE DEF less
<1>3. PICK i \in S : \A j \in S : ~(<<j, i>> \in less)
  BY <1>2, WFMin
<1>4. \A j \in S : j \in Nat /\ i \in Nat /\ ~(j < i)
  BY <1>1, <1>3
<1>. QED  BY <1>4

LEMMA FirstIsAPlace ==
    ASSUME NEW order \in Seq(Places), NEW places \in SUBSET Places
    PROVE  FirstOf(order, places) \in places \cup {None}
<1>. DEFINE hits == {i \in DOMAIN order : order[i] \in places}
<1>1. CASE hits = {}
  BY <1>1 DEF FirstOf
<1>2. CASE hits # {}
  <2>1. hits \in SUBSET Nat
    OBVIOUS
  <2>2. \E i \in hits : \A j \in hits : i <= j
    <3>. HIDE DEF hits
    <3>. QED  BY <1>2, <2>1, SetsHaveALeast
  <2>3. (CHOOSE k \in hits : \A j \in hits : k <= j) \in hits
    BY <2>2
  <2>. QED  BY <1>2, <2>3 DEF FirstOf
<1>. QED  BY <1>1, <1>2

LEMMA PathsAreTyped ==
    ASSUME TypeOK
    PROVE  /\ Present \in SUBSET Places
           /\ OnPath \in Places \cup {None}
           /\ FirstOf(Candidates, Present) \in Places \cup {None}
           /\ OrBare(OnPath) \in Places \cup {Bare}
           /\ \A p \in Places \cup {Bare, None} : Runs(p) \in Builds \cup {None}
<1>1. Present \in SUBSET Places
  BY DEF Present
<1>2. OnPath \in Places \cup {None} /\ FirstOf(Candidates, Present) \in Places \cup {None}
  BY <1>1, FirstIsAPlace, PlacesAssumption DEF OnPath
<1>3. \A p \in Places \cup {Bare, None} : Runs(p) \in Builds \cup {None}
  BY <1>2, PlacesAssumption DEF Runs, TypeOK
<1>. QED  BY <1>1, <1>2, <1>3, PlacesAssumption DEF OrBare

(* A record that is given another value in a field, of the field's type,   *)
(* keeps its type and, unless it is that field, the start of its probe.    *)
LEMMA ToolTyped ==
    ASSUME NEW r \in Records, NEW x \in Tools \cup {"none"}
    PROVE  [r EXCEPT !.tool = x] \in Records /\ [r EXCEPT !.tool = x].began = r.began
  BY DEF Records

LEMMA ProbeTyped ==
    ASSUME NEW r \in Records, NEW x \in {"none", "override", "version", "login", "help"}
    PROVE  [r EXCEPT !.probe = x] \in Records /\ [r EXCEPT !.probe = x].began = r.began
  BY DEF Records

LEMMA StageTyped ==
    ASSUME NEW r \in Records, NEW x \in {"idle", "locate", "ask", "spawn", "read", "answered"}
    PROVE  [r EXCEPT !.stage = x] \in Records /\ [r EXCEPT !.stage = x].began = r.began
  BY DEF Records

LEMMA PathTyped ==
    ASSUME NEW r \in Records, NEW x \in Places \cup {Bare, None}
    PROVE  [r EXCEPT !.path = x] \in Records /\ [r EXCEPT !.path = x].began = r.began
  BY DEF Records

LEMMA SeenTyped ==
    ASSUME NEW r \in Records, NEW x \in SUBSET Places
    PROVE  [r EXCEPT !.seen = x] \in Records /\ [r EXCEPT !.seen = x].began = r.began
  BY DEF Records

LEMMA FoundTyped ==
    ASSUME NEW r \in Records, NEW x \in BOOLEAN
    PROVE  [r EXCEPT !.found = x] \in Records /\ [r EXCEPT !.found = x].began = r.began
  BY DEF Records

LEMMA AuthTyped ==
    ASSUME NEW r \in Records, NEW x \in {"yes", "no", "unknown"}
    PROVE  [r EXCEPT !.auth = x] \in Records /\ [r EXCEPT !.auth = x].began = r.began
  BY DEF Records

LEMMA SaysTyped ==
    ASSUME NEW r \in Records, NEW x \in Builds \cup {None}
    PROVE  [r EXCEPT !.says = x] \in Records /\ [r EXCEPT !.says = x].began = r.began
  BY DEF Records

LEMMA HungTyped ==
    ASSUME NEW r \in Records, NEW x \in BOOLEAN
    PROVE  [r EXCEPT !.hung = x] \in Records /\ [r EXCEPT !.hung = x].began = r.began
  BY DEF Records

LEMMA VerdictTyped ==
    ASSUME NEW r \in Records,
           NEW x \in {"none", "previewed", "not_found", "bad_override", "no_login",
                      "indeterminate", "ready"}
    PROVE  [r EXCEPT !.verdict = x] \in Records /\ [r EXCEPT !.verdict = x].began = r.began
  BY DEF Records

LEMMA BeganTyped ==
    ASSUME NEW r \in Records, NEW n \in Nat
    PROVE  [r EXCEPT !.began = n] \in Records /\ [r EXCEPT !.began = n].began = n
  BY DEF Records

(* The constructors of records keep to their type.                         *)
LEMMA AnsweredTyped ==
    ASSUME NEW r \in Records, NEW t \in Tools \cup {"none"},
           NEW v \in {"previewed", "not_found", "bad_override", "no_login",
                      "indeterminate", "ready"}
    PROVE  [r EXCEPT !.tool = t, !.stage = "answered", !.verdict = v] \in Records
<1>. DEFINE a == [r EXCEPT !.tool = t]
            b == [a EXCEPT !.stage = "answered"]
<1>1. a \in Records
  BY ToolTyped
<1>2. b \in Records
  <2>. HIDE DEF a
  <2>. QED  BY <1>1, StageTyped
<1>3. [b EXCEPT !.verdict = v] \in Records
  <2>. HIDE DEF b
  <2>. QED  BY <1>2, VerdictTyped
<1>. QED  BY <1>3

LEMMA RecordsAreTyped ==
    ASSUME clock \in Nat, NEW r \in Records, r.began <= clock
    PROVE  /\ Idle \in Records /\ Idle.began <= clock
           /\ \A probe \in {"override", "version", "login", "help"} :
                 To(probe, r) \in Records /\ To(probe, r).began <= clock
           /\ \A verdict \in {"previewed", "not_found", "bad_override", "no_login",
                              "indeterminate", "ready"} :
                 Answer(verdict, r) \in Records /\ Answer(verdict, r).began <= clock
<1>1. Idle \in Records /\ Idle.began <= clock
  BY DEF Records, Idle
<1>2. ASSUME NEW probe \in {"override", "version", "login", "help"}
      PROVE  To(probe, r) \in Records /\ To(probe, r).began <= clock
  <2>. DEFINE n == IF probe = "help" THEN clock ELSE r.began
  <2>1. n \in Nat
    BY DEF Records
  <2>2. To(probe, r) = [r EXCEPT !.probe = probe, !.stage = "locate", !.path = None,
                                 !.began = n]
    BY DEF To
  <2>. DEFINE a == [r EXCEPT !.probe = probe]
              b == [a EXCEPT !.stage = "locate"]
              d == [b EXCEPT !.path = None]
  <2>. HIDE DEF n
  <2>3. To(probe, r) \in Records
    <3>1. a \in Records
      BY ProbeTyped
    <3>2. b \in Records
      <4>. HIDE DEF a
      <4>. QED  BY <3>1, StageTyped
    <3>3. d \in Records
      <4>. HIDE DEF b
      <4>. QED  BY <3>2, PathTyped
    <3>4. [d EXCEPT !.began = n] \in Records
      <4>. HIDE DEF d
      <4>. QED  BY <2>1, <3>3, BeganTyped
    <3>. QED  BY <2>2, <3>4
  <2>. QED  BY <2>3 DEF To, Records
<1>3. ASSUME NEW verdict \in {"previewed", "not_found", "bad_override", "no_login",
                              "indeterminate", "ready"}
      PROVE  Answer(verdict, r) \in Records /\ Answer(verdict, r).began <= clock
  <2>1. CASE ~r.steady
    BY <1>1, <2>1 DEF Answer
  <2>2. CASE r.steady
    <3>. DEFINE n == IF verdict = "previewed" THEN r.began ELSE 0
                x == [Idle EXCEPT !.tool = r.tool, !.stage = "answered",
                                  !.verdict = verdict]
    <3>0. Idle \in Records
      BY <1>1
    <3>1. /\ n \in Nat /\ r.tool \in Tools \cup {"none"} /\ r.says \in Builds \cup {None}
          /\ r.sure \in BOOLEAN /\ r.hung \in BOOLEAN
      BY DEF Records
    <3>2. Answer(verdict, r) = [x EXCEPT !.says = r.says, !.sure = r.sure,
                                         !.hung = r.hung, !.began = n]
      BY <2>2 DEF Answer
    <3>3. x \in Records
      <4>. HIDE DEF Idle
      <4>. QED  BY <3>0, <3>1, AnsweredTyped
    <3>. HIDE DEF n, x
    <3>4. Answer(verdict, r) \in Records
      BY <3>1, <3>2, <3>3 DEF Records
    <3>5. Answer(verdict, r).began = n
      BY <3>2, <3>3 DEF Records
    <3>. QED  BY <3>4, <3>5 DEF n, Records
  <2>. QED  BY <2>1, <2>2
<1>. QED  BY <1>1, <1>2, <1>3

(* A step that gives one call a new record, or none.                       *)
LEMMA OneCallTyped ==
    ASSUME TypeOK, NEW c \in Calls, NEW r \in Records, r.began <= clock,
           call' = [call EXCEPT ![c] = r], clock' = clock
    PROVE  call' \in [Calls -> Records] /\ \A d \in Calls : call'[d].began <= clock'
  BY DEF TypeOK

LEMMA LocatedTyped ==
    ASSUME TypeOK, NEW c \in Calls, NEW path \in Places \cup {Bare, None},
           NEW b, Located(c, path, b), clock' = clock
    PROVE  call' \in [Calls -> Records] /\ \A d \in Calls : call'[d].began <= clock'
<1>. DEFINE sure == call[c].sure /\ Holds(path, b)
            r == [call[c] EXCEPT !.path = path, !.seen = {}, !.sure = sure]
            none == path = None
            blamed == [r EXCEPT !.blamed = none]
            located == [r EXCEPT !.stage = "spawn"]
<1>1. clock \in Nat /\ call[c] \in Records /\ call[c].began <= clock
  BY TimeAssumption DEF TypeOK
<1>2. sure \in BOOLEAN /\ none \in BOOLEAN
  OBVIOUS
<1>3. \/ call' = [call EXCEPT ![c] = To("version", blamed)]
      \/ call' = [call EXCEPT ![c] = located]
  BY DEF Located
<1>4. r \in Records /\ r.began <= clock
  <2>. HIDE DEF sure
  <2>1. r \in Records
    BY <1>1, <1>2 DEF Records
  <2>. QED  BY <1>1, <2>1 DEF Records
<1>. HIDE DEF r, none
<1>5. located \in Records /\ located.began <= clock
  <2>1. located \in Records
    BY <1>4 DEF Records
  <2>. QED  BY <1>4, <2>1 DEF Records
<1>6. blamed \in Records /\ blamed.began <= clock
  <2>1. blamed \in Records
    BY <1>2, <1>4 DEF Records
  <2>. QED  BY <1>4, <2>1 DEF Records
<1>7. To("version", blamed) \in Records /\ To("version", blamed).began <= clock
  BY <1>1, <1>6, RecordsAreTyped
<1>. HIDE DEF blamed, located
<1>. QED  BY <1>3, <1>5, <1>7, OneCallTyped

(* In every behaviour the variables keep their types: what is remembered   *)
(* and what a call holds are places, builds and moments, none yet to come. *)
THEOREM ProbesAreTyped == Spec => []TypeOK
<1>1. Init => TypeOK
  <2>. SUFFICES ASSUME Init PROVE TypeOK
    OBVIOUS
  <2>1. Idle \in Records
    BY DEF Idle, Records
  <2>. QED
    BY <2>1, SetupAssumption, TimeAssumption DEF Init, TypeOK, Idle
<1>2. TypeOK /\ [Next]_vars => TypeOK'
  <2>. SUFFICES ASSUME TypeOK, [Next]_vars PROVE TypeOK'
    OBVIOUS
  <2>. USE TimeAssumption
  <2>0. /\ clock \in Nat /\ \A c \in Calls : call[c] \in Records /\ call[c].began <= clock
        /\ \A c \in Calls : Runs(call[c].path) \in Builds \cup {None}
    BY PathsAreTyped DEF TypeOK, Records
  <2>1. ASSUME NEW c \in Calls, NEW tool \in Tools, Ask(c, tool) PROVE TypeOK'
    <3>. DEFINE r == [Idle EXCEPT !.tool = tool]
                q == [r EXCEPT !.began = clock, !.says = memory.says,
                               !.sure = memory.clean]
    <3>1. r \in Records /\ r.began = 0
      <4>1. Idle \in Records /\ Idle.began = 0
        BY DEF Idle, Records
      <4>. HIDE DEF Idle
      <4>. QED  BY <4>1 DEF Records
    <3>2. q \in Records /\ q.began = clock
      <4>1. memory.says \in Builds \cup {None} /\ memory.clean \in BOOLEAN
        BY DEF TypeOK
      <4>. HIDE DEF r
      <4>. QED  BY <2>0, <3>1, <4>1 DEF Records
    <3>3. FirstProbe(tool) \in {"override", "version", "login", "help"}
      BY DEF FirstProbe, Tools
    <3>4. \/ call' = [call EXCEPT ![c] = Answer("previewed", q)]
          \/ call' = [call EXCEPT ![c] = To(FirstProbe(tool), r)]
      BY <2>1 DEF Ask
    <3>. HIDE DEF r, q
    <3>5. call' \in [Calls -> Records] /\ \A d \in Calls : call'[d].began <= clock'
      <4>1. PICK x \in Records : x.began <= clock /\ call' = [call EXCEPT ![c] = x]
        BY <2>0, <3>1, <3>2, <3>3, <3>4, RecordsAreTyped
      <4>. QED  BY <2>1, <4>1, OneCallTyped DEF Ask
    <3>. QED  BY <2>1, <3>5 DEF Ask, TypeOK, machine
  <2>2. ASSUME NEW c \in Calls, NEW path \in Places \cup {Bare}, NEW known \in BOOLEAN,
               Settle(c, path, known), UNCHANGED <<host, machine, clock, memory>>
        PROVE  TypeOK'
    <3>. DEFINE b == [known |-> known, places |-> IF known THEN Present ELSE {}]
    <3>1. Located(c, path, b) /\ remembered' = path /\ basis' = b
      BY <2>2 DEF Settle
    <3>2. basis' \in [known : BOOLEAN, places : SUBSET Places]
      BY <3>1, PathsAreTyped
    <3>. HIDE DEF b
    <3>3. call' \in [Calls -> Records] /\ \A d \in Calls : call'[d].began <= clock'
      BY <2>2, <3>1, LocatedTyped
    <3>. QED  BY <2>2, <3>1, <3>2, <3>3 DEF TypeOK, machine
  <2>3. ASSUME NEW c \in Calls, Locate(c) PROVE TypeOK'
    <3>1. CASE Recall(c)
      <4>1. call' \in [Calls -> Records] /\ \A d \in Calls : call'[d].began <= clock'
        BY <2>3, <3>1, LocatedTyped DEF Recall, Locate, TypeOK
      <4>. QED  BY <2>3, <3>1, <4>1 DEF Recall, Locate, TypeOK, machine
    <3>2. CASE TakeOverride(c)
      <4>1. CASE host.override \in Present
        BY <2>2, <2>3, <3>2, <4>1, PathsAreTyped DEF TakeOverride, Locate
      <4>2. CASE host.override \notin Present
        <5>1. call' \in [Calls -> Records] /\ \A d \in Calls : call'[d].began <= clock'
          BY <2>3, <3>2, <4>2, LocatedTyped DEF TakeOverride, Locate
        <5>. QED  BY <2>3, <3>2, <4>2, <5>1 DEF TakeOverride, Locate, TypeOK, machine
      <4>. QED  BY <4>1, <4>2
    <3>3. CASE Search(c)
      <4>. DEFINE waits == [call[c] EXCEPT !.stage = "ask", !.seen = Present]
      <4>1. CASE call' = [call EXCEPT ![c] = waits] /\ UNCHANGED <<remembered, basis>>
        <5>1. waits \in Records /\ waits.began <= clock
          <6>. DEFINE a == [call[c] EXCEPT !.stage = "ask"]
          <6>1. a \in Records /\ a.began <= clock
            BY <2>0, StageTyped
          <6>2. [a EXCEPT !.seen = Present] \in Records
                /\ [a EXCEPT !.seen = Present].began <= clock
            <7>. HIDE DEF a
            <7>. QED  BY <6>1, PathsAreTyped, SeenTyped
          <6>. QED  BY <6>2
        <5>. HIDE DEF waits
        <5>2. call' \in [Calls -> Records] /\ \A d \in Calls : call'[d].began <= clock'
          BY <2>3, <4>1, <5>1, OneCallTyped DEF Locate
        <5>. QED  BY <2>3, <4>1, <5>2 DEF Locate, TypeOK, machine
      <4>2. CASE Settle(c, OrBare(OnPath), TRUE)
        BY <2>2, <2>3, <4>2, PathsAreTyped DEF Locate
      <4>3. CASE /\ FirstOf(Candidates, Present) # None
                 /\ Settle(c, FirstOf(Candidates, Present), TRUE)
        BY <2>2, <2>3, <4>3, PathsAreTyped DEF Locate
      <4>4. call' = [call EXCEPT ![c].stage = "ask", ![c].seen = Present]
              => call' = [call EXCEPT ![c] = waits]
        BY DEF TypeOK, Records
      <4>. QED  BY <3>3, <4>1, <4>2, <4>3, <4>4 DEF Search
    <3>. QED  BY <2>3, <3>1, <3>2, <3>3 DEF Locate
  <2>4. ASSUME NEW c \in Calls, AskNpm(c) PROVE TypeOK'
    <3>1. PICK answers \in BOOLEAN :
             Settle(c, IF NpmHit(answers) THEN NpmPlace ELSE OrBare(OnPath),
                    answers /\ call[c].seen = Present)
      BY <2>4 DEF AskNpm
    <3>. QED  BY <2>2, <2>4, <3>1, PathsAreTyped, PlacesAssumption DEF AskNpm
  <2>5. ASSUME NEW c \in Calls, NEW r \in Records, r.began <= clock,
               call' = [call EXCEPT ![c] = r],
               UNCHANGED <<host, machine, clock, remembered, basis>>,
               memory' \in [made : BOOLEAN, stamp : 0..clock, says : Builds \cup {None},
                            clean : BOOLEAN]
        PROVE  TypeOK'
    <3>1. call' \in [Calls -> Records] /\ \A d \in Calls : call'[d].began <= clock'
      BY <2>5, OneCallTyped
    <3>. QED  BY <2>5, <3>1 DEF TypeOK, machine
  <2>6. ASSUME NEW c \in Calls, ProbeVersion(c) PROVE TypeOK'
    <3>1. PICK hangs \in BOOLEAN :
             LET found == Runs(call[c].path) \in Running /\ ~hangs
                 r == [call[c] EXCEPT !.found = found, !.hung = @ \/ hangs]
             IN  call' = [call EXCEPT ![c] =
                    IF found THEN To("login", r)
                    ELSE IF r.tool = "status" THEN To("help", r)
                    ELSE Answer("not_found", r)]
      BY <2>6 DEF ProbeVersion, Hangs
    <3>. DEFINE found == Runs(call[c].path) \in Running /\ ~hangs
                hung == call[c].hung \/ hangs
                r == [call[c] EXCEPT !.found = found, !.hung = hung]
    <3>2. call' = [call EXCEPT ![c] = IF found THEN To("login", r)
                                      ELSE IF r.tool = "status" THEN To("help", r)
                                      ELSE Answer("not_found", r)]
      BY <3>1
    <3>3. found \in BOOLEAN /\ hung \in BOOLEAN
      OBVIOUS
    <3>. HIDE DEF found, hung
    <3>4. r \in Records /\ r.began <= clock
      <4>. DEFINE a == [call[c] EXCEPT !.found = found]
      <4>1. a \in Records /\ a.began <= clock
        BY <2>0, <3>3, FoundTyped
      <4>2. [a EXCEPT !.hung = hung] \in Records /\ [a EXCEPT !.hung = hung].began <= clock
        <5>. HIDE DEF a
        <5>. QED  BY <3>3, <4>1, HungTyped
      <4>. QED  BY <4>2
    <3>. HIDE DEF r
    <3>5. PICK q \in Records : q.began <= clock /\ call' = [call EXCEPT ![c] = q]
      BY <2>0, <3>2, <3>4, RecordsAreTyped
    <3>. QED  BY <2>5, <2>6, <3>5 DEF ProbeVersion, Spawning, TypeOK
  <2>7. ASSUME NEW c \in Calls, ProbeLogin(c) PROVE TypeOK'
    <3>1. PICK hangs \in BOOLEAN :
             LET auth == LoginSays(Runs(call[c].path), hangs)
                 r == [call[c] EXCEPT !.auth = auth, !.hung = @ \/ hangs]
             IN  call' = [call EXCEPT ![c] =
                    IF r.tool = "status" THEN To("help", r) ELSE Answer(OfLogin(auth), r)]
      BY <2>7 DEF ProbeLogin, Hangs
    <3>. DEFINE auth == LoginSays(Runs(call[c].path), hangs)
                hung == call[c].hung \/ hangs
                r == [call[c] EXCEPT !.auth = auth, !.hung = hung]
    <3>2. call' = [call EXCEPT ![c] = IF r.tool = "status" THEN To("help", r)
                                      ELSE Answer(OfLogin(auth), r)]
      BY <3>1
    <3>3. auth \in {"yes", "no", "unknown"} /\ hung \in BOOLEAN
      BY DEF LoginSays
    <3>. HIDE DEF auth, hung
    <3>4. r \in Records /\ r.began <= clock
      <4>. DEFINE a == [call[c] EXCEPT !.auth = auth]
      <4>1. a \in Records /\ a.began <= clock
        BY <2>0, <3>3, AuthTyped
      <4>2. [a EXCEPT !.hung = hung] \in Records /\ [a EXCEPT !.hung = hung].began <= clock
        <5>. HIDE DEF a
        <5>. QED  BY <3>3, <4>1, HungTyped
      <4>. QED  BY <4>2
    <3>5. OfLogin(auth) \in {"ready", "no_login", "indeterminate"}
      BY <3>3 DEF OfLogin
    <3>. HIDE DEF r
    <3>6. PICK q \in Records : q.began <= clock /\ call' = [call EXCEPT ![c] = q]
      BY <2>0, <3>2, <3>4, <3>5, RecordsAreTyped
    <3>. QED  BY <2>5, <2>7, <3>6 DEF ProbeLogin, Spawning, TypeOK
  <2>8. ASSUME NEW c \in Calls, ProbeHelp(c) PROVE TypeOK'
    <3>1. PICK hangs \in BOOLEAN :
             call' = [call EXCEPT ![c].stage = "read", ![c].hung = @ \/ hangs,
                        ![c].says = IF hangs THEN None ELSE Runs(call[c].path)]
      BY <2>8 DEF ProbeHelp, Hangs
    <3>. DEFINE hung == call[c].hung \/ hangs
                says == IF hangs THEN None ELSE Runs(call[c].path)
                r == [call[c] EXCEPT !.stage = "read", !.hung = hung, !.says = says]
    <3>2. call' = [call EXCEPT ![c] = r]
      BY <3>1 DEF TypeOK, Records
    <3>3. says \in Builds \cup {None} /\ hung \in BOOLEAN
      BY <2>0
    <3>. HIDE DEF says, hung
    <3>4. r \in Records /\ r.began <= clock
      <4>. DEFINE a == [call[c] EXCEPT !.stage = "read"]
                  b == [a EXCEPT !.hung = hung]
      <4>1. a \in Records /\ a.began <= clock
        BY <2>0, StageTyped
      <4>2. b \in Records /\ b.began <= clock
        <5>. HIDE DEF a
        <5>. QED  BY <3>3, <4>1, HungTyped
      <4>3. [b EXCEPT !.says = says] \in Records /\ [b EXCEPT !.says = says].began <= clock
        <5>. HIDE DEF b
        <5>. QED  BY <3>3, <4>2, SaysTyped
      <4>. QED  BY <4>3
    <3>. HIDE DEF r
    <3>. QED  BY <2>5, <2>8, <3>2, <3>4 DEF ProbeHelp, Spawning, TypeOK
  <2>9. ASSUME NEW c \in Calls, Remember(c) PROVE TypeOK'
    <3>. DEFINE verdict == IF call[c].tool = "status" THEN Readiness(call[c])
                           ELSE "previewed"
                r == Answer(verdict, call[c])
    <3>1. call' = [call EXCEPT ![c] = r]
      BY <2>9 DEF Remember, TypeOK
    <3>2. verdict \in {"previewed", "not_found", "bad_override", "no_login",
                       "indeterminate", "ready"}
      BY <2>0 DEF Readiness, OfLogin, Records
    <3>. HIDE DEF verdict
    <3>3. r \in Records /\ r.began <= clock
      BY <2>0, <3>2, RecordsAreTyped
    <3>. HIDE DEF r
    <3>4. Stamp(c) \in 0..clock
      BY <2>0 DEF Stamp, Records
    <3>5. memory' \in [made : BOOLEAN, stamp : 0..clock, says : Builds \cup {None},
                       clean : BOOLEAN]
      BY <2>0, <2>9, <3>4 DEF Remember, Records
    <3>. QED  BY <2>5, <2>9, <3>1, <3>3, <3>5 DEF Remember
  <2>10. Change => /\ call' \in [Calls -> Records]
                   /\ \A d \in Calls : call'[d].began <= clock'
                   /\ changed' \in 0..clock' /\ changes' \in 0..MaxChanges
    <3>. SUFFICES ASSUME Change PROVE
                   /\ call' \in [Calls -> Records]
                   /\ \A d \in Calls : call'[d].began <= clock'
                   /\ changed' \in 0..clock' /\ changes' \in 0..MaxChanges
      OBVIOUS
    <3>1. ASSUME NEW d \in Calls PROVE call'[d] \in Records /\ call'[d].began <= clock'
      <4>. DEFINE r == call[d]
      <4>1. r \in Records /\ r.began <= clock
        BY <2>0
      <4>. HIDE DEF r
      <4>2. [r EXCEPT !.steady = FALSE] \in Records
        BY <4>1 DEF Records
      <4>3. [r EXCEPT !.steady = FALSE].began <= clock
        BY <4>1 DEF Records
      <4>4. call'[d] \in {[r EXCEPT !.steady = FALSE], Idle} /\ clock' = clock
        BY DEF Change, r
      <4>. QED  BY <2>0, <4>2, <4>3, <4>4, RecordsAreTyped
    <3>2. call' \in [Calls -> Records]
      <4>1. call' = [d \in Calls |-> call'[d]]
        BY DEF Change
      <4>. QED  BY <3>1, <4>1
    <3>3. changed' \in 0..clock' /\ changes' \in 0..MaxChanges
      BY <2>0 DEF Change, TypeOK
    <3>. QED  BY <3>1, <3>2, <3>3
  <2>11. CASE World /\ ~Tick
    <3>0. at \in [Places -> Builds \cup {None}] /\ login \in BOOLEAN
      BY DEF TypeOK
    <3>1. Change /\ at' \in [Places -> Builds \cup {None}] /\ login' \in BOOLEAN
      <4>1. CASE \E p \in Places, b \in Builds : Install(p, b)
        BY <3>0, <4>1 DEF Install
      <4>2. CASE \E p \in Places : Remove(p)
        BY <3>0, <4>2 DEF Remove
      <4>3. CASE LogInOrOut
        BY <3>0, <4>3 DEF LogInOrOut
      <4>. QED  BY <2>11, <4>1, <4>2, <4>3 DEF World
    <3>. QED  BY <2>10, <3>1 DEF Change, TypeOK
  <2>12. CASE Tick
    <3>1. clock' \in 0..MaxTime /\ clock <= clock' /\ clock' \in Nat
      BY <2>0, <2>12 DEF Tick
    <3>2. changed' \in 0..clock'
      BY <2>0, <2>12, <3>1 DEF Tick, machine, TypeOK
    <3>3. memory' \in [made : BOOLEAN, stamp : 0..clock', says : Builds \cup {None},
                       clean : BOOLEAN]
      BY <2>0, <2>12, <3>1 DEF Tick, TypeOK
    <3>4. call' \in [Calls -> Records] /\ \A d \in Calls : call'[d].began <= clock'
      <4>1. call' = call
        BY <2>12 DEF Tick
      <4>2. \A d \in Calls : call[d].began \in Nat
        BY <2>0 DEF Records
      <4>. QED  BY <2>0, <3>1, <4>1, <4>2 DEF TypeOK
    <3>. QED  BY <2>12, <3>1, <3>2, <3>3, <3>4 DEF Tick, TypeOK, machine
  <2>13. CASE UNCHANGED vars
    BY <2>13 DEF TypeOK, vars, machine
  <2>. QED
    BY <2>1, <2>3, <2>4, <2>6, <2>7, <2>8, <2>9, <2>11, <2>12, <2>13
    DEF Next, Probe
<1>. QED  BY <1>1, <1>2, PTL DEF Spec

-----------------------------------------------------------------------------
(***************************************************************************)
(* What the probes of a call know, while the machine is as it was.         *)
(***************************************************************************)
(* What a new process finds; whether it runs; an override it turns down.   *)
Truth == Runs(Fresh)

Right == Truth \in Running

BadOverride == host.override # None /\ host.override \notin Present

Underway == {"locate", "ask", "spawn", "read"}

Probes(tool) == CASE tool = "status"   -> {"override", "version", "login", "help"}
                  [] tool = "transfer" -> {"version", "login"}
                  [] tool = "preview"  -> {"help"}
                  [] OTHER             -> {"none"}

Shape(r) ==
  /\ r \in Records /\ r.began <= clock
  /\ IF r.stage \in Underway THEN r.tool \in Tools /\ r.probe \in Probes(r.tool)
                            ELSE r.probe = "none"
  /\ r.stage = "read" => r.probe = "help"
  /\ r.stage = "ask" => /\ host.wsl /\ host.override = None
                        /\ FirstOf(Candidates, r.seen) = None
  /\ r.probe = "override" => host.override # None

(* The machine is as it was when the probe at hand was located.            *)
Recent(r) == r.sure /\ (r.steady \/ (r.probe = "help" /\ changed < r.began))

Holding(r) ==
  /\ r.stage = "spawn" /\ Recent(r) => Runs(r.path) = Truth
  /\ r.stage = "read" /\ Recent(r) /\ ~r.hung => r.says = Truth

(* What the probes already made have told.                                 *)
Learnt(r) ==
  r.steady /\ r.sure =>
    /\ r.probe \in {"version", "login", "help"} /\ r.tool = "status" =>
         (r.blamed <=> BadOverride)
    /\ r.probe = "login" => r.found /\ Right
    /\ r.probe = "help" /\ r.tool = "status" =>
         /\ r.found => Right
         /\ ~r.hung => /\ r.found <=> Right
                       /\ r.found => r.auth = IF login THEN "yes" ELSE "no"

(* What an answer says.                                                    *)
Says(r) ==
  r.stage = "answered" /\ r.sure =>
    /\ r.tool \in {"status", "transfer"} /\ ~r.hung => r.verdict = WorkerFinds(r.tool)
    /\ r.tool = "status" /\ ~r.hung => r.says = Truth
    /\ r.tool = "transfer" /\ r.verdict = "indeterminate" => Right
    /\ r.tool = "preview" /\ ~r.hung /\ r.began >= changed + TTL => r.says = Truth

Knows(r) == Shape(r) /\ Holding(r) /\ Learnt(r) /\ Says(r)

(* The two memories of the process.                                        *)
BasisInv ==
  /\ remembered # None /\ basis.known => remembered = Resolved(basis.places)
  /\ remembered # None /\ host.override # None => remembered = host.override

HelpInv ==
  memory.made /\ memory.clean /\ changed < memory.stamp => memory.says = Truth

ProbeInv == BasisInv /\ HelpInv /\ \A c \in Calls : Knows(call[c])

(* What TypeOK says of time.                                               *)
LEMMA Times ==
    TypeOK => /\ clock \in Nat /\ changed \in Nat /\ changed <= clock /\ TTL \in Nat
              /\ memory.stamp \in Nat /\ memory.stamp <= clock
  BY TimeAssumption DEF TypeOK

LEMMA MachineRests ==
    ASSUME UNCHANGED <<host, machine>>
    PROVE  /\ Present' = Present /\ Truth' = Truth
           /\ \A p : Runs(p)' = Runs(p)
           /\ Right' = Right /\ BadOverride' = BadOverride
           /\ \A t : WorkerFinds(t)' = WorkerFinds(t)
<1>1. Present' = Present
  BY DEF Present, machine
<1>2. OnPath' = OnPath
  BY <1>1 DEF OnPath
<1>3. Fresh' = Fresh
  BY <1>1 DEF Fresh, Resolved
<1>4. \A p : Runs(p)' = Runs(p)
  BY <1>2 DEF Runs, machine
<1>5. Truth' = Truth
  BY <1>2, <1>3 DEF Truth, Runs, machine
<1>. QED
  BY <1>1, <1>4, <1>5 DEF Right, BadOverride, WorkerFinds, Truth, machine

(* A record keeps what it knows while the machine rests, also over a tick. *)
LEMMA KnowledgeIsKept ==
    ASSUME UNCHANGED <<host, machine>>, NEW r, Knows(r), TypeOK,
           clock' \in Nat, clock <= clock'
    PROVE  Knows(r)'
<1>. USE MachineRests
<1>1. Shape(r)'
  <2>1. r.began \in Nat
    BY DEF Knows, Shape, Records
  <2>. QED  BY <2>1, Times DEF Knows, Shape
<1>2. Holding(r)'
  BY DEF Knows, Holding, Recent, machine
<1>3. Learnt(r)'
  BY DEF Knows, Learnt, machine
<1>4. Says(r)'
  BY DEF Knows, Says, machine
<1>. QED  BY <1>1, <1>2, <1>3, <1>4 DEF Knows

LEMMA KnowledgeOfTheNext ==
    ASSUME NEW d \in Calls, NEW r, r = call'[d], Knows(r)'
    PROVE  Knows(call[d])'
  BY DEF Knows, Shape, Holding, Learnt, Says, Recent

(* A step of one call that leaves the machine alone.                       *)
LEMMA OneCallLearns ==
    ASSUME UNCHANGED <<host, machine, clock>>, TypeOK,
           \A d \in Calls : Knows(call[d]),
           NEW c \in Calls, NEW q, Knows(q), call' = [call EXCEPT ![c] = q]
    PROVE  \A d \in Calls : Knows(call[d])'
<1>. SUFFICES ASSUME NEW d \in Calls PROVE Knows(call[d])'
  OBVIOUS
<1>1. PICK r : r = call'[d]
  OBVIOUS
<1>2. Knows(r)
  BY <1>1 DEF TypeOK
<1>3. Knows(r)'
  BY <1>2, KnowledgeIsKept, Times
<1>. QED  BY <1>1, <1>3, KnowledgeOfTheNext

(* A path that holds leads where a new process goes.                       *)
LEMMA HeldPathsLead ==
    ASSUME NEW path, NEW b, Holds(path, b),
           path = None => BadOverride,
           path # None /\ b.known => path = Resolved(b.places),
           path = Bare => host.override = None
    PROVE  Runs(path) = Truth
<1>1. CASE path = None
  BY <1>1 DEF BadOverride, Fresh, Resolved, Truth
<1>2. CASE path = Bare /\ ~host.wsl
  <2>1. Fresh = OrBare(OnPath)
    BY <1>2 DEF Fresh, Resolved, OnPath
  <2>. QED  BY <1>2, <2>1, PlacesAssumption DEF Runs, OrBare, Truth
<1>3. CASE path # None /\ b.known /\ b.places = Present
  BY <1>3 DEF Fresh, Truth
<1>. QED  BY <1>1, <1>2, <1>3 DEF Holds

LEMMA IdleKnows ==
    ASSUME TypeOK PROVE Knows(Idle)
<1>1. Idle \in Records /\ Idle.began <= clock
  BY Times DEF Idle, Records
<1>2. /\ Idle.stage = "idle" /\ Idle.probe = "none" /\ Idle.tool = "none"
  BY DEF Idle
<1>. QED
  BY <1>1, <1>2 DEF Knows, Shape, Holding, Learnt, Says, Underway

LEMMA ToKnows ==
    ASSUME TypeOK, NEW r \in Records, r.began <= clock, r.tool \in Tools,
           NEW probe \in Probes(r.tool), probe = "override" => host.override # None,
           Learnt([r EXCEPT !.probe = probe])
    PROVE  Knows(To(probe, r))
<1>. DEFINE q == To(probe, r)
<1>1. probe \in {"override", "version", "login", "help"}
  BY DEF Probes, Tools
<1>2. q \in Records /\ q.began <= clock
  BY <1>1, RecordsAreTyped, Times
<1>3. /\ q.stage = "locate" /\ q.probe = probe /\ q.tool = r.tool
      /\ q.steady = r.steady /\ q.sure = r.sure /\ q.blamed = r.blamed
      /\ q.found = r.found /\ q.hung = r.hung /\ q.auth = r.auth
  BY DEF To, Records
<1>4. LET p == [r EXCEPT !.probe = probe]
      IN  /\ p.probe = probe /\ p.tool = r.tool
          /\ p.steady = r.steady /\ p.sure = r.sure /\ p.blamed = r.blamed
          /\ p.found = r.found /\ p.hung = r.hung /\ p.auth = r.auth
  BY DEF Records
<1>. HIDE DEF q
<1>5. Learnt(q)
  BY <1>3, <1>4 DEF Learnt
<1>6. Shape(q) /\ Holding(q) /\ Says(q)
  BY <1>2, <1>3 DEF Shape, Holding, Says, Underway
<1>. QED  BY <1>5, <1>6 DEF Knows, q

LEMMA AnswerKnows ==
    ASSUME TypeOK, NEW r \in Records, r.began <= clock, r.tool \in Tools,
           NEW verdict \in {"previewed", "not_found", "bad_override", "no_login",
                            "indeterminate", "ready"},
           r.steady /\ r.sure =>
             /\ r.tool \in {"status", "transfer"} /\ ~r.hung =>
                  verdict = WorkerFinds(r.tool)
             /\ r.tool = "status" /\ ~r.hung => r.says = Truth
             /\ r.tool = "transfer" /\ verdict = "indeterminate" => Right
             /\ r.tool = "preview" /\ ~r.hung =>
                  verdict = "previewed" /\ (r.began >= changed + TTL => r.says = Truth)
    PROVE  Knows(Answer(verdict, r))
<1>1. CASE ~r.steady
  BY <1>1, IdleKnows DEF Answer
<1>2. CASE r.steady
  <2>. DEFINE q == Answer(verdict, r)
  <2>1. q \in Records /\ q.began <= clock
    BY RecordsAreTyped, Times
  <2>2. /\ q.stage = "answered" /\ q.probe = "none" /\ q.tool = r.tool
        /\ q.verdict = verdict /\ q.sure = r.sure /\ q.hung = r.hung /\ q.says = r.says
        /\ verdict = "previewed" => q.began = r.began
    BY <1>2 DEF Answer, Records, Idle
  <2>. HIDE DEF q
  <2>3. Shape(q) /\ Holding(q) /\ Learnt(q)
    BY <2>1, <2>2 DEF Shape, Holding, Learnt, Underway
  <2>4. Says(q)
    BY <1>2, <2>2 DEF Says, Tools
  <2>. QED  BY <2>3, <2>4 DEF Knows, q
<1>. QED  BY <1>1, <1>2

-----------------------------------------------------------------------------
(***************************************************************************)
(* Each step of a call adds only what is so.                               *)
(***************************************************************************)
LEMMA AskKnows ==
    ASSUME TypeOK, ProbeInv, NEW c \in Calls, NEW tool \in Tools, Ask(c, tool)
    PROVE  \A d \in Calls : Knows(call[d])'
<1>. DEFINE r == [Idle EXCEPT !.tool = tool]
            q == [r EXCEPT !.began = clock, !.says = memory.says, !.sure = memory.clean]
<1>1. /\ r \in Records /\ r.began = 0 /\ r.tool = tool /\ r.probe = "none"
      /\ r.steady /\ r.sure /\ ~r.hung /\ ~r.blamed /\ ~r.found
  <2>1. Idle \in Records /\ Idle.began = 0 /\ Idle.steady /\ Idle.sure /\ ~Idle.hung
        /\ ~Idle.blamed /\ ~Idle.found /\ Idle.probe = "none"
    BY DEF Idle, Records
  <2>. HIDE DEF Idle
  <2>. QED  BY <2>1 DEF Records
<1>. HIDE DEF r
<1>2. CASE tool = "preview" /\ Remembers
  <2>1. call' = [call EXCEPT ![c] = Answer("previewed", q)]
    BY <1>2 DEF Ask, r
  <2>2. memory.says \in Builds \cup {None} /\ memory.clean \in BOOLEAN
    BY DEF TypeOK
  <2>3. /\ q \in Records /\ q.began = clock /\ q.says = memory.says
        /\ q.sure = memory.clean /\ q.tool = tool
    BY <1>1, <2>2, Times DEF Records
  <2>4. memory.clean /\ clock >= changed + TTL => memory.says = Truth
    BY <1>2, Times DEF ProbeInv, HelpInv, Remembers
  <2>. HIDE DEF q
  <2>5. Knows(Answer("previewed", q))
    BY <1>2, <2>3, <2>4, AnswerKnows, Times DEF Tools
  <2>. QED  BY <2>1, <2>5, OneCallLearns DEF Ask, ProbeInv
<1>3. CASE ~(tool = "preview" /\ Remembers)
  <2>. DEFINE probe == FirstProbe(tool)
  <2>1. call' = [call EXCEPT ![c] = To(probe, r)]
    BY <1>3 DEF Ask, r
  <2>2. /\ probe \in Probes(tool)
        /\ probe = "override" => host.override # None
        /\ tool = "status" /\ probe = "version" => host.override = None
        /\ tool = "status" => probe \in {"override", "version"}
        /\ tool = "transfer" => probe = "version"
        /\ tool = "preview" => probe = "help"
    BY DEF FirstProbe, Probes, Tools
  <2>. HIDE DEF probe
  <2>3. Learnt([r EXCEPT !.probe = probe])
    <3>1. /\ [r EXCEPT !.probe = probe].probe = probe
          /\ [r EXCEPT !.probe = probe].tool = tool
          /\ ~[r EXCEPT !.probe = probe].blamed
      BY <1>1 DEF Records
    <3>2. tool = "status" /\ probe # "override" => ~BadOverride
      BY <2>2 DEF BadOverride
    <3>. QED  BY <2>2, <3>1, <3>2 DEF Learnt, Tools
  <2>4. Knows(To(probe, r))
    BY <1>1, <2>2, <2>3, ToKnows, Times
  <2>. QED  BY <2>1, <2>4, OneCallLearns DEF Ask, ProbeInv
<1>. QED  BY <1>2, <1>3

LEMMA LocatedKnows ==
    ASSUME TypeOK, ProbeInv, NEW c \in Calls, call[c].stage \in {"locate", "ask"},
           NEW path \in Places \cup {Bare, None}, NEW b, Located(c, path, b),
           path = None => BadOverride,
           path # None /\ b.known => path = Resolved(b.places),
           path = Bare => host.override = None,
           UNCHANGED <<host, machine, clock>>
    PROVE  \A d \in Calls : Knows(call[d])'
<1>. DEFINE sure == call[c].sure /\ Holds(path, b)
            r == [call[c] EXCEPT !.path = path, !.seen = {}, !.sure = sure]
            none == path = None
            blamed == [r EXCEPT !.blamed = none]
            located == [r EXCEPT !.stage = "spawn"]
<1>1. call[c] \in Records /\ Knows(call[c]) /\ call[c].began <= clock
      /\ call[c].tool \in Tools /\ call[c].probe \in Probes(call[c].tool)
  BY DEF ProbeInv, Knows, Shape, Underway
<1>2. Holds(path, b) => Runs(path) = Truth
  BY HeldPathsLead
<1>3. Holds(path, b) /\ host.override # None => (none <=> BadOverride)
  BY PlacesAssumption DEF Holds, BadOverride, Resolved, TypeOK
<1>4. sure \in BOOLEAN /\ none \in BOOLEAN /\ (sure => call[c].sure /\ Holds(path, b))
  OBVIOUS
<1>5. /\ call[c].probe = "override" => call' = [call EXCEPT ![c] = To("version", blamed)]
      /\ call[c].probe # "override" => call' = [call EXCEPT ![c] = located]
  <2>1. r.probe = call[c].probe
    BY <1>1 DEF Records
  <2>. QED  BY <2>1 DEF Located
<1>. HIDE DEF sure, none
<1>6. /\ r \in Records /\ r.began = call[c].began /\ r.tool = call[c].tool
      /\ r.probe = call[c].probe /\ r.path = path /\ r.sure = sure
      /\ r.steady = call[c].steady /\ r.hung = call[c].hung /\ r.found = call[c].found
      /\ r.blamed = call[c].blamed /\ r.auth = call[c].auth
  BY <1>1, <1>4 DEF Records
<1>. HIDE DEF r
<1>7. CASE call[c].probe = "override"
  <2>1. /\ blamed \in Records /\ blamed.began = call[c].began
        /\ blamed.tool = call[c].tool /\ blamed.sure = sure /\ blamed.blamed = none
    BY <1>4, <1>6 DEF Records
  <2>2. call[c].tool = "status" /\ host.override # None
    BY <1>1, <1>7 DEF Probes, Tools, Knows, Shape
  <2>. HIDE DEF blamed
  <2>3. Learnt([blamed EXCEPT !.probe = "version"])
    <3>1. LET p == [blamed EXCEPT !.probe = "version"]
          IN  p.probe = "version" /\ p.sure = sure /\ p.blamed = none
      BY <2>1 DEF Records
    <3>. QED  BY <1>3, <1>4, <2>2, <3>1 DEF Learnt
  <2>4. Knows(To("version", blamed))
    BY <1>1, <2>1, <2>2, <2>3, ToKnows DEF Probes
  <2>. QED  BY <1>5, <1>7, <2>4, OneCallLearns DEF ProbeInv
<1>8. CASE call[c].probe # "override"
  <2>1. /\ located \in Records /\ located.began = call[c].began /\ located.stage = "spawn"
        /\ located.tool = call[c].tool /\ located.probe = call[c].probe
        /\ located.path = path /\ located.sure = sure /\ located.steady = call[c].steady
        /\ located.hung = call[c].hung /\ located.found = call[c].found
        /\ located.blamed = call[c].blamed /\ located.auth = call[c].auth
    BY <1>6 DEF Records
  <2>. HIDE DEF located
  <2>2. Shape(located)
    BY <1>1, <1>8, <2>1 DEF Shape, Underway
  <2>3. Holding(located)
    BY <1>2, <1>4, <2>1 DEF Holding, Recent
  <2>4. Learnt(located)
    BY <1>1, <1>4, <2>1 DEF Knows, Learnt
  <2>5. Says(located)
    BY <2>1 DEF Says
  <2>6. Knows(located)
    BY <2>2, <2>3, <2>4, <2>5 DEF Knows
  <2>. QED  BY <1>5, <1>8, <2>6, OneCallLearns DEF ProbeInv
<1>. QED  BY <1>7, <1>8

(* A resolution that is remembered is what a new process would come to.    *)
LEMMA SettleKnows ==
    ASSUME TypeOK, ProbeInv, NEW c \in Calls, call[c].stage \in {"locate", "ask"},
           NEW path \in Places \cup {Bare}, NEW known \in BOOLEAN, Settle(c, path, known),
           known => path = Resolved(Present),
           host.override # None => path = host.override,
           UNCHANGED <<host, machine, clock, memory>>
    PROVE  ProbeInv'
<1>. DEFINE b == [known |-> known, places |-> IF known THEN Present ELSE {}]
<1>1. Located(c, path, b) /\ remembered' = path /\ basis' = b
  BY DEF Settle
<1>2. b.known = known /\ (known => b.places = Present) /\ path # None
  BY PlacesAssumption
<1>. HIDE DEF b
<1>3. \A d \in Calls : Knows(call[d])'
  BY <1>1, <1>2, LocatedKnows, PlacesAssumption DEF TypeOK
<1>4. BasisInv'
  BY <1>1, <1>2 DEF BasisInv, Resolved
<1>5. HelpInv'
  BY MachineRests DEF HelpInv, ProbeInv, machine
<1>. QED  BY <1>3, <1>4, <1>5 DEF ProbeInv

LEMMA MemoriesRest ==
    ASSUME ProbeInv, UNCHANGED <<host, machine, remembered, basis, memory>>
    PROVE  BasisInv' /\ HelpInv'
  BY MachineRests DEF BasisInv, HelpInv, ProbeInv, Resolved, machine

LEMMA LocateKnows ==
    ASSUME TypeOK, ProbeInv, NEW c \in Calls, Locate(c)
    PROVE  ProbeInv'
<1>1. CASE Recall(c)
  <2>1. /\ remembered = Bare => host.override = None
        /\ remembered # None /\ remembered \in Places \cup {Bare, None}
    BY <1>1, PlacesAssumption DEF Recall, ProbeInv, BasisInv, TypeOK
  <2>2. \A d \in Calls : Knows(call[d])'
    BY <1>1, <2>1, LocatedKnows DEF Recall, Locate, ProbeInv, BasisInv
  <2>. QED  BY <1>1, <2>2, MemoriesRest DEF Recall, Locate, ProbeInv
<1>2. CASE TakeOverride(c)
  <2>1. CASE host.override \in Present
    <3>1. Settle(c, host.override, TRUE) /\ host.override \in Places
          /\ host.override = Resolved(Present)
      BY <1>2, <2>1, PathsAreTyped DEF TakeOverride, Resolved
    <3>. QED  BY <3>1, SettleKnows DEF Locate
  <2>2. CASE host.override \notin Present
    <3>1. Located(c, None, basis) /\ BadOverride /\ UNCHANGED <<remembered, basis>>
      BY <1>2, <2>2 DEF TakeOverride, BadOverride
    <3>2. \A d \in Calls : Knows(call[d])'
      BY <3>1, LocatedKnows, PlacesAssumption DEF Locate
    <3>. QED  BY <3>1, <3>2, MemoriesRest DEF Locate, ProbeInv
  <2>. QED  BY <2>1, <2>2
<1>3. CASE Search(c)
  <2>1. CASE ~host.wsl
    <3>1. OrBare(OnPath) = Resolved(Present)
      BY <1>3, <2>1 DEF Search, Resolved, OnPath
    <3>. QED  BY <1>3, <2>1, <3>1, SettleKnows, PathsAreTyped DEF Search, Locate
  <2>2. CASE host.wsl /\ FirstOf(Candidates, Present) # None
    <3>1. FirstOf(Candidates, Present) = Resolved(Present)
      BY <1>3, <2>2 DEF Search, Resolved
    <3>. QED  BY <1>3, <2>2, <3>1, SettleKnows, PathsAreTyped DEF Search, Locate
  <2>3. CASE host.wsl /\ FirstOf(Candidates, Present) = None
    <3>. DEFINE q == [call[c] EXCEPT !.stage = "ask", !.seen = Present]
    <3>1. call[c] \in Records /\ Knows(call[c]) /\ call[c].stage = "locate"
          /\ host.override = None /\ call[c].tool \in Tools
          /\ call[c].probe \in Probes(call[c].tool) /\ Present \in SUBSET Places
      BY <1>3, PathsAreTyped DEF Search, Locate, ProbeInv, Knows, Shape, Underway
    <3>2. call' = [call EXCEPT ![c] = q] /\ UNCHANGED <<remembered, basis>>
      BY <1>3, <2>3, <3>1 DEF Search, TypeOK, Records
    <3>3. /\ q \in Records /\ q.stage = "ask" /\ q.seen = Present
          /\ q.began = call[c].began /\ q.tool = call[c].tool /\ q.probe = call[c].probe
          /\ q.sure = call[c].sure /\ q.steady = call[c].steady /\ q.hung = call[c].hung
          /\ q.found = call[c].found /\ q.blamed = call[c].blamed /\ q.auth = call[c].auth
      BY <3>1 DEF Records
    <3>. HIDE DEF q
    <3>4. Shape(q) /\ Holding(q) /\ Says(q)
      BY <2>3, <3>1, <3>3 DEF Knows, Shape, Holding, Says, Underway
    <3>5. Learnt(q)
      BY <3>1, <3>3 DEF Knows, Learnt
    <3>6. \A d \in Calls : Knows(call[d])'
      BY <3>2, <3>4, <3>5, OneCallLearns DEF Knows, Locate, ProbeInv
    <3>. QED  BY <3>2, <3>6, MemoriesRest DEF Locate, ProbeInv
  <2>. QED  BY <2>1, <2>2, <2>3
<1>. QED  BY <1>1, <1>2, <1>3 DEF Locate

LEMMA AskNpmKnows ==
    ASSUME TypeOK, ProbeInv, NEW c \in Calls, AskNpm(c)
    PROVE  ProbeInv'
<1>1. PICK answers \in BOOLEAN :
         Settle(c, IF NpmHit(answers) THEN NpmPlace ELSE OrBare(OnPath),
                answers /\ call[c].seen = Present)
  BY DEF AskNpm
<1>. DEFINE path == IF NpmHit(answers) THEN NpmPlace ELSE OrBare(OnPath)
            known == answers /\ call[c].seen = Present
<1>2. host.wsl /\ host.override = None /\ FirstOf(Candidates, call[c].seen) = None
  BY DEF AskNpm, ProbeInv, Knows, Shape
<1>3. path \in Places \cup {Bare} /\ known \in BOOLEAN
  BY PathsAreTyped, PlacesAssumption
<1>4. known => path = Resolved(Present)
  BY <1>2 DEF Resolved, NpmHit, OnPath
<1>. HIDE DEF path, known
<1>5. Settle(c, path, known)
  BY <1>1 DEF path, known
<1>. QED  BY <1>2, <1>3, <1>4, <1>5, SettleKnows DEF AskNpm

(* What a probe is about to ask is what the worker will ask.               *)
LEMMA ProbeVersionKnows ==
    ASSUME TypeOK, ProbeInv, NEW c \in Calls, ProbeVersion(c)
    PROVE  ProbeInv'
<1>1. PICK hangs \in BOOLEAN :
         LET found == Runs(call[c].path) \in Running /\ ~hangs
             r == [call[c] EXCEPT !.found = found, !.hung = @ \/ hangs]
         IN  call' = [call EXCEPT ![c] =
                IF found THEN To("login", r)
                ELSE IF r.tool = "status" THEN To("help", r)
                ELSE Answer("not_found", r)]
  BY DEF ProbeVersion, Hangs
<1>. DEFINE found == Runs(call[c].path) \in Running /\ ~hangs
            hung == call[c].hung \/ hangs
            r == [call[c] EXCEPT !.found = found, !.hung = hung]
<1>2. call' = [call EXCEPT ![c] = IF found THEN To("login", r)
                                  ELSE IF r.tool = "status" THEN To("help", r)
                                  ELSE Answer("not_found", r)]
  BY <1>1
<1>3. /\ call[c] \in Records /\ Knows(call[c]) /\ call[c].began <= clock
      /\ call[c].stage = "spawn" /\ call[c].probe = "version"
      /\ call[c].tool \in {"status", "transfer"}
  BY DEF ProbeVersion, Spawning, ProbeInv, Knows, Shape, Probes, Tools, Underway
<1>4. /\ found \in BOOLEAN /\ hung \in BOOLEAN
      /\ call[c].steady /\ call[c].sure =>
           /\ found => Right
           /\ ~hung => (found <=> Right)
  BY <1>3 DEF Knows, Holding, Recent, Right
<1>. HIDE DEF found, hung
<1>5. /\ r \in Records /\ r.began = call[c].began /\ r.tool = call[c].tool
      /\ r.sure = call[c].sure /\ r.steady = call[c].steady /\ r.hung = hung
      /\ r.found = found /\ r.blamed = call[c].blamed
  BY <1>3, <1>4 DEF Records
<1>. HIDE DEF r
<1>6. r.steady /\ r.sure => (r.tool = "status" => (r.blamed <=> BadOverride))
  BY <1>3, <1>5 DEF Knows, Learnt
<1>7. \A d \in Calls : Knows(call[d])'
  <2>1. ASSUME NEW probe \in {"login", "help"}, probe \in Probes(r.tool),
               probe = "login" <=> found,
               call' = [call EXCEPT ![c] = To(probe, r)]
        PROVE  \A d \in Calls : Knows(call[d])'
    <3>. DEFINE p == [r EXCEPT !.probe = probe]
    <3>1. /\ p.probe = probe /\ p.tool = r.tool /\ p.steady = r.steady
          /\ p.sure = r.sure /\ p.blamed = r.blamed /\ p.found = found /\ p.hung = hung
      BY <1>5 DEF Records
    <3>. HIDE DEF p
    <3>2. Learnt(p)
      BY <1>4, <1>5, <1>6, <2>1, <3>1 DEF Learnt
    <3>3. Knows(To(probe, r))
      BY <1>3, <1>5, <2>1, <3>2, ToKnows DEF p, Tools
    <3>. QED  BY <2>1, <3>3, OneCallLearns DEF ProbeVersion, Spawning, ProbeInv
  <2>2. CASE found
    BY <1>2, <1>3, <1>5, <2>1, <2>2 DEF Probes
  <2>3. CASE ~found /\ r.tool = "status"
    BY <1>2, <2>1, <2>3 DEF Probes
  <2>4. CASE ~found /\ r.tool = "transfer"
    <3>1. r.steady /\ r.sure /\ ~r.hung => WorkerFinds("transfer") = "not_found"
      BY <1>4, <1>5, <2>4 DEF WorkerFinds, Right, Truth
    <3>2. Knows(Answer("not_found", r))
      BY <1>3, <1>5, <2>4, <3>1, AnswerKnows DEF Tools
    <3>. QED  BY <1>2, <2>4, <3>2, OneCallLearns DEF ProbeVersion, Spawning, ProbeInv
  <2>. QED  BY <1>3, <1>5, <2>2, <2>3, <2>4
<1>. QED  BY <1>7, MemoriesRest DEF ProbeVersion, Spawning, ProbeInv

LEMMA ProbeLoginKnows ==
    ASSUME TypeOK, ProbeInv, NEW c \in Calls, ProbeLogin(c)
    PROVE  ProbeInv'
<1>1. PICK hangs \in BOOLEAN :
         LET auth == LoginSays(Runs(call[c].path), hangs)
             r == [call[c] EXCEPT !.auth = auth, !.hung = @ \/ hangs]
         IN  call' = [call EXCEPT ![c] =
                IF r.tool = "status" THEN To("help", r) ELSE Answer(OfLogin(auth), r)]
  BY DEF ProbeLogin, Hangs
<1>. DEFINE auth == LoginSays(Runs(call[c].path), hangs)
            hung == call[c].hung \/ hangs
            r == [call[c] EXCEPT !.auth = auth, !.hung = hung]
<1>2. call' = [call EXCEPT ![c] = IF r.tool = "status" THEN To("help", r)
                                  ELSE Answer(OfLogin(auth), r)]
  BY <1>1
<1>3. /\ call[c] \in Records /\ Knows(call[c]) /\ call[c].began <= clock
      /\ call[c].stage = "spawn" /\ call[c].probe = "login"
      /\ call[c].tool \in {"status", "transfer"}
  BY DEF ProbeLogin, Spawning, ProbeInv, Knows, Shape, Probes, Tools, Underway
<1>4. /\ auth \in {"yes", "no", "unknown"} /\ hung \in BOOLEAN
      /\ call[c].steady /\ call[c].sure =>
           /\ call[c].found /\ Right
           /\ ~hung => auth = IF login THEN "yes" ELSE "no"
  <2>1. call[c].steady /\ call[c].sure =>
           call[c].found /\ Right /\ Runs(call[c].path) = Truth
    BY <1>3 DEF Knows, Holding, Recent, Learnt
  <2>2. Right => Runs(call[c].path) # Truth \/ Runs(call[c].path) # None
    BY PlacesAssumption, SetupAssumption DEF Right
  <2>. QED  BY <2>1, <2>2 DEF LoginSays, Right
<1>. HIDE DEF auth, hung
<1>5. /\ r \in Records /\ r.began = call[c].began /\ r.tool = call[c].tool
      /\ r.sure = call[c].sure /\ r.steady = call[c].steady /\ r.hung = hung
      /\ r.auth = auth /\ r.found = call[c].found /\ r.blamed = call[c].blamed
  BY <1>3, <1>4 DEF Records
<1>. HIDE DEF r
<1>6. \A d \in Calls : Knows(call[d])'
  <2>1. CASE r.tool = "status"
    <3>. DEFINE p == [r EXCEPT !.probe = "help"]
    <3>1. /\ p.probe = "help" /\ p.tool = r.tool /\ p.steady = r.steady
          /\ p.sure = r.sure /\ p.blamed = r.blamed /\ p.found = r.found
          /\ p.hung = hung /\ p.auth = auth
      BY <1>5 DEF Records
    <3>. HIDE DEF p
    <3>2. r.steady /\ r.sure => (r.blamed <=> BadOverride)
      BY <1>3, <1>5, <2>1 DEF Knows, Learnt
    <3>3. Learnt(p)
      BY <1>4, <1>5, <3>1, <3>2 DEF Learnt
    <3>4. Knows(To("help", r))
      BY <1>3, <1>5, <2>1, <3>3, ToKnows DEF p, Tools, Probes
    <3>. QED  BY <1>2, <2>1, <3>4, OneCallLearns DEF ProbeLogin, Spawning, ProbeInv
  <2>2. CASE r.tool = "transfer"
    <3>1. /\ OfLogin(auth) \in {"ready", "no_login", "indeterminate"}
          /\ auth = "yes" => OfLogin(auth) = "ready"
          /\ auth = "no" => OfLogin(auth) = "no_login"
      BY <1>4 DEF OfLogin
    <3>2. r.steady /\ r.sure =>
             Right /\ (~r.hung => OfLogin(auth) = WorkerFinds("transfer"))
      BY <1>4, <1>5, <3>1 DEF WorkerFinds, Right, Truth
    <3>3. Knows(Answer(OfLogin(auth), r))
      BY <1>3, <1>5, <2>2, <3>1, <3>2, AnswerKnows DEF Tools
    <3>. QED  BY <1>2, <2>2, <3>3, OneCallLearns DEF ProbeLogin, Spawning, ProbeInv
  <2>. QED  BY <1>3, <1>5, <2>1, <2>2
<1>. QED  BY <1>6, MemoriesRest DEF ProbeLogin, Spawning, ProbeInv

LEMMA ProbeHelpKnows ==
    ASSUME TypeOK, ProbeInv, NEW c \in Calls, ProbeHelp(c)
    PROVE  ProbeInv'
<1>1. PICK hangs \in BOOLEAN :
         call' = [call EXCEPT ![c].stage = "read", ![c].hung = @ \/ hangs,
                    ![c].says = IF hangs THEN None ELSE Runs(call[c].path)]
  BY DEF ProbeHelp, Hangs
<1>. DEFINE hung == call[c].hung \/ hangs
            says == IF hangs THEN None ELSE Runs(call[c].path)
            q == [call[c] EXCEPT !.stage = "read", !.hung = hung, !.says = says]
<1>2. call' = [call EXCEPT ![c] = q]
  BY <1>1 DEF TypeOK, Records
<1>3. /\ call[c] \in Records /\ Knows(call[c]) /\ call[c].began <= clock
      /\ call[c].stage = "spawn" /\ call[c].probe = "help" /\ call[c].tool \in Tools
      /\ "help" \in Probes(call[c].tool)
  BY DEF ProbeHelp, Spawning, ProbeInv, Knows, Shape, Underway
<1>4. /\ hung \in BOOLEAN /\ says \in Builds \cup {None}
      /\ ~hung => ~call[c].hung /\ says = Runs(call[c].path)
  BY <1>3, PathsAreTyped DEF Records
<1>. HIDE DEF hung, says
<1>5. /\ q \in Records /\ q.began = call[c].began /\ q.tool = call[c].tool
      /\ q.stage = "read" /\ q.probe = "help" /\ q.says = says
      /\ q.sure = call[c].sure /\ q.steady = call[c].steady /\ q.hung = hung
      /\ q.auth = call[c].auth /\ q.found = call[c].found /\ q.blamed = call[c].blamed
  BY <1>3, <1>4 DEF Records
<1>. HIDE DEF q
<1>6. Shape(q) /\ Says(q)
  BY <1>3, <1>5 DEF Shape, Says, Underway
<1>7. Holding(q)
  BY <1>3, <1>4, <1>5 DEF Knows, Holding, Recent
<1>8. Learnt(q)
  BY <1>3, <1>4, <1>5 DEF Knows, Learnt
<1>9. \A d \in Calls : Knows(call[d])'
  BY <1>2, <1>6, <1>7, <1>8, OneCallLearns DEF Knows, ProbeHelp, Spawning, ProbeInv
<1>. QED  BY <1>9, MemoriesRest DEF ProbeHelp, Spawning, ProbeInv

LEMMA RememberKnows ==
    ASSUME TypeOK, ProbeInv, NEW c \in Calls, Remember(c)
    PROVE  ProbeInv'
<1>. DEFINE verdict == IF call[c].tool = "status" THEN Readiness(call[c])
                       ELSE "previewed"
<1>1. call' = [call EXCEPT ![c] = Answer(verdict, call[c])]
  BY DEF Remember, TypeOK
<1>2. /\ call[c] \in Records /\ Knows(call[c]) /\ call[c].began <= clock
      /\ call[c].stage = "read" /\ call[c].probe = "help"
      /\ call[c].tool \in {"status", "preview"}
  BY DEF Remember, ProbeInv, Knows, Shape, Probes, Tools, Underway
<1>3. verdict \in {"previewed", "not_found", "bad_override", "no_login",
                   "indeterminate", "ready"}
  BY <1>2 DEF Readiness, OfLogin, Records
<1>4. call[c].steady /\ call[c].sure /\ ~call[c].hung =>
         /\ call[c].says = Truth
         /\ call[c].tool = "status" => verdict = WorkerFinds("status")
  <2>1. SUFFICES ASSUME call[c].steady, call[c].sure, ~call[c].hung
                 PROVE  /\ call[c].says = Truth
                        /\ call[c].tool = "status" => verdict = WorkerFinds("status")
    OBVIOUS
  <2>2. call[c].says = Truth
    BY <1>2, <2>1 DEF Knows, Holding, Recent
  <2>3. CASE call[c].tool = "status"
    <3>1. /\ call[c].blamed <=> BadOverride
          /\ call[c].found <=> Right
          /\ call[c].found => call[c].auth = IF login THEN "yes" ELSE "no"
      BY <1>2, <2>1, <2>3 DEF Knows, Learnt
    <3>2. BadOverride => Truth = None
      BY PlacesAssumption DEF BadOverride, Truth, Fresh, Resolved, Runs
    <3>3. BadOverride => ~Right
      BY <3>2, PlacesAssumption, SetupAssumption DEF Right
    <3>. QED
      BY <2>2, <2>3, <3>1, <3>3
      DEF Readiness, OfLogin, WorkerFinds, BadOverride, Right, Truth
  <2>. QED  BY <2>2, <2>3
<1>5. call[c].tool = "preview" => verdict = "previewed"
  OBVIOUS
<1>. HIDE DEF verdict
<1>6. Knows(Answer(verdict, call[c]))
  BY <1>2, <1>3, <1>4, <1>5, AnswerKnows DEF Tools
<1>7. \A d \in Calls : Knows(call[d])'
  BY <1>1, <1>6, OneCallLearns DEF Remember, ProbeInv
<1>8. HelpInv'
  <2>1. /\ memory'.clean = (call[c].sure /\ ~call[c].hung)
        /\ memory'.stamp = call[c].began /\ memory'.says = call[c].says
    BY DEF Remember, Stamp
  <2>2. call[c].sure /\ ~call[c].hung /\ changed < call[c].began => call[c].says = Truth
    BY <1>2 DEF Knows, Holding, Recent
  <2>3. changed' = changed /\ Truth' = Truth
    BY MachineRests DEF Remember, machine
  <2>. QED  BY <2>1, <2>2, <2>3 DEF HelpInv
<1>9. BasisInv'
  BY DEF Remember, BasisInv, ProbeInv, Resolved
<1>. QED  BY <1>7, <1>8, <1>9 DEF ProbeInv

-----------------------------------------------------------------------------
(***************************************************************************)
(* A change of the machine retires the answers, and makes what the calls   *)
(* and the memories hold too old to count.                                 *)
(***************************************************************************)
LEMMA ChangeKnows ==
    ASSUME TypeOK, ProbeInv, Change
    PROVE  ProbeInv'
<1>1. ASSUME NEW d \in Calls PROVE Knows(call[d])'
  <2>0. PICK q : q = [call[d] EXCEPT !.steady = FALSE]
    OBVIOUS
  <2>1. PICK r : r = call'[d]
    OBVIOUS
  <2>2. r = IF Asking(d) THEN q ELSE Idle
    BY <2>0, <2>1 DEF Change
  <2>3. CASE ~Asking(d)
    <3>1. r = Idle
      BY <2>2, <2>3
    <3>2. Shape(Idle)'
      BY IdleKnows DEF Knows, Shape, Change, Idle
    <3>3. Holding(Idle)' /\ Learnt(Idle)' /\ Says(Idle)'
      BY DEF Holding, Learnt, Says, Idle
    <3>. QED  BY <2>1, <3>1, <3>2, <3>3, KnowledgeOfTheNext DEF Knows
  <2>4. CASE Asking(d)
    <3>1. call[d] \in Records /\ Knows(call[d]) /\ call[d].began <= clock
      BY DEF ProbeInv, Knows, Shape
    <3>2. /\ q \in Records /\ ~q.steady /\ q.stage = call[d].stage
          /\ q.probe = call[d].probe /\ q.tool = call[d].tool
          /\ q.began = call[d].began /\ q.seen = call[d].seen
      BY <2>0, <3>1 DEF Records
    <3>3. r = q /\ q.stage # "answered"
      BY <2>2, <2>4, <3>2 DEF Asking
    <3>4. Shape(q)'
      BY <3>1, <3>2 DEF Knows, Shape, Change
    <3>5. ~Recent(q)'
      <4>1. changed' = clock /\ q.began \in Nat /\ q.began <= clock
        BY <3>1, <3>2 DEF Change, Records
      <4>. QED  BY <3>2, <4>1, Times DEF Recent
    <3>6. Holding(q)' /\ Learnt(q)' /\ Says(q)'
      BY <3>2, <3>3, <3>5 DEF Holding, Learnt, Says
    <3>. QED  BY <2>1, <3>3, <3>4, <3>6, KnowledgeOfTheNext DEF Knows
  <2>. QED  BY <2>3, <2>4
<1>2. BasisInv'
  BY DEF Change, BasisInv, ProbeInv, Resolved
<1>3. HelpInv'
  BY Times DEF Change, HelpInv
<1>. QED  BY <1>1, <1>2, <1>3 DEF ProbeInv

LEMMA TickKnows ==
    ASSUME TypeOK, ProbeInv, Tick
    PROVE  ProbeInv'
<1>1. clock' \in Nat /\ clock <= clock'
  BY Times DEF Tick
<1>2. ASSUME NEW d \in Calls PROVE Knows(call[d])'
  <2>1. PICK r : r = call'[d]
    OBVIOUS
  <2>2. Knows(r)
    BY <2>1 DEF Tick, ProbeInv
  <2>. QED  BY <1>1, <2>1, <2>2, KnowledgeIsKept, KnowledgeOfTheNext DEF Tick
<1>. QED  BY <1>2, MemoriesRest DEF Tick, ProbeInv

LEMMA ProbeInvariant == Spec => [](TypeOK /\ ProbeInv)
<1>1. Init /\ TypeOK => ProbeInv
  <2>. SUFFICES ASSUME Init, TypeOK PROVE ProbeInv
    OBVIOUS
  <2>1. \A c \in Calls : Knows(call[c])
    BY IdleKnows DEF Init
  <2>. QED  BY <2>1 DEF Init, ProbeInv, BasisInv, HelpInv
<1>2. TypeOK /\ ProbeInv /\ [Next]_vars => ProbeInv'
  <2>. SUFFICES ASSUME TypeOK, ProbeInv, [Next]_vars PROVE ProbeInv'
    OBVIOUS
  <2>1. ASSUME NEW c \in Calls, NEW tool \in Tools, Ask(c, tool) PROVE ProbeInv'
    BY <2>1, AskKnows, MemoriesRest DEF Ask, ProbeInv
  <2>2. CASE World /\ ~Tick
    BY <2>2, ChangeKnows DEF World, Install, Remove, LogInOrOut
  <2>3. CASE UNCHANGED vars
    <3>1. ASSUME NEW d \in Calls PROVE Knows(call[d])'
      <4>1. PICK r : r = call'[d]
        OBVIOUS
      <4>2. Knows(r)
        BY <2>3, <4>1 DEF vars, ProbeInv
      <4>. QED
        BY <2>3, <4>1, <4>2, KnowledgeIsKept, KnowledgeOfTheNext, Times DEF vars
    <3>. QED  BY <2>3, <3>1, MemoriesRest DEF vars, ProbeInv
  <2>. QED
    BY <2>1, <2>2, <2>3, LocateKnows, AskNpmKnows, ProbeVersionKnows, ProbeLoginKnows,
       ProbeHelpKnows, RememberKnows, TickKnows DEF Next, Probe
<1>. QED  BY <1>1, <1>2, ProbesAreTyped, PTL DEF Spec

-----------------------------------------------------------------------------
(***************************************************************************)
(* What codex_status and codex_transfer say of codex, its login and (for   *)
(* the first) its help is what the next worker finds, whatever the probes  *)
(* of other calls did in between, unless the machine changed since, a      *)
(* probe hung or a remembered resolution had lapsed.                       *)
(***************************************************************************)
THEOREM StatusAndTransferSpeakForWorkers == Spec => []ProbesSpeakForWorkers
<1>1. ProbeInv => ProbesSpeakForWorkers
  BY DEF ProbeInv, Knows, Says, ProbesSpeakForWorkers, Answered, Truth
<1>. QED  BY <1>1, ProbeInvariant, PTL

(***************************************************************************)
(* A caller told that the login could not be determined has a codex that   *)
(* runs: the binary was ruled out before the login was asked for.          *)
(***************************************************************************)
THEOREM IndeterminateIsToldOfARunningCodex == Spec => []IndeterminateIsTemporary
<1>1. ProbeInv => IndeterminateIsTemporary
  BY DEF ProbeInv, Knows, Says, IndeterminateIsTemporary, Answered, Right, Truth
<1>. QED  BY <1>1, ProbeInvariant, PTL

(***************************************************************************)
(* A preview goes by the help text of the codex the next worker spawns, if *)
(* the machine has rested for TTL, however many probes wrote the memory.   *)
(***************************************************************************)
THEOREM PreviewsSpeakForWorkers == Spec => []PreviewSpeaksForWorkers
<1>1. ProbeInv => PreviewSpeaksForWorkers
  BY DEF ProbeInv, Knows, Says, PreviewSpeaksForWorkers, Answered, Truth
<1>. QED  BY <1>1, ProbeInvariant, PTL
=============================================================================

------------------------------ MODULE RateLimit ------------------------------
(***************************************************************************)
(* What a quota reading tells the caller of codex_status (rate_limit.py),  *)
(* from the block codex app-server answered with (appserver.py).           *)
(*                                                                         *)
(* A value that is missing, of the wrong type or not finite is Absent;     *)
(* a window that is missing or null has there = FALSE.  Times are seconds  *)
(* since the epoch, percentages whole.                                     *)
(***************************************************************************)
EXTENDS Integers

CONSTANT MaxTime     \* the last second datetime can represent

ASSUME MaxTimeAssumption == MaxTime \in Nat

Absent == -1
Known(x) == x # Absent

Slots == {"primary", "secondary"}       \* shorter and longer window
Reasons == {"none", "primary", "secondary", "other"}
Spending == {"reached", "open", "unreported"}
Windows == [there : BOOLEAN, used : Int, minutes : Nat \cup {Absent},
            resets : Nat \cup {Absent}]
Block == [shape : {"object", "null", "drift"}, primary : Windows,
          secondary : Windows, reached : Reasons, spend : Spending]

NoWindow == [there |-> FALSE, used |-> Absent, minutes |-> Absent, resets |-> Absent]

ShortWindowMax == 1440
LimitedThreshold == 25

-----------------------------------------------------------------------------
(* The reading of the block: _parse_rate_limits                            *)

(* Mutated: more than everything is everything.                            *)
Percent_Clamped(used) == IF used > 100 THEN 100 ELSE used

(* Never clamped to a valid-looking value.                                 *)
Percent(used) == IF used \in 0..100 THEN used ELSE Absent

FromWire(w) == IF w.there THEN [w EXCEPT !.used = Percent(w.used)] ELSE NoWindow

Malformed(w) == w.there /\ ~Known(Percent(w.used)) /\ ~Known(w.resets)

(* Mutated: the app-server's order of the slots is trusted.                *)
Assigned_AsSent(p, s) == [primary |-> p, secondary |-> s]

(* _assign_window_slots: by duration, the app-server's order is not stable.*)
Assigned(p, s) ==
    IF p.there /\ s.there
    THEN IF Known(p.minutes) /\ Known(s.minutes) /\ p.minutes > s.minutes
         THEN [primary |-> s, secondary |-> p]
         ELSE [primary |-> p, secondary |-> s]
    ELSE LET w == IF p.there THEN p ELSE s
             long == IF Known(w.minutes) THEN w.minutes > ShortWindowMax ELSE s.there
         IN  IF long THEN [primary |-> NoWindow, secondary |-> w]
             ELSE [primary |-> w, secondary |-> NoWindow]

ReadStatus(b) ==
    IF b.shape = "drift" THEN "protocol_error"
    ELSE IF b.shape = "null" THEN "no_quota"
    ELSE IF Malformed(b.primary) \/ Malformed(b.secondary) THEN "protocol_error"
    ELSE IF ~b.primary.there /\ ~b.secondary.there /\ b.spend # "reached" THEN "no_quota"
    ELSE "ok"

Snapshot(b) == Assigned(FromWire(b.primary), FromWire(b.secondary))

-----------------------------------------------------------------------------
(* Its interpretation at a moment: _window, _is_open, _status              *)

ResetPassed(w, now) == Known(w.resets) /\ now >= w.resets

(* A window that rolled over shows no percentage: what it was is obsolete. *)
Remaining(w, now) ==
    IF Known(w.used) /\ ~ResetPassed(w, now) THEN 100 - w.used ELSE Absent

IsOpen(w, now) ==
    /\ w.there /\ ~ResetPassed(w, now)
    /\ Known(w.resets) /\ w.resets <= MaxTime
    /\ Known(Remaining(w, now))

Reading(says, window) == [status |-> says, limiting |-> window]

(* The window of the set with the least remaining, the shorter one if even.*)
Tightest(names, windows, now) ==
    IF names = Slots
    THEN IF Remaining(windows.primary, now) <= Remaining(windows.secondary, now)
         THEN "primary" ELSE "secondary"
    ELSE IF "primary" \in names THEN "primary" ELSE "secondary"

(* A spend control outranks every window; a reached limit counts while some*)
(* window is open that it can bind; risk is read off open windows only.    *)
Status(b, windows, now) ==
    LET present == {n \in Slots : windows[n].there}
        open == {n \in Slots : IsOpen(windows[n], now)}
        exhausted == {n \in open : Remaining(windows[n], now) <= 0}
        limited == {n \in open : Remaining(windows[n], now) < LimitedThreshold}
        tightest(names) == Tightest(names, windows, now)
    IN  IF b.spend = "reached" THEN Reading("blocked", "none")
        ELSE IF present = {} THEN Reading("unknown", "none")
        ELSE IF b.reached \in open THEN Reading("exhausted", b.reached)
        ELSE IF b.reached \in Slots \/ (b.reached # "none" /\ open = {})
             THEN Reading("unknown", "none")
        ELSE IF b.reached # "none" THEN Reading("exhausted", tightest(open))
        ELSE IF exhausted # {} THEN Reading("exhausted", tightest(exhausted))
        ELSE IF limited # {} THEN Reading("limited", tightest(limited))
        ELSE IF present \ open # {} THEN Reading("unknown", "none")
        ELSE Reading("available", tightest(open))

Interpret(b, now) == Status(b, Snapshot(b), now)

(* live_read: how the read ended, and what it read.                        *)
LiveRead(ended, b, now) ==
    IF ended = "ok" THEN Interpret(b, now)
    ELSE IF ended \in {"no_quota", "unsupported", "protocol_error"}
         THEN Reading("unavailable", "none")
    ELSE Reading("unknown", "none")

-----------------------------------------------------------------------------
(* What the reading promises, said of the block as the app-server sent it. *)

(* In force: not reset, with a reset time to tell and a percentage.        *)
InForce(w, now) ==
    w.there /\ Known(w.resets) /\ now < w.resets /\ w.resets <= MaxTime
    /\ w.used \in 0..100

(* "available" is said only if nothing speaks against spending: no spend   *)
(* control, no limit reached, and every window reported in force and with a*)
(* quarter left.  "exhausted" and "limited" are said only of a window in   *)
(* force, never of one that has reset, and "blocked" only of a spend       *)
(* control.                                                                *)
Conservative(b, reading, now) ==
    LET sent == {b.primary, b.secondary} IN
    /\ reading.status = "available" =>
          /\ b.spend # "reached" /\ b.reached = "none"
          /\ \E w \in sent : w.there
          /\ \A w \in sent : w.there =>
                InForce(w, now) /\ 100 - w.used >= LimitedThreshold
    /\ reading.status = "limited" =>
          \E w \in sent : InForce(w, now) /\ 100 - w.used < LimitedThreshold
    /\ reading.status = "exhausted" =>
          \E w \in sent : InForce(w, now) /\ (w.used = 100 \/ b.reached # "none")
    /\ reading.status = "blocked" <=> b.spend = "reached"

Swapped(b) == [b EXCEPT !.primary = b.secondary, !.secondary = b.primary]

(* Two windows whose durations tell them apart read the same whichever slot*)
(* the app-server put them in.                                             *)
SlotOrderIsIrrelevant(b, now) ==
    /\ b.primary.there /\ b.secondary.there
    /\ Known(b.primary.minutes) /\ Known(b.secondary.minutes)
    /\ b.primary.minutes # b.secondary.minutes
    => Interpret(Swapped(b), now) = Interpret(b, now)
=============================================================================

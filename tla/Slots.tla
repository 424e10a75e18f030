------------------------------- MODULE Slots -------------------------------
(***************************************************************************)
(* Which starts the booking tools offer (services/scheduling.py, and the   *)
(* freeBusy query of integrations/google_calendar.py).  Time is counted in *)
(* units of the booking grid from the midnight before day 0; a day has     *)
(* DayLen of them, whatever the time zone does.                            *)
(***************************************************************************)
EXTENDS Integers, Sequences, FiniteSets

CONSTANTS
    DayLen,
    Hours,          \* per weekday, the ranges as configured: sequences of [from, to]
    Closed,         \* closed_dates, as days
    HorizonDays, SlotLen, SlotStep, Lead, Buffer, MaxSlots

Weekdays == 0..6
Ranges == [from : 0..DayLen, to : 0..DayLen]

ASSUME SlotsAssumption ==
    /\ {DayLen, HorizonDays, SlotLen, SlotStep, MaxSlots} \subseteq Nat \ {0}
    /\ {Lead, Buffer} \subseteq Nat
    /\ Hours \in [Weekdays -> Seq(Ranges)]
    /\ Closed \subseteq Nat

Overlaps(a0, a1, b0, b1) == a0 < b1 /\ b0 < a1

\* parse_ranges drops a range that is not one.
Windows(day) ==
    {i \in DOMAIN Hours[day % 7] : Hours[day % 7][i].from < Hours[day % 7][i].to}

\* The cursor of candidate_starts within one window.
Cursors(r) == {s \in r.from..(r.to - SlotLen) : (s - r.from) % SlotStep = 0}

OpenOn(day) ==
    UNION {{[day |-> day, window |-> i, start |-> day * DayLen + s] :
                s \in Cursors(Hours[day % 7][i])} : i \in Windows(day)}

\* The order in which candidate_starts finds them: days, the windows of a day as
\* they are configured, the cursor.
Before(c, d) ==
    \/ c.day < d.day
    \/ c.day = d.day /\ c.window < d.window
    \/ c.day = d.day /\ c.window = d.window /\ c.start < d.start

FirstOf(n, C) == {c \in C : Cardinality({d \in C : Before(d, c)}) < n}

\* The pages of the search: it fetches six times what it shows.
Overfetch == IF MaxSlots * 6 < 150 THEN MaxSlots * 6 ELSE 150

CandidateStarts(now) ==
    LET today == now \div DayLen
        days == (today..(today + HorizonDays - 1)) \ Closed
    IN  FirstOf(Overfetch, {c \in UNION {OpenOn(d) : d \in days} : c.start >= now + Lead})

Earliest(C) == CHOOSE c \in C : \A d \in C \ {c} : Before(c, d)
Latest(C) == CHOOSE c \in C : \A d \in C \ {c} : Before(d, c)

Busy_Unread(events, C) == {}
\* What freeBusy returns for the period from the first candidate to the end of
\* the last; an inverted period is refused (see CanAsk).
Busy(events, C) ==
    {e \in events : Overlaps(e.from, e.to, Earliest(C).start, Latest(C).start + SlotLen)}
CanAsk(C) == Earliest(C).start < Latest(C).start + SlotLen

SubtractBusy(C, busy) ==
    {c \in C : \A b \in busy :
        ~Overlaps(c.start - Buffer, c.start + SlotLen + Buffer, b.from, b.to)}
=============================================================================

------------------------------ MODULE MCTools ------------------------------
(* Two visitors with two tool calls each, beside one event of the staff.    *)
(* Day 0 has three overlapping starts and an inverted range, day 1 one      *)
(* start, day 2 is closed; at time 2 the staff's event ends where the first *)
(* candidate starts.                                                        *)
EXTENDS Tools, TLC

CONSTANTS v1, v2, staff

MCChats == {v1, v2}
MCStarts == {1, 2, 6}
MCStaffEvents == {[id |-> <<staff, 1>>, from |-> 2, to |-> 3, cleared |-> {}]}
MCHours ==
    [d \in Weekdays |->
        IF d = 0 THEN <<[from |-> 1, to |-> 5], [from |-> 5, to |-> 4]>>
        ELSE <<[from |-> 0, to |-> 2]>>]
\* The same day as two adjoining ranges, the later one first.
MCHoursMixed ==
    [d \in Weekdays |->
        IF d = 0 THEN <<[from |-> 3, to |-> 5], [from |-> 1, to |-> 3]>>
        ELSE <<[from |-> 0, to |-> 2]>>]
MCClosed == {2}
MCNotices == {"email", "webhook"}
MCClock == {0, 2}

\* Two visitors who search and book; one who books twice beside a handoff; one
\* whose lead is captured before a handoff, beside another lead.
Booking == [c \in MCChats |-> <<"search", "book">>]
Script(c, first, second) == [d \in MCChats |-> IF d = c THEN first ELSE second]
MCScripts ==
    {Booking} \cup UNION {{Script(c, <<"book", "book">>, <<"escalate">>),
                           Script(c, <<"lead", "escalate">>, <<"lead">>)} : c \in MCChats}

Symmetry == Permutations(MCChats)
=============================================================================

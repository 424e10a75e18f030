----------------------------- MODULE ToolProofs -----------------------------
(***************************************************************************)
(* Theorems about Tools and Slots for any number of conversations and      *)
(* calls, any opening hours and any events of the staff.                   *)
(*                                                                         *)
(* The inductive invariant: Typed; Phased, the locals of a call at each of *)
(* its steps; Numbered, which calls events, appointments and results can   *)
(* stem from; Agreed, how those hang together; TruthfulReport.  Cleared,   *)
(* what a search has promised, is inductive beside it where the hours of   *)
(* every day are configured in ascending order.                            *)
(***************************************************************************)
EXTENDS Tools, FunctionTheorems, FiniteSetTheorems, TLAPS

\* The opening hours of a day are configured in ascending order.
HoursInOrder ==
    \A day \in Weekdays : \A i, j \in Windows(day) :
        i < j => Hours[day][i].to <= Hours[day][j].from

Mems == [tool : Tool, at : Clock, start : Starts \cup {0},
         source : {"local", "google", "local_after_calendar_error"}]
Offers == [source : {"none", "hours", "google"}, slots : SUBSET Int, seen : SUBSET EventIds]
Typed == TypeOK /\ offer \in [Chats -> Offers]

Phased ==
    \A c \in Chats :
        /\ pc[c] = "idle" => mem[c] = Fresh
        /\ pc[c] # "idle" => calls[c] >= 1
        /\ pc[c] \in {"search_creds", "freebusy"} =>
            mem[c].tool = "search" /\ CandidateStarts(mem[c].at) # {}
        /\ pc[c] \in {"book_creds", "inserting", "row", "plan"} =>
            mem[c].tool = "book" /\ mem[c].start \in Starts
        /\ pc[c] \in {"book_creds", "inserting"} => mem[c].source = "local"
        /\ pc[c] \in {"record", "email", "webhook"} => mem[c].tool \in {"lead", "escalate"}

Sent == calendar \cup flight
Begun(id) == id[2] <= calls[id[1]]
Current(id) == pc[id[1]] # "idle" /\ calls[id[1]] = id[2]

\* Events are unique, and the current call has none before it sends one; it has no
\* appointment before it commits one, and no result before it ends.
Numbered ==
    /\ \A e \in Sent :
        IF e.id \in CallIds
        THEN /\ Begun(e.id)
             /\ Current(e.id) => /\ pc[e.id[1]] \in {"inserting", "row", "plan"}
                                 /\ e.from = mem[e.id[1]].start
        ELSE e \in StaffEvents
    /\ \A e, f \in Sent : e.id = f.id => e = f
    /\ \A r \in rows : Begun(r.id) /\ (Current(r.id) => pc[r.id[1]] = "plan")
    /\ \A t \in told : t.id \in CallIds /\ Begun(t.id) /\ ~Current(t.id)

\* An event that was sent, and whose call has met no failure, has its appointment
\* or is about to get it; what a call believes to have done is done.
Accounted ==
    \A e \in Sent : e.id \in CallIds /\ e.id \notin broken =>
        IF Current(e.id) THEN pc[e.id[1]] \in {"row", "plan"} => mem[e.id[1]].source = "google"
        ELSE \E r \in Row(e.id) : r.ref = e.id
Referring == \A r \in rows : r.ref # Local => \E e \in calendar : e.id = r.ref
Believing(c) ==
    /\ pc[c] \in {"row", "plan"} /\ mem[c].source = "google" =>
        \E e \in calendar : e.id = Call(c) /\ e.from = mem[c].start
    /\ pc[c] = "plan" =>
        \E r \in rows : r.id = Call(c) /\ r.start = mem[c].start /\ r.ref = Reference(c)
    /\ pc[c] \in {"email", "webhook"} /\ mem[c].tool = "lead" => <<Call(c), "record">> \in deeds
    /\ pc[c] = "webhook" /\ "email" \in Notices => <<Call(c), "email">> \in deeds
Agreed == Accounted /\ Referring /\ \A c \in Chats : Believing(c)

IInv == Typed /\ Phased /\ Numbered /\ Agreed /\ TruthfulReport

\* An offered slot is free of the events that the search has seen, and so is an
\* event for such a slot, whatever was added later.
Ids(events) == {e.id : e \in events}
Free(start, e) == ~Overlaps(start, start + SlotLen, e.from, e.to)
Cleared ==
    /\ \A c \in Chats : offer[c].seen \subseteq Ids(calendar)
    /\ \A c \in Chats : offer[c].source = "google" =>
        \A s \in offer[c].slots, e \in Sent : e.id \in offer[c].seen => Free(s, e)
    /\ \A f \in Sent : f.cleared \subseteq Ids(calendar)
    /\ \A e, f \in Sent : e.id \in f.cleared => ~Overlaps(e.from, e.to, f.from, f.to)
-----------------------------------------------------------------------------
(* Candidates, in the order in which they are found *)

Places == [day : Int, window : Nat, start : Int]

LEMMA WindowTypes ==
    ASSUME NEW day \in Int
    PROVE  /\ Hours[day % 7] \in Seq(Ranges) /\ IsFiniteSet(Windows(day))
           /\ \A i \in Windows(day) : i \in Nat /\ Hours[day % 7][i] \in Ranges
<1>1. day % 7 \in Weekdays BY DEF Weekdays
<1>2. Hours[day % 7] \in Seq(Ranges) BY <1>1, SlotsAssumption
<1>3. /\ Len(Hours[day % 7]) \in Nat /\ DOMAIN Hours[day % 7] = 1..Len(Hours[day % 7])
      /\ \A i \in 1..Len(Hours[day % 7]) : Hours[day % 7][i] \in Ranges
    BY <1>2
<1>4. Windows(day) \subseteq 1..Len(Hours[day % 7]) BY <1>3 DEF Windows
<1>5. IsFiniteSet(1..Len(Hours[day % 7])) BY <1>3, FS_Interval
<1> QED BY <1>2, <1>3, <1>4, <1>5, FS_Subset

\* A start lies in its window, and its slot does too.
LEMMA OpenStarts ==
    ASSUME NEW day \in Int, NEW c \in OpenOn(day)
    PROVE  /\ c \in Places /\ c.day = day /\ c.window \in Windows(day)
           /\ day * DayLen + Hours[day % 7][c.window].from <= c.start
           /\ c.start + SlotLen <= day * DayLen + Hours[day % 7][c.window].to
           /\ Hours[day % 7][c.window] \in Ranges
<1>1. PICK i \in Windows(day) : \E s \in Cursors(Hours[day % 7][i]) :
        c = [day |-> day, window |-> i, start |-> day * DayLen + s]
    BY DEF OpenOn
<1>2. PICK s \in Cursors(Hours[day % 7][i]) :
        c = [day |-> day, window |-> i, start |-> day * DayLen + s]
    BY <1>1
<1>3. i \in Nat /\ Hours[day % 7][i] \in Ranges BY WindowTypes
<1>4. DayLen \in Nat /\ SlotLen \in Nat BY SlotsAssumption
<1>5. day * DayLen \in Int BY <1>4
<1>6. /\ s \in Int /\ Hours[day % 7][i].from <= s /\ s <= Hours[day % 7][i].to - SlotLen
      /\ Hours[day % 7][i].from \in Nat /\ Hours[day % 7][i].to \in Nat
    BY <1>3, <1>4 DEF Cursors, Ranges
<1>7. c.day = day /\ c.window = i /\ c.start = day * DayLen + s BY <1>2
<1>8. c \in Places BY <1>2, <1>3, <1>5, <1>6 DEF Places
<1> QED BY <1>3, <1>4, <1>5, <1>6, <1>7, <1>8

LEMMA OpenFinite ==
    ASSUME NEW day \in Int PROVE IsFiniteSet(OpenOn(day))
<1> DEFINE Of(i) == {[day |-> day, window |-> i, start |-> day * DayLen + s] : s \in Cursors(Hours[day % 7][i])}
           W == {Of(i) : i \in Windows(day)}
<1>1. ASSUME NEW i \in Windows(day) PROVE IsFiniteSet(Of(i))
    <2>0. SlotLen \in Nat BY SlotsAssumption
    <2>1. Hours[day % 7][i] \in Ranges BY WindowTypes
    <2>2. Hours[day % 7][i].from \in Int /\ Hours[day % 7][i].to - SlotLen \in Int
        BY <2>0, <2>1 DEF Ranges
    <2>3. Cursors(Hours[day % 7][i]) \subseteq Hours[day % 7][i].from..(Hours[day % 7][i].to - SlotLen)
        BY DEF Cursors
    <2>4. IsFiniteSet(Cursors(Hours[day % 7][i]))
        BY <2>2, <2>3, FS_Interval, FS_Subset
    <2> DEFINE C == Cursors(Hours[day % 7][i])
               f == [s \in C |-> [day |-> day, window |-> i, start |-> day * DayLen + s]]
    <2>5. f \in Surjection(C, Of(i)) BY DEF Surjection
    <2> QED BY <2>4, <2>5, FS_Surjection
<1>2. IsFiniteSet(Windows(day)) BY WindowTypes
<1>3. IsFiniteSet(W)
    <2> DEFINE f == [i \in Windows(day) |-> Of(i)]
    <2> HIDE DEF Of
    <2>1. f \in Surjection(Windows(day), W) BY DEF Surjection
    <2> QED BY <2>1, <1>2, FS_Surjection
<1>4. \A T \in W : IsFiniteSet(T) BY <1>1
<1> HIDE DEF W
<1>5. IsFiniteSet(UNION W) BY <1>3, <1>4, FS_UNION
<1> QED BY <1>5 DEF OpenOn, W

LEMMA BeforeOrder ==
    /\ \A c \in Places : ~Before(c, c)
    /\ \A b, c, d \in Places : Before(b, c) /\ Before(c, d) => Before(b, d)
    /\ \A c, d \in Places : c # d => Before(c, d) \/ Before(d, c)
<1>1. \A c \in Places : c.day \in Int /\ c.window \in Int /\ c.start \in Int
    BY DEF Places
<1>2. \A c, d \in Places : c # d => c.day # d.day \/ c.window # d.window \/ c.start # d.start
    BY DEF Places
<1> QED BY <1>1, <1>2 DEF Before

Earlier(c, C) == {d \in C : Before(d, c)}
Rank(C) == [c \in C |-> Cardinality(Earlier(c, C))]

\* Of places in order, no two have the same number before them.
LEMMA RankInjective ==
    ASSUME NEW C, C \subseteq Places, IsFiniteSet(C)
    PROVE  /\ \A c \in C : Rank(C)[c] \in 0..(Cardinality(C) - 1)
           /\ \A c, d \in C : Rank(C)[c] = Rank(C)[d] => c = d
<1>1. ASSUME NEW c \in C
      PROVE  /\ IsFiniteSet(Earlier(c, C)) /\ Cardinality(Earlier(c, C)) \in Nat
             /\ Cardinality(Earlier(c, C)) <= Cardinality(C) - 1
    <2>1. Earlier(c, C) \subseteq C \ {c} BY BeforeOrder DEF Earlier
    <2>2. IsFiniteSet(C \ {c}) /\ Cardinality(C \ {c}) = Cardinality(C) - 1
        BY FS_RemoveElement
    <2> QED BY <2>1, <2>2, FS_Subset, FS_CardinalityType
<1>2. ASSUME NEW c \in C, NEW d \in C, Before(c, d)
      PROVE  Cardinality(Earlier(c, C)) # Cardinality(Earlier(d, C))
    <2>1. Earlier(c, C) \subseteq Earlier(d, C)
        BY <1>2, BeforeOrder DEF Earlier
    <2>2. c \in Earlier(d, C) /\ c \notin Earlier(c, C) BY <1>2, BeforeOrder DEF Earlier
    <2>3. Earlier(c, C) # Earlier(d, C) BY <2>2
    <2>4. IsFiniteSet(Earlier(d, C)) BY <1>1
    <2> QED BY <2>1, <2>3, <2>4, FS_Subset
<1>3. \A c \in C : Rank(C)[c] = Cardinality(Earlier(c, C)) BY DEF Rank
<1>4. Cardinality(C) \in Nat BY FS_CardinalityType
<1>5. \A c \in C : Rank(C)[c] \in 0..(Cardinality(C) - 1) BY <1>1, <1>3, <1>4
<1>6. ASSUME NEW c \in C, NEW d \in C, Rank(C)[c] = Rank(C)[d], c # d PROVE FALSE
    <2>1. Before(c, d) \/ Before(d, c) BY <1>6, BeforeOrder
    <2>2. Cardinality(Earlier(c, C)) = Cardinality(Earlier(d, C)) BY <1>3, <1>6
    <2> QED BY <2>1, <2>2, <1>2
<1> QED BY <1>5, <1>6

\* The first n of a set are at most n.
LEMMA FirstOfBound ==
    ASSUME NEW n \in Nat, NEW C, C \subseteq Places, IsFiniteSet(C)
    PROVE  /\ FirstOf(n, C) \subseteq C /\ IsFiniteSet(FirstOf(n, C))
           /\ Cardinality(FirstOf(n, C)) <= n
<1> DEFINE S == FirstOf(n, C)
           f == [c \in S |-> Rank(C)[c]]
<1>1. S \subseteq C BY DEF FirstOf
<1>2. IsFiniteSet(S) BY <1>1, FS_Subset
<1>3. \A c \in S : Rank(C)[c] \in 0..(n - 1)
    <2>1. \A c \in S : Rank(C)[c] < n BY <1>1 DEF FirstOf, Rank, Earlier
    <2>2. \A c \in S : Rank(C)[c] \in Nat BY <1>1, RankInjective, FS_CardinalityType
    <2> HIDE DEF S
    <2> QED BY <2>1, <2>2
<1>4. \A c, d \in S : f[c] = f[d] => c = d BY <1>1, RankInjective
<1>5. f \in [S -> 0..(n - 1)] BY <1>3
<1>6. f \in Injection(S, 0..(n - 1)) BY <1>4, <1>5 DEF Injection, IsInjective
<1>7. IsFiniteSet(0..(n - 1)) /\ Cardinality(0..(n - 1)) = n
    BY FS_Interval
<1> HIDE DEF f
<1>8. Cardinality(S) <= n BY <1>6, <1>7, FS_Injection
<1> QED BY <1>1, <1>2, <1>8

\* A set of places that is not empty has a first and a last.
LEMMA Extremes ==
    ASSUME NEW C, C \subseteq Places, IsFiniteSet(C), C # {}
    PROVE  /\ Earliest(C) \in C /\ \A d \in C \ {Earliest(C)} : Before(Earliest(C), d)
           /\ Latest(C) \in C /\ \A d \in C \ {Latest(C)} : Before(d, Latest(C))
<1> DEFINE n == Cardinality(C)
           r == Rank(C)
<1>1. n \in Nat /\ n # 0 BY FS_CardinalityType, FS_EmptySet
<1>2. IsFiniteSet(0..(n - 1)) /\ Cardinality(0..(n - 1)) = n BY <1>1, FS_Interval
<1>3. r \in [C -> 0..(n - 1)] BY RankInjective DEF Rank
<1>4. r \in Injection(C, 0..(n - 1)) BY <1>3, RankInjective DEF Injection, IsInjective
<1> HIDE DEF r
<1>5. r \in Surjection(C, 0..(n - 1)) BY <1>2, <1>4, FS_Injection
<1>6. \A k \in 0..(n - 1) : \E c \in C : r[c] = k BY <1>5 DEF Surjection
<1>7. \A c \in C : r[c] = Cardinality(Earlier(c, C)) /\ Earlier(c, C) \subseteq C \ {c}
    BY BeforeOrder DEF r, Rank, Earlier
<1>8. \E c \in C : \A d \in C \ {c} : Before(c, d)
    <2>1. PICK c \in C : r[c] = 0 BY <1>1, <1>6
    <2>2. IsFiniteSet(Earlier(c, C)) BY FS_Subset DEF Earlier
    <2>3. Earlier(c, C) = {} BY <1>7, <2>1, <2>2, FS_EmptySet
    <2> QED BY <2>3, BeforeOrder DEF Earlier
<1>9. \E c \in C : \A d \in C \ {c} : Before(d, c)
    <2>1. PICK c \in C : r[c] = n - 1 BY <1>1, <1>6
    <2>2. IsFiniteSet(C \ {c}) /\ Cardinality(C \ {c}) = n - 1 BY FS_RemoveElement
    <2>3. Cardinality(Earlier(c, C)) = Cardinality(C \ {c}) BY <1>7, <2>1, <2>2
    <2>4. Earlier(c, C) = C \ {c} BY <1>7, <2>2, <2>3, FS_Subset
    <2> QED BY <2>4 DEF Earlier
<1>10. Earliest(C) \in C /\ \A d \in C \ {Earliest(C)} : Before(Earliest(C), d)
    BY <1>8 DEF Earliest
<1>11. Latest(C) \in C /\ \A d \in C \ {Latest(C)} : Before(d, Latest(C))
    BY <1>9 DEF Latest
<1> QED BY <1>10, <1>11

\* What a search can offer: places of the open days ahead, not many, none in the past.
LEMMA CandidatesTyped ==
    ASSUME NEW t \in Nat
    PROVE  LET C == CandidateStarts(t) IN
           /\ C \subseteq Places /\ IsFiniteSet(C)
           /\ \A c \in C : c \in OpenOn(c.day) /\ c.day \in Int
<1> DEFINE today == t \div DayLen
           days == (today..(today + HorizonDays - 1)) \ Closed
           D == {OpenOn(d) : d \in days}
           U == {c \in UNION D : c.start >= t + Lead}
<1>1. DayLen \in Nat \ {0} /\ HorizonDays \in Nat /\ MaxSlots \in Nat BY SlotsAssumption
<1>2. today \in Int /\ today + HorizonDays - 1 \in Int BY <1>1
<1> HIDE DEF today
<1>3. days \subseteq Int /\ IsFiniteSet(days)
    BY <1>2, FS_Interval, FS_Subset
<1> HIDE DEF days
<1>4. IsFiniteSet(D) /\ \A T \in D : IsFiniteSet(T)
    <2> DEFINE f == [d \in days |-> OpenOn(d)]
    <2>1. f \in Surjection(days, D) BY DEF Surjection
    <2> QED BY <1>3, <2>1, FS_Surjection, OpenFinite
<1>5. \A c \in UNION D : c \in Places /\ c \in OpenOn(c.day) /\ c.day \in Int
    <2> SUFFICES ASSUME NEW d \in days, NEW c \in OpenOn(d)
                 PROVE  c \in Places /\ c \in OpenOn(c.day) /\ c.day \in Int
        OBVIOUS
    <2> QED BY <1>3, OpenStarts
<1> HIDE DEF D
<1>6. IsFiniteSet(UNION D) BY <1>4, FS_UNION
<1>7. U \subseteq UNION D /\ IsFiniteSet(U) BY <1>6, FS_Subset
<1>8. Overfetch \in Nat BY <1>1 DEF Overfetch
<1>9. CandidateStarts(t) = FirstOf(Overfetch, U) BY DEF CandidateStarts, D, days, today
<1> HIDE DEF U
<1> QED BY <1>5, <1>7, <1>8, <1>9, FirstOfBound

\* A page shows no more slots than it may.
LEMMA PageBound ==
    ASSUME NEW C, C \subseteq Places, IsFiniteSet(C)
    PROVE  LET slots == {c.start : c \in Page(C)} IN
           /\ slots \subseteq Int /\ IsFiniteSet(slots) /\ Cardinality(slots) <= MaxSlots
           /\ \A s \in slots : \E c \in C : c.start = s
<1> DEFINE P == Page(C)
           slots == {c.start : c \in P}
           f == [c \in P |-> c.start]
<1>1. MaxSlots \in Nat BY SlotsAssumption
<1>2. P \subseteq C /\ IsFiniteSet(P) /\ Cardinality(P) <= MaxSlots
    BY <1>1, FirstOfBound DEF Page
<1> HIDE DEF P
<1>3. f \in Surjection(P, slots) BY DEF Surjection
<1>4. slots \subseteq Int /\ \A s \in slots : \E c \in C : c.start = s BY <1>2 DEF Places
<1> HIDE DEF f, slots
<1>5. IsFiniteSet(slots) /\ Cardinality(slots) <= Cardinality(P) BY <1>2, <1>3, FS_Surjection
<1>6. Cardinality(slots) \in Nat /\ Cardinality(P) \in Nat BY <1>2, <1>5, FS_CardinalityType
<1>7. Cardinality(slots) <= MaxSlots BY <1>1, <1>2, <1>5, <1>6
<1> QED BY <1>4, <1>5, <1>7 DEF slots, P

\* A day starts when the days before it are over.
LEMMA DaysInRow ==
    ASSUME NEW a \in Int, NEW b \in Int, NEW n \in Nat, a < b
    PROVE  a * n + n <= b * n
<1> DEFINE k == b - a - 1
<1>1. k \in Nat OBVIOUS
<1>2. k * n \in Nat BY <1>1
<1>3. b * n = a * n + n + k * n
    <2>1. b = a + 1 + k OBVIOUS
    <2>2. (a + 1 + k) * n = a * n + n + k * n BY <1>1
    <2> QED BY <2>1, <2>2
<1>4. a * n \in Int /\ b * n \in Int OBVIOUS
<1> HIDE DEF k
<1> QED BY <1>2, <1>3, <1>4

\* Where the hours of a day are in order, candidates in order have ascending starts.
LEMMA StartsAscend ==
    ASSUME HoursInOrder, NEW c, NEW d, c.day \in Int, d.day \in Int,
           c \in OpenOn(c.day), d \in OpenOn(d.day), Before(c, d)
    PROVE  c.start <= d.start
<1>1. DayLen \in Nat /\ SlotLen \in Nat /\ SlotLen > 0 BY SlotsAssumption
<1> DEFINE rc == Hours[c.day % 7][c.window]
           rd == Hours[d.day % 7][d.window]
           mc == c.day * DayLen
           md == d.day * DayLen
<1>2. /\ rc \in Ranges /\ mc + rc.from <= c.start /\ c.start + SlotLen <= mc + rc.to
      /\ rd \in Ranges /\ md + rd.from <= d.start /\ d.start + SlotLen <= md + rd.to
      /\ c \in Places /\ d \in Places /\ c.window \in Windows(c.day) /\ d.window \in Windows(d.day)
    BY OpenStarts
<1>3. /\ rc.from \in Int /\ 0 <= rc.from /\ rc.to \in Int /\ rc.to <= DayLen
      /\ rd.from \in Int /\ 0 <= rd.from /\ rd.to \in Int
      /\ c.start \in Int /\ d.start \in Int /\ c.window \in Int /\ d.window \in Int
      /\ mc \in Int /\ md \in Int
    BY <1>1, <1>2 DEF Ranges, Places
<1>4. CASE c.day < d.day
    <2>1. mc + DayLen <= md BY <1>1, <1>4, DaysInRow
    <2> HIDE DEF rc, rd, mc, md
    <2> QED BY <1>1, <1>2, <1>3, <2>1
<1>5. CASE c.day = d.day /\ c.window < d.window
    <2>1. Hours[c.day % 7][c.window].to <= Hours[c.day % 7][d.window].from
        <3>1. c.day % 7 \in Weekdays BY DEF Weekdays
        <3>2. c.window \in Windows(c.day % 7) /\ d.window \in Windows(c.day % 7)
            BY <1>2, <1>5 DEF Windows
        <3> QED BY <1>5, <3>1, <3>2 DEF HoursInOrder
    <2>2. rc.to <= rd.from /\ mc = md BY <1>5, <2>1
    <2> HIDE DEF rc, rd, mc, md
    <2> QED BY <1>1, <1>2, <1>3, <2>2
<1>6. CASE c.start < d.start BY <1>3, <1>6
<1> QED BY <1>4, <1>5, <1>6 DEF Before

\* Then a slot that the search finds free collides with no event of the calendar, because
\* the period it asks about covers every candidate.
LEMMA SubtractedIsFree ==
    ASSUME HoursInOrder, NEW C, C \subseteq Places, IsFiniteSet(C),
           \A c \in C : c \in OpenOn(c.day),
           NEW events \in SUBSET Events,
           NEW c \in SubtractBusy(C, Busy(events, C)), NEW e \in events
    PROVE  Free(c.start, e)
<1>1. c \in C /\ c.start \in Int /\ c.day \in Int BY DEF SubtractBusy, Places
<1>2. e.from \in Int /\ e.to \in Int BY DEF Events
<1>3. SlotLen \in Nat /\ Buffer \in Nat BY SlotsAssumption
<1>4. /\ Earliest(C) \in C /\ (c = Earliest(C) \/ Before(Earliest(C), c))
      /\ Latest(C) \in C /\ (c = Latest(C) \/ Before(c, Latest(C)))
    BY <1>1, Extremes
<1>5. /\ Earliest(C).start \in Int /\ Earliest(C).day \in Int
      /\ Latest(C).start \in Int /\ Latest(C).day \in Int
    BY <1>4 DEF Places
<1>6. Earliest(C).start <= c.start /\ c.start <= Latest(C).start
    BY <1>1, <1>4, <1>5, StartsAscend
<1> SUFFICES ASSUME Overlaps(c.start, c.start + SlotLen, e.from, e.to) PROVE FALSE
    BY DEF Free
<1>7. e \in Busy(events, C) BY <1>1, <1>2, <1>3, <1>5, <1>6 DEF Busy, Overlaps
<1>8. ~Overlaps(c.start - Buffer, c.start + SlotLen + Buffer, e.from, e.to)
    BY <1>7 DEF SubtractBusy
<1> QED BY <1>1, <1>2, <1>3, <1>8 DEF Overlaps

-----------------------------------------------------------------------------
(* What the steps do, conversation by conversation *)

IsMap(f) == f = [c \in Chats |-> f[c]]

Others(c) ==
    /\ IsMap(pc') /\ IsMap(mem') /\ IsMap(calls') /\ IsMap(offer')
    /\ \A d \in Chats \ {c} :
        pc'[d] = pc[d] /\ mem'[d] = mem[d] /\ calls'[d] = calls[d] /\ offer'[d] = offer[d]

LEMMA OldMaps ==
    ASSUME Typed PROVE IsMap(pc) /\ IsMap(mem) /\ IsMap(calls) /\ IsMap(offer)
BY DEF Typed, TypeOK, IsMap

LEMMA CallIdType ==
    ASSUME Typed, NEW c \in Chats, calls[c] >= 1
    PROVE  Call(c) \in CallIds /\ Call(c)[1] = c /\ Call(c)[2] = calls[c]
BY ToolsAssumption DEF Call, CallIds, Typed, TypeOK

LEMMA CallIdParts ==
    \A id \in CallIds : id[1] \in Chats /\ id[2] \in 1..MaxCalls /\ id = <<id[1], id[2]>>
BY DEF CallIds

\* A tool is called: the call is counted, and has a number of its own.
LEMMA BeginEffect ==
    ASSUME Typed, NEW c \in Chats, NEW tool, Begin(c, tool)
    PROVE  /\ calls' \in [Chats -> 0..MaxCalls] /\ calls'[c] = calls[c] + 1
           /\ calls[c] \in Nat /\ calls'[c] \in 1..MaxCalls
           /\ \A d \in Chats \ {c} : calls'[d] = calls[d]
           /\ IsMap(calls') /\ tool \in Tool
<1>1. PICK n \in 0..MaxCalls : script[c] \in [1..n -> Tool]
    <2>1. script \in [Chats -> UNION {[1..n -> Tool] : n \in 0..MaxCalls}]
        BY ToolsAssumption DEF Typed, TypeOK
    <2>2. script[c] \in UNION {[1..n -> Tool] : n \in 0..MaxCalls} BY <2>1
    <2> QED BY <2>2
<1>2. n \in Nat /\ Len(script[c]) = n BY <1>1, ToolsAssumption
<1>3. calls[c] \in Nat /\ MaxCalls \in Nat /\ calls[c] < n BY <1>2, ToolsAssumption DEF Typed, TypeOK, Begin
<1>4. tool \in Tool BY <1>1, <1>2, <1>3 DEF Begin
<1>5. IsMap(calls') BY DEF Begin, Typed, TypeOK, IsMap
<1> QED BY <1>1, <1>2, <1>3, <1>4, <1>5 DEF Begin, Typed, TypeOK

LEMMA GotoEffect ==
    ASSUME Typed, NEW c \in Chats, NEW from, NEW to, Goto(c, from, to)
    PROVE  /\ pc[c] = from /\ pc'[c] = to
           /\ \A d \in Chats \ {c} : pc'[d] = pc[d]
           /\ IsMap(pc')
BY DEF Goto, Typed, TypeOK, IsMap

LEMMA ReturnEffect ==
    ASSUME Typed, NEW c \in Chats, NEW results, Return(c, results)
    PROVE  /\ pc'[c] = "idle" /\ mem'[c] = Fresh /\ told' = told \cup results
           /\ \A d \in Chats \ {c} : pc'[d] = pc[d] /\ mem'[d] = mem[d]
           /\ IsMap(pc') /\ IsMap(mem')
BY DEF Return, Typed, TypeOK, IsMap

World == <<script, now, connected>>
Counts(c) == calls'[c] = calls[c] + 1 /\ calls[c] \in Nat /\ calls'[c] \in 1..MaxCalls

\* A search that finds no opening hours at all.
Finds(c) ==
    /\ pc[c] = "idle" /\ pc'[c] = "idle" /\ mem'[c] = mem[c] /\ Counts(c) /\ Others(c)
    /\ offer'[c] = Offer("hours", {}, {})
    /\ UNCHANGED <<World, calendar, flight, rows, deeds, told, broken>>

\* A call that gets under way.
Begins(c) ==
    /\ pc[c] = "idle" /\ Counts(c) /\ Others(c) /\ offer'[c] = offer[c]
    /\ mem'[c] \in Mems /\ mem'[c].source = "local"
    /\ \/ pc'[c] = "search_creds" /\ mem'[c].tool = "search" /\ CandidateStarts(mem'[c].at) # {}
       \/ pc'[c] = "book_creds" /\ mem'[c].tool = "book" /\ mem'[c].start \in Starts
       \/ pc'[c] = "record" /\ mem'[c].tool \in {"lead", "escalate"}
    /\ UNCHANGED <<World, calendar, flight, rows, deeds, told, broken>>

\* Arguments that the tool refuses.
Rejects(c) ==
    /\ pc[c] = "idle" /\ pc'[c] = "idle" /\ mem'[c] = mem[c] /\ Counts(c) /\ Others(c)
    /\ offer'[c] = offer[c]
    /\ \E t : told' = told \cup {t} /\ t.id = <<c, calls'[c]>> /\ t.ok = FALSE
    /\ UNCHANGED <<World, calendar, flight, rows, deeds, broken>>

\* The locals as the tools fill them in.
AtTime(m, t) == [m EXCEPT !.at = t]
ForTool(m, tool) == [m EXCEPT !.tool = tool]
ForStart(m, s) == [m EXCEPT !.start = s]
FromSource(m, source) == [m EXCEPT !.source = source]

LEMMA MemUpdates ==
    /\ Fresh \in Mems /\ Fresh.source = "local" /\ Fresh.tool = "search"
    /\ \A m \in Mems, t \in Clock :
        /\ AtTime(m, t) \in Mems
        /\ AtTime(m, t).at = t /\ AtTime(m, t).tool = m.tool
        /\ AtTime(m, t).source = m.source /\ AtTime(m, t).start = m.start
    /\ \A m \in Mems, tool \in Tool :
        /\ ForTool(m, tool) \in Mems
        /\ ForTool(m, tool).tool = tool /\ ForTool(m, tool).source = m.source
    /\ \A m \in Mems, s \in Starts :
        /\ ForStart(m, s) \in Mems
        /\ ForStart(m, s).start = s /\ ForStart(m, s).tool = m.tool
        /\ ForStart(m, s).source = m.source
    /\ \A m \in Mems, source \in {"local", "google", "local_after_calendar_error"} :
        /\ FromSource(m, source) \in Mems
        /\ FromSource(m, source).source = source /\ FromSource(m, source).tool = m.tool
        /\ FromSource(m, source).start = m.start
<1>1. Fresh \in Mems /\ Fresh.source = "local" /\ Fresh.tool = "search"
    BY ToolsAssumption DEF Fresh, Mems, Tool
<1>2. \A m \in Mems, t \in Clock :
        /\ AtTime(m, t) \in Mems
        /\ AtTime(m, t).at = t /\ AtTime(m, t).tool = m.tool
        /\ AtTime(m, t).source = m.source /\ AtTime(m, t).start = m.start
    BY DEF AtTime, Mems
<1>3. \A m \in Mems, tool \in Tool :
        /\ ForTool(m, tool) \in Mems
        /\ ForTool(m, tool).tool = tool /\ ForTool(m, tool).source = m.source
    BY DEF ForTool, Mems
<1>4. \A m \in Mems, s \in Starts :
        /\ ForStart(m, s) \in Mems
        /\ ForStart(m, s).start = s /\ ForStart(m, s).tool = m.tool
        /\ ForStart(m, s).source = m.source
    BY DEF ForStart, Mems
<1>5. \A m \in Mems, source \in {"local", "google", "local_after_calendar_error"} :
        /\ FromSource(m, source) \in Mems
        /\ FromSource(m, source).source = source /\ FromSource(m, source).tool = m.tool
        /\ FromSource(m, source).start = m.start
    BY DEF FromSource, Mems
<1> QED BY <1>1, <1>2, <1>3, <1>4, <1>5

LEMMA SearchEffect ==
    ASSUME Typed, Phased, NEW c \in Chats, Search(c) PROVE Finds(c) \/ Begins(c)
<1> USE DEF google, tables, World
<1>1. Counts(c) /\ IsMap(calls') /\ \A d \in Chats \ {c} : calls'[d] = calls[d]
    BY BeginEffect DEF Search, Counts
<1>2. CASE CandidateStarts(now) = {}
    <2>1. offer'[c] = Offer("hours", {}, {}) /\ IsMap(offer') /\ \A d \in Chats \ {c} : offer'[d] = offer[d]
        BY <1>2 DEF Search, Show, Typed, IsMap
    <2> QED BY OldMaps, <1>1, <1>2, <2>1 DEF Search, Finds, Others
<1>3. CASE CandidateStarts(now) # {}
    <2>1. pc[c] = "idle" /\ pc'[c] = "search_creds" /\ IsMap(pc') /\ \A d \in Chats \ {c} : pc'[d] = pc[d]
        BY <1>3, GotoEffect DEF Search
    <2>2. mem \in [Chats -> Mems] /\ now \in Clock BY DEF Typed, TypeOK, Mems
    <2>3. mem' = [mem EXCEPT ![c] = AtTime(mem[c], now)]
        BY <1>3 DEF Search, AtTime
    <2>4. mem'[c] = AtTime(mem[c], now) /\ IsMap(mem') /\ \A d \in Chats \ {c} : mem'[d] = mem[d]
        BY <2>2, <2>3 DEF IsMap
    <2>5. mem[c] = Fresh BY <2>1 DEF Phased
    <2>6. mem'[c] \in Mems /\ mem'[c].tool = "search" /\ mem'[c].source = "local" /\ mem'[c].at = now
        BY <2>2, <2>4, <2>5, MemUpdates
    <2>7. UNCHANGED <<World, calendar, flight, rows, deeds, told, broken, offer>>
        BY <1>3 DEF Search
    <2> QED BY OldMaps, <1>1, <1>3, <2>1, <2>4, <2>6, <2>7 DEF Begins, Others
<1> QED BY <1>2, <1>3

LEMMA RejectEffect ==
    ASSUME Typed, NEW c \in Chats, RejectLead(c) \/ \E s \in Starts : RejectStart(c, s)
    PROVE  Rejects(c)
<1> USE DEF google, tables, World
<1>1. Counts(c) /\ IsMap(calls') /\ \A d \in Chats \ {c} : calls'[d] = calls[d]
    BY BeginEffect DEF RejectLead, RejectStart, Counts
<1>2. CASE RejectLead(c)
    <2> DEFINE t == [id |-> <<c, calls'[c]>>, tool |-> "lead", ok |-> FALSE,
                     source |-> "local", start |-> 0]
    <2>1. told' = told \cup {t} BY <1>2 DEF RejectLead
    <2>2. t.id = <<c, calls'[c]>> /\ t.ok = FALSE OBVIOUS
    <2>3. /\ pc[c] = "idle"
          /\ UNCHANGED <<World, calendar, flight, rows, deeds, broken, pc, mem, offer>>
        BY <1>2 DEF RejectLead
    <2> HIDE DEF t
    <2> QED BY OldMaps, <1>1, <2>1, <2>2, <2>3 DEF Rejects, Others
<1>3. ASSUME NEW s \in Starts, RejectStart(c, s) PROVE Rejects(c)
    <2> DEFINE t == [id |-> <<c, calls'[c]>>, tool |-> "book", ok |-> FALSE,
                     source |-> "local", start |-> s]
    <2>1. told' = told \cup {t} BY <1>3 DEF RejectStart
    <2>2. t.id = <<c, calls'[c]>> /\ t.ok = FALSE OBVIOUS
    <2>3. /\ pc[c] = "idle"
          /\ UNCHANGED <<World, calendar, flight, rows, deeds, broken, pc, mem, offer>>
        BY <1>3 DEF RejectStart
    <2> HIDE DEF t
    <2> QED BY OldMaps, <1>1, <2>1, <2>2, <2>3 DEF Rejects, Others
<1> QED BY <1>2, <1>3

LEMMA BookEffect ==
    ASSUME Typed, Phased, NEW c \in Chats, NEW s \in Starts, Book(c, s) PROVE Begins(c)
<1> USE DEF google, tables, World
<1>1. Counts(c) /\ IsMap(calls') /\ \A d \in Chats \ {c} : calls'[d] = calls[d]
    BY BeginEffect DEF Book, Counts
<1>2. pc[c] = "idle" /\ pc'[c] = "book_creds" /\ IsMap(pc') /\ \A d \in Chats \ {c} : pc'[d] = pc[d]
    BY GotoEffect DEF Book
<1>3. mem \in [Chats -> Mems] BY DEF Typed, TypeOK, Mems
<1>4. mem' = [mem EXCEPT ![c] = ForStart(ForTool(mem[c], "book"), s)]
    BY <1>3 DEF Book, ForStart, ForTool
<1>5. /\ mem'[c] = ForStart(ForTool(mem[c], "book"), s)
      /\ IsMap(mem') /\ \A d \in Chats \ {c} : mem'[d] = mem[d]
    BY <1>3, <1>4 DEF IsMap
<1>6. mem[c] = Fresh BY <1>2 DEF Phased
<1>7. "book" \in Tool BY DEF Tool
<1>8. ForTool(mem[c], "book") \in Mems /\ ForTool(mem[c], "book").tool = "book"
      /\ ForTool(mem[c], "book").source = "local"
    BY <1>3, <1>6, <1>7, MemUpdates
<1>9. /\ mem'[c] \in Mems /\ mem'[c].tool = "book" /\ mem'[c].start \in Starts /\ mem'[c].source = "local"
    BY <1>5, <1>8, MemUpdates
<1>10. UNCHANGED <<World, calendar, flight, rows, deeds, told, broken, offer>>
    BY DEF Book
<1> QED BY OldMaps, <1>1, <1>2, <1>5, <1>9, <1>10 DEF Begins, Others

LEMMA NoticeEffect ==
    ASSUME Typed, Phased, NEW c \in Chats, NEW tool \in {"lead", "escalate"}, StartNotice(c, tool)
    PROVE  Begins(c)
<1> USE DEF google, tables, World
<1>1. Counts(c) /\ tool \in Tool /\ IsMap(calls') /\ \A d \in Chats \ {c} : calls'[d] = calls[d]
    BY BeginEffect DEF StartNotice, Counts
<1>2. pc[c] = "idle" /\ pc'[c] = "record" /\ IsMap(pc') /\ \A d \in Chats \ {c} : pc'[d] = pc[d]
    BY GotoEffect DEF StartNotice
<1>3. mem \in [Chats -> Mems] BY DEF Typed, TypeOK, Mems
<1>4. mem' = [mem EXCEPT ![c] = ForTool(mem[c], tool)]
    BY <1>3 DEF StartNotice, ForTool
<1>5. mem'[c] = ForTool(mem[c], tool) /\ IsMap(mem') /\ \A d \in Chats \ {c} : mem'[d] = mem[d]
    BY <1>3, <1>4 DEF IsMap
<1>6. mem[c] = Fresh BY <1>2 DEF Phased
<1>7. mem'[c] \in Mems /\ mem'[c].tool = tool /\ mem'[c].source = "local"
    BY <1>1, <1>3, <1>5, <1>6, MemUpdates
<1>8. UNCHANGED <<World, calendar, flight, rows, deeds, told, broken, offer>>
    BY DEF StartNotice
<1> QED BY OldMaps, <1>1, <1>2, <1>5, <1>7, <1>8 DEF Begins, Others

\* Nothing but the call's place changes.
Passes(c) ==
    /\ \/ pc[c] = "search_creds" /\ pc'[c] = "freebusy"
       \/ pc[c] = "book_creds" /\ pc'[c] = "row"
       \/ pc[c] = "record" /\ pc'[c] = "email" /\ mem[c].tool = "escalate"
    /\ mem'[c] = mem[c] /\ calls'[c] = calls[c] /\ offer'[c] = offer[c] /\ Others(c)
    /\ UNCHANGED <<World, calendar, flight, rows, deeds, told, broken>>

Sends(c) ==
    /\ pc[c] = "book_creds" /\ pc'[c] = "inserting"
    /\ mem'[c] = mem[c] /\ calls'[c] = calls[c] /\ offer'[c] = offer[c] /\ Others(c)
    /\ flight' = flight \cup {NewEvent(c)}
    /\ UNCHANGED <<World, calendar, rows, deeds, told, broken>>

\* The insert is answered, or given up.
Hears(c) ==
    /\ pc[c] = "inserting" /\ pc'[c] = "row"
    /\ calls'[c] = calls[c] /\ offer'[c] = offer[c] /\ Others(c)
    /\ mem'[c] \in Mems /\ mem'[c].tool = mem[c].tool /\ mem'[c].start = mem[c].start
    /\ \/ mem'[c].source = "google" /\ Created(c) /\ broken' = broken
       \/ mem'[c].source = "local_after_calendar_error" /\ broken' = broken \cup {Call(c)}
    /\ UNCHANGED <<World, calendar, flight, rows, deeds, told>>

Commits(c) ==
    /\ pc[c] = "row" /\ pc'[c] = "plan"
    /\ mem'[c] = mem[c] /\ calls'[c] = calls[c] /\ offer'[c] = offer[c] /\ Others(c)
    /\ rows' = rows \cup {[id |-> Call(c), start |-> mem[c].start, ref |-> Reference(c)]}
    /\ UNCHANGED <<World, calendar, flight, deeds, told, broken>>

Adds(c, what) == deeds' = deeds \cup (IF what \in {"record"} \cup Notices THEN {<<Call(c), what>>} ELSE {})

Records(c) ==
    /\ \/ pc[c] = "record" /\ pc'[c] = "email" /\ Adds(c, "record")
       \/ pc[c] = "email" /\ pc'[c] = "webhook" /\ Adds(c, "email")
    /\ mem'[c] = mem[c] /\ calls'[c] = calls[c] /\ offer'[c] = offer[c] /\ Others(c)
    /\ UNCHANGED <<World, calendar, flight, rows, told, broken>>

\* A call ends.
Ends(c) == pc[c] # "idle" /\ pc'[c] = "idle" /\ mem'[c] = Fresh /\ calls'[c] = calls[c] /\ Others(c)

Shows(c) ==
    /\ Ends(c) /\ pc[c] \in {"search_creds", "freebusy"}
    /\ \/ offer'[c] = Offer("hours", Candidates(c), {})
       \/ /\ CanAsk(Candidates(c))
          /\ offer'[c] = Offer("google", SubtractBusy(Candidates(c), Busy(calendar, Candidates(c))), calendar)
    /\ UNCHANGED <<World, calendar, flight, rows, deeds, told, broken>>

Confirms(c) ==
    /\ Ends(c) /\ pc[c] = "plan" /\ offer'[c] = offer[c]
    /\ told' = told \cup {Result(c, TRUE)}
    /\ UNCHANGED <<World, calendar, flight, rows, deeds, broken>>

Notifies(c) ==
    /\ Ends(c) /\ pc[c] = "webhook" /\ offer'[c] = offer[c]
    /\ Adds(c, "webhook")
    /\ told' = told \cup {Result(c, TRUE)}
    /\ UNCHANGED <<World, calendar, flight, rows, broken>>

Fails(c) ==
    /\ Ends(c) /\ offer'[c] = offer[c]
    /\ broken' = broken \cup {Call(c)}
    /\ \/ told' = told
       \/ pc[c] # "plan" /\ told' = told \cup {Result(c, FALSE)}
    /\ UNCHANGED <<World, calendar, flight, rows, deeds>>

\* The steps of the world, and no step at all.
Outside ==
    /\ calendar \subseteq calendar' /\ Sent' \subseteq Sent \cup StaffEvents
    /\ now' \in Clock /\ connected' \in BOOLEAN
    /\ UNCHANGED <<script, rows, deeds, calls, pc, mem, offer, told, broken>>

LEMMA PassEffect ==
    ASSUME Typed, NEW c \in Chats, AskCalendar(c) \/ NoCalendar(c) \/ SkipRecord(c)
    PROVE  Passes(c)
<1> USE DEF google, tables, World
<1>1. CASE AskCalendar(c) BY OldMaps, <1>1, GotoEffect DEF AskCalendar, Passes, Others
<1>2. CASE NoCalendar(c) BY OldMaps, <1>2, GotoEffect DEF NoCalendar, Passes, Others
<1>3. CASE SkipRecord(c) BY OldMaps, <1>3, GotoEffect DEF SkipRecord, Passes, Others
<1> QED BY <1>1, <1>2, <1>3

LEMMA SendEffect ==
    ASSUME Typed, NEW c \in Chats, SendInsert(c) PROVE Sends(c)
BY OldMaps, GotoEffect DEF SendInsert, Sends, Others, tables, World

LEMMA HearEffect ==
    ASSUME Typed, NEW c \in Chats, Inserted(c) \/ InsertFails(c) PROVE Hears(c)
<1> USE DEF google, tables, World
<1>1. mem \in [Chats -> Mems] BY DEF Typed, TypeOK, Mems
<1>2. CASE Inserted(c)
    <2>1. mem' = [mem EXCEPT ![c] = FromSource(mem[c], "google")] BY <1>2 DEF Inserted, FromSource
    <2>2. mem'[c] = FromSource(mem[c], "google") /\ IsMap(mem') /\ \A d \in Chats \ {c} : mem'[d] = mem[d]
        BY <1>1, <2>1 DEF IsMap
    <2>3. mem'[c] \in Mems /\ mem'[c].tool = mem[c].tool /\ mem'[c].start = mem[c].start
          /\ mem'[c].source = "google"
        BY <1>1, <2>2, MemUpdates
    <2>4. pc[c] = "inserting" /\ pc'[c] = "row" /\ IsMap(pc') /\ \A d \in Chats \ {c} : pc'[d] = pc[d]
        BY <1>2, GotoEffect DEF Inserted
    <2>5. Created(c) /\ UNCHANGED <<World, calendar, flight, rows, deeds, told, calls, offer, broken>>
        BY <1>2 DEF Inserted
    <2> QED BY OldMaps, <2>2, <2>3, <2>4, <2>5 DEF Hears, Others
<1>3. CASE InsertFails(c)
    <2> DEFINE failed == "local_after_calendar_error"
    <2>1. mem' = [mem EXCEPT ![c] = FromSource(mem[c], failed)] BY <1>3 DEF InsertFails, FromSource
    <2>2. mem'[c] = FromSource(mem[c], failed) /\ IsMap(mem') /\ \A d \in Chats \ {c} : mem'[d] = mem[d]
        BY <1>1, <2>1 DEF IsMap
    <2>3. mem'[c] \in Mems /\ mem'[c].tool = mem[c].tool /\ mem'[c].start = mem[c].start
          /\ mem'[c].source = failed
        BY <1>1, <2>2, MemUpdates
    <2>4. pc[c] = "inserting" /\ pc'[c] = "row" /\ IsMap(pc') /\ \A d \in Chats \ {c} : pc'[d] = pc[d]
        BY <1>3, GotoEffect DEF InsertFails
    <2>5. /\ UNCHANGED <<World, calendar, flight, rows, deeds, told, calls, offer>>
          /\ broken' = broken \cup {Call(c)}
        BY <1>3 DEF InsertFails
    <2> QED BY OldMaps, <2>2, <2>3, <2>4, <2>5 DEF Hears, Others
<1> QED BY <1>2, <1>3

LEMMA CommitEffect ==
    ASSUME Typed, NEW c \in Chats, CommitRow(c) PROVE Commits(c)
BY OldMaps, GotoEffect DEF CommitRow, Commits, Others, google, World

LEMMA RecordEffect ==
    ASSUME Typed, NEW c \in Chats, Record(c) \/ QueueEmail(c) PROVE Records(c)
<1> USE DEF google, World
<1>1. CASE Record(c) BY OldMaps, <1>1, GotoEffect DEF Record, Did, Adds, Records, Others
<1>2. CASE QueueEmail(c)
    <2>1. Adds(c, "email") BY <1>2 DEF QueueEmail, Did, Adds
    <2> QED BY OldMaps, <1>2, <2>1, GotoEffect DEF QueueEmail, Records, Others
<1> QED BY <1>1, <1>2

LEMMA ShowEffect ==
    ASSUME Typed, NEW c \in Chats, Degrade(c) \/ FreeBusy(c) PROVE Shows(c)
<1> USE DEF google, tables, World
<1>1. /\ pc'[c] = "idle" /\ mem'[c] = Fresh /\ told' = told
      /\ IsMap(pc') /\ IsMap(mem') /\ \A d \in Chats \ {c} : pc'[d] = pc[d] /\ mem'[d] = mem[d]
    BY ReturnEffect DEF Degrade, FreeBusy
<1>2. CASE Degrade(c)
    <2>1. /\ offer'[c] = Offer("hours", Candidates(c), {})
          /\ IsMap(offer') /\ \A d \in Chats \ {c} : offer'[d] = offer[d]
        BY <1>2 DEF Degrade, Show, Typed, IsMap
    <2> QED BY OldMaps, <1>1, <1>2, <2>1 DEF Degrade, Shows, Ends, Others
<1>3. CASE FreeBusy(c)
    <2>1. /\ offer'[c] = Offer("google", SubtractBusy(Candidates(c), Busy(calendar, Candidates(c))), calendar)
          /\ IsMap(offer') /\ \A d \in Chats \ {c} : offer'[d] = offer[d]
        BY <1>3 DEF FreeBusy, Show, Typed, IsMap
    <2> QED BY OldMaps, <1>1, <1>3, <2>1 DEF FreeBusy, Shows, Ends, Others
<1> QED BY <1>2, <1>3

LEMMA EndEffect ==
    ASSUME Typed, NEW c \in Chats
    PROVE  /\ Confirm(c) => Confirms(c)
           /\ QueueWebhook(c) => Notifies(c)
           /\ Raise(c) \/ Crash(c) => Fails(c)
<1> USE DEF google, tables, World
<1>1. Confirm(c) => Confirms(c)
    BY OldMaps, ReturnEffect DEF Confirm, AfterPlanning, Confirms, Ends, Others
<1>2. QueueWebhook(c) => Notifies(c)
    <2> SUFFICES ASSUME QueueWebhook(c) PROVE Notifies(c) OBVIOUS
    <2>1. Adds(c, "webhook") BY DEF QueueWebhook, Did, Adds
    <2> QED BY OldMaps, <2>1, ReturnEffect DEF QueueWebhook, Notifies, Ends, Others
<1>3. Raise(c) => Fails(c)
    <2> SUFFICES ASSUME Raise(c) PROVE Fails(c) OBVIOUS
    <2> DEFINE results == IF mem[c].tool = "search" THEN {} ELSE {Result(c, FALSE)}
    <2>1. /\ pc'[c] = "idle" /\ mem'[c] = Fresh /\ told' = told \cup results
          /\ IsMap(pc') /\ IsMap(mem') /\ \A d \in Chats \ {c} : pc'[d] = pc[d] /\ mem'[d] = mem[d]
        BY ReturnEffect DEF Raise
    <2>2. told' = told \/ told' = told \cup {Result(c, FALSE)} BY <2>1
    <2> QED BY OldMaps, <2>1, <2>2 DEF Raise, Fails, Ends, Others
<1>4. Crash(c) => Fails(c)
    <2> SUFFICES ASSUME Crash(c) PROVE Fails(c) OBVIOUS
    <2>1. /\ pc'[c] = "idle" /\ mem'[c] = Fresh /\ told' = told
          /\ IsMap(pc') /\ IsMap(mem') /\ \A d \in Chats \ {c} : pc'[d] = pc[d] /\ mem'[d] = mem[d]
        BY ReturnEffect DEF Crash
    <2> QED BY OldMaps, <2>1 DEF Crash, Fails, Ends, Others
<1> QED BY <1>1, <1>2, <1>3, <1>4

Steps(c) ==
    \/ Finds(c) \/ Begins(c) \/ Rejects(c) \/ Passes(c) \/ Sends(c) \/ Hears(c) \/ Commits(c)
    \/ Records(c) \/ Shows(c) \/ Confirms(c) \/ Notifies(c) \/ Fails(c)

\* Every step is one of these.
LEMMA StepCases ==
    ASSUME Typed, Phased, [Next]_vars
    PROVE  Outside \/ \E c \in Chats : Steps(c)
<1> USE DEF google, tables
<1>1. now \in Clock /\ connected \in BOOLEAN BY DEF Typed, TypeOK
<1>2. ASSUME NEW c \in Chats, Execute(c) PROVE Steps(c)
    <2>1. CASE \E s \in Starts : RejectStart(c, s) \/ Book(c, s)
        BY <2>1, RejectEffect, BookEffect DEF Steps
    <2>2. CASE \E tool \in {"lead", "escalate"} : StartNotice(c, tool)
        BY <2>2, NoticeEffect DEF Steps
    <2> QED BY <1>2, <2>1, <2>2, SearchEffect, RejectEffect, PassEffect, SendEffect, HearEffect,
               CommitEffect, RecordEffect, ShowEffect, EndEffect
            DEF Execute, Steps
<1>3. ASSUME NEW t \in Clock, Elapse(t) PROVE Outside
    BY <1>1, <1>3 DEF Elapse, Outside, Sent
<1>4. CASE ChangeCredential BY <1>1, <1>4 DEF ChangeCredential, Outside, Sent
<1>5. ASSUME NEW e \in StaffEvents, StaffBooks(e) PROVE Outside
    BY <1>1, <1>5 DEF StaffBooks, Outside, Sent
<1>6. ASSUME NEW e \in flight, Accept(e) \/ Refuse(e) PROVE Outside
    BY <1>1, <1>6 DEF Accept, Refuse, Outside, Sent
<1>7. CASE UNCHANGED vars BY <1>1, <1>7 DEF vars, Outside, Sent
<1> QED BY <1>2, <1>3, <1>4, <1>5, <1>6, <1>7 DEF Next

-----------------------------------------------------------------------------
(* The types *)

LEMMA OfferTyped ==
    ASSUME Typed, NEW source \in {"hours", "google"}, NEW C, C \subseteq Places, IsFiniteSet(C),
           NEW seen \in SUBSET Events
    PROVE  /\ Offer(source, C, seen) \in Offers
           /\ Cardinality(Offer(source, C, seen).slots) <= MaxSlots
           /\ Offer(source, C, seen).source = source
           /\ Offer(source, C, seen).seen = Ids(seen)
           /\ \A s \in Offer(source, C, seen).slots : \E p \in C : p.start = s
<1> DEFINE slots == {p.start : p \in Page(C)}
<1>1. /\ slots \subseteq Int /\ Cardinality(slots) <= MaxSlots
      /\ \A s \in slots : \E p \in C : p.start = s
    BY PageBound
<1>2. Ids(seen) \in SUBSET EventIds BY DEF Ids, Events
<1>3. Offer(source, C, seen) = [source |-> source, slots |-> slots, seen |-> Ids(seen)]
    BY DEF Offer, Ids
<1> HIDE DEF slots
<1> DEFINE o == Offer(source, C, seen)
<1>4. o.source = source /\ o.slots = slots /\ o.seen = Ids(seen) BY <1>3
<1>5. o \in Offers
    <2>1. source \in {"none", "hours", "google"} OBVIOUS
    <2>2. slots \in SUBSET Int BY <1>1
    <2> QED BY <1>2, <1>3, <2>1, <2>2 DEF Offers
<1> HIDE DEF o
<1>6. Cardinality(o.slots) <= MaxSlots /\ \A s \in o.slots : \E p \in C : p.start = s
    BY <1>1, <1>4
<1> QED BY <1>4, <1>5, <1>6 DEF o

LEMMA CandidatesOf ==
    ASSUME Typed, NEW c \in Chats
    PROVE  /\ Candidates(c) \subseteq Places /\ IsFiniteSet(Candidates(c))
           /\ \A p \in Candidates(c) : p \in OpenOn(p.day)
<1>1. mem[c].at \in Nat BY ToolsAssumption DEF Typed, TypeOK
<1> QED BY <1>1, CandidatesTyped DEF Candidates

\* Whatever a search shows is an offer of at most a page.
LEMMA ShownTyped ==
    ASSUME Typed, NEW c \in Chats, Finds(c) \/ Shows(c)
    PROVE  offer'[c] \in Offers /\ Cardinality(offer'[c].slots) <= MaxSlots
<1>1. CASE Finds(c)
    <2>1. {} \subseteq Places /\ IsFiniteSet({}) /\ {} \in SUBSET Events BY FS_EmptySet
    <2> QED BY <1>1, <2>1, OfferTyped DEF Finds
<1>2. CASE offer'[c] = Offer("hours", Candidates(c), {})
    BY <1>2, CandidatesOf, OfferTyped
<1>3. CASE offer'[c] = Offer("google", SubtractBusy(Candidates(c), Busy(calendar, Candidates(c))), calendar)
    <2> DEFINE C == SubtractBusy(Candidates(c), Busy(calendar, Candidates(c)))
    <2>1. C \subseteq Candidates(c) BY DEF SubtractBusy
    <2>2. C \subseteq Places /\ IsFiniteSet(C) BY <2>1, CandidatesOf, FS_Subset
    <2>3. calendar \in SUBSET Events BY DEF Typed, TypeOK
    <2> HIDE DEF C
    <2>4. Offer("google", C, calendar) \in Offers /\ Cardinality(Offer("google", C, calendar).slots) <= MaxSlots
        BY <2>2, <2>3, OfferTyped
    <2> QED BY <1>3, <2>4 DEF C
<1> QED BY <1>1, <1>2, <1>3 DEF Shows

LEMMA NewEventTyped ==
    ASSUME Typed, Phased, NEW c \in Chats, pc[c] = "book_creds"
    PROVE  /\ NewEvent(c) \in Events /\ NewEvent(c).id = Call(c)
           /\ NewEvent(c).from = mem[c].start /\ NewEvent(c).to = mem[c].start + SlotLen
           /\ NewEvent(c).cleared \subseteq EventIds
           /\ NewEvent(c).cleared # {} =>
                /\ offer[c].source = "google" /\ mem[c].start \in offer[c].slots
                /\ NewEvent(c).cleared = offer[c].seen
<1>1. Call(c) \in CallIds BY CallIdType DEF Phased
<1>2. mem[c].start \in Int /\ SlotLen \in Int
    <2>1. SlotLen \in Nat BY SlotsAssumption
    <2>2. mem[c].start \in Starts BY DEF Phased
    <2>3. Starts \subseteq Nat BY ToolsAssumption
    <2>4. mem[c].start \in Nat BY <2>2, <2>3
    <2> QED BY <2>1, <2>4
<1>3. offer[c].seen \subseteq EventIds BY DEF Typed, TypeOK
<1> DEFINE cleared == IF offer[c].source = "google" /\ mem[c].start \in offer[c].slots
                      THEN offer[c].seen ELSE {}
<1>4. cleared \in SUBSET EventIds BY <1>3
<1>5. NewEvent(c) = [id |-> Call(c), from |-> mem[c].start, to |-> mem[c].start + SlotLen, cleared |-> cleared]
    BY DEF NewEvent
<1>6. cleared # {} => /\ offer[c].source = "google" /\ mem[c].start \in offer[c].slots
                      /\ cleared = offer[c].seen
    OBVIOUS
<1> HIDE DEF cleared
<1>7. Call(c) \in EventIds /\ mem[c].start + SlotLen \in Int BY <1>1, <1>2 DEF EventIds
<1> QED BY <1>2, <1>4, <1>5, <1>6, <1>7 DEF Events

\* A row of the table, as its three fields.
Appointments == [id : CallIds, start : Starts, ref : CallIds \cup {Local}]
RowOf(c) == [id |-> Call(c), start |-> mem[c].start, ref |-> Reference(c)]

LEMMA RowTyped ==
    ASSUME Typed, Phased, NEW c \in Chats, pc[c] = "row"
    PROVE  /\ RowOf(c) \in Appointments /\ RowOf(c).id = Call(c)
           /\ RowOf(c).start = mem[c].start /\ RowOf(c).ref = Reference(c)
<1>1. Call(c) \in CallIds BY CallIdType DEF Phased
<1>2. mem[c].start \in Starts BY DEF Phased
<1>3. Reference(c) \in CallIds \cup {Local} BY <1>1 DEF Reference
<1> QED BY <1>1, <1>2, <1>3 DEF RowOf, Appointments

Points == {"idle", "search_creds", "freebusy", "book_creds", "inserting", "row",
           "plan", "record", "email", "webhook"}

LEMMA StepFrame ==
    ASSUME NEW c \in Chats, Steps(c)
    PROVE  /\ Others(c)
           /\ pc[c] = "idle" => Counts(c)
           /\ pc[c] # "idle" => calls'[c] = calls[c]
BY DEF Steps, Finds, Begins, Rejects, Passes, Sends, Hears, Commits, Records,
       Shows, Confirms, Notifies, Fails, Ends

LEMMA TypedStep ==
    ASSUME Typed, Phased, NEW c \in Chats, Steps(c)
    PROVE  Typed'
<1>1. UNCHANGED World BY DEF Steps, Finds, Begins, Rejects, Passes, Sends, Hears, Commits, Records,
                             Shows, Confirms, Notifies, Fails
<1>2. Others(c) BY StepFrame
<1>3. pc' \in [Chats -> Points]
    <2>1. pc'[c] \in Points
        <3>1. pc[c] \in Points BY DEF Typed, TypeOK, Points
        <3> QED BY <3>1 DEF Points, Steps, Finds, Begins, Rejects, Passes, Sends, Hears, Commits, Records,
                            Shows, Confirms, Notifies, Fails, Ends
    <2>2. \A d \in Chats \ {c} : pc'[d] \in Points BY <1>2 DEF Others, Typed, TypeOK, Points
    <2> QED BY <1>2, <2>1, <2>2 DEF Others, IsMap
<1>4. mem' \in [Chats -> Mems]
    <2>1. mem'[c] \in Mems
        <3>1. mem[c] \in Mems BY DEF Typed, TypeOK, Mems
        <3>2. Fresh \in Mems BY MemUpdates
        <3> QED BY <3>1, <3>2 DEF Steps, Finds, Begins, Rejects, Passes, Sends, Hears, Commits, Records,
                            Shows, Confirms, Notifies, Fails, Ends
    <2>2. \A d \in Chats \ {c} : mem'[d] \in Mems BY <1>2 DEF Others, Typed, TypeOK, Mems
    <2> QED BY <1>2, <2>1, <2>2 DEF Others, IsMap
<1>5. calls' \in [Chats -> 0..MaxCalls]
    <2>1. calls'[c] \in 0..MaxCalls
        <3>1. calls[c] \in 0..MaxCalls BY DEF Typed, TypeOK
        <3>2. 1..MaxCalls \subseteq 0..MaxCalls BY ToolsAssumption
        <3> QED BY <3>1, <3>2 DEF Counts, Steps, Finds, Begins, Rejects, Passes, Sends, Hears, Commits, Records,
                            Shows, Confirms, Notifies, Fails, Ends
    <2>2. \A d \in Chats \ {c} : calls'[d] \in 0..MaxCalls BY <1>2 DEF Others, Typed, TypeOK
    <2> QED BY <1>2, <2>1, <2>2 DEF Others, IsMap
<1>6. offer' \in [Chats -> Offers] /\ \A d \in Chats : Cardinality(offer'[d].slots) <= MaxSlots
    <2>1. offer'[c] \in Offers /\ Cardinality(offer'[c].slots) <= MaxSlots
        <3>1. offer[c] \in Offers /\ Cardinality(offer[c].slots) <= MaxSlots BY DEF Typed, TypeOK
        <3>2. Finds(c) \/ Shows(c) \/ offer'[c] = offer[c]
            BY DEF Steps, Begins, Rejects, Passes, Sends, Hears, Commits, Records, Confirms, Notifies, Fails
        <3> QED BY <3>1, <3>2, ShownTyped
    <2>2. \A d \in Chats \ {c} : offer'[d] \in Offers /\ Cardinality(offer'[d].slots) <= MaxSlots
        BY <1>2 DEF Others, Typed, TypeOK
    <2> QED BY <1>2, <2>1, <2>2 DEF Others, IsMap
<1>7. calendar' \subseteq Events /\ flight' \subseteq Events
    <2>1. calendar \subseteq Events /\ flight \subseteq Events BY DEF Typed, TypeOK
    <2>2. CASE Sends(c) BY <2>1, <2>2, NewEventTyped DEF Sends
    <2> QED BY <2>1, <2>2 DEF Steps, Finds, Begins, Rejects, Passes, Hears, Commits, Records,
                            Shows, Confirms, Notifies, Fails
<1>8. rows' \subseteq Appointments
    <2>1. rows \subseteq Appointments BY DEF Typed, TypeOK, Appointments
    <2>2. CASE Commits(c)
        <3>1. rows' = rows \cup {RowOf(c)} BY <2>2 DEF Commits, RowOf
        <3>2. RowOf(c) \in Appointments BY <2>2, RowTyped DEF Commits
        <3> QED BY <2>1, <3>1, <3>2
    <2> QED BY <2>1, <2>2 DEF Steps, Finds, Begins, Rejects, Passes, Sends, Hears, Records,
                            Shows, Confirms, Notifies, Fails
<1>9. pc[c] # "idle" => Call(c) \in CallIds BY CallIdType DEF Phased
<1>10. deeds' \subseteq CallIds \X {"record", "email", "webhook"}
    <2>1. deeds \subseteq CallIds \X {"record", "email", "webhook"} BY DEF Typed, TypeOK
    <2>2. CASE Records(c) \/ Notifies(c)
        <3>1. PICK what \in {"record", "email", "webhook"} : Adds(c, what)
            BY <2>2 DEF Records, Notifies
        <3>2. Call(c) \in CallIds BY <2>2, <1>9 DEF Records, Notifies
        <3> QED BY <2>1, <3>1, <3>2 DEF Adds
    <2> QED BY <2>1, <2>2 DEF Steps, Finds, Begins, Rejects, Passes, Sends, Hears, Commits,
                            Shows, Confirms, Fails
<1>11. broken' \subseteq CallIds
    <2>1. broken \subseteq CallIds BY DEF Typed, TypeOK
    <2>2. CASE Hears(c) \/ Fails(c)
        <3>1. Call(c) \in CallIds BY <2>2, <1>9 DEF Hears, Fails, Ends
        <3> QED BY <2>1, <2>2, <3>1 DEF Hears, Fails
    <2> QED BY <2>1, <2>2 DEF Steps, Finds, Begins, Rejects, Passes, Sends, Commits, Records,
                            Shows, Confirms, Notifies
<1>12. script' \in Scripts /\ now' \in Clock /\ connected' \in BOOLEAN
    BY <1>1 DEF Typed, TypeOK, World
<1>13. \A d \in Chats : offer'[d].source \in {"none", "hours", "google"} /\ offer'[d].seen \subseteq EventIds
    BY <1>6 DEF Offers
<1>14. pc' \in [Chats -> {"idle", "search_creds", "freebusy", "book_creds", "inserting", "row",
                          "plan", "record", "email", "webhook"}]
    BY <1>3 DEF Points
<1>15. mem' \in [Chats -> [tool : Tool, at : Clock, start : Starts \cup {0},
                           source : {"local", "google", "local_after_calendar_error"}]]
    BY <1>4 DEF Mems
<1>16. rows' \subseteq [id : CallIds, start : Starts, ref : CallIds \cup {Local}]
    BY <1>8 DEF Appointments
<1>17. \A d \in Chats : /\ offer'[d].source \in {"none", "hours", "google"}
                        /\ Cardinality(offer'[d].slots) <= MaxSlots
                        /\ offer'[d].seen \subseteq EventIds
    BY <1>6, <1>13
<1>18. TypeOK'
    BY <1>5, <1>7, <1>10, <1>11, <1>12, <1>14, <1>15, <1>16, <1>17, Zenon DEF TypeOK
<1> QED BY <1>6, <1>18 DEF Typed

LEMMA TypedOutside ==
    ASSUME Typed, Outside PROVE Typed'
<1>1. StaffEvents \subseteq Events BY ToolsAssumption
<1>2. calendar' \subseteq Events /\ flight' \subseteq Events
    BY <1>1 DEF Outside, Sent, Typed, TypeOK
<1> QED BY <1>2 DEF Outside, Typed, TypeOK

LEMMA PhasedNext ==
    ASSUME Typed, Phased, [Next]_vars PROVE Phased'
<1>1. ASSUME NEW c \in Chats, Steps(c) PROVE Phased'
    <2>1. /\ \A d \in Chats \ {c} : pc'[d] = pc[d] /\ mem'[d] = mem[d] /\ calls'[d] = calls[d]
        BY <1>1, StepFrame DEF Others
    <2>2. calls[c] \in Nat BY ToolsAssumption DEF Typed, TypeOK
    <2>3. pc'[c] = "idle" => mem'[c] = Fresh
        BY <1>1 DEF Phased, Steps, Finds, Begins, Rejects, Passes, Sends, Hears, Commits, Records,
                       Shows, Confirms, Notifies, Fails, Ends
    <2>4. pc'[c] # "idle" => calls'[c] >= 1
        <3>1. CASE pc[c] = "idle" BY <1>1, <2>2, <3>1, StepFrame DEF Counts
        <3>2. CASE pc[c] # "idle" BY <1>1, <2>2, <3>2, StepFrame DEF Phased
        <3> QED BY <3>1, <3>2
    <2>5. pc'[c] \in {"search_creds", "freebusy"} =>
            mem'[c].tool = "search" /\ CandidateStarts(mem'[c].at) # {}
        BY <1>1 DEF Phased, Steps, Finds, Begins, Rejects, Passes, Sends, Hears, Commits, Records,
                       Shows, Confirms, Notifies, Fails, Ends
    <2>6. pc'[c] \in {"book_creds", "inserting", "row", "plan"} =>
            mem'[c].tool = "book" /\ mem'[c].start \in Starts
        BY <1>1 DEF Phased, Steps, Finds, Begins, Rejects, Passes, Sends, Hears, Commits, Records,
                       Shows, Confirms, Notifies, Fails, Ends
    <2>7. pc'[c] \in {"book_creds", "inserting"} => mem'[c].source = "local"
        BY <1>1 DEF Phased, Steps, Finds, Begins, Rejects, Passes, Sends, Hears, Commits, Records,
                       Shows, Confirms, Notifies, Fails, Ends
    <2>8. pc'[c] \in {"record", "email", "webhook"} => mem'[c].tool \in {"lead", "escalate"}
        BY <1>1 DEF Phased, Steps, Finds, Begins, Rejects, Passes, Sends, Hears, Commits, Records,
                       Shows, Confirms, Notifies, Fails, Ends
    <2> QED BY <2>1, <2>3, <2>4, <2>5, <2>6, <2>7, <2>8 DEF Phased
<1>2. CASE Outside BY <1>2 DEF Outside, Phased
<1> QED BY <1>1, <1>2, StepCases

LEMMA TypedNext ==
    ASSUME Typed, Phased, [Next]_vars PROVE Typed'
BY StepCases, TypedStep, TypedOutside

-----------------------------------------------------------------------------
(* Which calls events, appointments and results stem from *)

\* A call that has begun stays begun, and is current until its conversation's step ends it.
LEMMA CallsGo ==
    ASSUME Typed, NEW c \in Chats, Steps(c), NEW id \in CallIds, Begun(id)
    PROVE  /\ Begun(id)' /\ (Current(id)' => Current(id))
           /\ id[1] # c => /\ Current(id)' <=> Current(id)
                          /\ pc'[id[1]] = pc[id[1]] /\ mem'[id[1]] = mem[id[1]]
           /\ id[1] = c /\ Current(id) => id = Call(c)
           /\ Current(id) /\ ~Current(id)' => id = Call(c) /\ pc'[c] = "idle"
<1>1. id[1] \in Chats /\ id[2] \in Int /\ id = <<id[1], id[2]>>
    BY CallIdParts
<1>2. /\ Others(c) /\ (pc[c] = "idle" => Counts(c)) /\ (pc[c] # "idle" => calls'[c] = calls[c])
    BY StepFrame
<1>3. calls[c] \in Int /\ calls[id[1]] \in Int BY <1>1 DEF Typed, TypeOK
<1>4. CASE id[1] # c
    BY <1>1, <1>2, <1>4 DEF Others, Begun, Current
<1>5. CASE id[1] = c
    <2>1. CASE pc[c] = "idle"
        BY <1>1, <1>2, <1>3, <1>5, <2>1 DEF Counts, Begun, Current
    <2>2. CASE pc[c] # "idle"
        BY <1>1, <1>2, <1>3, <1>5, <2>2 DEF Begun, Current, Call
    <2> QED BY <2>1, <2>2
<1> QED BY <1>4, <1>5

\* The call of a conversation that is not idle is its current one.
LEMMA CallIsCurrent ==
    ASSUME Typed, Phased, NEW c \in Chats, pc[c] # "idle"
    PROVE  Call(c) \in CallIds /\ Call(c)[1] = c /\ Begun(Call(c)) /\ Current(Call(c))
<1>1. Call(c) \in CallIds /\ Call(c)[1] = c /\ Call(c)[2] = calls[c] BY CallIdType DEF Phased
<1>2. calls[c] \in Int BY DEF Typed, TypeOK
<1> QED BY <1>1, <1>2 DEF Begun, Current

\* What can follow once an event may have been sent.
LEMMA AfterInsert ==
    ASSUME NEW c \in Chats, Steps(c), pc[c] \in {"inserting", "row", "plan"}, pc'[c] # "idle"
    PROVE  Hears(c) \/ Commits(c)
BY DEF Steps, Finds, Begins, Rejects, Passes, Sends, Records, Shows, Confirms, Notifies, Fails, Ends

\* The events that are sent change by an insert only, the appointments by a commit, the
\* results by an end or a refusal.
LEMMA WhatGrows ==
    ASSUME NEW c \in Chats, Steps(c)
    PROVE  /\ calendar' = calendar
           /\ Sends(c) \/ Sent' = Sent
           /\ Commits(c) \/ rows' = rows
           /\ Records(c) \/ Notifies(c) \/ deeds' = deeds
           /\ Rejects(c) \/ Confirms(c) \/ Notifies(c) \/ Fails(c) \/ told' = told
           /\ broken \subseteq broken'
BY DEF Sent, Steps, Finds, Begins, Rejects, Passes, Sends, Hears, Commits, Records, Shows, Confirms,
       Notifies, Fails

LEMMA ResultParts ==
    \A c \in Chats : \A ok \in BOOLEAN :
        /\ Result(c, ok).id = Call(c) /\ Result(c, ok).tool = mem[c].tool
        /\ Result(c, ok).ok = ok /\ Result(c, ok).source = mem[c].source
        /\ Result(c, ok).start = mem[c].start
BY DEF Result

LEMMA NumberedStep ==
    ASSUME Typed, Phased, Numbered, NEW c \in Chats, Steps(c)
    PROVE  Numbered'
<1>1. ASSUME NEW e \in Sent
      PROVE  IF e.id \in CallIds
             THEN /\ Begun(e.id)'
                  /\ Current(e.id)' => /\ pc'[e.id[1]] \in {"inserting", "row", "plan"}
                                       /\ e.from = mem'[e.id[1]].start
             ELSE e \in StaffEvents
    <2>1. CASE e.id \in CallIds
        <3> DEFINE id == e.id
        <3>1. Begun(id) /\ (Current(id) => pc[id[1]] \in {"inserting", "row", "plan"} /\ e.from = mem[id[1]].start)
            BY <2>1 DEF Numbered
        <3> HIDE DEF id
        <3>2. id \in CallIds BY <2>1 DEF id
        <3>3. Begun(id)' BY <3>1, <3>2, CallsGo
        <3>4. ASSUME Current(id)'
              PROVE  pc'[id[1]] \in {"inserting", "row", "plan"} /\ e.from = mem'[id[1]].start
            <4>1. Current(id) BY <3>1, <3>2, <3>4, CallsGo
            <4>2. CASE id[1] # c BY <3>1, <3>2, <4>1, <4>2, CallsGo
            <4>3. CASE id[1] = c
                <5>1. pc'[c] # "idle" BY <3>4, <4>3 DEF Current
                <5>2. Hears(c) \/ Commits(c) BY <3>1, <4>1, <4>3, <5>1, AfterInsert
                <5> QED BY <3>1, <4>1, <4>3, <5>2 DEF Hears, Commits
            <4> QED BY <4>2, <4>3
        <3> QED BY <2>1, <3>3, <3>4 DEF id
    <2>2. CASE e.id \notin CallIds BY <2>2 DEF Numbered
    <2> QED BY <2>1, <2>2
<1>2. ASSUME Sends(c)
      PROVE  \E new :
                /\ new.id \in CallIds /\ Begun(new.id)'
                /\ pc'[new.id[1]] = "inserting" /\ new.from = mem'[new.id[1]].start
                /\ \A e \in Sent : e.id # new.id
                /\ Sent' = Sent \cup {new}
    <2>1. pc[c] = "book_creds" /\ pc'[c] = "inserting" /\ mem'[c] = mem[c] /\ calls'[c] = calls[c]
        BY <1>2 DEF Sends
    <2>2. PICK new : new = NewEvent(c) OBVIOUS
    <2>3. new.id = Call(c) /\ new.from = mem[c].start BY <2>1, <2>2, NewEventTyped
    <2>4. Call(c) \in CallIds /\ Call(c)[1] = c /\ Begun(Call(c)) /\ Current(Call(c)) BY <2>1, CallIsCurrent
    <2>5. \A e \in Sent : e.id # Call(c) BY <2>1, <2>4 DEF Numbered
    <2>6. Sent' = Sent \cup {new} BY <1>2, <2>2 DEF Sends, Sent
    <2>7. new.id \in CallIds /\ new.id[1] = c /\ Begun(new.id) BY <2>3, <2>4
    <2>8. Begun(new.id)' BY <2>1, <2>7 DEF Begun
    <2> QED BY <2>1, <2>3, <2>5, <2>6, <2>7, <2>8
<1>3. ASSUME NEW e \in Sent'
      PROVE  IF e.id \in CallIds
             THEN /\ Begun(e.id)'
                  /\ Current(e.id)' => /\ pc'[e.id[1]] \in {"inserting", "row", "plan"}
                                       /\ e.from = mem'[e.id[1]].start
             ELSE e \in StaffEvents
    <2>1. CASE e \in Sent BY <1>1, <2>1
    <2>2. CASE e \notin Sent
        <3>1. Sends(c) BY <2>2, WhatGrows
        <3>2. /\ e.id \in CallIds /\ Begun(e.id)' /\ pc'[e.id[1]] = "inserting"
              /\ e.from = mem'[e.id[1]].start
            BY <1>2, <2>2, <3>1
        <3> QED BY <3>2
    <2> QED BY <2>1, <2>2
<1>4. \A e, f \in Sent' : e.id = f.id => e = f
    <2>1. \A e, f \in Sent : e.id = f.id => e = f BY DEF Numbered
    <2> QED BY <1>2, <2>1, WhatGrows
<1>5. \A r \in rows' : Begun(r.id)' /\ (Current(r.id)' => pc'[r.id[1]] = "plan")
    <2>1. ASSUME NEW r \in rows PROVE Begun(r.id)' /\ (Current(r.id)' => pc'[r.id[1]] = "plan")
        <3> DEFINE id == r.id
        <3>1. id \in CallIds /\ Begun(id) /\ (Current(id) => pc[id[1]] = "plan")
            BY DEF Numbered, Typed, TypeOK
        <3> HIDE DEF id
        <3>2. Begun(id)' BY <3>1, CallsGo
        <3>3. ASSUME Current(id)' PROVE pc'[id[1]] = "plan"
            <4>1. Current(id) BY <3>1, <3>3, CallsGo
            <4>2. CASE id[1] # c BY <3>1, <4>1, <4>2, CallsGo
            <4>3. CASE id[1] = c
                <5>1. pc'[c] # "idle" BY <3>3, <4>3 DEF Current
                <5>2. Hears(c) \/ Commits(c) BY <3>1, <4>1, <4>3, <5>1, AfterInsert
                <5> QED BY <3>1, <4>1, <4>3, <5>2 DEF Hears, Commits
            <4> QED BY <4>2, <4>3
        <3> QED BY <3>2, <3>3 DEF id
    <2>2. ASSUME Commits(c)
          PROVE  \E new : rows' = rows \cup {new} /\ pc'[new.id[1]] = "plan" /\ Begun(new.id)'
        <3>1. pc[c] = "row" /\ pc'[c] = "plan" /\ calls'[c] = calls[c] BY <2>2 DEF Commits
        <3>2. PICK new : new = RowOf(c) OBVIOUS
        <3>3. new.id = Call(c) BY <3>1, <3>2, RowTyped
        <3>4. Call(c)[1] = c /\ Begun(Call(c)) BY <3>1, CallIsCurrent
        <3>5. new.id[1] = c /\ Begun(new.id) BY <3>3, <3>4
        <3>6. Begun(new.id)' BY <3>1, <3>5 DEF Begun
        <3>7. rows' = rows \cup {new} BY <2>2, <3>2 DEF Commits, RowOf
        <3> QED BY <3>1, <3>5, <3>6, <3>7
    <2> QED BY <2>1, <2>2, WhatGrows
<1>6. \A t \in told' : t.id \in CallIds /\ Begun(t.id)' /\ ~Current(t.id)'
    <2>1. ASSUME NEW t \in told PROVE t.id \in CallIds /\ Begun(t.id)' /\ ~Current(t.id)'
        <3> DEFINE id == t.id
        <3>1. id \in CallIds /\ Begun(id) /\ ~Current(id) BY DEF Numbered
        <3> HIDE DEF id
        <3>2. Begun(id)' /\ ~Current(id)' BY <3>1, CallsGo
        <3> QED BY <3>1, <3>2 DEF id
    <2>2. ASSUME NEW t, t.id = Call(c), pc[c] # "idle", pc'[c] = "idle"
          PROVE  t.id \in CallIds /\ Begun(t.id)' /\ ~Current(t.id)'
        <3>1. Call(c) \in CallIds /\ Call(c)[1] = c /\ Call(c)[2] = calls[c] BY <2>2, CallIdType DEF Phased
        <3>2. calls'[c] = calls[c] /\ calls[c] \in Int BY <2>2, StepFrame DEF Typed, TypeOK
        <3> QED BY <2>2, <3>1, <3>2 DEF Begun, Current
    <2>3. CASE Rejects(c)
        <3>1. PICK t : told' = told \cup {t} /\ t.id = <<c, calls'[c]>> BY <2>3 DEF Rejects
        <3>2. pc'[c] = "idle" /\ calls'[c] \in 1..MaxCalls BY <2>3 DEF Rejects, Counts
        <3>3. <<c, calls'[c]>> \in CallIds BY <3>2 DEF CallIds
        <3>4. t.id[1] = c /\ t.id[2] = calls'[c] BY <3>1
        <3>5. Begun(t.id)' /\ ~Current(t.id)' BY <3>2, <3>4, ToolsAssumption DEF Begun, Current
        <3> QED BY <2>1, <3>1, <3>3, <3>5
    <2>4. CASE Confirms(c) \/ Notifies(c) \/ Fails(c)
        <3>1. pc[c] # "idle" /\ pc'[c] = "idle" BY <2>4 DEF Confirms, Notifies, Fails, Ends
        <3>2. told' \subseteq told \cup {Result(c, TRUE), Result(c, FALSE)}
            BY <2>4 DEF Confirms, Notifies, Fails
        <3>3. Result(c, TRUE).id = Call(c) /\ Result(c, FALSE).id = Call(c) BY ResultParts
        <3> QED BY <2>1, <2>2, <3>1, <3>2, <3>3
    <2> QED BY <2>1, <2>3, <2>4, WhatGrows
<1> QED BY <1>3, <1>4, <1>5, <1>6 DEF Numbered

LEMMA NumberedNext ==
    ASSUME Typed, Phased, Numbered, [Next]_vars PROVE Numbered'
<1>1. CASE Outside
    <2>1. /\ Sent' \subseteq Sent \cup StaffEvents
          /\ UNCHANGED <<rows, calls, pc, mem, told>>
        BY <1>1 DEF Outside
    <2>2. \A e \in StaffEvents : e.id \notin CallIds BY ToolsAssumption
    <2>3. \A e, f \in StaffEvents : e.id = f.id => e = f BY ToolsAssumption
    <2>4. \A e \in Sent' :
            IF e.id \in CallIds
            THEN /\ Begun(e.id)'
                 /\ Current(e.id)' => /\ pc'[e.id[1]] \in {"inserting", "row", "plan"}
                                      /\ e.from = mem'[e.id[1]].start
            ELSE e \in StaffEvents
        BY <2>1, <2>2 DEF Numbered, Begun, Current
    <2>5. \A e, f \in Sent' : e.id = f.id => e = f
        <3>1. \A e \in Sent : e.id \notin CallIds => e \in StaffEvents BY DEF Numbered
        <3>2. \A e, f \in Sent : e.id = f.id => e = f BY DEF Numbered
        <3> QED BY <2>1, <2>2, <2>3, <3>1, <3>2
    <2>6. /\ \A r \in rows' : Begun(r.id)' /\ (Current(r.id)' => pc'[r.id[1]] = "plan")
          /\ \A t \in told' : t.id \in CallIds /\ Begun(t.id)' /\ ~Current(t.id)'
        BY <2>1 DEF Numbered, Begun, Current
    <2> QED BY <2>4, <2>5, <2>6 DEF Numbered
<1> QED BY <1>1, StepCases, NumberedStep

-----------------------------------------------------------------------------
(* Calendar, table and what a call believes *)

LEMMA AccountedStep ==
    ASSUME Typed, Phased, Numbered, Agreed, NEW c \in Chats, Steps(c)
    PROVE  Accounted'
<1>1. rows \subseteq rows' BY WhatGrows DEF Commits
<1>2. ASSUME NEW e \in Sent, e.id \in CallIds, e.id \notin broken'
      PROVE  IF Current(e.id)' THEN pc'[e.id[1]] \in {"row", "plan"} => mem'[e.id[1]].source = "google"
             ELSE \E r \in rows' : r.id = e.id /\ r.ref = e.id
    <2> DEFINE id == e.id
    <2>1. id \in CallIds /\ id \notin broken /\ id \notin broken' BY <1>2, WhatGrows
    <2>2. Begun(id) /\ (Current(id) => pc[id[1]] \in {"inserting", "row", "plan"})
        BY <1>2 DEF Numbered
    <2>3. IF Current(id) THEN pc[id[1]] \in {"row", "plan"} => mem[id[1]].source = "google"
          ELSE \E r \in rows : r.id = id /\ r.ref = id
        BY <2>1 DEF Agreed, Accounted, Row
    <2> HIDE DEF id
    <2>4. CASE ~Current(id)
        <3>1. ~Current(id)' BY <2>1, <2>2, <2>4, CallsGo
        <3> QED BY <1>1, <2>3, <2>4, <3>1 DEF id
    <2>5. CASE Current(id) /\ id[1] # c
        <3>1. Current(id)' /\ pc'[id[1]] = pc[id[1]] /\ mem'[id[1]] = mem[id[1]]
            BY <2>1, <2>2, <2>5, CallsGo
        <3> QED BY <2>3, <2>5, <3>1 DEF id
    <2>6. CASE Current(id) /\ id[1] = c
        <3>1. id = Call(c) /\ pc[c] \in {"inserting", "row", "plan"} BY <2>1, <2>2, <2>6, CallsGo
        <3>2. CASE pc'[c] = "idle"
            <4>1. ~Current(id)' BY <2>6, <3>2 DEF Current
            <4>2. ~Fails(c) BY <2>1, <3>1 DEF Fails
            <4>3. Confirms(c)
                BY <3>1, <3>2, <4>2 DEF Steps, Finds, Begins, Rejects, Passes, Sends, Hears, Commits,
                                        Records, Shows, Notifies
            <4>4. pc[c] = "plan" BY <4>3 DEF Confirms
            <4>5. mem[c].source = "google" BY <2>3, <2>6, <4>4
            <4>6. \E r \in rows : r.id = Call(c) /\ r.ref = Reference(c) BY <4>4 DEF Agreed, Believing
            <4>7. Reference(c) = Call(c) BY <4>5 DEF Reference
            <4> QED BY <1>1, <3>1, <4>1, <4>6, <4>7 DEF id
        <3>3. CASE pc'[c] # "idle"
            <4>1. Hears(c) \/ Commits(c) BY <3>1, <3>3, AfterInsert
            <4>2. Current(id)' BY <2>1, <2>2, <2>6, <3>3, CallsGo
            <4>3. CASE Hears(c) BY <2>1, <2>6, <3>1, <4>2, <4>3 DEF Hears, id
            <4>4. CASE Commits(c) BY <2>3, <2>6, <4>2, <4>4 DEF Commits, id
            <4> QED BY <4>1, <4>3, <4>4
        <3> QED BY <3>2, <3>3
    <2> QED BY <2>4, <2>5, <2>6
<1>3. ASSUME NEW e \in Sent', e \notin Sent
      PROVE  Current(e.id)' /\ pc'[e.id[1]] = "inserting"
    <2>1. Sends(c) BY <1>3, WhatGrows
    <2>2. e = NewEvent(c) BY <1>3, <2>1 DEF Sends, Sent
    <2>3. pc[c] = "book_creds" /\ pc'[c] = "inserting" /\ calls'[c] = calls[c] BY <2>1 DEF Sends
    <2>4. e.id = Call(c) BY <2>2, <2>3, NewEventTyped
    <2>5. Call(c)[1] = c /\ Call(c)[2] = calls[c] BY <2>3, CallIdType DEF Phased
    <2>6. e.id[1] = c /\ e.id[2] = calls[c] BY <2>4, <2>5
    <2> QED BY <2>3, <2>6 DEF Current
<1> QED BY <1>2, <1>3 DEF Accounted, Row

LEMMA ReferringStep ==
    ASSUME Typed, Phased, Numbered, Agreed, NEW c \in Chats, Steps(c)
    PROVE  Referring'
<1>1. calendar' = calendar BY WhatGrows
<1>2. \A r \in rows : r.ref # Local => \E e \in calendar : e.id = r.ref BY DEF Agreed, Referring
<1>3. ASSUME Commits(c)
      PROVE  /\ rows' = rows \cup {RowOf(c)}
             /\ RowOf(c).ref # Local => \E e \in calendar : e.id = RowOf(c).ref
    <2>1. pc[c] = "row" BY <1>3 DEF Commits
    <2>2. RowOf(c).ref = Reference(c) BY <2>1, RowTyped
    <2>3. Reference(c) # Local => mem[c].source = "google" /\ Reference(c) = Call(c) BY DEF Reference
    <2>4. Reference(c) # Local => \E e \in calendar : e.id = Reference(c)
        BY <2>1, <2>3 DEF Agreed, Believing
    <2>5. rows' = rows \cup {RowOf(c)} BY <1>3 DEF Commits, RowOf
    <2> QED BY <2>2, <2>4, <2>5
<1> QED BY <1>1, <1>2, <1>3, WhatGrows DEF Referring

\* A conversation's own step.
LEMMA BelievingStep ==
    ASSUME Typed, Phased, Numbered, Agreed, NEW c \in Chats, Steps(c)
    PROVE  Believing(c)'
<1>1. Believing(c) /\ calendar' = calendar BY WhatGrows DEF Agreed
<1>2. CASE pc'[c] \notin {"row", "plan", "email", "webhook"}
    BY <1>2 DEF Believing
<1>3. CASE pc'[c] = "row"
    <2>1. Passes(c) \/ Hears(c)
        BY <1>3 DEF Steps, Finds, Begins, Rejects, Sends, Commits, Records, Shows, Confirms, Notifies, Fails, Ends
    <2>2. CASE Passes(c)
        <3>1. pc[c] = "book_creds" /\ mem'[c] = mem[c] BY <1>3, <2>2 DEF Passes
        <3>2. mem'[c].source # "google" BY <3>1 DEF Phased
        <3> QED BY <1>3, <3>2 DEF Believing
    <2>3. CASE Hears(c) /\ mem'[c].source = "google"
        <3>1. pc[c] = "inserting" /\ Created(c) /\ calls'[c] = calls[c] /\ mem'[c].start = mem[c].start
            BY <2>3 DEF Hears
        <3>2. PICK e \in calendar : e.id = Call(c) BY <3>1 DEF Created
        <3>3. Call(c) \in CallIds /\ Call(c)[1] = c /\ Current(Call(c)) BY <3>1, CallIsCurrent
        <3>4. e.from = mem[c].start BY <3>2, <3>3 DEF Numbered, Sent
        <3>5. Call(c)' = Call(c) BY <3>1 DEF Call
        <3> QED BY <1>1, <1>3, <3>1, <3>2, <3>4, <3>5 DEF Believing
    <2>4. CASE Hears(c) /\ mem'[c].source # "google" BY <1>3, <2>4 DEF Believing
    <2> QED BY <2>1, <2>2, <2>3, <2>4
<1>4. CASE pc'[c] = "plan"
    <2>1. Commits(c)
        BY <1>4 DEF Steps, Finds, Begins, Rejects, Passes, Sends, Hears, Records, Shows, Confirms, Notifies, Fails, Ends
    <2>2. pc[c] = "row" /\ mem'[c] = mem[c] /\ calls'[c] = calls[c] BY <2>1 DEF Commits
    <2>3. RowOf(c) \in rows' BY <2>1 DEF Commits, RowOf
    <2>4. RowOf(c).id = Call(c) /\ RowOf(c).start = mem[c].start /\ RowOf(c).ref = Reference(c)
        BY <2>2, RowTyped
    <2>5. Call(c)' = Call(c) /\ Reference(c)' = Reference(c) BY <2>2 DEF Call, Reference
    <2>6. mem'[c].source = "google" => \E e \in calendar' : e.id = Call(c)' /\ e.from = mem'[c].start
        BY <1>1, <2>2, <2>5 DEF Believing
    <2>7. \E r \in rows' : r.id = Call(c)' /\ r.start = mem'[c].start /\ r.ref = Reference(c)'
        BY <2>2, <2>3, <2>4, <2>5
    <2> QED BY <1>4, <2>6, <2>7 DEF Believing
<1>5. CASE pc'[c] \in {"email", "webhook"}
    <2>1. \/ Passes(c) /\ mem'[c].tool = "escalate" /\ pc'[c] = "email"
          \/ Records(c)
        BY <1>5 DEF Steps, Finds, Begins, Rejects, Passes, Sends, Hears, Commits, Shows, Confirms, Notifies, Fails, Ends
    <2>2. CASE Passes(c) /\ mem'[c].tool = "escalate" /\ pc'[c] = "email" BY <2>2 DEF Believing
    <2>3. CASE Records(c)
        <3>1. mem'[c] = mem[c] /\ calls'[c] = calls[c] /\ deeds \subseteq deeds' BY <2>3 DEF Records, Adds
        <3>2. Call(c)' = Call(c) BY <3>1 DEF Call
        <3>3. mem'[c].tool = "lead" => <<Call(c), "record">> \in deeds'
            BY <1>1, <2>3, <3>1 DEF Records, Adds, Believing
        <3>4. pc'[c] = "webhook" /\ "email" \in Notices => <<Call(c), "email">> \in deeds'
            BY <2>3 DEF Records, Adds
        <3> QED BY <1>5, <3>2, <3>3, <3>4 DEF Believing
    <2> QED BY <2>1, <2>2, <2>3
<1> QED BY <1>2, <1>3, <1>4, <1>5

LEMMA AgreedNext ==
    ASSUME Typed, Phased, Numbered, Agreed, [Next]_vars PROVE Agreed'
<1>1. ASSUME NEW c \in Chats, Steps(c) PROVE Agreed'
    <2>1. ASSUME NEW d \in Chats, d # c PROVE Believing(d)'
        <3>1. /\ pc'[d] = pc[d] /\ mem'[d] = mem[d] /\ calls'[d] = calls[d]
            BY <1>1, <2>1, StepFrame DEF Others
        <3>2. calendar' = calendar /\ rows \subseteq rows' /\ deeds \subseteq deeds'
            BY <1>1, WhatGrows DEF Commits, Records, Notifies, Adds
        <3>3. Believing(d) BY DEF Agreed
        <3>4. Call(d)' = Call(d) /\ Reference(d)' = Reference(d) BY <3>1 DEF Call, Reference
        <3> QED BY <3>1, <3>2, <3>3, <3>4 DEF Believing
    <2> QED BY <1>1, <2>1, AccountedStep, ReferringStep, BelievingStep DEF Agreed
<1>2. CASE Outside
    <2>1. /\ calendar \subseteq calendar' /\ Sent' \subseteq Sent \cup StaffEvents
          /\ UNCHANGED <<rows, deeds, calls, pc, mem, broken>>
        BY <1>2 DEF Outside
    <2>2. \A e \in StaffEvents : e.id \notin CallIds BY ToolsAssumption
    <2>3. Accounted' BY <2>1, <2>2 DEF Agreed, Accounted, Current, Row
    <2>4. Referring' BY <2>1 DEF Agreed, Referring
    <2>5. ASSUME NEW d \in Chats PROVE Believing(d)'
        <3>1. Believing(d) BY DEF Agreed
        <3>2. Call(d)' = Call(d) /\ Reference(d)' = Reference(d) BY <2>1 DEF Call, Reference
        <3> QED BY <2>1, <3>1, <3>2 DEF Believing
    <2> QED BY <2>3, <2>4, <2>5 DEF Agreed
<1> QED BY <1>1, <1>2, StepCases

-----------------------------------------------------------------------------
(* What results say *)

\* What one result says is so.
Truthful(t) ==
    /\ t.tool = "book" /\ t.ok =>
        \E r \in rows :
            /\ r.id = t.id /\ r.start = t.start
            /\ IF t.source = "google"
               THEN r.ref = t.id /\ \E e \in calendar : e.id = t.id /\ e.from = t.start
               ELSE r.ref = Local
    /\ t.tool = "book" /\ ~t.ok => Row(t.id) = {}
    /\ t.tool = "lead" /\ t.ok => <<t.id, "record">> \in deeds
    /\ t.tool \in {"lead", "escalate"} /\ t.ok => \A n \in Notices : <<t.id, n>> \in deeds

LEMMA TruthfulByResult == TruthfulReport <=> \A t \in told : Truthful(t)
BY DEF TruthfulReport, Truthful

LEMMA TruthfulStep ==
    ASSUME Typed, Phased, Numbered, Agreed, TruthfulReport, NEW c \in Chats, Steps(c)
    PROVE  \A t \in told' : Truthful(t)'
<1>1. rows \subseteq rows' /\ calendar' = calendar /\ deeds \subseteq deeds'
    BY WhatGrows DEF Commits, Records, Notifies, Adds
<1>2. ASSUME NEW t \in told PROVE Truthful(t)'
    <2>1. Truthful(t) BY TruthfulByResult
    <2>2. Row(t.id) = {} => Row(t.id)' = {}
        <3>1. CASE rows' = rows BY <3>1 DEF Row
        <3>2. CASE Commits(c)
            <4>1. pc[c] = "row" /\ rows' = rows \cup {RowOf(c)} BY <3>2 DEF Commits, RowOf
            <4>2. RowOf(c).id = Call(c) /\ Current(Call(c)) BY <4>1, RowTyped, CallIsCurrent
            <4>3. ~Current(t.id) BY DEF Numbered
            <4>4. t.id # RowOf(c).id BY <4>2, <4>3
            <4> QED BY <4>1, <4>4 DEF Row
        <3> QED BY <3>1, <3>2, WhatGrows
    <2> QED BY <1>1, <2>1, <2>2 DEF Truthful
<1>3. ASSUME NEW t, Rejects(c), t.id = <<c, calls'[c]>>, t.ok = FALSE PROVE Truthful(t)'
    <2>1. rows' = rows /\ calls'[c] = calls[c] + 1 /\ calls[c] \in Nat BY <1>3 DEF Rejects, Counts
    <2>2. \A r \in rows : r.id # t.id
        <3> SUFFICES ASSUME NEW r \in rows, r.id = t.id PROVE FALSE OBVIOUS
        <3>1. Begun(r.id) BY DEF Numbered
        <3>2. r.id[1] = c /\ r.id[2] = calls[c] + 1 BY <1>3, <2>1
        <3> QED BY <2>1, <3>1, <3>2 DEF Begun
    <2> QED BY <1>3, <2>1, <2>2 DEF Truthful, Row
<1>4. CASE Confirms(c)
    <2>1. pc[c] = "plan" /\ rows' = rows /\ told' = told \cup {Result(c, TRUE)} BY <1>4 DEF Confirms
    <2>2. PICK t : t = Result(c, TRUE) OBVIOUS
    <2>3. /\ t.id = Call(c) /\ t.tool = "book" /\ t.ok = TRUE /\ t.source = mem[c].source
          /\ t.start = mem[c].start
        BY <2>1, <2>2, ResultParts DEF Phased
    <2>4. Believing(c) BY DEF Agreed
    <2>5. PICK r \in rows : r.id = t.id /\ r.start = t.start /\ r.ref = Reference(c)
        BY <2>1, <2>3, <2>4 DEF Believing
    <2>6. CASE t.source = "google"
        <3>1. r.ref = t.id BY <2>3, <2>5, <2>6 DEF Reference
        <3>2. \E e \in calendar : e.id = t.id /\ e.from = t.start BY <2>1, <2>3, <2>4, <2>6 DEF Believing
        <3>3. r \in rows' BY <2>1
        <3>4. Truthful(t)' BY <1>1, <2>3, <2>5, <2>6, <3>1, <3>2, <3>3 DEF Truthful
        <3> QED BY <1>2, <2>1, <2>2, <3>4
    <2>7. CASE t.source # "google"
        <3>1. r.ref = Local BY <2>3, <2>5, <2>7 DEF Reference
        <3>2. Truthful(t)' BY <2>1, <2>3, <2>5, <2>7, <3>1 DEF Truthful
        <3> QED BY <1>2, <2>1, <2>2, <3>2
    <2> QED BY <2>6, <2>7
<1>5. CASE Notifies(c)
    <2>1. pc[c] = "webhook" /\ told' = told \cup {Result(c, TRUE)} /\ Adds(c, "webhook")
        BY <1>5 DEF Notifies
    <2>2. PICK t : t = Result(c, TRUE) OBVIOUS
    <2>3. /\ t.id = Call(c) /\ t.tool = mem[c].tool /\ t.tool \in {"lead", "escalate"} /\ t.ok = TRUE
        BY <2>1, <2>2, ResultParts DEF Phased
    <2>4. Believing(c) BY DEF Agreed
    <2>5. t.tool = "lead" => <<t.id, "record">> \in deeds' BY <1>1, <2>1, <2>3, <2>4 DEF Believing
    <2>6. "email" \in Notices => <<t.id, "email">> \in deeds' BY <1>1, <2>1, <2>3, <2>4 DEF Believing
    <2>7. "webhook" \in Notices => <<t.id, "webhook">> \in deeds' BY <2>1, <2>3 DEF Adds
    <2>8. Notices \subseteq {"email", "webhook"} BY ToolsAssumption
    <2>9. Truthful(t)' BY <2>3, <2>5, <2>6, <2>7, <2>8 DEF Truthful
    <2> QED BY <1>2, <2>1, <2>2, <2>9
<1>6. CASE Fails(c)
    <2>1. rows' = rows /\ pc[c] # "idle" BY <1>6 DEF Fails, Ends
    <2>2. CASE told' = told BY <1>2, <2>2
    <2>3. CASE pc[c] # "plan" /\ told' = told \cup {Result(c, FALSE)}
        <3>1. PICK t : t = Result(c, FALSE) OBVIOUS
        <3>2. t.id = Call(c) /\ t.ok = FALSE BY <3>1, ResultParts
        <3>3. Call(c)[1] = c /\ Current(Call(c)) BY <2>1, CallIsCurrent
        <3>4. \A r \in rows : r.id # Call(c) BY <2>3, <3>3 DEF Numbered
        <3>5. Truthful(t)' BY <2>1, <3>2, <3>4 DEF Truthful, Row
        <3> QED BY <1>2, <2>3, <3>1, <3>5
    <2> QED BY <1>6, <2>2, <2>3 DEF Fails
<1>7. CASE Rejects(c) BY <1>2, <1>3, <1>7 DEF Rejects
<1> QED BY <1>2, <1>4, <1>5, <1>6, <1>7, WhatGrows

LEMMA TruthfulNext ==
    ASSUME Typed, Phased, Numbered, Agreed, TruthfulReport, [Next]_vars PROVE TruthfulReport'
<1>1. ASSUME NEW c \in Chats, Steps(c) PROVE TruthfulReport'
    BY <1>1, TruthfulStep DEF Truthful, TruthfulReport
<1>2. CASE Outside
    <2>1. calendar \subseteq calendar' /\ UNCHANGED <<rows, deeds, told>> BY <1>2 DEF Outside
    <2> QED BY <2>1 DEF TruthfulReport, Row
<1> QED BY <1>1, <1>2, StepCases

LEMMA InitIInv == Init => IInv
<1> SUFFICES ASSUME Init PROVE IInv OBVIOUS
<1>1. Fresh \in Mems /\ 0 \in Clock /\ 0 \in 0..MaxCalls BY MemUpdates, ToolsAssumption
<1>2. /\ NoOffer \in Offers /\ NoOffer.source = "none" /\ NoOffer.slots = {} /\ NoOffer.seen = {}
    BY DEF NoOffer, Offers
<1>3. Cardinality({}) = 0 /\ MaxSlots \in Nat BY FS_EmptySet, SlotsAssumption
<1>4. offer \in [Chats -> Offers] /\ \A c \in Chats : offer[c] = NoOffer BY <1>2 DEF Init
<1>5. \A c \in Chats : /\ offer[c].source \in {"none", "hours", "google"}
                       /\ Cardinality(offer[c].slots) <= MaxSlots
                       /\ offer[c].seen \subseteq EventIds
    BY <1>2, <1>3, <1>4
<1>6. TypeOK BY <1>1, <1>5 DEF Init, TypeOK, Mems
<1>7. Phased BY DEF Init, Phased
<1>8. Numbered BY DEF Init, Numbered, Sent
<1>9. Agreed BY DEF Init, Agreed, Accounted, Referring, Believing, Sent
<1>10. TruthfulReport BY DEF Init, TruthfulReport
<1> QED BY <1>4, <1>6, <1>7, <1>8, <1>9, <1>10 DEF IInv, Typed

LEMMA NextIInv == IInv /\ [Next]_vars => IInv'
BY TypedNext, PhasedNext, NumberedNext, AgreedNext, TruthfulNext DEF IInv

-----------------------------------------------------------------------------
(* The theorems *)

\* The invariant holds: the order of steps in booking.py, lead.py and handoff.py is enough for
\* it, whatever the calendar, the staff and crashes do in between.
THEOREM Inductive == Spec => []IInv
BY InitIInv, NextIInv, PTL DEF Spec

\* Every variable has its type, and a search never shows more than a page of slots (booking.py:131).
THEOREM TypeCorrect == Spec => []TypeOK
<1>1. IInv => TypeOK BY DEF IInv, Typed
<1> QED BY <1>1, Inductive, PTL

\* What the tools report is so: a booking has its appointment, and its event if it says google;
\* a refused one has none; a lead and a handoff are stored and notified (booking.py:6).
THEOREM ReportsAreTrue == Spec => []TruthfulReport
<1>1. IInv => TruthfulReport BY DEF IInv
<1> QED BY <1>1, Inductive, PTL

\* Calendar and table differ only by calls that met a failure (booking.py, between the insert
\* and the commit).
THEOREM OrphansByFailure == Spec => []OrphansOnlyByFailure
<1>1. IInv => OrphansOnlyByFailure
    <2> SUFFICES ASSUME IInv PROVE OrphansOnlyByFailure OBVIOUS
    <2>1. ASSUME NEW e \in calendar, e.id \in CallIds, Over(e.id), e.id \notin broken
          PROVE  \E r \in Row(e.id) : r.ref = e.id
        BY <2>1 DEF IInv, Agreed, Accounted, Sent, Over, Current
    <2>2. \A r \in rows : r.ref # Local => \E e \in calendar : e.id = r.ref
        BY DEF IInv, Agreed, Referring
    <2> QED BY <2>1, <2>2 DEF OrphansOnlyByFailure
<1> QED BY <1>1, Inductive, PTL

-----------------------------------------------------------------------------
(* What a search promises, where the hours of a day are in order *)

\* An event with the id of one in the calendar is that one.
LEMMA KnownEvent ==
    ASSUME Numbered, NEW e \in Sent, e.id \in Ids(calendar) PROVE e \in calendar
BY DEF Numbered, Sent, Ids

\* A search that shows free slots shows slots that are free.
LEMMA ShownIsFree ==
    ASSUME HoursInOrder, IInv, NEW c \in Chats, Shows(c)
    PROVE  /\ offer'[c].seen \subseteq Ids(calendar)
           /\ offer'[c].source = "google" =>
                \A s \in offer'[c].slots, e \in calendar : Free(s, e)
<1>1. CASE offer'[c] = Offer("hours", Candidates(c), {})
    <2>1. offer'[c].source = "hours" /\ offer'[c].seen = Ids({})
        BY <1>1, CandidatesOf, OfferTyped DEF IInv
    <2> QED BY <2>1 DEF Ids
<1>2. CASE offer'[c] = Offer("google", SubtractBusy(Candidates(c), Busy(calendar, Candidates(c))), calendar)
    <2> DEFINE C == SubtractBusy(Candidates(c), Busy(calendar, Candidates(c)))
    <2>1. /\ Candidates(c) \subseteq Places /\ IsFiniteSet(Candidates(c))
          /\ \A p \in Candidates(c) : p \in OpenOn(p.day)
        BY CandidatesOf DEF IInv
    <2>2. C \subseteq Candidates(c) BY DEF SubtractBusy
    <2>3. C \subseteq Places /\ IsFiniteSet(C) BY <2>1, <2>2, FS_Subset
    <2>4. calendar \in SUBSET Events BY DEF IInv, Typed, TypeOK
    <2>5. \A p \in C, e \in calendar : Free(p.start, e) BY <2>1, <2>4, SubtractedIsFree
    <2> HIDE DEF C
    <2>6. /\ Offer("google", C, calendar).seen = Ids(calendar)
          /\ \A s \in Offer("google", C, calendar).slots : \E p \in C : p.start = s
        BY <2>3, <2>4, OfferTyped DEF IInv
    <2>7. offer'[c] = Offer("google", C, calendar) BY <1>2 DEF C
    <2> QED BY <2>5, <2>6, <2>7
<1> QED BY <1>1, <1>2 DEF Shows

LEMMA ClearedStep ==
    ASSUME HoursInOrder, IInv, Cleared, NEW c \in Chats, Steps(c)
    PROVE  Cleared'
<1>1. calendar' = calendar BY WhatGrows
<1>2. ASSUME Sends(c)
      PROVE  \E new :
                /\ Sent' = Sent \cup {new} /\ new.id \notin Ids(calendar)
                /\ new.cleared \subseteq Ids(calendar)
                /\ \A e \in Sent : e.id \in new.cleared => ~Overlaps(e.from, e.to, new.from, new.to)
    <2>1. pc[c] = "book_creds" BY <1>2 DEF Sends
    <2>2. PICK new : new = NewEvent(c) OBVIOUS
    <2>3. /\ new.id = Call(c) /\ new.from = mem[c].start /\ new.to = mem[c].start + SlotLen
          /\ new.cleared # {} => /\ offer[c].source = "google" /\ mem[c].start \in offer[c].slots
                                 /\ new.cleared = offer[c].seen
        BY <2>1, <2>2, NewEventTyped DEF IInv
    <2>4. Sent' = Sent \cup {new} BY <1>2, <2>2 DEF Sends, Sent
    <2>5. Call(c) \in CallIds /\ Call(c)[1] = c /\ Current(Call(c)) BY <2>1, CallIsCurrent DEF IInv
    <2>6. \A e \in Sent : e.id # Call(c) BY <2>1, <2>5 DEF IInv, Numbered
    <2>7. new.id \notin Ids(calendar) BY <2>3, <2>6 DEF Ids, Sent
    <2>8. new.cleared \subseteq Ids(calendar) BY <2>3 DEF Cleared
    <2>9. ASSUME NEW e \in Sent, e.id \in new.cleared
          PROVE  ~Overlaps(e.from, e.to, new.from, new.to)
        <3>1. Free(mem[c].start, e) BY <2>3, <2>9 DEF Cleared
        <3> QED BY <2>3, <3>1 DEF Free, Overlaps
    <2> QED BY <2>4, <2>7, <2>8, <2>9
<1>3. \A e \in Sent' : e \in Sent \/ e.id \notin Ids(calendar)
    BY <1>2, WhatGrows
<1>4. \A f \in Sent' : f.cleared \subseteq Ids(calendar)
    BY <1>2, WhatGrows DEF Cleared
<1>5. \A e, f \in Sent' : e.id \in f.cleared => ~Overlaps(e.from, e.to, f.from, f.to)
    <2>1. \A e, f \in Sent : e.id \in f.cleared => ~Overlaps(e.from, e.to, f.from, f.to) BY DEF Cleared
    <2>2. CASE Sent' = Sent BY <2>1, <2>2
    <2>3. CASE Sends(c)
        <3>1. PICK new :
                /\ Sent' = Sent \cup {new} /\ new.id \notin Ids(calendar)
                /\ new.cleared \subseteq Ids(calendar)
                /\ \A e \in Sent : e.id \in new.cleared => ~Overlaps(e.from, e.to, new.from, new.to)
            BY <1>2, <2>3
        <3> QED BY <1>4, <2>1, <3>1
    <2> QED BY <2>2, <2>3, WhatGrows
<1>6. ASSUME NEW d \in Chats
      PROVE  /\ offer'[d].seen \subseteq Ids(calendar)
             /\ offer'[d].source = "google" =>
                  \A s \in offer'[d].slots, e \in Sent' : e.id \in offer'[d].seen => Free(s, e)
    <2>1. CASE offer'[d] = offer[d] BY <1>3, <2>1 DEF Cleared
    <2>2. CASE d = c /\ Shows(c)
        <3>1. Sent' = Sent BY <2>2 DEF Shows, Sent
        <3>2. /\ offer'[d].seen \subseteq Ids(calendar)
              /\ offer'[d].source = "google" => \A s \in offer'[d].slots, e \in calendar : Free(s, e)
            BY <2>2, ShownIsFree
        <3>3. \A e \in Sent : e.id \in Ids(calendar) => e \in calendar BY KnownEvent DEF IInv
        <3> QED BY <3>1, <3>2, <3>3
    <2>3. CASE d = c /\ Finds(c)
        <3>1. {} \subseteq Places /\ IsFiniteSet({}) /\ {} \in SUBSET Events BY FS_EmptySet
        <3>2. offer'[d].source = "hours" /\ offer'[d].seen = Ids({})
            BY <2>3, <3>1, OfferTyped DEF Finds, IInv
        <3> QED BY <3>2 DEF Ids
    <2>4. d # c => offer'[d] = offer[d] BY StepFrame DEF Others
    <2>5. Finds(c) \/ Shows(c) \/ offer'[c] = offer[c]
        BY DEF Steps, Begins, Rejects, Passes, Sends, Hears, Commits, Records, Confirms, Notifies, Fails
    <2> QED BY <2>1, <2>2, <2>3, <2>4, <2>5
<1>7. Ids(calendar)' = Ids(calendar) BY <1>1 DEF Ids
<1> QED BY <1>4, <1>5, <1>6, <1>7 DEF Cleared

LEMMA ClearedNext ==
    ASSUME HoursInOrder, IInv, Cleared, [Next]_vars PROVE Cleared'
<1>1. CASE Outside
    <2>1. /\ calendar \subseteq calendar' /\ Sent' \subseteq Sent \cup StaffEvents /\ offer' = offer
        BY <1>1 DEF Outside
    <2>2. Ids(calendar) \subseteq Ids(calendar)' BY <2>1 DEF Ids
    <2>3. \A e \in StaffEvents : e.id \notin CallIds /\ e.cleared = {} BY ToolsAssumption
    <2>4. \A e, f \in StaffEvents : e.id = f.id => e = f BY ToolsAssumption
    <2>5. ASSUME NEW e \in Sent', e.id \in Ids(calendar) PROVE e \in Sent
        <3>1. PICK g \in calendar : g.id = e.id BY <2>5 DEF Ids
        <3>2. g \in Sent BY DEF Sent
        <3>3. CASE e \in StaffEvents
            <4>1. g \in StaffEvents BY <2>3, <3>1, <3>2, <3>3 DEF IInv, Numbered
            <4> QED BY <2>4, <3>1, <3>2, <3>3, <4>1
        <3> QED BY <2>1, <3>3
    <2>6. \A f \in Sent' : f \in Sent \/ f.cleared = {} BY <2>1, <2>3
    <2>7. \A d \in Chats : offer'[d].seen \subseteq Ids(calendar)' BY <2>1, <2>2 DEF Cleared
    <2>8. \A d \in Chats : offer'[d].source = "google" =>
            \A s \in offer'[d].slots, e \in Sent' : e.id \in offer'[d].seen => Free(s, e)
        <3> SUFFICES ASSUME NEW d \in Chats, offer'[d].source = "google", NEW s \in offer'[d].slots,
                            NEW e \in Sent', e.id \in offer'[d].seen
                     PROVE  Free(s, e)
            OBVIOUS
        <3>1. e.id \in Ids(calendar) BY <2>1 DEF Cleared
        <3>2. e \in Sent BY <2>5, <3>1
        <3> QED BY <2>1, <3>2 DEF Cleared
    <2>9. \A f \in Sent' : f.cleared \subseteq Ids(calendar)' BY <2>2, <2>6 DEF Cleared
    <2>10. \A e, f \in Sent' : e.id \in f.cleared => ~Overlaps(e.from, e.to, f.from, f.to)
        <3> SUFFICES ASSUME NEW e \in Sent', NEW f \in Sent', e.id \in f.cleared
                     PROVE  ~Overlaps(e.from, e.to, f.from, f.to)
            OBVIOUS
        <3>1. f \in Sent BY <2>6
        <3>2. e.id \in Ids(calendar) BY <3>1 DEF Cleared
        <3>3. e \in Sent BY <2>5, <3>2
        <3> QED BY <3>1, <3>3 DEF Cleared
    <2> QED BY <2>7, <2>8, <2>9, <2>10 DEF Cleared
<1>2. ASSUME NEW c \in Chats, Steps(c) PROVE Cleared' BY <1>2, ClearedStep
<1> QED BY <1>1, <1>2, StepCases DEF IInv

\* An event of the assistant collides with none that the search for its slot has seen, if the hours
\* of a day are configured in ascending order (booking.py:124 asks about the time from the first
\* candidate to the last); without that hypothesis it can.
THEOREM DoubleBookedByRace ==
    ASSUME HoursInOrder PROVE Spec => []DoubleBookedOnlyByRace
<1>1. Init => Cleared
    <2> SUFFICES ASSUME Init PROVE Cleared OBVIOUS
    <2>1. Sent = {} BY DEF Init, Sent
    <2>2. \A c \in Chats : offer[c].seen = {} /\ offer[c].source = "none" BY DEF Init, NoOffer
    <2> QED BY <2>1, <2>2 DEF Cleared
<1>2. IInv /\ Cleared /\ [Next]_vars => Cleared' BY ClearedNext
<1>3. Cleared => DoubleBookedOnlyByRace BY DEF Cleared, Sent, DoubleBookedOnlyByRace
<1> QED BY <1>1, <1>2, <1>3, Inductive, PTL DEF Spec
=============================================================================

------------------------------- MODULE Tools -------------------------------
(***************************************************************************)
(* The tools of the assistant (tools/): search_availability and            *)
(* book_appointment against the tenant's Google calendar, capture_lead and *)
(* escalate_to_human.  The calendar and the database have no transaction   *)
(* in common, nothing checks a slot again when it is booked, and any       *)
(* exception becomes {"ok": False} (registry.execute).                     *)
(*                                                                         *)
(* The tools node runs the calls of a turn one after the other, so a       *)
(* conversation has at most one call under way.  The model chooses which   *)
(* tool to call with which arguments.  One tenant, one calendar, to which  *)
(* the staff add events as well; events are not removed.                   *)
(***************************************************************************)
EXTENDS Slots

CONSTANTS
    Chats,          \* conversations with an assistant
    Starts,         \* values of starts_at the model passes
    StaffEvents,    \* events the staff may add: [id, from, to, cleared]
    Grace,          \* how far in the past starts_at may be
    Notices,        \* what is configured of "email" and "webhook"
    Clock,          \* bound: the times that are looked at
    MaxCalls,       \* bound: tool calls of a conversation
    Scripts         \* bound: which tools the model calls, Chats -> sequences of tools

Tool == {"search", "book", "lead", "escalate"}
Local == <<>>                        \* a reference made up from the row's own id
CallIds == Chats \X (1..MaxCalls)
EventIds == CallIds \cup {e.id : e \in StaffEvents}
Events == [id : EventIds, from : Int, to : Int, cleared : SUBSET EventIds]

ASSUME ToolsAssumption ==
    /\ Clock \subseteq Nat /\ 0 \in Clock
    /\ Starts \subseteq Nat
    /\ Grace \in Nat /\ MaxCalls \in Nat
    /\ Notices \subseteq {"email", "webhook"}
    /\ Scripts \subseteq [Chats -> UNION {[1..n -> Tool] : n \in 0..MaxCalls}]
    /\ \A e \in StaffEvents : e \in Events /\ e.id \notin CallIds /\ e.cleared = {}
    /\ \A e, f \in StaffEvents : e.id = f.id => e = f

VARIABLES
    script,      \* the tools the model is going to call
    now,
    connected,   \* a google_calendar credential is stored and can be decrypted
    calendar,    \* the events in the calendar
    flight,      \* inserts the calendar has not processed
    rows,        \* the appointments table
    deeds,       \* what capture_lead and escalate have committed: <<call, what>>
    calls,       \* per chat, how many calls it has begun
    pc, mem,     \* where its call is, with which locals
    offer,       \* the search result the chat saw last
    told,        \* the results of booking, lead and handoff calls
    broken       \* ghost: calls that met an exception, a lost answer or a crash

google == <<calendar, flight>>
tables == <<rows, deeds>>
vars == <<script, now, connected, google, tables, calls, pc, mem, offer, told, broken>>

Fresh == [tool |-> "search", at |-> 0, start |-> 0, source |-> "local"]
NoOffer == [source |-> "none", slots |-> {}, seen |-> {}]

Init ==
    /\ script \in Scripts
    /\ now = 0
    /\ connected \in BOOLEAN
    /\ calendar = {} /\ flight = {} /\ rows = {} /\ deeds = {}
    /\ calls = [c \in Chats |-> 0]
    /\ pc = [c \in Chats |-> "idle"]
    /\ mem = [c \in Chats |-> Fresh]
    /\ offer = [c \in Chats |-> NoOffer]
    /\ told = {} /\ broken = {}

Call(c) == <<c, calls[c]>>

Goto(c, from, to) == pc[c] = from /\ pc' = [pc EXCEPT ![c] = to]

Begin(c, tool) ==
    /\ calls[c] < Len(script[c])
    /\ script[c][calls[c] + 1] = tool
    /\ calls' = [calls EXCEPT ![c] = @ + 1]

Result(c, ok) ==
    [id |-> Call(c), tool |-> mem[c].tool, ok |-> ok, source |-> mem[c].source,
     start |-> mem[c].start]

\* The executor returns, and the model reads its result.
Return(c, results) ==
    /\ pc' = [pc EXCEPT ![c] = "idle"]
    /\ mem' = [mem EXCEPT ![c] = Fresh]
    /\ told' = told \cup results

-----------------------------------------------------------------------------
(* The world *)

Elapse(t) ==
    /\ t > now
    /\ now' = t
    /\ UNCHANGED <<script, connected, google, tables, calls, pc, mem, offer, told, broken>>

\* put_credential and remove_credential of the admin API; a new encryption key
\* makes the stored credential unreadable.
ChangeCredential ==
    /\ connected' = ~connected
    /\ UNCHANGED <<script, now, google, tables, calls, pc, mem, offer, told, broken>>

StaffBooks(e) ==
    /\ calendar' = calendar \cup {e}
    /\ UNCHANGED <<script, now, connected, flight, tables, calls, pc, mem, offer, told, broken>>

\* The calendar processes an insert, however late; or it refuses it, or the
\* request never gets there (no access token, no connection).
Accept(e) ==
    /\ calendar' = calendar \cup {e}
    /\ flight' = flight \ {e}
    /\ UNCHANGED <<script, now, connected, tables, calls, pc, mem, offer, told, broken>>

Refuse(e) ==
    /\ flight' = flight \ {e}
    /\ UNCHANGED <<script, now, connected, calendar, tables, calls, pc, mem, offer, told, broken>>

-----------------------------------------------------------------------------
(* search_availability *)

Page_Whole(C) == C
Page(C) == FirstOf(MaxSlots, C)

Offer(source, C, seen) ==
    [source |-> source, slots |-> {c.start : c \in Page(C)}, seen |-> {e.id : e \in seen}]

Show(c, o) == offer' = [offer EXCEPT ![c] = o]

Search(c) ==
    /\ Begin(c, "search")
    /\ pc[c] = "idle"
    /\ IF CandidateStarts(now) = {}
       THEN Show(c, Offer("hours", {}, {})) /\ UNCHANGED <<pc, mem>>
       ELSE /\ Goto(c, "idle", "search_creds")
            /\ mem' = [mem EXCEPT ![c].at = now]
            /\ UNCHANGED offer
    /\ UNCHANGED <<script, now, connected, google, tables, told, broken>>

Candidates(c) == CandidateStarts(mem[c].at)

\* Opening hours instead of availability, marked degraded: no credential, or
\* GoogleCalendarError, httpx.HTTPError, OSError.
Degrade(c) ==
    /\ \/ pc[c] = "search_creds" /\ ~connected
       \/ pc[c] = "freebusy"
    /\ Show(c, Offer("hours", Candidates(c), {}))
    /\ Return(c, {})
    /\ UNCHANGED <<script, now, connected, google, tables, calls, broken>>

AskCalendar(c) ==
    /\ connected
    /\ Goto(c, "search_creds", "freebusy")
    /\ UNCHANGED <<script, now, connected, google, tables, calls, mem, offer, told, broken>>

FreeBusy(c) ==
    /\ pc[c] = "freebusy"
    /\ CanAsk(Candidates(c))
    /\ Show(c, Offer("google", SubtractBusy(Candidates(c), Busy(calendar, Candidates(c))), calendar))
    /\ Return(c, {})
    /\ UNCHANGED <<script, now, connected, google, tables, calls, broken>>

-----------------------------------------------------------------------------
(* book_appointment *)

\* starts_at is too long ago.  One that is not a date gets the same result.
RejectStart(c, s) ==
    /\ Begin(c, "book")
    /\ pc[c] = "idle"
    /\ s < now - Grace
    /\ told' = told \cup {[id |-> <<c, calls'[c]>>, tool |-> "book", ok |-> FALSE,
                           source |-> "local", start |-> s]}
    /\ UNCHANGED <<script, now, connected, google, tables, pc, mem, offer, broken>>

Book(c, s) ==
    /\ Begin(c, "book")
    /\ Goto(c, "idle", "book_creds")
    /\ s >= now - Grace
    /\ mem' = [mem EXCEPT ![c].tool = "book", ![c].start = s]
    /\ UNCHANGED <<script, now, connected, google, tables, offer, told, broken>>

\* The event, with (ghost) the events it cannot collide with if the calendar's
\* answer to the search is to be believed.
NewEvent(c) ==
    [id |-> Call(c), from |-> mem[c].start, to |-> mem[c].start + SlotLen,
     cleared |-> IF offer[c].source = "google" /\ mem[c].start \in offer[c].slots
                 THEN offer[c].seen ELSE {}]

SendInsert(c) ==
    /\ connected
    /\ Goto(c, "book_creds", "inserting")
    /\ flight' = flight \cup {NewEvent(c)}
    /\ UNCHANGED <<script, now, connected, calendar, tables, calls, mem, offer, told, broken>>

NoCalendar(c) ==
    /\ ~connected
    /\ Goto(c, "book_creds", "row")
    /\ UNCHANGED <<script, now, connected, google, tables, calls, mem, offer, told, broken>>

Created(c) == Call(c) \in {e.id : e \in calendar}

Inserted(c) ==
    /\ Created(c)
    /\ Goto(c, "inserting", "row")
    /\ mem' = [mem EXCEPT ![c].source = "google"]
    /\ UNCHANGED <<script, now, connected, google, tables, calls, offer, told, broken>>

\* An error status, a timeout or a broken connection, whatever became of the
\* request.
InsertFails(c) ==
    /\ Goto(c, "inserting", "row")
    /\ mem' = [mem EXCEPT ![c].source = "local_after_calendar_error"]
    /\ broken' = broken \cup {Call(c)}
    /\ UNCHANGED <<script, now, connected, google, tables, calls, offer, told>>

Reference_Local(c) == Local
Reference(c) == IF mem[c].source = "google" THEN Call(c) ELSE Local

CommitRow(c) ==
    /\ Goto(c, "row", "plan")
    /\ rows' = rows \cup {[id |-> Call(c), start |-> mem[c].start, ref |-> Reference(c)]}
    /\ UNCHANGED <<script, now, connected, google, deeds, calls, mem, offer, told, broken>>

AfterPlanning_MayRaise == BOOLEAN
\* Reminders are planned (see Reminders); what goes wrong there is swallowed.
AfterPlanning == {TRUE}

Confirm(c) ==
    /\ pc[c] = "plan"
    /\ \E ok \in AfterPlanning : Return(c, {Result(c, ok)})
    /\ UNCHANGED <<script, now, connected, google, tables, calls, offer, broken>>

-----------------------------------------------------------------------------
(* capture_lead and escalate_to_human *)

\* No fields to capture.
RejectLead(c) ==
    /\ Begin(c, "lead")
    /\ pc[c] = "idle"
    /\ told' = told \cup {[id |-> <<c, calls'[c]>>, tool |-> "lead", ok |-> FALSE,
                           source |-> "local", start |-> 0]}
    /\ UNCHANGED <<script, now, connected, google, tables, pc, mem, offer, broken>>

StartNotice(c, tool) ==
    /\ Begin(c, tool)
    /\ Goto(c, "idle", "record")
    /\ mem' = [mem EXCEPT ![c].tool = tool]
    /\ UNCHANGED <<script, now, connected, google, tables, offer, told, broken>>

Did(c, what) == deeds' = deeds \cup {<<Call(c), what>>}

\* The lead, or the status of the conversation.
Record(c) ==
    /\ Goto(c, "record", "email")
    /\ Did(c, "record")
    /\ UNCHANGED <<script, now, connected, google, rows, calls, mem, offer, told, broken>>

\* escalate finds its conversation gone (see Turns) and goes on without.
SkipRecord(c) ==
    /\ mem[c].tool = "escalate"
    /\ Goto(c, "record", "email")
    /\ UNCHANGED <<script, now, connected, google, tables, calls, mem, offer, told, broken>>

QueueEmail(c) ==
    /\ Goto(c, "email", "webhook")
    /\ IF "email" \in Notices THEN Did(c, "email") ELSE UNCHANGED deeds
    /\ UNCHANGED <<script, now, connected, google, rows, calls, mem, offer, told, broken>>

QueueWebhook(c) ==
    /\ pc[c] = "webhook"
    /\ IF "webhook" \in Notices THEN Did(c, "webhook") ELSE UNCHANGED deeds
    /\ Return(c, {Result(c, TRUE)})
    /\ UNCHANGED <<script, now, connected, google, rows, calls, offer, broken>>

-----------------------------------------------------------------------------
(* What can go wrong in every tool *)

\* A database error, a template that does not fit, an answer that is not JSON:
\* registry.execute reports the exception.
Raise(c) ==
    /\ pc[c] \notin {"idle", "plan"}
    /\ broken' = broken \cup {Call(c)}
    /\ Return(c, IF mem[c].tool = "search" THEN {} ELSE {Result(c, FALSE)})
    /\ UNCHANGED <<script, now, connected, google, tables, calls, offer>>

\* The process dies; the visitor writes again.
Crash(c) ==
    /\ pc[c] # "idle"
    /\ broken' = broken \cup {Call(c)}
    /\ Return(c, {})
    /\ UNCHANGED <<script, now, connected, google, tables, calls, offer>>

-----------------------------------------------------------------------------
Execute(c) ==
    \/ Search(c) \/ Degrade(c) \/ AskCalendar(c) \/ FreeBusy(c)
    \/ \E s \in Starts : RejectStart(c, s) \/ Book(c, s)
    \/ SendInsert(c) \/ NoCalendar(c) \/ Inserted(c) \/ InsertFails(c)
    \/ CommitRow(c) \/ Confirm(c)
    \/ RejectLead(c) \/ \E tool \in {"lead", "escalate"} : StartNotice(c, tool)
    \/ Record(c) \/ SkipRecord(c) \/ QueueEmail(c) \/ QueueWebhook(c)
    \/ Raise(c) \/ Crash(c)

Next ==
    \/ \E c \in Chats : Execute(c)
    \/ \E t \in Clock : Elapse(t)
    \/ ChangeCredential
    \/ \E e \in StaffEvents : StaffBooks(e)
    \/ \E e \in flight : Accept(e) \/ Refuse(e)

Spec == Init /\ [][Next]_vars

-----------------------------------------------------------------------------
(* Properties *)

\* Every variable has its type, and no offer shows more than a page.
TypeOK ==
    /\ script \in Scripts /\ now \in Clock /\ connected \in BOOLEAN
    /\ calendar \subseteq Events /\ flight \subseteq Events
    /\ rows \subseteq [id : CallIds, start : Starts, ref : CallIds \cup {Local}]
    /\ deeds \subseteq CallIds \X {"record", "email", "webhook"}
    /\ calls \in [Chats -> 0..MaxCalls]
    /\ pc \in [Chats -> {"idle", "search_creds", "freebusy", "book_creds", "inserting", "row",
                         "plan", "record", "email", "webhook"}]
    /\ mem \in [Chats -> [tool : Tool, at : Clock, start : Starts \cup {0},
                          source : {"local", "google", "local_after_calendar_error"}]]
    /\ \A c \in Chats :
        /\ offer[c].source \in {"none", "hours", "google"}
        /\ Cardinality(offer[c].slots) <= MaxSlots
        /\ offer[c].seen \subseteq EventIds
    /\ broken \subseteq CallIds

Row(id) == {r \in rows : r.id = id}

\* "The model never announces a calendar it did not actually write to"
\* (booking.py:6): what a result says is so.  A booking reported as google has
\* its event and a row that refers to it, any other booking a row of its own,
\* a failed one no row that reminders would be sent for; a lead or a handoff
\* reported as done has been stored and everyone has been notified.
TruthfulReport ==
    \A t \in told :
        /\ t.tool = "book" /\ t.ok =>
            \E r \in rows :
                /\ r.id = t.id /\ r.start = t.start
                /\ IF t.source = "google"
                   THEN r.ref = t.id /\ \E e \in calendar : e.id = t.id /\ e.from = t.start
                   ELSE r.ref = Local
        /\ t.tool = "book" /\ ~t.ok => Row(t.id) = {}
        /\ t.tool = "lead" /\ t.ok => <<t.id, "record">> \in deeds
        /\ t.tool \in {"lead", "escalate"} /\ t.ok => \A n \in Notices : <<t.id, n>> \in deeds

Over(id) == pc[id[1]] = "idle" \/ calls[id[1]] # id[2]

\* Calendar and table agree, although no transaction spans them: an event the
\* assistant added has an appointment that refers to it, unless its call met an
\* exception, a lost answer or a crash; and no appointment refers to nothing.
OrphansOnlyByFailure ==
    /\ \A e \in calendar :
        e.id \in CallIds /\ Over(e.id) /\ e.id \notin broken => \E r \in Row(e.id) : r.ref = e.id
    /\ \A r \in rows : r.ref # Local => \E e \in calendar : e.id = r.ref

\* Nothing but the search protects a slot: an appointment may collide with
\* another one, but never with an event that was in the calendar when a search
\* offered its slot as confirmed.
DoubleBookedOnlyByRace ==
    \A e, f \in calendar : e.id \in f.cleared => ~Overlaps(e.from, e.to, f.from, f.to)

\* scheduling.py:104: "Drop candidates whose slot (plus buffer) collides with a
\* busy block."
OfferKeepsBuffer ==
    \A c \in Chats : offer[c].source = "google" =>
        \A s \in offer[c].slots, e \in calendar :
            e.id \in offer[c].seen => ~Overlaps(s - Buffer, s + SlotLen + Buffer, e.from, e.to)
=============================================================================

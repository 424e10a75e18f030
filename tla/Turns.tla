------------------------------- MODULE Turns -------------------------------
(***************************************************************************)
(* What concurrent chat requests do to the database: the WhatsApp dedupe,  *)
(* the token budget, the conversation row, the transcript, the intake and  *)
(* the roll-up of usage (api/chat.py, api/whatsapp.py, services/turn.py,   *)
(* services/tenants.py), beside the retention purge.  The graph itself is  *)
(* TurnGraph; here it is one step that costs tokens and may capture a      *)
(* fact.  conversations.status is left out: it is only ever set to         *)
(* 'escalated'.                                                            *)
(*                                                                         *)
(* Postgres runs at READ COMMITTED: a SELECT and the COMMIT of the same    *)
(* transaction are separate steps, and an ORM object is written back from  *)
(* the values the SELECT loaded.  One tenant; a conversation is named      *)
(* after the request that created it.                                      *)
(***************************************************************************)
EXTENDS Naturals, FiniteSets

CONSTANTS
    Requests,     \* inbound HTTP requests, each handled once
    Sessions,
    Sids,         \* Twilio MessageSids; the retries of a message share one
    Web,          \* instead of a MessageSid: the request is not from Twilio
    Traffic,      \* the requests that may arrive together: Requests -> [sid, session]
    None,         \* no conversation
    Budget,       \* monthly_token_budget
    MaxCost       \* bound on the tokens of one turn

ASSUME TurnsAssumption ==
    /\ IsFiniteSet(Requests)
    /\ Traffic \subseteq [Requests -> [sid : Sids \cup {Web}, session : Sessions]]
    /\ None \notin Requests
    /\ Budget \in Nat \ {0}
    /\ MaxCost \in Nat

VARIABLES
    input,       \* what the requests carry
    used,        \* tenants.tokens_used_period
    expired,     \* period_started_at is more than 31 days ago
    inbox,       \* inbound_messages.provider_sid
    conv,        \* the conversation of each session, None without a row
    asked,       \* per conversation, the requests whose user message it holds
    answered,    \* per conversation, the requests whose reply it holds
    intake,      \* conversations.intake: the facts, named after who captured them
    pc,          \* where each request is
    replied,     \* the requests whose client got the reply of the turn
    at,          \* the conversation it found or created
    mem,         \* its other locals: the tenant's usage, the age of the period and
                 \* the intake as loaded, its own facts, the cost of its graph run
    stale,       \* ghost: some transaction has overwritten usage it had not read
    bill,        \* ghost: tokens of the turns closed in this period
    peak,        \* ghost: the most requests ever past their read of the tenant at once
    captured,    \* ghost: requests whose turn captured a fact
    overlaps     \* ghost: the requests of its session that were open beside it

tenantRow == <<used, expired>>
convRows == <<conv, asked, answered, intake>>
control == <<pc, replied, mem, at>>
ghosts == <<stale, bill, peak, captured, overlaps>>
vars == <<input, tenantRow, inbox, convRows, control, ghosts>>

Fresh == [used |-> 0, expired |-> FALSE, intake |-> {}, facts |-> {}, cost |-> 0]

Sid(r) == input[r].sid
Session(r) == input[r].session

Init ==
    /\ input \in Traffic
    /\ used = 0 /\ expired = FALSE
    /\ inbox = {}
    /\ conv = [s \in Sessions |-> None]
    /\ asked = [c \in Requests |-> {}]
    /\ answered = [c \in Requests |-> {}]
    /\ intake = [c \in Requests |-> {}]
    /\ pc = [r \in Requests |-> IF Sid(r) = Web THEN "arrived" ELSE "dedupe"]
    /\ replied = {}
    /\ at = [r \in Requests |-> None]
    /\ mem = [r \in Requests |-> Fresh]
    /\ stale = FALSE /\ bill = 0 /\ peak = 0 /\ captured = {}
    /\ overlaps = [r \in Requests |-> {}]

Step(r, from, to) ==
    /\ pc[r] = from
    /\ pc' = [pc EXCEPT ![r] = to]
    /\ UNCHANGED replied

End(r) ==
    /\ pc' = [pc EXCEPT ![r] = "closed"]
    /\ mem' = [mem EXCEPT ![r] = Fresh]

\* A refusal, the friendly error, an empty TwiML, or nothing at all.
NoAnswer(r) == End(r) /\ UNCHANGED replied

-----------------------------------------------------------------------------
(* Admission *)

AlreadyHere_Never(r) == FALSE
AlreadyHere(r) == Sid(r) \in inbox

\* twilio_inbound: the MessageSid is committed before anything else is done.
Dedupe(r) ==
    /\ pc[r] = "dedupe"
    /\ \/ /\ AlreadyHere(r)
          /\ NoAnswer(r)
          /\ UNCHANGED inbox
       \/ /\ ~AlreadyHere(r)
          /\ Step(r, "dedupe", "arrived")
          /\ inbox' = inbox \cup {Sid(r)}
          /\ UNCHANGED mem
    /\ UNCHANGED <<input, tenantRow, convRows, at, ghosts>>

\* Rate limits, an unknown key or origin, a paused tenant, an empty body.
TurnAway(r) ==
    /\ pc[r] = "arrived"
    /\ NoAnswer(r)
    /\ UNCHANGED <<input, tenantRow, inbox, convRows, at, ghosts>>

InFlight(p) == {r \in Requests : p[r] \notin {"dedupe", "arrived", "closed"}}

\* resolve_tenant loads the tenant row.
ReadTenant(r) ==
    /\ Step(r, "arrived", "budget")
    /\ mem' = [mem EXCEPT ![r].used = used, ![r].expired = expired]
    /\ peak' = IF Cardinality(InFlight(pc')) > peak THEN Cardinality(InFlight(pc')) ELSE peak
    /\ UNCHANGED <<input, tenantRow, inbox, convRows, at, stale, bill, captured, overlaps>>

OverBudget_OneMore(r) == mem[r].used > Budget
OverBudget(r) == mem[r].used >= Budget

\* check_budget and the commit, within the period.  Refusing rolls back the
\* transaction, status = 'over_budget' with it.
CheckBudget(r) ==
    /\ pc[r] = "budget"
    /\ ~mem[r].expired
    /\ IF OverBudget(r) THEN NoAnswer(r)
       ELSE Step(r, "budget", "open") /\ UNCHANGED mem
    /\ UNCHANGED <<input, tenantRow, inbox, convRows, at, ghosts>>

\* check_budget in an expired period starts a new one.  A second request that
\* read the old row does so again; a count loaded as zero is not written.
ResetPeriod(r) ==
    /\ Step(r, "budget", "open")
    /\ mem[r].expired
    /\ expired' = FALSE
    /\ used' = IF mem[r].used = 0 THEN used ELSE 0
    /\ bill' = IF expired THEN 0 ELSE bill
    /\ stale' = (stale \/ used # mem[r].used \/ ~expired)
    /\ UNCHANGED <<input, inbox, convRows, at, mem, peak, captured, overlaps>>

PeriodEnds ==
    /\ ~expired
    /\ expired' = TRUE
    /\ UNCHANGED <<input, used, inbox, convRows, control, ghosts>>

-----------------------------------------------------------------------------
(* open_turn *)

Open(r) == pc[r] \in {"persist", "run", "close", "commit"}
Beside(r) == {q \in Requests \ {r} : Open(q) /\ Session(q) = Session(r)}

\* Consent is needed and missing; a WhatsApp message is consent.
RefuseConsent(r) ==
    /\ pc[r] = "open"
    /\ Sid(r) = Web
    /\ NoAnswer(r)
    /\ UNCHANGED <<input, tenantRow, inbox, convRows, at, ghosts>>

\* The SELECT of get_or_create_conversation, with the intake it loads.
LookUp(r) ==
    /\ Step(r, "open", "persist")
    /\ at' = [at EXCEPT ![r] = conv[Session(r)]]
    /\ mem' = [mem EXCEPT ![r].facts = IF at'[r] = None THEN {} ELSE intake[at'[r]]]
    /\ overlaps' = [q \in Requests |->
                        IF q = r THEN Beside(r)
                        ELSE IF q \in Beside(r) THEN overlaps[q] \cup {r} ELSE overlaps[q]]
    /\ UNCHANGED <<input, tenantRow, inbox, convRows, stale, bill, peak, captured>>

\* The row it found is still there, or no row has appeared since.
Current(r) == conv[Session(r)] = at[r]

Named_AsFound(r) == at[r]
\* A new conversation is named after the request that creates it.
Named(r) == IF at[r] = None THEN r ELSE at[r]

\* The commit of the conversation, if it is new, and of the visitor's message.
PersistQuestion(r) ==
    /\ Step(r, "persist", "run")
    /\ Current(r)
    /\ at' = [at EXCEPT ![r] = Named(r)]
    /\ conv' = [conv EXCEPT ![Session(r)] = Named(r)]
    /\ asked' = [asked EXCEPT ![Named(r)] = @ \cup {r}]
    /\ UNCHANGED <<input, tenantRow, inbox, answered, intake, mem, ghosts>>

\* uq_conv_tenant_session or the foreign key of messages is violated: HTTP 500
\* from chat and chat_stream, silence from twilio_inbound.
PersistFails(r) ==
    /\ pc[r] = "persist"
    /\ ~Current(r)
    /\ NoAnswer(r)
    /\ UNCHANGED <<input, tenantRow, inbox, convRows, at, ghosts>>

-----------------------------------------------------------------------------
(* The graph, and close_turn *)

RunGraph(r) ==
    /\ Step(r, "run", "close")
    /\ captured' \in {captured, captured \cup {r}}
    /\ \E n \in 0..MaxCost :
        mem' = [mem EXCEPT ![r].cost = n, ![r].facts = @ \cup (captured' \cap {r})]
    /\ UNCHANGED <<input, tenantRow, inbox, conv, asked, answered, intake, at, stale, bill, peak, overlaps>>

\* close_turn loads the conversation and the tenant.
LoadForClose(r) ==
    /\ Step(r, "close", "commit")
    /\ mem' = [mem EXCEPT ![r].used = used, ![r].intake = intake[at[r]]]
    /\ UNCHANGED <<input, tenantRow, inbox, convRows, at, ghosts>>

StillThere_Unchecked(r) == TRUE
\* Without its conversation the reply violates a foreign key.
StillThere(r) == Current(r)

NewIntake_Own(r) == mem[r].facts \cap {r}
\* The ORM writes intake only if it differs from what was loaded.
NewIntake(r) == IF mem[r].facts = mem[r].intake THEN intake[at[r]] ELSE mem[r].facts

NewUsed_Replace(r) == mem[r].cost
NewUsed(r) == IF mem[r].cost = 0 THEN used ELSE mem[r].used + mem[r].cost

CommitReply(r) ==
    /\ pc[r] = "commit"
    /\ StillThere(r)
    /\ End(r)
    /\ replied' = replied \cup {r}
    /\ answered' = [answered EXCEPT ![at[r]] = @ \cup {r}]
    /\ intake' = [intake EXCEPT ![at[r]] = NewIntake(r)]
    /\ used' = NewUsed(r)
    /\ bill' = bill + mem[r].cost
    /\ stale' = (stale \/ (mem[r].cost # 0 /\ used # mem[r].used))
    /\ UNCHANGED <<input, expired, inbox, conv, asked, at, peak, captured, overlaps>>

CommitFails(r) ==
    /\ pc[r] = "commit"
    /\ ~StillThere(r)
    /\ NoAnswer(r)
    /\ UNCHANGED <<input, tenantRow, inbox, convRows, at, ghosts>>

\* The process dies, the client drops its stream, or an exception is caught
\* after open_turn.  An open transaction rolls back; what the turn has cost is
\* never recorded.
Abort(r) ==
    /\ pc[r] # "closed"
    /\ NoAnswer(r)
    /\ UNCHANGED <<input, tenantRow, inbox, convRows, at, ghosts>>

\* purge_tenant goes by created_at: the conversation is past the window (the
\* request that created it ended long ago), not necessarily quiet.
Purge(s) ==
    /\ conv[s] # None
    /\ pc[conv[s]] = "closed"
    /\ conv' = [conv EXCEPT ![s] = None]
    /\ asked' = [asked EXCEPT ![conv[s]] = {}]
    /\ answered' = [answered EXCEPT ![conv[s]] = {}]
    /\ intake' = [intake EXCEPT ![conv[s]] = {}]
    /\ UNCHANGED <<input, tenantRow, inbox, control, ghosts>>

-----------------------------------------------------------------------------
Handle(r) ==
    \/ Dedupe(r) \/ TurnAway(r) \/ ReadTenant(r) \/ CheckBudget(r) \/ ResetPeriod(r)
    \/ RefuseConsent(r) \/ LookUp(r) \/ PersistQuestion(r) \/ PersistFails(r)
    \/ RunGraph(r) \/ LoadForClose(r) \/ CommitReply(r) \/ CommitFails(r) \/ Abort(r)

Next ==
    \/ \E r \in Requests : Handle(r)
    \/ \E s \in Sessions : Purge(s)
    \/ PeriodEnds

Spec == Init /\ [][Next]_vars

-----------------------------------------------------------------------------
(* Properties *)

\* Every variable has its type, and a turn past open_turn has a conversation.
TypeOK ==
    /\ input \in Traffic
    /\ used \in Nat /\ expired \in BOOLEAN
    /\ inbox \subseteq {Sid(r) : r \in Requests}
    /\ conv \in [Sessions -> Requests \cup {None}]
    /\ {asked, answered, intake, overlaps} \subseteq [Requests -> SUBSET Requests]
    /\ captured \subseteq Requests
    /\ pc \in [Requests -> {"dedupe", "arrived", "budget", "open", "persist", "run", "close",
                            "commit", "closed"}]
    /\ replied \subseteq Requests
    /\ at \in [Requests -> Requests \cup {None}]
    /\ \A r \in Requests : pc[r] \in {"run", "close", "commit"} => at[r] # None
    /\ \A r \in Requests : mem[r] \in [used : Nat, expired : BOOLEAN, intake : SUBSET Requests,
                                      facts : SUBSET Requests, cost : 0..MaxCost]
    /\ stale \in BOOLEAN /\ bill \in Nat /\ peak \in 0..Cardinality(Requests)

\* However often Twilio retries, and however the retries interleave, at most one
\* of them reaches the model.
RanFor(m) == {r \in Requests : Sid(r) = m /\ r \in UNION {asked[c] : c \in Requests}}
OneTurnPerMessage == \A r \in Requests : Sid(r) # Web => Cardinality(RanFor(Sid(r))) <= 1

\* Transcripts stay whole under concurrent turns and purges: messages belong to
\* the session's current conversation, no reply without its question, and a
\* client that got a reply finds it on record, unless the conversation
\* has been purged since.
TranscriptsWhole ==
    /\ \A c \in Requests :
        /\ answered[c] \subseteq asked[c]
        /\ \A r \in asked[c] : conv[Session(r)] = c
    /\ \A r \in Requests : r \in replied /\ Current(r) =>
        r \in answered[at[r]]

\* Usage is rolled up exactly, as long as no two transactions on the tenant's
\* row overlap.
UsageExact == ~stale => used = bill

\* What the budget really bounds: the turns already under way when it is used
\* up, each for the cost of one turn.
OverspendBounded == ~stale => used <= Budget - 1 + MaxCost * peak

\* A fact a turn captured stays in its conversation's intake, unless another
\* turn of the same visitor was under way beside it.
IntakeLostOnlyByOverlap ==
    \A r \in Requests :
        r \in replied /\ r \in captured /\ Current(r) =>
            r \in intake[at[r]] \/ overlaps[r] # {}
=============================================================================

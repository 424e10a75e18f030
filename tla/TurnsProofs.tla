---------------------------- MODULE TurnsProofs ----------------------------
(***************************************************************************)
(* Theorems about Turns for any number of requests, sessions and messages, *)
(* any budget and any cost of a turn.                                      *)
(*                                                                         *)
(* The inductive invariant has five parts: Typed; Once, about admission;   *)
(* Homes and Whole, about conversations and their transcripts; Bounded,    *)
(* about the budget; Met and Remembered, about the intake.                 *)
(***************************************************************************)
EXTENDS Turns, FiniteSetTheorems, TLAPS

Mems == [used : Nat, expired : BOOLEAN, intake : SUBSET Requests, facts : SUBSET Requests,
         cost : 0..MaxCost]
Typed == TypeOK /\ mem \in [Requests -> Mems]

\* A MessageSid is in the inbox before a request with it gets anywhere, and only
\* one such request does.
Admitted(r) == pc[r] \notin {"dedupe", "closed"} \/ \E c \in Requests : r \in asked[c]
Once ==
    \A r \in Requests : Sid(r) # Web /\ Admitted(r) =>
        Sid(r) \in inbox /\ \A q \in Requests : Admitted(q) /\ Sid(q) = Sid(r) => q = r

\* A conversation belongs to the session of the request it is named after, which
\* is past creating it; a client has its reply at the end of its request.
Past == {"run", "close", "commit", "closed"}
Homes ==
    /\ \A r \in Requests : at[r] # None => pc[at[r]] \in Past /\ Session(at[r]) = Session(r)
    /\ \A s \in Sessions : conv[s] # None => pc[conv[s]] \in Past /\ Session(conv[s]) = s
    /\ \A r \in replied : pc[r] = "closed" /\ at[r] # None

\* TranscriptsWhole, and the question of a turn under way is on record.
Whole ==
    /\ TranscriptsWhole
    /\ \A r \in Requests : pc[r] \in {"run", "close", "commit"} /\ Current(r) => r \in asked[at[r]]

\* The requests that will be let through to the graph.
Riding == {r \in Requests : \/ pc[r] \in {"open", "persist", "run", "close", "commit"}
                            \/ pc[r] = "budget" /\ ~mem[r].expired /\ mem[r].used < Budget}

\* Each of them may still add MaxCost to what has been used.
Bounded ==
    /\ Cardinality(InFlight(pc)) <= peak
    /\ ~stale => /\ used = bill
                 /\ used + MaxCost * Cardinality(Riding) <= Budget - 1 + MaxCost * peak

\* Two turns of one visitor that are open together have met.
Met ==
    \A r, q \in Requests :
        Open(r) /\ Open(q) /\ r # q /\ Session(r) = Session(q) => overlaps[r] # {}

\* Facts are learnt from replied turns only; what a turn that met no other has
\* captured is in the intake, and in what later turns know of it.
Remembered ==
    /\ \A r \in captured : /\ pc[r] \in {"close", "commit", "closed"}
                           /\ pc[r] # "closed" => r \in mem[r].facts
    /\ \A r \in Requests : /\ intake[r] \subseteq replied
                           /\ mem[r].facts \subseteq replied \cup {r}
                           /\ mem[r].intake \subseteq replied
    /\ \A r \in replied \cap captured : overlaps[r] = {} /\ Current(r) =>
            /\ r \in intake[at[r]]
            /\ \A q \in Requests : Open(q) /\ at[q] = at[r] => r \in mem[q].facts

IInv == Typed /\ Once /\ Homes /\ Whole /\ Bounded /\ Met /\ Remembered

-----------------------------------------------------------------------------
(* What the steps do, request by request *)

Others(r) == \A q \in Requests \ {r} : pc'[q] = pc[q] /\ at'[q] = at[q] /\ mem'[q] = mem[q]

\* What the steps assign in the locals of a request.
WithTenant(m, n, old) == [m EXCEPT !.used = n, !.expired = old]
WithFacts(m, S) == [m EXCEPT !.facts = S]
WithRun(m, n, S) == [m EXCEPT !.cost = n, !.facts = @ \cup S]
WithRows(m, n, S) == [m EXCEPT !.used = n, !.intake = S]

\* A request that is refused, dropped or aborted, wherever it is.
Leaves(r) ==
    /\ pc[r] # "closed" /\ pc'[r] = "closed" /\ mem'[r] = Fresh /\ at'[r] = at[r] /\ Others(r)
    /\ UNCHANGED <<input, used, expired, inbox, conv, asked, answered, intake, replied,
                   stale, bill, peak, captured, overlaps>>

\* A request that passes a check, leaving nothing but a MessageSid.
Passes(r, from, to) ==
    /\ pc[r] = from /\ pc'[r] = to /\ mem'[r] = mem[r] /\ at'[r] = at[r] /\ Others(r)
    /\ UNCHANGED <<input, used, expired, conv, asked, answered, intake, replied,
                   stale, bill, peak, captured, overlaps>>

LEMMA InputType ==
    ASSUME Typed, NEW r \in Requests PROVE Session(r) \in Sessions /\ Sid(r) \in Sids \cup {Web}
BY TurnsAssumption DEF Typed, TypeOK, Session, Sid

LEMMA EndEffect ==
    ASSUME Typed, NEW r \in Requests, End(r)
    PROVE  /\ pc'[r] = "closed" /\ mem'[r] = Fresh
           /\ \A q \in Requests \ {r} : pc'[q] = pc[q] /\ mem'[q] = mem[q]
BY DEF End, Typed, TypeOK

LEMMA StepEffect ==
    ASSUME Typed, NEW r \in Requests, NEW from, NEW to, Step(r, from, to)
    PROVE  /\ pc[r] = from /\ pc'[r] = to /\ replied' = replied
           /\ \A q \in Requests \ {r} : pc'[q] = pc[q]
BY DEF Step, Typed, TypeOK

LEMMA DedupeEffect ==
    ASSUME Typed, NEW r \in Requests, Dedupe(r)
    PROVE  \/ Leaves(r)
           \/ /\ Passes(r, "dedupe", "arrived")
              /\ Sid(r) \notin inbox /\ inbox' = inbox \cup {Sid(r)}
<1> USE DEF Dedupe, NoAnswer, AlreadyHere, tenantRow, convRows, ghosts
<1>1. CASE AlreadyHere(r) BY <1>1, EndEffect DEF Leaves, Others
<1>2. CASE ~AlreadyHere(r) BY <1>2, StepEffect DEF Passes, Others
<1> QED BY <1>1, <1>2

LEMMA CheckEffect ==
    ASSUME Typed, NEW r \in Requests, CheckBudget(r)
    PROVE  \/ Leaves(r)
           \/ /\ Passes(r, "budget", "open") /\ inbox' = inbox
              /\ ~mem[r].expired /\ mem[r].used < Budget
<1> USE DEF CheckBudget, NoAnswer, OverBudget, tenantRow, convRows, ghosts
<1>1. CASE OverBudget(r) BY <1>1, EndEffect DEF Leaves, Others
<1>2. CASE ~OverBudget(r)
    <2>1. mem[r].used \in Nat /\ Budget \in Nat BY TurnsAssumption DEF Typed, Mems
    <2> QED BY <1>2, <2>1, StepEffect DEF Passes, Others
<1> QED BY <1>1, <1>2

LEMMA LeaveEffect ==
    ASSUME Typed, NEW r \in Requests,
           TurnAway(r) \/ RefuseConsent(r) \/ PersistFails(r) \/ CommitFails(r) \/ Abort(r)
    PROVE  Leaves(r)
<1>1. /\ pc[r] # "closed" /\ End(r)
      /\ UNCHANGED <<replied, input, used, expired, inbox, conv, asked, answered, intake, at,
                     stale, bill, peak, captured, overlaps>>
    BY DEF TurnAway, RefuseConsent, PersistFails, CommitFails, Abort, NoAnswer, tenantRow, convRows, ghosts
<1> QED BY <1>1, EndEffect DEF Leaves, Others

\* A request reads the tenant row.
Reads(r) ==
    /\ pc[r] = "arrived" /\ pc'[r] = "budget" /\ at'[r] = at[r] /\ Others(r)
    /\ mem'[r] = WithTenant(mem[r], used, expired)
    /\ peak' = IF Cardinality(InFlight(pc')) > peak THEN Cardinality(InFlight(pc')) ELSE peak
    /\ UNCHANGED <<input, used, expired, inbox, conv, asked, answered, intake, replied,
                   stale, bill, captured, overlaps>>

LEMMA ReadEffect ==
    ASSUME Typed, NEW r \in Requests, ReadTenant(r) PROVE Reads(r)
<1>1. /\ Step(r, "arrived", "budget") /\ at' = at
      /\ mem' = [mem EXCEPT ![r].used = used, ![r].expired = expired]
      /\ UNCHANGED <<input, used, expired, inbox, conv, asked, answered, intake,
                     stale, bill, captured, overlaps>>
      /\ peak' = IF Cardinality(InFlight(pc')) > peak THEN Cardinality(InFlight(pc')) ELSE peak
    BY DEF ReadTenant, tenantRow, convRows
<1>2. /\ mem'[r] = WithTenant(mem[r], used, expired)
      /\ \A q \in Requests \ {r} : mem'[q] = mem[q]
    BY <1>1 DEF WithTenant, Typed
<1> QED BY <1>1, <1>2, StepEffect DEF Reads, Others

\* A request starts a new period.
Resets(r) ==
    /\ pc[r] = "budget" /\ pc'[r] = "open" /\ mem'[r] = mem[r] /\ at'[r] = at[r] /\ Others(r)
    /\ mem[r].expired
    /\ expired' = FALSE
    /\ used' = IF mem[r].used = 0 THEN used ELSE 0
    /\ bill' = IF expired THEN 0 ELSE bill
    /\ stale' = (stale \/ used # mem[r].used \/ ~expired)
    /\ UNCHANGED <<input, inbox, conv, asked, answered, intake, replied, peak, captured, overlaps>>

LEMMA ResetEffect ==
    ASSUME Typed, NEW r \in Requests, ResetPeriod(r) PROVE Resets(r)
BY StepEffect DEF ResetPeriod, Resets, Others, convRows

\* A request looks up its conversation and its intake.
Looks(r) ==
    /\ pc[r] = "open" /\ pc'[r] = "persist" /\ at'[r] = conv[Session(r)] /\ Others(r)
    /\ mem'[r] = WithFacts(mem[r], IF at'[r] = None THEN {} ELSE intake[at'[r]])
    /\ overlaps' = [q \in Requests |->
                        IF q = r THEN Beside(r)
                        ELSE IF q \in Beside(r) THEN overlaps[q] \cup {r} ELSE overlaps[q]]
    /\ UNCHANGED <<input, used, expired, inbox, conv, asked, answered, intake, replied,
                   stale, bill, peak, captured>>

LEMMA LookEffect ==
    ASSUME Typed, NEW r \in Requests, LookUp(r) PROVE Looks(r)
<1>1. /\ Step(r, "open", "persist") /\ at' = [at EXCEPT ![r] = conv[Session(r)]]
      /\ mem' = [mem EXCEPT ![r].facts = IF at'[r] = None THEN {} ELSE intake[at'[r]]]
      /\ overlaps' = [q \in Requests |->
                        IF q = r THEN Beside(r)
                        ELSE IF q \in Beside(r) THEN overlaps[q] \cup {r} ELSE overlaps[q]]
      /\ UNCHANGED <<input, used, expired, inbox, conv, asked, answered, intake,
                     stale, bill, peak, captured>>
    BY DEF LookUp, tenantRow, convRows
<1>2. /\ mem'[r] = WithFacts(mem[r], IF at'[r] = None THEN {} ELSE intake[at'[r]])
      /\ \A q \in Requests \ {r} : mem'[q] = mem[q] /\ at'[q] = at[q]
      /\ at'[r] = conv[Session(r)]
    BY <1>1 DEF WithFacts, Typed, TypeOK
<1> QED BY <1>1, <1>2, StepEffect DEF Looks, Others

\* A question is committed, with its conversation.
Asks(r) ==
    /\ pc[r] = "persist" /\ pc'[r] = "run" /\ mem'[r] = mem[r] /\ at'[r] = Named(r) /\ Others(r)
    /\ Current(r)
    /\ conv' = [conv EXCEPT ![Session(r)] = Named(r)]
    /\ asked' = [asked EXCEPT ![Named(r)] = @ \cup {r}]
    /\ UNCHANGED <<input, used, expired, inbox, answered, intake, replied,
                   stale, bill, peak, captured, overlaps>>

LEMMA AskEffect ==
    ASSUME Typed, NEW r \in Requests, PersistQuestion(r) PROVE Asks(r)
<1>1. /\ Step(r, "persist", "run") /\ at' = [at EXCEPT ![r] = Named(r)] /\ mem' = mem
      /\ UNCHANGED <<input, used, expired, inbox, answered, intake, stale, bill, peak, captured, overlaps>>
    BY DEF PersistQuestion, tenantRow, ghosts
<1>2. at'[r] = Named(r) /\ \A q \in Requests \ {r} : at'[q] = at[q] BY <1>1 DEF Typed, TypeOK
<1> QED BY <1>1, <1>2, StepEffect DEF PersistQuestion, Asks, Others

\* A graph runs.
Runs(r) ==
    /\ pc[r] = "run" /\ pc'[r] = "close" /\ at'[r] = at[r] /\ Others(r)
    /\ captured' \in {captured, captured \cup {r}}
    /\ \E n \in 0..MaxCost :
        mem'[r] = WithRun(mem[r], n, captured' \cap {r})
    /\ UNCHANGED <<input, used, expired, inbox, conv, asked, answered, intake, replied,
                   stale, bill, peak, overlaps>>

LEMMA RunEffect ==
    ASSUME Typed, NEW r \in Requests, RunGraph(r) PROVE Runs(r)
<1>1. PICK n \in 0..MaxCost :
            mem' = [mem EXCEPT ![r].cost = n, ![r].facts = @ \cup (captured' \cap {r})]
    BY DEF RunGraph
<1>2. /\ Step(r, "run", "close") /\ at' = at /\ captured' \in {captured, captured \cup {r}}
      /\ UNCHANGED <<input, used, expired, inbox, conv, asked, answered, intake, stale, bill, peak, overlaps>>
    BY DEF RunGraph, tenantRow
<1>3. /\ mem'[r] = WithRun(mem[r], n, captured' \cap {r})
      /\ \A q \in Requests \ {r} : mem'[q] = mem[q]
    BY <1>1 DEF WithRun, Typed
<1> QED BY <1>2, <1>3, StepEffect DEF Runs, Others

\* close_turn loads what it will overwrite.
Loads(r) ==
    /\ pc[r] = "close" /\ pc'[r] = "commit" /\ at'[r] = at[r] /\ Others(r)
    /\ mem'[r] = WithRows(mem[r], used, intake[at[r]])
    /\ UNCHANGED <<input, used, expired, inbox, conv, asked, answered, intake, replied,
                   stale, bill, peak, captured, overlaps>>

LEMMA LoadEffect ==
    ASSUME Typed, NEW r \in Requests, LoadForClose(r) PROVE Loads(r)
<1>1. /\ Step(r, "close", "commit") /\ at' = at
      /\ mem' = [mem EXCEPT ![r].used = used, ![r].intake = intake[at[r]]]
      /\ UNCHANGED <<input, used, expired, inbox, conv, asked, answered, intake,
                     stale, bill, peak, captured, overlaps>>
    BY DEF LoadForClose, tenantRow, convRows, ghosts
<1>2. /\ mem'[r] = WithRows(mem[r], used, intake[at[r]])
      /\ \A q \in Requests \ {r} : mem'[q] = mem[q]
    BY <1>1 DEF WithRows, Typed
<1> QED BY <1>1, <1>2, StepEffect DEF Loads, Others

\* A reply is committed.
Replies(r) ==
    /\ pc[r] = "commit" /\ pc'[r] = "closed" /\ mem'[r] = Fresh /\ at'[r] = at[r] /\ Others(r)
    /\ Current(r)
    /\ replied' = replied \cup {r}
    /\ answered' = [answered EXCEPT ![at[r]] = @ \cup {r}]
    /\ intake' = [intake EXCEPT ![at[r]] = NewIntake(r)]
    /\ used' = NewUsed(r)
    /\ bill' = bill + mem[r].cost
    /\ stale' = (stale \/ (mem[r].cost # 0 /\ used # mem[r].used))
    /\ UNCHANGED <<input, expired, inbox, conv, asked, peak, captured, overlaps>>

LEMMA ReplyEffect ==
    ASSUME Typed, NEW r \in Requests, CommitReply(r) PROVE Replies(r)
BY EndEffect DEF CommitReply, Replies, Others, StillThere

\* The steps of a request, and of nobody in particular.
LEMMA HandleEffect ==
    ASSUME Typed, NEW r \in Requests, Handle(r)
    PROVE  \/ Leaves(r)
           \/ Passes(r, "dedupe", "arrived") /\ Sid(r) \notin inbox /\ inbox' = inbox \cup {Sid(r)}
           \/ Reads(r)
           \/ /\ Passes(r, "budget", "open") /\ inbox' = inbox
              /\ ~mem[r].expired /\ mem[r].used < Budget
           \/ Resets(r) \/ Looks(r) \/ Asks(r) \/ Runs(r) \/ Loads(r) \/ Replies(r)
BY DedupeEffect, CheckEffect, LeaveEffect, ReadEffect, ResetEffect, LookEffect, AskEffect, RunEffect,
   LoadEffect, ReplyEffect DEF Handle

-----------------------------------------------------------------------------
(* Types *)

LEMMA FreshType == Fresh \in Mems
BY TurnsAssumption DEF Fresh, Mems

\* Locals keep their types when some of them are assigned.
LEMMA MemUpdates ==
    \A m \in Mems :
        /\ \A n \in Nat, old \in BOOLEAN : WithTenant(m, n, old) \in Mems
        /\ \A S \in SUBSET Requests : WithFacts(m, S) \in Mems
        /\ \A n \in 0..MaxCost, S \in SUBSET Requests : WithRun(m, n, S) \in Mems
        /\ \A n \in Nat, S \in SUBSET Requests : WithRows(m, n, S) \in Mems
<1>1. \A m \in Mems : \A n \in Nat, old \in BOOLEAN : WithTenant(m, n, old) \in Mems
    BY DEF Mems, WithTenant
<1>2. \A m \in Mems : \A S \in SUBSET Requests : WithFacts(m, S) \in Mems
    BY DEF Mems, WithFacts
<1>3. \A m \in Mems : \A n \in 0..MaxCost, S \in SUBSET Requests : WithRun(m, n, S) \in Mems
    BY DEF Mems, WithRun
<1>4. \A m \in Mems : \A n \in Nat, S \in SUBSET Requests : WithRows(m, n, S) \in Mems
    BY DEF Mems, WithRows
<1> QED BY <1>1, <1>2, <1>3, <1>4

Pcs == {"dedupe", "arrived", "budget", "open", "persist", "run", "close", "commit", "closed"}

\* The part of a step that is about one request: it leaves the types of the rest.
LEMMA LocalsTyped ==
    ASSUME Typed, NEW r \in Requests, Others(r),
           pc' = [pc EXCEPT ![r] = pc'[r]], pc'[r] \in Pcs,
           mem' = [mem EXCEPT ![r] = mem'[r]], mem'[r] \in Mems,
           at' = [at EXCEPT ![r] = at'[r]], at'[r] \in Requests \cup {None},
           pc'[r] \in {"run", "close", "commit"} => at'[r] # None
    PROVE  /\ pc' \in [Requests -> Pcs] /\ at' \in [Requests -> Requests \cup {None}]
           /\ \A q \in Requests : pc'[q] \in {"run", "close", "commit"} => at'[q] # None
           /\ mem' \in [Requests -> Mems] /\ \A q \in Requests : mem'[q] \in Mems
<1>1. pc \in [Requests -> Pcs] /\ at \in [Requests -> Requests \cup {None}] /\ mem \in [Requests -> Mems]
    BY DEF Typed, TypeOK, Pcs
<1>2. pc' \in [Requests -> Pcs] BY <1>1
<1>3. at' \in [Requests -> Requests \cup {None}] BY <1>1
<1>4. mem' \in [Requests -> Mems] BY <1>1
<1>5. \A q \in Requests : pc'[q] \in {"run", "close", "commit"} => at'[q] # None
    BY DEF Others, Typed, TypeOK
<1> QED BY <1>2, <1>3, <1>4, <1>5

\* Every handler assigns the locals of its own request only.
LEMMA HandleLocals ==
    ASSUME Typed, NEW r \in Requests, Handle(r)
    PROVE  /\ pc' = [pc EXCEPT ![r] = pc'[r]]
           /\ mem' = [mem EXCEPT ![r] = mem'[r]]
           /\ at' = [at EXCEPT ![r] = at'[r]]
<1> USE DEF Typed, TypeOK
<1>1. \E to : pc' = [pc EXCEPT ![r] = to]
    BY DEF Handle, Dedupe, TurnAway, ReadTenant, CheckBudget, ResetPeriod, RefuseConsent, LookUp,
        PersistQuestion, PersistFails, RunGraph, LoadForClose, CommitReply, CommitFails, Abort,
        Step, NoAnswer, End
<1>2. \E to : mem' = [mem EXCEPT ![r] = to]
    <2>1. CASE mem' = mem \/ End(r) BY <2>1 DEF End
    <2>2. CASE ReadTenant(r)
        <3>1. mem' = [mem EXCEPT ![r] = [mem[r] EXCEPT !.used = used, !.expired = expired]]
            BY <2>2 DEF ReadTenant
        <3> QED BY <3>1
    <2>3. CASE LookUp(r)
        <3>1. mem' = [mem EXCEPT ![r] = [mem[r] EXCEPT
                                            !.facts = IF at'[r] = None THEN {} ELSE intake[at'[r]]]]
            BY <2>3 DEF LookUp
        <3> QED BY <3>1
    <2>4. CASE RunGraph(r)
        <3>1. PICK n \in 0..MaxCost :
                mem' = [mem EXCEPT ![r] = [mem[r] EXCEPT !.cost = n, !.facts = @ \cup (captured' \cap {r})]]
            BY <2>4 DEF RunGraph
        <3> QED BY <3>1
    <2>5. CASE LoadForClose(r)
        <3>1. mem' = [mem EXCEPT ![r] = [mem[r] EXCEPT !.used = used, !.intake = intake[at[r]]]]
            BY <2>5 DEF LoadForClose
        <3> QED BY <3>1
    <2>6. CASE ~(ReadTenant(r) \/ LookUp(r) \/ RunGraph(r) \/ LoadForClose(r))
        BY <2>1, <2>6 DEF Handle, Dedupe, TurnAway, CheckBudget, ResetPeriod, RefuseConsent,
            PersistQuestion, PersistFails, CommitReply, CommitFails, Abort, NoAnswer, ghosts, control
    <2> QED BY <2>2, <2>3, <2>4, <2>5, <2>6
<1>3. \E to : at' = [at EXCEPT ![r] = to]
    BY DEF Handle, Dedupe, TurnAway, ReadTenant, CheckBudget, ResetPeriod, RefuseConsent, LookUp,
        PersistQuestion, PersistFails, RunGraph, LoadForClose, CommitReply, CommitFails, Abort
<1> QED BY <1>1, <1>2, <1>3

LEMMA InitTyped == Init => Typed
<1> SUFFICES ASSUME Init PROVE Typed OBVIOUS
<1> USE TurnsAssumption DEF Init
<1>1. mem \in [Requests -> Mems] /\ \A r \in Requests : mem[r] \in Mems BY FreshType
<1>2. \A r \in Requests : pc[r] \in {"arrived", "dedupe"} OBVIOUS
<1>3. pc \in [Requests -> Pcs] BY DEF Pcs
<1>4. 0 \in 0..Cardinality(Requests) BY FS_CardinalityType
<1>5. {asked, answered, intake, overlaps} \subseteq [Requests -> SUBSET Requests] OBVIOUS
<1>6. conv \in [Sessions -> Requests \cup {None}] /\ at \in [Requests -> Requests \cup {None}] OBVIOUS
<1> QED BY <1>1, <1>2, <1>3, <1>4, <1>5, <1>6 DEF Typed, TypeOK, Mems, Pcs

LEMMA InFlightSize ==
    ASSUME NEW f
    PROVE  /\ IsFiniteSet(InFlight(f)) /\ Cardinality(InFlight(f)) \in Nat
           /\ Cardinality(InFlight(f)) <= Cardinality(Requests)
BY TurnsAssumption, FS_Subset, FS_CardinalityType DEF InFlight

LEMMA NamedType ==
    ASSUME Typed, NEW r \in Requests PROVE Named(r) \in Requests
BY DEF Named, Typed, TypeOK

LEMMA NewUsedType ==
    ASSUME Typed, NEW r \in Requests
    PROVE  /\ NewUsed(r) \in Nat /\ mem[r].cost \in 0..MaxCost /\ bill + mem[r].cost \in Nat
           /\ used \in Nat /\ mem[r].used \in Nat /\ bill \in Nat
<1>1. mem[r].cost \in 0..MaxCost /\ mem[r].used \in Nat /\ used \in Nat /\ bill \in Nat
    BY DEF Typed, TypeOK, Mems
<1> QED BY <1>1, TurnsAssumption DEF NewUsed

\* What the requests share keeps its types.
SharedTyped ==
    /\ input \in Traffic
    /\ used \in Nat /\ expired \in BOOLEAN
    /\ inbox \subseteq {Sid(r) : r \in Requests}
    /\ conv \in [Sessions -> Requests \cup {None}]
    /\ {asked, answered, intake, overlaps} \subseteq [Requests -> SUBSET Requests]
    /\ captured \subseteq Requests /\ replied \subseteq Requests
    /\ stale \in BOOLEAN /\ bill \in Nat /\ peak \in 0..Cardinality(Requests)

LEMMA SharedStays ==
    ASSUME Typed, NEW r \in Requests, Handle(r) PROVE SharedTyped'
<1> DEFINE Same == UNCHANGED <<input, expired, inbox, conv, asked, answered, intake, replied, peak>>
<1>1. SharedTyped BY DEF Typed, TypeOK, SharedTyped
<1> USE DEF SharedTyped, Sid
<1>2. CASE Leaves(r) BY <1>1, <1>2 DEF Leaves
<1>3. CASE Passes(r, "dedupe", "arrived") /\ inbox' = inbox \cup {Sid(r)} BY <1>1, <1>3 DEF Passes
<1>4. CASE Passes(r, "budget", "open") /\ inbox' = inbox BY <1>1, <1>4 DEF Passes
<1>5. CASE Reads(r)
    <2>1. peak' \in 0..Cardinality(Requests)
        BY <1>1, <1>5, InFlightSize, FS_CardinalityType, TurnsAssumption DEF Reads
    <2> QED BY <1>1, <1>5, <2>1 DEF Reads
<1>6. CASE Resets(r) BY <1>1, <1>6 DEF Resets
<1>7. CASE Looks(r)
    <2>1. overlaps' \in [Requests -> SUBSET Requests] BY <1>1, <1>7 DEF Looks, Beside
    <2> QED BY <1>1, <1>7, <2>1 DEF Looks
<1>8. CASE Asks(r)
    <2>1. conv' \in [Sessions -> Requests \cup {None}] /\ asked' \in [Requests -> SUBSET Requests]
        BY <1>1, <1>8, NamedType, InputType DEF Asks
    <2> QED BY <1>1, <1>8, <2>1 DEF Asks
<1>9. CASE Runs(r) BY <1>1, <1>9 DEF Runs
<1>10. CASE Loads(r) BY <1>1, <1>10 DEF Loads
<1>11. CASE Replies(r)
    <2>1. at[r] \in Requests /\ NewIntake(r) \subseteq Requests
        BY <1>1, <1>11 DEF Replies, Typed, TypeOK, Mems, NewIntake
    <2>2. intake' \in [Requests -> SUBSET Requests] /\ answered' \in [Requests -> SUBSET Requests]
        BY <1>1, <1>11, <2>1 DEF Replies
    <2>3. stale' \in BOOLEAN BY <1>1, <1>11 DEF Replies
    <2> QED BY <1>1, <1>11, <2>2, <2>3, NewUsedType DEF Replies
<1> QED BY <1>2, <1>3, <1>4, <1>5, <1>6, <1>7, <1>8, <1>9, <1>10, <1>11, HandleEffect

LEMMA HandleTyped ==
    ASSUME Typed, NEW r \in Requests, Handle(r) PROVE Typed'
<1>1. Others(r) BY HandleEffect
        DEF Leaves, Passes, Reads, Resets, Looks, Asks, Runs, Loads, Replies
<1>2. pc'[r] \in Pcs BY HandleEffect
        DEF Leaves, Passes, Reads, Resets, Looks, Asks, Runs, Loads, Replies, Pcs
<1>3. /\ at'[r] \in Requests \cup {None}
      /\ pc'[r] \in {"run", "close", "commit"} => at'[r] # None
    <2>1. at[r] \in Requests \cup {None} /\ pc[r] \in {"run", "close"} => at[r] # None
        BY DEF Typed, TypeOK
    <2>2. conv[Session(r)] \in Requests \cup {None} BY InputType DEF Typed, TypeOK
    <2>3. Named(r) # None BY NamedType, TurnsAssumption
    <2>4. at[r] \in Requests \cup {None} BY DEF Typed, TypeOK
    <2> QED BY <2>1, <2>2, <2>3, <2>4, HandleEffect, NamedType
            DEF Leaves, Passes, Reads, Resets, Looks, Asks, Runs, Loads, Replies
<1>4. mem'[r] \in Mems
    <2>1. /\ mem[r] \in Mems /\ used \in Nat /\ expired \in BOOLEAN
          /\ \A c \in Requests : intake[c] \in SUBSET Requests
        BY DEF Typed, TypeOK
    <2>2. CASE mem'[r] = mem[r] BY <2>1, <2>2
    <2>3. CASE mem'[r] = Fresh BY <2>3, FreshType
    <2>4. CASE Reads(r) BY <2>1, <2>4, MemUpdates DEF Reads
    <2>5. CASE Looks(r)
        <3>1. at'[r] \in Requests \cup {None} BY <1>3
        <3>2. (IF at'[r] = None THEN {} ELSE intake[at'[r]]) \in SUBSET Requests BY <2>1, <3>1
        <3> QED BY <2>1, <2>5, <3>2, MemUpdates DEF Looks
    <2>6. CASE Runs(r)
        <3>1. captured' \cap {r} \in SUBSET Requests OBVIOUS
        <3> QED BY <2>1, <2>6, <3>1, MemUpdates DEF Runs
    <2>7. CASE Loads(r)
        <3>1. at[r] \in Requests BY <2>7 DEF Loads, Typed, TypeOK
        <3> QED BY <2>1, <2>7, <3>1, MemUpdates DEF Loads
    <2> QED BY <2>2, <2>3, <2>4, <2>5, <2>6, <2>7, HandleEffect
            DEF Leaves, Passes, Resets, Asks, Replies
<1>5. SharedTyped' BY SharedStays
<1>6. /\ pc' \in [Requests -> Pcs] /\ at' \in [Requests -> Requests \cup {None}]
      /\ \A q \in Requests : pc'[q] \in {"run", "close", "commit"} => at'[q] # None
      /\ mem' \in [Requests -> Mems] /\ \A q \in Requests : mem'[q] \in Mems
    BY <1>1, <1>2, <1>3, <1>4, HandleLocals, LocalsTyped
<1> QED BY <1>5, <1>6 DEF SharedTyped, Typed, TypeOK, Mems, Pcs

LEMMA StepTyped == Typed /\ [Next]_vars => Typed'
<1> SUFFICES ASSUME Typed, [Next]_vars PROVE Typed' OBVIOUS
<1>1. CASE UNCHANGED vars
    BY <1>1 DEF vars, tenantRow, convRows, control, ghosts, Typed, TypeOK, Sid
<1>2. CASE PeriodEnds
    BY <1>2 DEF PeriodEnds, convRows, control, ghosts, Typed, TypeOK, Sid
<1>3. ASSUME NEW s \in Sessions, Purge(s) PROVE Typed'
    <2>1. conv[s] \in Requests BY <1>3 DEF Purge, Typed, TypeOK
    <2>2. /\ conv' \in [Sessions -> Requests \cup {None}]
          /\ {asked', answered', intake'} \subseteq [Requests -> SUBSET Requests]
        BY <1>3, <2>1 DEF Purge, Typed, TypeOK
    <2> QED BY <1>3, <2>2 DEF Purge, tenantRow, control, ghosts, Typed, TypeOK, Sid
<1> QED BY <1>1, <1>2, <1>3, HandleTyped DEF Next

-----------------------------------------------------------------------------
(* Admission and transcripts *)

LEMMA OnceStays ==
    ASSUME Typed, Once, NEW r \in Requests, Handle(r) PROVE Once'
<1>1. \A q \in Requests : Sid(q)' = Sid(q)
    BY HandleEffect DEF Sid, Leaves, Passes, Reads, Resets, Looks, Asks, Runs, Loads, Replies
<1>2. CASE Passes(r, "dedupe", "arrived") /\ Sid(r) \notin inbox /\ inbox' = inbox \cup {Sid(r)}
    <2>1. \A q \in Requests : Admitted(q)' => q = r \/ Admitted(q)
        BY <1>2 DEF Admitted, Passes, Others
    <2>2. \A q \in Requests : Sid(q) = Sid(r) /\ Sid(r) # Web => ~Admitted(q) BY <1>2 DEF Once
    <2> QED BY <1>1, <1>2, <2>1, <2>2 DEF Once
<1>3. CASE ~(Passes(r, "dedupe", "arrived") /\ Sid(r) \notin inbox /\ inbox' = inbox \cup {Sid(r)})
    <2>1. inbox' = inbox
        BY <1>3, HandleEffect DEF Leaves, Reads, Resets, Looks, Asks, Runs, Loads, Replies
    <2>2. \A q \in Requests : Admitted(q)' => Admitted(q)
        <3> SUFFICES ASSUME NEW q \in Requests, Admitted(q)' PROVE Admitted(q) OBVIOUS
        <3>1. CASE Asks(r)
            <4>1. \A c \in Requests : q \in asked'[c] => q = r \/ q \in asked[c]
                BY <3>1 DEF Asks, Typed, TypeOK
            <4> QED BY <3>1, <4>1 DEF Asks, Others, Admitted
        <3> QED BY <1>3, <3>1, HandleEffect
                DEF Admitted, Others, Leaves, Passes, Reads, Resets, Looks, Runs, Loads, Replies
    <2> QED BY <1>1, <2>1, <2>2 DEF Once
<1> QED BY <1>2, <1>3

LEMMA StepOnce == Typed /\ Once /\ [Next]_vars => Once'
<1> SUFFICES ASSUME Typed, Once, [Next]_vars PROVE Once' OBVIOUS
<1>1. CASE UNCHANGED vars \/ PeriodEnds
    BY <1>1 DEF vars, PeriodEnds, convRows, control, Once, Admitted, Sid
<1>2. ASSUME NEW s \in Sessions, Purge(s) PROVE Once'
    <2>1. /\ UNCHANGED <<input, inbox, pc>>
          /\ \A c \in Requests : asked'[c] \subseteq asked[c]
        BY <1>2 DEF Purge, control, Typed, TypeOK
    <2>2. \A q \in Requests : Sid(q)' = Sid(q) /\ (Admitted(q)' => Admitted(q))
        BY <2>1 DEF Sid, Admitted
    <2> QED BY <2>1, <2>2 DEF Once
<1> QED BY <1>1, <1>2, OnceStays DEF Next

\* What every step of a request leaves alone, or moves one way only.
LEMMA HandleMoves ==
    ASSUME Typed, NEW r \in Requests, Handle(r)
    PROVE  /\ pc[r] # "closed" /\ \A q \in Requests \ {r} : pc'[q] = pc[q] /\ at'[q] = at[q]
           /\ input' = input
           /\ pc[r] \in Past => pc'[r] \in Past /\ at'[r] = at[r]
           /\ ~Asks(r) => conv' = conv /\ asked' = asked
           /\ ~Looks(r) /\ ~Asks(r) => at'[r] = at[r]
           /\ ~Replies(r) => replied' = replied /\ answered' = answered /\ intake' = intake
BY HandleEffect DEF Past, Others, Leaves, Passes, Reads, Resets, Looks, Asks, Runs, Loads, Replies

LEMMA HomesStays ==
    ASSUME Typed, Homes, NEW r \in Requests, Handle(r) PROVE Homes'
<1>1. /\ pc[r] # "closed" /\ \A q \in Requests \ {r} : pc'[q] = pc[q] /\ at'[q] = at[q]
      /\ input' = input
      /\ pc[r] \in Past => pc'[r] \in Past /\ at'[r] = at[r]
    BY HandleMoves
<1>2. \A q \in Requests : pc[q] \in Past => pc'[q] \in Past BY <1>1
<1>3. \A q \in Requests : at[q] \in Requests \cup {None} BY DEF Typed, TypeOK
<1>4. \A s \in Sessions : conv[s] \in Requests \cup {None} BY DEF Typed, TypeOK
<1>5. at[r] # None => pc'[at[r]] \in Past /\ Session(at[r]) = Session(r) BY <1>2, <1>3 DEF Homes
<1>6. conv[Session(r)] # None =>
        pc'[conv[Session(r)]] \in Past /\ Session(conv[Session(r)]) = Session(r)
    BY <1>2, <1>4, InputType DEF Homes
<1>7. at'[r] # None => pc'[at'[r]] \in Past /\ Session(at'[r]) = Session(r)
    <2>1. CASE Looks(r) BY <1>6, <2>1 DEF Looks
    <2>2. CASE Asks(r) BY <1>5, <2>2 DEF Asks, Named, Past
    <2>3. CASE ~Looks(r) /\ ~Asks(r) BY <1>5, <2>3, HandleMoves
    <2> QED BY <2>1, <2>2, <2>3
<1>8. ASSUME NEW q \in Requests, at'[q] # None
      PROVE  pc'[at'[q]] \in Past /\ Session(at'[q]) = Session(q)
    <2>1. CASE q = r BY <1>7, <1>8, <2>1
    <2>2. CASE q # r BY <1>1, <1>2, <1>3, <1>8, <2>2 DEF Homes
    <2> QED BY <2>1, <2>2
<1>9. ASSUME NEW s \in Sessions, conv'[s] # None
      PROVE  pc'[conv'[s]] \in Past /\ Session(conv'[s]) = s
    <2>1. conv[s] # None => pc'[conv[s]] \in Past /\ Session(conv[s]) = s BY <1>2, <1>4 DEF Homes
    <2>2. CASE conv'[s] = conv[s] BY <1>9, <2>1, <2>2
    <2>3. CASE conv'[s] # conv[s]
        <3>1. Asks(r) BY <2>3, HandleMoves
        <3>2. s = Session(r) /\ conv'[s] = Named(r) /\ at'[r] = Named(r)
            BY <2>3, <3>1, InputType DEF Asks, Typed, TypeOK
        <3> QED BY <1>7, <1>9, <3>2
    <2> QED BY <2>2, <2>3
<1>10. ASSUME NEW q \in replied' PROVE pc'[q] = "closed" /\ at'[q] # None
    <2>1. CASE q \in replied
        <3>1. q # r /\ q \in Requests BY <1>1, <2>1 DEF Homes, Typed, TypeOK
        <3> QED BY <1>1, <2>1, <3>1 DEF Homes
    <2>2. CASE q \notin replied
        <3>1. Replies(r) BY <1>10, <2>2, HandleMoves
        <3>2. q = r BY <1>10, <2>2, <3>1 DEF Replies
        <3> QED BY <3>1, <3>2 DEF Replies, Typed, TypeOK
    <2> QED BY <2>1, <2>2
<1> QED BY <1>1, <1>8, <1>9, <1>10 DEF Homes, Session

LEMMA StepHomes == Typed /\ Homes /\ [Next]_vars => Homes'
<1> SUFFICES ASSUME Typed, Homes, [Next]_vars PROVE Homes' OBVIOUS
<1>1. CASE UNCHANGED vars \/ PeriodEnds
    BY <1>1 DEF vars, PeriodEnds, convRows, control, Homes, Session
<1>2. ASSUME NEW s \in Sessions, Purge(s) PROVE Homes'
    BY <1>2 DEF Purge, control, Homes, Session, Typed, TypeOK
<1> QED BY <1>1, <1>2, HomesStays DEF Next

\* The row of a conversation appears once, under a name nobody has met before.
LEMMA RowsAppear ==
    ASSUME Typed, Homes, NEW r \in Requests, Handle(r)
    PROVE  /\ \A s \in Sessions : conv[s] # None => conv'[s] = conv[s]
           /\ \A q \in Requests \ {r} : at[q] # None /\ conv'[Session(q)] = at[q] => Current(q)
<1>1. CASE conv' = conv BY <1>1 DEF Current
<1>2. CASE conv' # conv
    <2>1. Asks(r) BY <1>2, HandleMoves
    <2>2. /\ conv[Session(r)] = at[r] /\ pc[r] = "persist"
          /\ \A s \in Sessions : conv'[s] = IF s = Session(r) THEN Named(r) ELSE conv[s]
        BY <2>1, InputType DEF Asks, Current, Typed, TypeOK
    <2>3. \A s \in Sessions : conv[s] # None => conv'[s] = conv[s] BY <2>2 DEF Named
    <2>4. ASSUME NEW q \in Requests \ {r}, at[q] # None, conv'[Session(q)] = at[q]
          PROVE  conv[Session(q)] = at[q]
        <3>1. at[q] # r BY <2>2, <2>4 DEF Homes, Past
        <3>2. Session(q) = Session(r) => conv[Session(q)] # None BY <2>2, <2>4, <3>1, InputType DEF Named
        <3> QED BY <2>2, <2>3, <2>4, <3>2, InputType
    <2> QED BY <2>3, <2>4 DEF Current
<1> QED BY <1>1, <1>2

LEMMA WholeStays ==
    ASSUME Typed, Homes, Whole, NEW r \in Requests, Handle(r) PROVE Whole'
<1> USE DEF Whole, TranscriptsWhole
<1>1. /\ pc[r] # "closed" /\ input' = input
      /\ \A q \in Requests \ {r} : pc'[q] = pc[q] /\ at'[q] = at[q]
      /\ \A s \in Sessions : conv[s] # None => conv'[s] = conv[s]
      /\ \A q \in Requests \ {r} : at[q] # None /\ conv'[Session(q)] = at[q] => Current(q)
    BY HandleMoves, RowsAppear
<1>2. \A q \in Requests : Session(q) \in Sessions BY InputType
<1>3. \A q \in Requests \ {r} : q \in replied \/ pc[q] \in {"run", "close", "commit"} => at[q] # None
    BY DEF Homes, Typed, TypeOK
<1>4. /\ \A c \in Requests : asked[c] \subseteq asked'[c] /\ asked'[c] \subseteq asked[c] \cup {r}
      /\ \A c \in Requests : r \in asked'[c] => r \in asked[c] \/ conv'[Session(r)] = c
      /\ Asks(r) => r \in asked'[at'[r]]
    <2>1. CASE Asks(r)
        <3>1. /\ asked' = [asked EXCEPT ![Named(r)] = @ \cup {r}]
              /\ conv'[Session(r)] = Named(r) /\ at'[r] = Named(r)
            BY <1>2, <2>1 DEF Asks, Typed, TypeOK
        <3> QED BY <3>1, NamedType DEF Typed, TypeOK
    <2>2. CASE ~Asks(r) BY <2>2, HandleMoves
    <2> QED BY <2>1, <2>2
<1>5. ASSUME NEW c \in Requests, NEW q \in asked'[c] PROVE q \in Requests /\ conv'[Session(q)] = c
    <2>1. CASE q \in asked[c]
        <3>1. q \in Requests BY <2>1 DEF Typed, TypeOK
        <3>2. conv[Session(q)] = c /\ c # None BY <2>1, TurnsAssumption
        <3> QED BY <1>1, <1>2, <3>1, <3>2
    <2>2. CASE q \notin asked[c] BY <1>4, <1>5, <2>2
    <2> QED BY <2>1, <2>2
<1>6. ASSUME Replies(r) PROVE r \in asked[at[r]] BY <1>6 DEF Replies
<1>7. ASSUME NEW c \in Requests
      PROVE  /\ answered[c] \subseteq answered'[c]
             /\ answered'[c] \subseteq asked[c]
    <2>1. CASE Replies(r)
        <3>1. answered' = [answered EXCEPT ![at[r]] = @ \cup {r}] BY <2>1 DEF Replies
        <3> QED BY <1>6, <2>1, <3>1 DEF Typed, TypeOK
    <2>2. CASE ~Replies(r) BY <2>2, HandleMoves
    <2> QED BY <2>1, <2>2
<1>8. ASSUME NEW q \in replied', conv'[Session(q)] = at'[q] PROVE q \in answered'[at'[q]]
    <2>1. CASE q \in replied
        <3>1. q \in Requests \ {r} BY <1>1, <2>1 DEF Homes, Typed, TypeOK
        <3>2. Current(q) /\ at'[q] = at[q] /\ at[q] # None BY <1>1, <1>3, <1>8, <2>1, <3>1
        <3>3. at[q] \in Requests BY <3>1, <3>2 DEF Typed, TypeOK
        <3> QED BY <1>7, <2>1, <3>1, <3>2, <3>3
    <2>2. CASE q \notin replied
        <3>1. Replies(r) BY <1>8, <2>2, HandleMoves
        <3>2. q = r BY <1>8, <2>2, <3>1 DEF Replies
        <3>3. at'[r] = at[r] /\ answered' = [answered EXCEPT ![at[r]] = @ \cup {r}] /\ at[r] \in Requests
            BY <3>1 DEF Replies, Typed, TypeOK
        <3> QED BY <3>2, <3>3 DEF Typed, TypeOK
    <2> QED BY <2>1, <2>2
<1>9. ASSUME NEW q \in Requests, pc'[q] \in {"run", "close", "commit"}, conv'[Session(q)] = at'[q]
      PROVE  q \in asked'[at'[q]]
    <2>1. CASE q # r
        <3>1. Current(q) /\ at'[q] = at[q] /\ pc'[q] = pc[q] /\ at[q] \in Requests
            BY <1>1, <1>3, <1>9, <2>1 DEF Typed, TypeOK
        <3> QED BY <1>4, <1>9, <3>1
    <2>2. CASE q = r /\ ~Asks(r)
        <3>1. pc[r] \in {"run", "close", "commit"} /\ conv' = conv /\ at'[r] = at[r] /\ asked' = asked
            BY <1>9, <2>2, HandleEffect DEF Leaves, Passes, Reads, Resets, Looks, Runs, Loads, Replies
        <3> QED BY <1>9, <2>2, <3>1 DEF Current
    <2>3. CASE q = r /\ Asks(r) BY <1>4, <2>3
    <2> QED BY <2>1, <2>2, <2>3
<1>10. \A c \in Requests : answered'[c] \subseteq asked'[c] BY <1>4, <1>7
<1> QED BY <1>1, <1>5, <1>8, <1>9, <1>10 DEF Current, Session

\* A purge takes the conversation of one session, and only that one.
LEMMA PurgeTakesOne ==
    ASSUME Typed, Homes, NEW s \in Sessions, Purge(s),
           NEW q \in Requests, at[q] # None, conv'[Session(q)] = at[q]
    PROVE  Current(q) /\ at[q] # conv[s] /\ at[q] \in Requests
<1>1. Session(q) \in Sessions /\ at[q] \in Requests BY InputType DEF Typed, TypeOK
<1>2. conv' = [conv EXCEPT ![s] = None] BY DEF Purge
<1>3. conv'[Session(q)] = conv[Session(q)] /\ Session(q) # s BY <1>1, <1>2 DEF Typed, TypeOK
<1>4. \A t \in Sessions : conv[t] # None /\ conv[t] = conv[s] => t = s BY DEF Homes
<1> QED BY <1>1, <1>3, <1>4 DEF Current

LEMMA PurgeWhole ==
    ASSUME Typed, Homes, Whole, NEW s \in Sessions, Purge(s) PROVE Whole'
<1> USE DEF Whole, TranscriptsWhole
<1> DEFINE gone == conv[s]
<1>1. /\ gone \in Requests /\ gone # None
      /\ conv' = [conv EXCEPT ![s] = None]
      /\ asked' = [asked EXCEPT ![gone] = {}] /\ answered' = [answered EXCEPT ![gone] = {}]
      /\ UNCHANGED <<input, pc, at, replied>>
    BY DEF Purge, control, Typed, TypeOK
<1>2. \A t \in Sessions : conv[t] = gone => t = s BY <1>1 DEF Homes
<1>3. \A q \in Requests : Session(q) \in Sessions BY InputType
<1> HIDE DEF gone
<1>4. \A c \in Requests : answered'[c] \subseteq asked'[c] BY <1>1 DEF Typed, TypeOK
<1>5. ASSUME NEW c \in Requests, NEW q \in asked'[c] PROVE q \in Requests /\ conv'[Session(q)] = c
    <2>1. q \in asked[c] /\ c # gone /\ q \in Requests BY <1>1, <1>5 DEF Typed, TypeOK
    <2>2. conv[Session(q)] = c BY <2>1
    <2>3. Session(q) # s BY <2>1, <2>2 DEF gone
    <2> QED BY <1>1, <1>3, <2>1, <2>2, <2>3 DEF Typed, TypeOK
<1>6. \A q \in Requests : at[q] # None /\ conv'[Session(q)] = at[q] =>
        Current(q) /\ at[q] # gone /\ at[q] \in Requests
    BY PurgeTakesOne DEF gone
<1>7. \A q \in replied : q \in Requests /\ at[q] # None BY DEF Homes, Typed, TypeOK
<1>8. \A q \in replied : conv'[Session(q)] = at[q] => q \in answered'[at[q]]
    BY <1>1, <1>6, <1>7 DEF Typed, TypeOK
<1>9. \A q \in Requests : pc[q] \in {"run", "close", "commit"} /\ conv'[Session(q)] = at[q] =>
            q \in asked'[at[q]]
    BY <1>1, <1>6 DEF Typed, TypeOK
<1> QED BY <1>1, <1>4, <1>5, <1>8, <1>9 DEF Current, Session

LEMMA StepWhole == Typed /\ Homes /\ Whole /\ [Next]_vars => Whole'
<1> SUFFICES ASSUME Typed, Homes, Whole, [Next]_vars PROVE Whole' OBVIOUS
<1>1. CASE UNCHANGED vars \/ PeriodEnds
    BY <1>1 DEF vars, PeriodEnds, convRows, control, Whole, TranscriptsWhole, Current, Session
<1> QED BY <1>1, WholeStays, PurgeWhole DEF Next

-----------------------------------------------------------------------------
(* The budget *)

LEMMA CostType == \A n \in Nat : MaxCost * n \in Nat
BY TurnsAssumption

LEMMA MoreCostsMore == \A m, n \in Nat : m <= n => MaxCost * m <= MaxCost * n
<1> SUFFICES ASSUME NEW m \in Nat, NEW n \in Nat, m <= n PROVE MaxCost * m <= MaxCost * n OBVIOUS
<1>1. PICK d \in Nat : n = m + d
    <2>1. n - m \in Nat /\ n = m + (n - m) OBVIOUS
    <2> QED BY <2>1
<1>2. MaxCost * n = MaxCost * m + MaxCost * d BY <1>1, TurnsAssumption
<1>3. MaxCost * d \in Nat /\ MaxCost * m \in Nat BY TurnsAssumption
<1> QED BY <1>2, <1>3

LEMMA RidingSize ==
    /\ IsFiniteSet(Riding) /\ Cardinality(Riding) \in Nat
    /\ Riding \subseteq InFlight(pc) /\ Cardinality(Riding) <= Cardinality(InFlight(pc))
<1>1. Riding \subseteq InFlight(pc) BY DEF Riding, InFlight
<1> QED BY <1>1, InFlightSize, FS_Subset, FS_CardinalityType

LEMMA RidingSizeNext ==
    /\ IsFiniteSet(Riding') /\ Cardinality(Riding') \in Nat
    /\ Riding' \subseteq InFlight(pc') /\ Cardinality(Riding') <= Cardinality(InFlight(pc'))
<1>1. Riding' \subseteq InFlight(pc') BY DEF Riding, InFlight
<1> QED BY <1>1, InFlightSize, FS_Subset, FS_CardinalityType

\* Steps that let nobody through: they use nothing, and cannot raise the sum.
LEMMA NobodyBoards ==
    ASSUME Typed, Bounded, UNCHANGED <<used, bill, peak, stale>>,
           InFlight(pc') \subseteq InFlight(pc), Riding' \subseteq Riding
    PROVE  Bounded'
<1>1. Cardinality(InFlight(pc')) <= Cardinality(InFlight(pc)) /\ Cardinality(InFlight(pc')) \in Nat
      /\ Cardinality(InFlight(pc)) \in Nat
    BY InFlightSize, FS_Subset
<1>2. Cardinality(Riding') <= Cardinality(Riding) /\ Cardinality(Riding') \in Nat /\ Cardinality(Riding) \in Nat
    BY RidingSize, RidingSizeNext, FS_Subset
<1>3. used \in Nat /\ peak \in Nat /\ Budget \in Nat /\ MaxCost \in Nat
    BY TurnsAssumption, FS_CardinalityType DEF Typed, TypeOK
<1>4. MaxCost * Cardinality(Riding') <= MaxCost * Cardinality(Riding) BY <1>2, MoreCostsMore
<1>5. /\ MaxCost * Cardinality(Riding') \in Nat /\ MaxCost * Cardinality(Riding) \in Nat
      /\ MaxCost * peak \in Nat
    BY <1>2, <1>3
<1>6. Cardinality(InFlight(pc')) <= peak BY <1>1, <1>3 DEF Bounded
<1>7. ~stale => used + MaxCost * Cardinality(Riding') <= Budget - 1 + MaxCost * peak
    BY <1>3, <1>4, <1>5 DEF Bounded
<1> QED BY <1>6, <1>7 DEF Bounded

\* A request that reads a row with budget left boards; there are at most peak.
LEMMA ReadBounded ==
    ASSUME Typed, Bounded, NEW r \in Requests, Reads(r) PROVE Bounded'
<1>1. /\ used \in Nat /\ peak \in Nat /\ Budget \in Nat /\ MaxCost \in Nat
      /\ peak' \in Nat /\ peak' >= peak /\ Cardinality(InFlight(pc')) <= peak'
    BY TurnsAssumption, FS_CardinalityType, InFlightSize DEF Typed, TypeOK, Reads
<1>2. UNCHANGED <<used, bill, stale>> BY DEF Reads
<1>3. /\ Cardinality(Riding') \in Nat /\ Cardinality(Riding') <= peak' /\ Cardinality(Riding) \in Nat
    BY <1>1, RidingSize, RidingSizeNext, InFlightSize
<1>4. MaxCost * Cardinality(Riding') <= MaxCost * peak' /\ MaxCost * peak <= MaxCost * peak'
    BY <1>1, <1>3, MoreCostsMore
<1>5. /\ MaxCost * Cardinality(Riding') \in Nat /\ MaxCost * Cardinality(Riding) \in Nat
      /\ MaxCost * peak \in Nat /\ MaxCost * peak' \in Nat
    BY <1>1, <1>3, CostType
<1>6. CASE used < Budget BY <1>1, <1>2, <1>4, <1>5, <1>6 DEF Bounded
<1>7. CASE ~(used < Budget)
    <2>1. mem'[r].used = used BY DEF Reads, WithTenant, Typed, Mems
    <2>2. Riding' = Riding BY <1>7, <2>1 DEF Riding, Reads, Others
    <2> QED BY <1>1, <1>2, <1>4, <1>5, <2>2 DEF Bounded
<1> QED BY <1>6, <1>7

\* A new period, if nobody else has written the row: nothing is used.
LEMMA ResetBounded ==
    ASSUME Typed, Bounded, NEW r \in Requests, Resets(r) PROVE Bounded'
<1>1. /\ used \in Nat /\ peak \in Nat /\ Budget \in Nat \ {0} /\ MaxCost \in Nat
    BY TurnsAssumption, FS_CardinalityType DEF Typed, TypeOK
<1>2. peak' = peak /\ InFlight(pc') = InFlight(pc) BY DEF Resets, InFlight, Others
<1>3. Cardinality(Riding') \in Nat /\ Cardinality(Riding') <= peak
    BY <1>1, <1>2, RidingSizeNext, InFlightSize DEF Bounded
<1>4. MaxCost * Cardinality(Riding') <= MaxCost * peak BY <1>1, <1>3, MoreCostsMore
<1>5. MaxCost * Cardinality(Riding') \in Nat /\ MaxCost * peak \in Nat BY <1>1, <1>3
<1>6. ~stale' => used' = 0 /\ bill' = 0 BY DEF Resets
<1> QED BY <1>1, <1>2, <1>4, <1>5, <1>6 DEF Bounded

\* A turn gives up its seat for what it has cost.
LEMMA ReplyBounded ==
    ASSUME Typed, Bounded, NEW r \in Requests, Replies(r) PROVE Bounded'
<1> DEFINE cost == mem[r].cost
           n == Cardinality(Riding)
<1>1. /\ used \in Nat /\ bill \in Nat /\ peak \in Nat /\ Budget \in Nat /\ MaxCost \in Nat
      /\ cost \in 0..MaxCost
    BY TurnsAssumption, FS_CardinalityType DEF Typed, TypeOK, Mems
<1>2. peak' = peak /\ InFlight(pc') \subseteq InFlight(pc) BY DEF Replies, InFlight, Others
<1>3. Cardinality(InFlight(pc')) <= peak
    <2>1. Cardinality(InFlight(pc')) <= Cardinality(InFlight(pc)) BY <1>2, InFlightSize, FS_Subset
    <2> QED BY <1>1, <2>1, InFlightSize DEF Bounded
<1>4. r \in Riding /\ Riding' = Riding \ {r} BY DEF Replies, Riding, Others
<1>5. Cardinality(Riding') = n - 1 /\ n \in Nat /\ n - 1 \in Nat
    BY <1>4, RidingSize, RidingSizeNext, FS_RemoveElement
<1>6. MaxCost * n = MaxCost * (n - 1) + MaxCost BY <1>1, <1>5
<1>7. MaxCost * n \in Nat /\ MaxCost * (n - 1) \in Nat /\ MaxCost * peak \in Nat BY <1>1, <1>5
<1>8. ~stale' => ~stale /\ used' = used + cost /\ bill' = bill + cost
    <2>1. ~stale' => ~stale /\ (cost = 0 \/ used = mem[r].used) BY DEF Replies
    <2>2. bill' = bill + cost /\ used' = IF cost = 0 THEN used ELSE mem[r].used + cost
        BY DEF Replies, NewUsed
    <2> HIDE DEF cost
    <2> QED BY <1>1, <2>1, <2>2
<1> HIDE DEF cost, n
<1>9. ~stale' => used' + MaxCost * (n - 1) <= Budget - 1 + MaxCost * peak
    <2>1. ~stale => used + MaxCost * n <= Budget - 1 + MaxCost * peak BY DEF Bounded, n
    <2> QED BY <1>1, <1>6, <1>7, <1>8, <2>1
<1>10. ~stale' => used' = bill' BY <1>8 DEF Bounded
<1> QED BY <1>2, <1>3, <1>5, <1>9, <1>10 DEF Bounded

LEMMA StepBounded == Typed /\ Bounded /\ [Next]_vars => Bounded'
<1> SUFFICES ASSUME Typed, Bounded, [Next]_vars PROVE Bounded' OBVIOUS
<1>1. CASE UNCHANGED vars \/ PeriodEnds \/ \E s \in Sessions : Purge(s)
    <2>1. UNCHANGED <<used, bill, peak, stale, pc, mem>>
        BY <1>1 DEF vars, PeriodEnds, Purge, tenantRow, control, ghosts
    <2> QED BY <2>1 DEF Bounded, Riding
<1>2. ASSUME NEW r \in Requests, Handle(r) PROVE Bounded'
    <2>1. CASE Leaves(r) \/ Passes(r, "dedupe", "arrived") \/ Looks(r) \/ Asks(r) \/ Runs(r) \/ Loads(r)
        <3>1. InFlight(pc') \subseteq InFlight(pc)
            BY <2>1 DEF InFlight, Others, Leaves, Passes, Looks, Asks, Runs, Loads
        <3>2. Riding' \subseteq Riding
            BY <2>1 DEF Riding, Others, Leaves, Passes, Looks, Asks, Runs, Loads
        <3>3. UNCHANGED <<used, bill, peak, stale>>
            BY <2>1 DEF Leaves, Passes, Looks, Asks, Runs, Loads
        <3> QED BY <3>1, <3>2, <3>3, NobodyBoards
    <2>2. CASE Passes(r, "budget", "open") /\ ~mem[r].expired /\ mem[r].used < Budget
        <3>1. InFlight(pc') \subseteq InFlight(pc) BY <2>2 DEF InFlight, Others, Passes
        <3>2. Riding' \subseteq Riding BY <2>2 DEF Riding, Others, Passes
        <3>3. UNCHANGED <<used, bill, peak, stale>> BY <2>2 DEF Passes
        <3> QED BY <3>1, <3>2, <3>3, NobodyBoards
    <2> QED BY <1>2, <2>1, <2>2, HandleEffect, ReadBounded, ResetBounded, ReplyBounded
<1> QED BY <1>1, <1>2 DEF Next

-----------------------------------------------------------------------------
(* The intake *)

\* Only the look-up opens a turn, and it notes who is open beside it.
LEMMA OpenMoves ==
    ASSUME Typed, NEW r \in Requests, Handle(r)
    PROVE  /\ \A q \in Requests : pc'[q] \in {"persist", "run", "close", "commit"} =>
                Open(q) \/ (q = r /\ Looks(r))
           /\ ~Looks(r) => overlaps' = overlaps
BY HandleEffect DEF Open, Others, Leaves, Passes, Reads, Resets, Looks, Asks, Runs, Loads, Replies

LEMMA MetStays ==
    ASSUME Typed, Met, NEW r \in Requests, Handle(r) PROVE Met'
<1>1. input' = input BY HandleMoves
<1>2. CASE ~Looks(r)
    <2>1. overlaps' = overlaps /\ \A q \in Requests : Open(q)' => Open(q)
        BY <1>2, OpenMoves DEF Open
    <2> QED BY <1>1, <2>1 DEF Met, Session
<1>3. CASE Looks(r)
    <2> SUFFICES ASSUME NEW p \in Requests, NEW q \in Requests, Open(p)', Open(q)', p # q,
                        Session(p) = Session(q)
                 PROVE  overlaps'[p] # {}
        BY <1>1 DEF Met, Session
    <2>1. (Open(p) \/ p = r) /\ (Open(q) \/ q = r) BY OpenMoves DEF Open
    <2>2. overlaps'[p] = IF p = r THEN Beside(r)
                         ELSE IF p \in Beside(r) THEN overlaps[p] \cup {r} ELSE overlaps[p]
        BY <1>3 DEF Looks
    <2>3. CASE p = r BY <2>1, <2>2, <2>3 DEF Beside
    <2>4. CASE q = r BY <2>1, <2>2, <2>4 DEF Beside
    <2>5. CASE p # r /\ q # r BY <2>1, <2>2, <2>5 DEF Met
    <2> QED BY <2>3, <2>4, <2>5
<1> QED BY <1>2, <1>3

LEMMA StepMet == Typed /\ Met /\ [Next]_vars => Met'
<1> SUFFICES ASSUME Typed, Met, [Next]_vars PROVE Met' OBVIOUS
<1>1. CASE UNCHANGED vars \/ PeriodEnds \/ \E s \in Sessions : Purge(s)
    BY <1>1 DEF vars, PeriodEnds, Purge, control, ghosts, Met, Open, Session
<1> QED BY <1>1, MetStays DEF Next

\* The fields of the locals after an assignment.
LEMMA MemFields ==
    \A m \in Mems :
        /\ \A n, old : /\ WithTenant(m, n, old).facts = m.facts
                       /\ WithTenant(m, n, old).intake = m.intake
        /\ \A S : WithFacts(m, S).facts = S /\ WithFacts(m, S).intake = m.intake
        /\ \A n, S : WithRun(m, n, S).facts = m.facts \cup S /\ WithRun(m, n, S).intake = m.intake
        /\ \A n, S : WithRows(m, n, S).facts = m.facts /\ WithRows(m, n, S).intake = S
BY DEF Mems, WithTenant, WithFacts, WithRun, WithRows

\* How the facts that a request knows of change.
LEMMA FactsMove ==
    ASSUME Typed, NEW r \in Requests, Handle(r)
    PROVE  /\ \A q \in Requests \ {r} : mem'[q] = mem[q]
           /\ \/ mem'[r].facts = {} /\ pc'[r] = "closed"
              \/ /\ Looks(r)
                 /\ mem'[r].facts = IF at'[r] = None THEN {} ELSE intake[at'[r]]
              \/ Runs(r) /\ mem'[r].facts = mem[r].facts \cup (captured' \cap {r})
              \/ mem'[r].facts = mem[r].facts /\ pc'[r] # "closed" /\ ~Looks(r) /\ ~Runs(r)
           /\ \/ mem'[r].intake = {} \/ mem'[r].intake = mem[r].intake
              \/ Loads(r) /\ mem'[r].intake = intake[at[r]]
           /\ ~Runs(r) => captured' = captured
<1>1. mem[r] \in Mems BY DEF Typed
<1>2. Fresh.facts = {} /\ Fresh.intake = {} BY DEF Fresh
<1>3. CASE Leaves(r) \/ Replies(r) BY <1>2, <1>3 DEF Leaves, Replies, Others
<1>4. CASE mem'[r] = mem[r] /\ pc'[r] \in {"arrived", "open", "run"} /\ Others(r) /\ captured' = captured
    BY <1>4 DEF Looks, Runs, Others
<1>5. CASE Reads(r) BY <1>1, <1>5, MemFields DEF Reads, Others, Looks, Runs
<1>6. CASE Looks(r) BY <1>1, <1>6, MemFields DEF Looks, Others, Runs
<1>7. CASE Runs(r) BY <1>1, <1>7, MemFields DEF Runs, Others
<1>8. CASE Loads(r) BY <1>1, <1>8, MemFields DEF Loads, Others, Looks, Runs
<1> QED BY <1>3, <1>4, <1>5, <1>6, <1>7, <1>8, HandleEffect DEF Passes, Resets, Asks

\* What a turn writes back holds what it has captured: had it loaded the same,
\* its fact would have been there before it replied.
LEMMA WritesItsFacts ==
    ASSUME Typed, Homes, Remembered, NEW r \in Requests, Replies(r)
    PROVE  /\ NewIntake(r) \subseteq replied \cup {r}
           /\ r \in captured => r \in NewIntake(r)
           /\ \A p : p \in intake[at[r]] /\ p \in mem[r].facts => p \in NewIntake(r)
           /\ intake'[at[r]] = NewIntake(r)
           /\ \A c \in Requests \ {at[r]} : intake'[c] = intake[c]
<1>1. at[r] \in Requests /\ pc[r] = "commit" BY DEF Replies, Typed, TypeOK
<1>2. r \notin replied BY <1>1 DEF Homes
<1>3. r \in captured => r \in mem[r].facts BY <1>1 DEF Remembered
<1>4. r \notin mem[r].intake BY <1>2 DEF Remembered
<1>5. intake' = [intake EXCEPT ![at[r]] = NewIntake(r)] BY DEF Replies
<1>6. intake[at[r]] \subseteq replied /\ mem[r].facts \subseteq replied \cup {r}
    BY <1>1 DEF Remembered
<1> QED BY <1>1, <1>3, <1>4, <1>5, <1>6 DEF NewIntake, Typed, TypeOK

LEMMA RememberedStays ==
    ASSUME Typed, Homes, Met, Remembered, NEW r \in Requests, Handle(r) PROVE Remembered'
<1> USE DEF Remembered
<1>1. /\ pc[r] # "closed" /\ input' = input
      /\ \A q \in Requests \ {r} : pc'[q] = pc[q] /\ at'[q] = at[q] /\ mem'[q] = mem[q]
      /\ \A q \in Requests \ {r} : at[q] # None /\ conv'[Session(q)] = at[q] => Current(q)
    BY HandleMoves, RowsAppear, FactsMove
<1>2. /\ \A c \in Requests : intake[c] \in SUBSET Requests
      /\ replied \subseteq Requests /\ captured \subseteq Requests
      /\ \A q \in Requests : at[q] \in Requests \cup {None}
      /\ \A q \in Requests : at'[q] \in Requests \cup {None}
    BY HandleTyped DEF Typed, TypeOK
<1>3. r \notin replied /\ \A q \in replied : at[q] # None BY <1>1 DEF Homes
<1>3a. captured' \subseteq captured \cup {r}
    <2>1. CASE Runs(r) BY <2>1 DEF Runs
    <2> QED BY <2>1, FactsMove
<1>4. replied \subseteq replied' /\ (replied' # replied => Replies(r) /\ replied' = replied \cup {r})
    BY HandleMoves DEF Replies
<1>5. \A c \in Requests : intake'[c] \subseteq replied'
    <2>1. CASE Replies(r)
        <3>1. replied' = replied \cup {r} BY <2>1 DEF Replies
        <3> QED BY <2>1, <3>1, WritesItsFacts
    <2>2. CASE ~Replies(r) BY <1>4, <2>2, HandleMoves
    <2> QED BY <2>1, <2>2
<1>6. \A q \in Requests : mem'[q].facts \subseteq replied' \cup {q} /\ mem'[q].intake \subseteq replied'
    <2>1. CASE Loads(r)
        <3>1. at[r] \in Requests BY <2>1 DEF Loads, Typed, TypeOK
        <3> QED BY <1>1, <1>2, <1>4, <2>1, <3>1, FactsMove
    <2>2. CASE ~Loads(r) BY <1>1, <1>2, <1>4, <2>2, FactsMove
    <2> QED BY <2>1, <2>2
<1>7. \A q \in captured' : /\ pc'[q] \in {"close", "commit", "closed"}
                           /\ pc'[q] # "closed" => q \in mem'[q].facts
    <2> SUFFICES ASSUME NEW q \in captured'
                 PROVE  /\ pc'[q] \in {"close", "commit", "closed"}
                        /\ pc'[q] # "closed" => q \in mem'[q].facts
        OBVIOUS
    <2>1. CASE Runs(r)
        <3>1. pc'[r] = "close" /\ ~Looks(r) BY <2>1 DEF Runs, Looks
        <3>2. mem'[r].facts = mem[r].facts \cup (captured' \cap {r}) BY <2>1, <3>1, FactsMove
        <3>3. q = r \/ (q \in captured /\ q # r) BY <1>3a
        <3> QED BY <1>1, <1>2, <3>1, <3>2, <3>3
    <2>2. CASE ~Runs(r) /\ q # r BY <1>1, <1>2, <2>2, FactsMove
    <2>3. CASE ~Runs(r) /\ q = r
        <3>1. pc[r] \in {"close", "commit"} /\ r \in mem[r].facts BY <1>1, <1>2, <2>3, FactsMove
        <3>2. pc'[r] \in {"commit", "closed"} /\ ~Looks(r)
            BY <2>3, <3>1, HandleEffect DEF Leaves, Passes, Reads, Resets, Looks, Asks, Loads, Replies
        <3> QED BY <2>3, <3>1, <3>2, FactsMove
    <2> QED BY <2>1, <2>2, <2>3
<1>8. ASSUME NEW p \in replied' \cap captured', overlaps'[p] = {}, conv'[Session(p)] = at'[p]
      PROVE  /\ p \in intake'[at'[p]]
             /\ \A q \in Requests : Open(q)' /\ at'[q] = at'[p] => p \in mem'[q].facts
    <2>1. CASE p = r
        <3>1. Replies(r) BY <1>3, <1>4, <1>8, <2>1
        <3>2. at'[r] = at[r] /\ captured' = captured BY <3>1 DEF Replies
        <3>3. r \in NewIntake(r) /\ intake'[at[r]] = NewIntake(r) BY <1>8, <2>1, <3>1, <3>2, WritesItsFacts
        <3>4. p \in intake'[at'[p]] BY <2>1, <3>2, <3>3
        <3>5. ASSUME NEW q \in Requests, Open(q)', at'[q] = at'[p] PROVE FALSE
            <4>1. q # r BY <3>1, <3>5 DEF Replies, Open
            <4>2. Open(q) /\ Open(r) /\ at[q] = at[r] /\ at[r] # None /\ at[r] \in Requests
                BY <1>1, <2>1, <3>1, <3>5, <4>1 DEF Replies, Open, Typed, TypeOK
            <4>3. Session(q) = Session(r) BY <4>2 DEF Homes
            <4>4. overlaps[r] # {} BY <4>1, <4>2, <4>3 DEF Met
            <4> QED BY <1>8, <2>1, <3>1, <4>4 DEF Replies
        <3> QED BY <3>4, <3>5
    <2>2. CASE p # r
        <3>1. p \in replied /\ p \in Requests BY <1>2, <1>4, <1>8, <2>2
        <3>2. p \in captured BY <1>8, <1>3a, <2>2
        <3>3. at'[p] = at[p] /\ at[p] # None /\ Current(p) BY <1>1, <1>3, <1>8, <2>2, <3>1
        <3>4. overlaps[p] = {}
            <4>1. CASE Looks(r)
                <5>1. overlaps'[p] = IF p \in Beside(r) THEN overlaps[p] \cup {r} ELSE overlaps[p]
                    BY <2>2, <3>1, <4>1 DEF Looks
                <5> QED BY <1>8, <5>1
            <4>2. CASE ~Looks(r) BY <1>8, <4>2, OpenMoves
            <4> QED BY <4>1, <4>2
        <3>5. /\ p \in intake[at[p]] /\ at[p] \in Requests
              /\ \A q \in Requests : Open(q) /\ at[q] = at[p] => p \in mem[q].facts
            BY <1>2, <3>1, <3>2, <3>3, <3>4
        <3>6. p \in intake'[at[p]]
            <4>1. CASE Replies(r) /\ at[r] = at[p]
                <5>1. Open(r) BY <4>1 DEF Replies, Open
                <5> QED BY <3>5, <4>1, <5>1, WritesItsFacts
            <4>2. CASE Replies(r) /\ at[r] # at[p] BY <3>5, <4>2, WritesItsFacts
            <4>3. CASE ~Replies(r) BY <3>5, <4>3, HandleMoves
            <4> QED BY <4>1, <4>2, <4>3
        <3>7. ASSUME NEW q \in Requests, Open(q)', at'[q] = at[p] PROVE p \in mem'[q].facts
            <4>1. CASE q # r BY <1>1, <3>5, <3>7, <4>1 DEF Open
            <4>2. CASE q = r /\ Looks(r) BY <3>3, <3>5, <3>7, <4>2, FactsMove DEF Looks, Runs
            <4>3. CASE q = r /\ ~Looks(r)
                <5>1. Open(r) BY <3>7, <4>3, OpenMoves DEF Open
                <5>2. at[r] = at[p]
                    <6>1. CASE Asks(r)
                        <7>1. pc[r] = "persist" /\ at'[r] = Named(r) BY <6>1 DEF Asks
                        <7>2. r # at[p] BY <3>1, <3>3, <7>1 DEF Homes, Past
                        <7> QED BY <3>7, <4>3, <7>1, <7>2 DEF Named
                    <6>2. CASE ~Asks(r) BY <3>7, <4>3, <6>2, HandleMoves
                    <6> QED BY <6>1, <6>2
                <5>3. p \in mem[r].facts BY <3>5, <5>1, <5>2
                <5>4. pc'[r] # "closed" BY <3>7, <4>3 DEF Open
                <5> QED BY <4>3, <5>3, <5>4, FactsMove
            <4> QED BY <4>1, <4>2, <4>3
        <3> QED BY <3>3, <3>6, <3>7
    <2> QED BY <2>1, <2>2
<1> QED BY <1>1, <1>5, <1>6, <1>7, <1>8 DEF Current, Session

LEMMA PurgeRemembered ==
    ASSUME Typed, Homes, Remembered, NEW s \in Sessions, Purge(s) PROVE Remembered'
<1> USE DEF Remembered
<1>1. /\ conv[s] \in Requests
      /\ intake' = [intake EXCEPT ![conv[s]] = {}]
      /\ UNCHANGED <<input, pc, at, mem, replied, captured, overlaps>>
    BY DEF Purge, control, ghosts, Typed, TypeOK
<1>2. /\ \A c \in Requests : intake'[c] \subseteq intake[c]
      /\ \A c \in Requests : c # conv[s] => intake'[c] = intake[c]
    BY <1>1 DEF Typed, TypeOK
<1>3. \A p \in replied : p \in Requests /\ at[p] # None BY DEF Homes, Typed, TypeOK
<1>4. \A p \in replied : conv'[Session(p)] = at[p] => Current(p) /\ intake'[at[p]] = intake[at[p]]
    BY <1>2, <1>3, PurgeTakesOne
<1>5. \A p \in replied \cap captured : overlaps[p] = {} /\ conv'[Session(p)] = at[p] =>
            /\ p \in intake'[at[p]]
            /\ \A q \in Requests : Open(q) /\ at[q] = at[p] => p \in mem[q].facts
    BY <1>4
<1> QED BY <1>1, <1>2, <1>5 DEF Current, Session, Open

LEMMA StepRemembered == Typed /\ Homes /\ Met /\ Remembered /\ [Next]_vars => Remembered'
<1> SUFFICES ASSUME Typed, Homes, Met, Remembered, [Next]_vars PROVE Remembered' OBVIOUS
<1>1. CASE UNCHANGED vars \/ PeriodEnds
    BY <1>1 DEF vars, PeriodEnds, convRows, control, ghosts, Remembered, Current, Session, Open
<1> QED BY <1>1, RememberedStays, PurgeRemembered DEF Next

-----------------------------------------------------------------------------
(* The theorems *)

LEMMA InitInvariant == Init => IInv
<1> SUFFICES ASSUME Init PROVE IInv OBVIOUS
<1> USE DEF Init
<1>1. Typed BY InitTyped
<1>2. /\ \A r \in Requests : pc[r] \in {"dedupe", "arrived"} /\ (Sid(r) # Web => pc[r] = "dedupe")
      /\ \A r \in Requests : asked[r] = {} /\ answered[r] = {} /\ intake[r] = {}
      /\ \A r \in Requests : at[r] = None /\ mem[r] = Fresh
      /\ \A s \in Sessions : conv[s] = None
    OBVIOUS
<1>3. Once BY <1>2 DEF Once, Admitted
<1>4. Homes BY <1>2 DEF Homes
<1>5. Whole BY <1>2 DEF Whole, TranscriptsWhole
<1>6. Met BY <1>2 DEF Met, Open
<1>7. Remembered BY <1>2 DEF Remembered, Fresh
<1>8. Bounded
    <2>1. InFlight(pc) = {} BY <1>2 DEF InFlight
    <2>2. Riding = {} BY <2>1, RidingSize
    <2>3. Cardinality({}) = 0 BY FS_EmptySet
    <2>4. MaxCost * 0 = 0 /\ Budget - 1 >= 0 /\ Budget \in Nat BY TurnsAssumption
    <2>5. used = 0 /\ bill = 0 /\ peak = 0 OBVIOUS
    <2> HIDE DEF Init
    <2>6. Cardinality(InFlight(pc)) <= peak BY <2>1, <2>3, <2>5
    <2>7. used + MaxCost * Cardinality(Riding) <= Budget - 1 + MaxCost * peak
        BY <2>2, <2>3, <2>4, <2>5
    <2> QED BY <2>5, <2>6, <2>7 DEF Bounded
<1> QED BY <1>1, <1>3, <1>4, <1>5, <1>6, <1>7, <1>8 DEF IInv

THEOREM Inductive == Spec => []IInv
<1>1. IInv /\ [Next]_vars => IInv'
    BY StepTyped, StepOnce, StepHomes, StepWhole, StepBounded, StepMet, StepRemembered DEF IInv
<1> QED BY <1>1, InitInvariant, PTL DEF Spec

\* Type correctness, for any number of requests that are handled at once.
THEOREM TypeCorrect == Spec => []TypeOK
<1>1. IInv => TypeOK BY DEF IInv, Typed
<1> QED BY <1>1, Inductive, PTL

\* At most one delivery of a message reaches the model, however the deliveries
\* interleave.
THEOREM MessageRunsOnce == Spec => []OneTurnPerMessage
<1>1. IInv => OneTurnPerMessage
    <2> SUFFICES ASSUME IInv, NEW r \in Requests, Sid(r) # Web
                 PROVE  Cardinality(RanFor(Sid(r))) <= 1
        BY DEF OneTurnPerMessage
    <2>1. \A p, q \in RanFor(Sid(r)) : p = q
        <3> SUFFICES ASSUME NEW p \in RanFor(Sid(r)), NEW q \in RanFor(Sid(r)) PROVE p = q OBVIOUS
        <3>1. /\ p \in Requests /\ Admitted(p) /\ Sid(p) = Sid(r)
              /\ q \in Requests /\ Admitted(q) /\ Sid(q) = Sid(r)
            BY DEF RanFor, Admitted
        <3> QED BY <3>1 DEF IInv, Once
    <2>2. CASE RanFor(Sid(r)) = {} BY <2>2, FS_EmptySet
    <2>3. ASSUME NEW p \in RanFor(Sid(r)) PROVE Cardinality(RanFor(Sid(r))) <= 1
        <3>1. RanFor(Sid(r)) = {p} BY <2>1
        <3>2. Cardinality({p}) = 1 BY FS_Singleton
        <3> QED BY <3>1, <3>2
    <2> QED BY <2>2, <2>3
<1> QED BY <1>1, Inductive, PTL

\* Transcripts stay whole under concurrent turns, failures and purges.
THEOREM TranscriptsStayWhole == Spec => []TranscriptsWhole
<1>1. IInv => TranscriptsWhole BY DEF IInv, Whole
<1> QED BY <1>1, Inductive, PTL

\* Usage is what the turns have cost, while no two transactions overlap.
THEOREM UsageIsExact == Spec => []UsageExact
<1>1. IInv => UsageExact BY DEF IInv, Bounded, UsageExact
<1> QED BY <1>1, Inductive, PTL

\* The budget is overspent by at most one turn for each request that was under
\* way at once, less the token that must have been left.
THEOREM OverspendIsBounded == Spec => []OverspendBounded
<1>1. IInv => OverspendBounded
    <2> SUFFICES ASSUME IInv, ~stale PROVE used <= Budget - 1 + MaxCost * peak BY DEF OverspendBounded
    <2>1. used + MaxCost * Cardinality(Riding) <= Budget - 1 + MaxCost * peak BY DEF IInv, Bounded
    <2>2. MaxCost * Cardinality(Riding) \in Nat BY CostType, RidingSize
    <2>3. used \in Nat /\ Budget \in Nat /\ peak \in Nat
        BY TurnsAssumption, FS_CardinalityType DEF IInv, Typed, TypeOK
    <2>4. MaxCost * peak \in Nat BY <2>3, CostType
    <2> QED BY <2>1, <2>2, <2>3, <2>4
<1> QED BY <1>1, Inductive, PTL

\* A fact is lost only by a turn of the same visitor that was under way beside
\* the one that captured it.
THEOREM FactsLostByOverlap == Spec => []IntakeLostOnlyByOverlap
<1>1. IInv => IntakeLostOnlyByOverlap BY DEF IInv, Remembered, IntakeLostOnlyByOverlap
<1> QED BY <1>1, Inductive, PTL
=============================================================================

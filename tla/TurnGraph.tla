----------------------------- MODULE TurnGraph -----------------------------
(***************************************************************************)
(* One chat turn through the LangGraph state machine: guard_in and         *)
(* retrieve side by side, then agent <-> tools, then guard_out.  A node    *)
(* returns an update, a record with the keys it sets.  The graph reduces   *)
(* the updates into its state, from which POST /v1/chat answers;           *)
(* /v1/chat/stream only sees the updates and merges them into a dictionary *)
(* of its own, `final`.                                                    *)
(*                                                                         *)
(* Texts are abstracted to the id add_messages gives their message and to  *)
(* whether they are blank; language models and classifiers answer          *)
(* arbitrarily; usage counts answers of the model for their tokens.        *)
(***************************************************************************)
EXTENDS Naturals, Sequences, FiniteSets

CONSTANTS
    MaxIterations,  \* settings.max_graph_iterations, 6 by default
    Tools,          \* tool names, "escalate_to_human" and "capture_lead" among them
    Enabled,        \* cfg.tools of this tenant
    Facts           \* what capture_lead may find out about the visitor

ASSUME GraphAssumption ==
    /\ MaxIterations \in Nat \ {0}
    /\ Enabled \subseteq Tools

VARIABLES
    cfg,          \* what the turn's configuration and transport decide
    history,      \* number of messages that precede the visitor's
    known,        \* ctx.intake: the facts the conversation had before
    messages,     \* state["messages"]
    blockedBy,    \* state["blocked"], and who set it: "nobody" if it is false
    escalate,     \* state["escalate"]
    intake,       \* state["intake"]
    usage,        \* state["usage"]
    iterations,   \* state["iterations"]
    trace,        \* state["trace"], without the order of its marks
    final,        \* chat_stream's merge of the updates, under its keys
    emitted,      \* ids of the texts the agent node has streamed
    pc,           \* the node about to run; "end", then "closed"
    waiting,      \* nodes of the first superstep still running
    reply,        \* ids of the texts that make up the reply
    outcome,      \* "running" | "replied" | "friendly" | "disconnected"
    cleared,      \* ghost: ids of the texts guard_out judged clean
    ran           \* ghost: tools executed

state == <<messages, blockedBy, escalate, intake, usage, iterations, trace>>
control == <<pc, waiting>>
given == <<reply, outcome>>
inputs == <<cfg, history, known>>

vars == <<inputs, state, final, emitted, control, given, cleared, ran>>

Config == [prohibitions : BOOLEAN, stream : BOOLEAN, streamTokens : BOOLEAN]

Message(id, from, blank, calls) == [id |-> id, from |-> from, blank |-> blank, calls |-> calls]
Last == messages[Len(messages)]
NextId == Len(messages) + 1
IsReply(m) == m.from \in {"ai", "refusal"} /\ ~m.blank
Refusal == Message(NextId, "refusal", FALSE, {})

\* initial_state: the loaded history and the visitor's message.  Whether a reply
\* in the history was judged is a matter of its own turn: it counts as cleared.
Init ==
    /\ cfg \in Config
    /\ history \in 0..1
    /\ known \in SUBSET Facts
    /\ messages = [i \in 1..(history + 1) |->
                      Message(i, IF i <= history THEN "ai" ELSE "human", FALSE, {})]
    /\ blockedBy = "nobody"
    /\ escalate = FALSE
    /\ intake = known
    /\ usage = 0
    /\ iterations = 0
    /\ trace = {}
    /\ final = [k \in {} |-> {}]
    /\ emitted = {}
    /\ pc = "start"
    /\ waiting = {"guard_in", "retrieve"}
    /\ reply = {}
    /\ outcome = "running"
    /\ cleared = 1..history
    /\ ran = {}

-----------------------------------------------------------------------------
(* Updates *)

\* d.get(key, default)
Get(d, key, default) == IF key \in DOMAIN d THEN d[key] ELSE default

Merged_Plain(u) == [k \in DOMAIN final \cup DOMAIN u |-> Get(u, k, Get(final, k, {}))]
\* chat_stream: the later update wins key by key, but the marks of the trace add up.
Merged(u) ==
    [k \in DOMAIN final \cup DOMAIN u \cup {"trace"} |->
        IF k = "trace" THEN Get(final, k, {}) \cup Get(u, k, {})
        ELSE Get(u, k, Get(final, k, {}))]

\* A node returns u: AgentState's reducers append to messages and to the trace,
\* every other key is overwritten; the stream gets u too.
Return(u) ==
    /\ messages' = messages \o Get(u, "messages", <<>>)
    /\ blockedBy' = Get(u, "blocked", blockedBy)
    /\ escalate' = Get(u, "escalate", escalate)
    /\ intake' = Get(u, "intake", intake)
    /\ usage' = Get(u, "usage", usage)
    /\ iterations' = Get(u, "iterations", iterations)
    /\ trace' = trace \cup Get(u, "trace", {})
    /\ final' = Merged(u)
    /\ UNCHANGED <<inputs, given>>

-----------------------------------------------------------------------------
(* The nodes *)

Ended(node) ==
    /\ pc # "closed"
    /\ node \in waiting
    /\ waiting' = waiting \ {node}
    /\ UNCHANGED <<pc, emitted, cleared, ran>>

Retrieve == Ended("retrieve") /\ Return([trace |-> {"retrieve"}])

\* No verdict (the classifier failed twice) fails open; a prohibited request
\* blocks and escalates; an injection blocks.
GuardIn ==
    /\ Ended("guard_in")
    /\ \/ \E mark \in {"guard_in", "guard_in:unverified"} :
             Return([blocked |-> "nobody", trace |-> {mark}])
       \/ \E prohibited \in BOOLEAN :
             Return([blocked |-> "guard_in", escalate |-> prohibited, trace |-> {"guard_in"}])

FanIn_First == waiting # {"guard_in", "retrieve"}
FanIn_Unblocked == waiting = {} /\ blockedBy = "nobody"
\* agent waits for both nodes of the first superstep.
FanIn == waiting = {}

EnterAgent ==
    /\ pc = "start"
    /\ FanIn
    /\ pc' = "agent"
    /\ UNCHANGED <<inputs, state, final, emitted, waiting, given, cleared, ran>>

AfterAgent_NoCap(n, calls) ==
    IF blockedBy # "nobody" THEN "end" ELSE IF calls # {} THEN "tools" ELSE "guard_out"
AfterAgent_CapUnguarded(n, calls) ==
    IF blockedBy # "nobody" \/ n >= MaxIterations THEN "end"
    ELSE IF calls # {} THEN "tools" ELSE "guard_out"
\* _after_agent
AfterAgent(n, calls) ==
    IF blockedBy # "nobody" THEN "end"
    ELSE IF n >= MaxIterations THEN "guard_out"
    ELSE IF calls # {} THEN "tools"
    ELSE "guard_out"

Says(m) ==
    /\ emitted' = IF m.blank THEN emitted ELSE emitted \cup {m.id}
    /\ pc' = AfterAgent(iterations + 1, m.calls)

Refuse ==
    /\ blockedBy # "nobody"
    /\ Says(Refusal)
    /\ Return([messages |-> <<Refusal>>, trace |-> {"agent:refused"}, iterations |-> iterations + 1])

Answer(m) ==
    /\ blockedBy = "nobody"
    /\ Says(m)
    /\ Return([messages |-> <<m>>, usage |-> usage + 1, trace |-> {"agent"},
               iterations |-> iterations + 1])

\* A blocked turn is answered with the refusal; otherwise the model answers with
\* text, with tool calls, with both or with neither.
Agent ==
    /\ pc = "agent"
    /\ \/ Refuse
       \/ \E blank \in BOOLEAN, calls \in SUBSET Tools : Answer(Message(NextId, "ai", blank, calls))
    /\ UNCHANGED <<waiting, cleared, ran>>

\* Every call gets a ToolMessage; a disabled tool is not executed, and a tool
\* that fails is a result like any other.  The calls in ok succeed.
ToolsNode ==
    /\ pc = "tools"
    /\ \E ok \in SUBSET (Last.calls \cap Enabled), captured \in SUBSET Facts :
          Return([messages |-> <<Message(NextId, "tool", FALSE, Last.calls)>>,
                  intake |-> IF "capture_lead" \in ok THEN intake \cup captured ELSE intake,
                  escalate |-> escalate \/ "escalate_to_human" \in ok,
                  trace |-> {"tools"}])
    /\ ran' = ran \cup (Last.calls \cap Enabled)
    /\ pc' = "agent"
    /\ UNCHANGED <<waiting, emitted, cleared>>

\* A violation appends the refusal; the draft stays in the list before it.
Replacement ==
    [messages |-> <<Refusal>>, blocked |-> "guard_out", trace |-> {"guard_out:replaced"}]

GuardOut ==
    /\ pc = "guard_out"
    /\ pc' = "end"
    /\ \/ /\ ~cfg.prohibitions \/ ~IsReply(Last)
          /\ Return([trace |-> {"guard_out"}])
          /\ UNCHANGED cleared
       \/ /\ cfg.prohibitions /\ IsReply(Last)
          /\ \/ Return([trace |-> {"guard_out:unverified"}]) /\ UNCHANGED cleared
             \/ Return([trace |-> {"guard_out"}]) /\ cleared' = cleared \cup {Last.id}
             \/ Return(Replacement) /\ UNCHANGED cleared
    /\ UNCHANGED <<waiting, emitted, ran>>

-----------------------------------------------------------------------------
(* The end of the turn *)

Replies(ms) == {i \in DOMAIN ms : IsReply(ms[i])}

\* extract_reply: the latest AI text that is not blank.
ReplyIn(ms) == {ms[i].id : i \in {k \in Replies(ms) : \A l \in Replies(ms) : l <= k}}

JsonReply == ReplyIn(messages)

\* extract_reply(final) or emitted
StreamReply ==
    LET found == ReplyIn(Get(final, "messages", <<>>))
    IN IF found # {} THEN found ELSE emitted

\* What close_turn makes of the dictionary d, beside the reply: the message it
\* adds, the intake and the status it saves, and what it bills.
Kept(d) ==
    [blocked |-> Get(d, "blocked", "nobody"), escalated |-> Get(d, "escalate", FALSE),
     intake |-> IF Get(d, "intake", {}) = {} THEN known ELSE Get(d, "intake", {}),
     usage |-> Get(d, "usage", 0), trace |-> Get(d, "trace", {})]

\* The dictionary POST /v1/chat closes the turn with.
State == [blocked |-> blockedBy, escalate |-> escalate, intake |-> intake,
          usage |-> usage, trace |-> trace]

\* close_turn succeeds and the client gets its payload.
Close ==
    /\ pc = "end"
    /\ pc' = "closed"
    /\ reply' = IF cfg.stream THEN StreamReply ELSE JsonReply
    /\ outcome' = "replied"
    /\ UNCHANGED <<inputs, state, final, emitted, waiting, cleared, ran>>

Abort(o) ==
    /\ pc # "closed"
    /\ pc' = "closed"
    /\ outcome' = o
    /\ UNCHANGED <<inputs, state, final, emitted, waiting, reply, cleared, ran>>

\* An exception in a node or in close_turn: the friendly error.
Fail == Abort("friendly")

\* The client drops the stream; the generator is cancelled at its next await.
Disconnect == cfg.stream /\ Abort("disconnected")

Step == Retrieve \/ GuardIn \/ EnterAgent \/ Agent \/ ToolsNode \/ GuardOut \/ Close

Next == Step \/ Fail \/ Disconnect

Spec == Init /\ [][Next]_vars

\* LangGraph runs the nodes to completion; model calls have timeouts.
FairSpec == Spec /\ WF_vars(Step)

-----------------------------------------------------------------------------
(* Properties *)

\* Every variable has its type; in particular a turn runs the agent at most
\* max_graph_iterations times.
TypeOK ==
    /\ cfg \in Config
    /\ history \in 0..1
    /\ known \subseteq Facts /\ intake \subseteq Facts
    /\ \A i \in 1..Len(messages) :
        messages[i] \in [id : {i}, from : {"human", "ai", "tool", "refusal"},
                         blank : BOOLEAN, calls : SUBSET Tools]
    /\ blockedBy \in {"nobody", "guard_in", "guard_out"}
    /\ escalate \in BOOLEAN
    /\ usage \in 0..MaxIterations /\ iterations \in 0..MaxIterations
    /\ pc \in {"start", "agent", "tools", "guard_out", "end", "closed"}
    /\ waiting \subseteq {"guard_in", "retrieve"}
    /\ emitted \cup reply \cup cleared \subseteq 1..Len(messages)
    /\ outcome \in {"running", "replied", "friendly", "disconnected"}
    /\ ran \subseteq Tools

\* A request guard_in blocks never reaches the answering model or a tool,
\* although guard_in runs beside retrieve, and is answered with the refusal.
BlockedNeverActs ==
    blockedBy = "guard_in" =>
        /\ usage = 0 /\ ran = {}
        /\ outcome = "replied" => \A i \in reply : messages[i].from = "refusal"

\* The tenant accepted that tokens bypass guard_out (stream_before_guard).
LiveTokens == cfg.stream /\ cfg.streamTokens

\* What the client has seen so far.
Seen == reply \cup IF LiveTokens THEN emitted ELSE {}

\* guard_out could not check the draft, and the trace says so.
Unverified == "guard_out:unverified" \in trace

\* The final draft was blank, so guard_out had nothing to look at.
NothingToGuard == outcome = "replied" /\ ~IsReply(Last)

\* Where guard_out's promise holds: unless the tenant opted into live tokens,
\* the check could not run and says so in the trace, or the final draft was
\* blank, the client only ever sees refusals and texts judged clean.
SeenWasCleared ==
    cfg.prohibitions /\ ~LiveTokens /\ ~Unverified /\ ~NothingToGuard =>
        \A i \in Seen : i \in cleared \/ messages[i].from = "refusal"

\* README: "Replies are held until cleared."  Without the exception for a blank
\* final draft, which no document makes.
HeldUntilCleared ==
    cfg.prohibitions /\ ~LiveTokens /\ ~Unverified =>
        \A i \in Seen : i \in cleared \/ messages[i].from = "refusal"

\* The dictionary the stream has merged from the updates closes the turn like
\* the graph's own state: the same verdict of the guards, escalation, saved
\* facts, bill and trace, and the same reply, except for a blank final draft.
\* The payload shows the same facts once a tool has run.
TransportsAgree ==
    pc = "end" =>
        /\ Kept(final) = Kept(State)
        /\ IsReply(Last) => StreamReply = JsonReply
        /\ "tools" \in trace => Get(final, "intake", {}) = intake

\* Every turn ends.
TurnEnds == <>(outcome # "running")
=============================================================================

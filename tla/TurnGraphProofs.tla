--------------------------- MODULE TurnGraphProofs ---------------------------
(***************************************************************************)
(* Theorems about TurnGraph for any cap on iterations, any tools, any      *)
(* choice of enabled ones and any facts.                                   *)
(***************************************************************************)
EXTENDS TurnGraph, SequenceTheorems, TLAPS

Messages == [id : Nat, from : {"human", "ai", "tool", "refusal"}, blank : BOOLEAN, calls : SUBSET Tools]

\* TypeOK with what the proofs need of the structures it looks into.
Typed ==
    /\ messages \in Seq(Messages) /\ messages # <<>>
    /\ \A i \in 1..Len(messages) : messages[i].id = i
    /\ cfg \in Config /\ history \in 0..1
    /\ known \subseteq intake /\ intake \subseteq Facts
    /\ blockedBy \in {"nobody", "guard_in", "guard_out"}
    /\ escalate \in BOOLEAN
    /\ usage \in Nat /\ usage <= iterations /\ iterations \in 0..MaxIterations
    /\ pc \in {"start", "agent", "tools", "guard_out", "end", "closed"}
    /\ waiting \subseteq {"guard_in", "retrieve"}
    /\ emitted \cup reply \cup cleared \subseteq 1..Len(messages)
    /\ outcome \in {"running", "replied", "friendly", "disconnected"}
    /\ ran \subseteq Tools

\* Nothing has been asked of the model before both nodes of the first superstep
\* are through; the agent is never entered at the cap.
Control ==
    /\ pc = "start" => usage = 0 /\ ran = {} /\ iterations = 0
    /\ pc \in {"agent", "tools", "guard_out", "end"} => waiting = {}
    /\ pc \in {"agent", "tools"} => iterations < MaxIterations
    /\ pc \in {"tools", "guard_out", "end"} => iterations > 0
    /\ pc \in {"start", "agent"} => blockedBy # "guard_out"
    /\ pc \in {"tools", "guard_out"} => blockedBy = "nobody"
    /\ pc = "tools" => Last.calls \subseteq Tools

\* The stream's dictionary mirrors the graph's state: what a key holds, or its
\* default, and of the messages the last one, once the agent has answered.
Mirror ==
    /\ Get(final, "blocked", "nobody") = blockedBy
    /\ Get(final, "escalate", FALSE) = escalate
    /\ Get(final, "intake", known) = intake
    /\ "tools" \in trace => "intake" \in DOMAIN final
    /\ Get(final, "usage", 0) = usage
    /\ Get(final, "trace", {}) = trace
    /\ iterations > 0 => Get(final, "messages", <<>>) = <<Last>>

IsRefusal(m) == m.from = "refusal" /\ ~m.blank

\* A blocked request has had no effect, and ends with the refusal.
Blocked ==
    blockedBy = "guard_in" =>
        /\ usage = 0 /\ ran = {}
        /\ pc = "end" => IsRefusal(Last)

Judged == Unverified \/ Len(messages) \in cleared \/ Last.from = "refusal"

\* Past guard_out, a reply has been judged or says that it was not.
Guarded == pc = "end" /\ cfg.prohibitions /\ IsReply(Last) => Judged

\* What a client is given is what the graph had at its end.
Given ==
    /\ outcome = "replied" => pc = "closed"
    /\ outcome # "replied" => reply = {}
    /\ outcome = "replied" /\ IsReply(Last) => reply = {Len(messages)}
    /\ outcome = "replied" /\ blockedBy = "guard_in" => IsRefusal(Last)
    /\ outcome = "replied" /\ cfg.prohibitions /\ IsReply(Last) => Judged

IInv == Typed /\ Control /\ Mirror /\ Blocked /\ Guarded /\ Given

-----------------------------------------------------------------------------
(* The messages *)

\* Appending keeps every message where it is and makes the new one the last.
LEMMA Appended ==
    ASSUME Typed, NEW m \in Messages, m.id = NextId, messages' = messages \o <<m>>
    PROVE  /\ messages' \in Seq(Messages) /\ messages' # <<>>
           /\ \A i \in 1..Len(messages') : messages'[i].id = i
           /\ Len(messages') = Len(messages) + 1
           /\ Last' = m
           /\ Len(messages) \in Nat
<1>1. messages' = Append(messages, m) BY AppendIsConcat DEF Typed
<1>2. /\ messages' \in Seq(Messages) /\ messages' # <<>> /\ Len(messages') = Len(messages) + 1
      /\ Len(messages) \in Nat
    BY <1>1, AppendProperties, LenProperties DEF Typed
<1>3. \A i \in 1..Len(messages') : messages'[i] = IF i <= Len(messages) THEN messages[i] ELSE m
    BY <1>1, <1>2, AppendProperties DEF Typed
<1>4. \A i \in 1..Len(messages') : messages'[i].id = i BY <1>2, <1>3 DEF Typed, NextId
<1>5. Last' = m BY <1>2, <1>3 DEF Last
<1> QED BY <1>2, <1>4, <1>5

LEMMA LastIsAMessage == Typed => Last \in Messages /\ Len(messages) \in Nat \ {0} /\ Last.id = Len(messages)
<1> SUFFICES ASSUME Typed PROVE Last \in Messages /\ Len(messages) \in Nat \ {0} /\ Last.id = Len(messages)
    OBVIOUS
<1>1. Len(messages) \in Nat /\ Len(messages) # 0 BY EmptySeq, LenProperties DEF Typed
<1>2. messages[Len(messages)] \in Messages BY <1>1, ElementOfSeq DEF Typed
<1>3. messages[Len(messages)].id = Len(messages) BY <1>1 DEF Typed
<1> QED BY <1>1, <1>2, <1>3 DEF Last

LEMMA RefusalIsAReply ==
    Typed => Refusal \in Messages /\ Refusal.id = NextId /\ IsRefusal(Refusal) /\ Refusal.calls = {}
<1> SUFFICES ASSUME Typed PROVE Refusal \in Messages /\ Refusal.id = NextId /\ IsRefusal(Refusal) /\ Refusal.calls = {}
    OBVIOUS
<1>1. NextId \in Nat BY LastIsAMessage DEF NextId
<1> QED BY <1>1 DEF Refusal, Message, Messages, IsRefusal

\* extract_reply finds the last message if that is a reply, in the whole list
\* as well as in a list of this message alone.
LEMMA LastReplyWins ==
    ASSUME Typed, Mirror, iterations > 0, IsReply(Last)
    PROVE  JsonReply = {Len(messages)} /\ StreamReply = {Len(messages)}
<1>1. Len(messages) \in Nat \ {0} /\ Last.id = Len(messages) BY LastIsAMessage
<1>2. DOMAIN messages = 1..Len(messages) BY LenProperties DEF Typed
<1>3. JsonReply = {Len(messages)}
    <2>1. Len(messages) \in Replies(messages) BY <1>1, <1>2 DEF Replies, Last
    <2>2. \A k \in Replies(messages) : k \in 1..Len(messages) BY <1>2 DEF Replies
    <2>3. {k \in Replies(messages) : \A l \in Replies(messages) : l <= k} = {Len(messages)}
        BY <1>1, <2>1, <2>2
    <2>4. \A i \in {Len(messages)} : messages[i].id = Len(messages) BY <1>1 DEF Last
    <2> QED BY <2>3, <2>4 DEF JsonReply, ReplyIn
<1>4. ReplyIn(<<Last>>) = {Len(messages)}
    <2> DEFINE one == <<Last>>
    <2>1. DOMAIN one = {1} /\ one[1] = Last OBVIOUS
    <2> HIDE DEF one
    <2>2. Replies(one) = {1} BY <2>1 DEF Replies
    <2>3. {k \in Replies(one) : \A l \in Replies(one) : l <= k} = {1} BY <2>2
    <2>4. \A i \in {1} : one[i].id = Len(messages) BY <2>1, <1>1
    <2>5. ReplyIn(one) = {Len(messages)} BY <2>3, <2>4 DEF ReplyIn
    <2> QED BY <2>5 DEF one
<1>5. StreamReply = {Len(messages)} BY <1>4 DEF StreamReply, Mirror
<1> QED BY <1>3, <1>5

-----------------------------------------------------------------------------
(* The updates *)

\* In the merged dictionary a key has its value in the update, else the one it had.
LEMMA MergedGet ==
    ASSUME NEW u, NEW k, k # "trace", NEW default
    PROVE  Get(Merged(u), k, default) = Get(u, k, Get(final, k, default))
BY DEF Merged, Get

LEMMA MergedDomain ==
    ASSUME NEW u PROVE DOMAIN Merged(u) = DOMAIN final \cup DOMAIN u \cup {"trace"}
BY DEF Merged

\* The marks of the trace add up.
LEMMA MergedTrace ==
    ASSUME NEW u PROVE Get(Merged(u), "trace", {}) = Get(final, "trace", {}) \cup Get(u, "trace", {})
BY DEF Merged, Get

\* Whatever a node returns, the dictionary mirrors the state afterwards, provided
\* the tools say what they know and a node says at most one thing.
LEMMA ReturnMirrors ==
    ASSUME Typed, Mirror, NEW u, Return(u),
           "tools" \in Get(u, "trace", {}) => "intake" \in DOMAIN u,
           \/ "messages" \notin DOMAIN u /\ "iterations" \notin DOMAIN u
           \/ /\ "messages" \in DOMAIN u
              /\ \E m \in Messages : m.id = NextId /\ u["messages"] = <<m>>
    PROVE  Mirror'
<1>0. final' = Merged(u) BY DEF Return
<1>1. /\ Get(final, "blocked", "nobody")' = blockedBy'
      /\ Get(final, "escalate", FALSE)' = escalate'
      /\ Get(final, "usage", 0)' = usage'
    BY <1>0, MergedGet DEF Return, Mirror, Get
<1>2. Get(final, "intake", known)' = intake'
    BY <1>0, MergedGet DEF Return, Mirror, Get, inputs
<1>3. Get(final, "trace", {})' = trace' BY <1>0, MergedTrace DEF Return, Mirror, Get
<1>4. "tools" \in trace' => "intake" \in DOMAIN final'
    BY <1>0, MergedDomain DEF Return, Mirror
<1>5. iterations' > 0 => Get(final, "messages", <<>>)' = <<Last'>>
    <2>1. Get(final, "messages", <<>>)' = Get(u, "messages", Get(final, "messages", <<>>))
        BY <1>0, MergedGet DEF Get
    <2>2. CASE "messages" \notin DOMAIN u /\ "iterations" \notin DOMAIN u
        <3>1. messages' = messages \o <<>> BY <2>2 DEF Return, Get
        <3>2. messages' = messages BY <3>1, ConcatEmptySeq DEF Typed
        <3>3. iterations' = iterations BY <2>2 DEF Return, Get
        <3> QED BY <2>1, <2>2, <3>2, <3>3 DEF Mirror, Get, Last
    <2>3. CASE "messages" \in DOMAIN u /\ \E m \in Messages : m.id = NextId /\ u["messages"] = <<m>>
        <3>1. PICK m \in Messages : m.id = NextId /\ u["messages"] = <<m>> BY <2>3
        <3>2. messages' = messages \o <<m>> BY <2>3, <3>1 DEF Return, Get
        <3>3. Last' = m BY <3>1, <3>2, Appended
        <3>4. Get(u, "messages", Get(final, "messages", <<>>)) = <<m>> BY <2>3, <3>1 DEF Get
        <3> QED BY <2>1, <3>3, <3>4
    <2> QED BY <2>2, <2>3
<1> QED BY <1>1, <1>2, <1>3, <1>4, <1>5 DEF Mirror

\* An update without messages leaves them alone.
LEMMA SilentReturn ==
    ASSUME Typed, NEW u, Return(u), "messages" \notin DOMAIN u
    PROVE  messages' = messages /\ Last' = Last
<1>1. messages' = messages \o <<>> BY DEF Return, Get
<1>2. messages' = messages BY <1>1, ConcatEmptySeq DEF Typed
<1> QED BY <1>2 DEF Last

-----------------------------------------------------------------------------
(* Every action preserves the inductive invariant. *)

LEMMA InitInv == Init => IInv
<1> SUFFICES ASSUME Init PROVE IInv OBVIOUS
<1> DEFINE first(i) == Message(i, IF i <= history THEN "ai" ELSE "human", FALSE, {})
<1>1. history \in Nat /\ messages = [i \in 1..(history + 1) |-> first(i)] BY DEF Init
<1>2. \A i \in 1..(history + 1) : first(i) \in Messages /\ first(i).id = i
    BY <1>1 DEF Message, Messages
<1> HIDE DEF first
<1>3. messages \in Seq(Messages) /\ Len(messages) = history + 1
    <2>1. messages \in [1..(history + 1) -> Messages] BY <1>1, <1>2
    <2>2. history + 1 \in Nat BY <1>1
    <2> QED BY <2>1, <2>2, SeqDef, LenProperties
<1>4. messages # <<>> BY <1>1, <1>3, LenProperties
<1>5. \A i \in 1..Len(messages) : messages[i].id = i BY <1>1, <1>2, <1>3
<1>6. Typed
    <2>1. emitted \cup reply \cup cleared \subseteq 1..Len(messages) BY <1>1, <1>3 DEF Init
    <2>2. /\ cfg \in Config /\ history \in 0..1 /\ known \subseteq intake /\ intake \subseteq Facts
          /\ blockedBy = "nobody" /\ escalate = FALSE /\ usage = 0 /\ iterations = 0
          /\ 0 \in 0..MaxIterations
          /\ pc = "start" /\ waiting = {"guard_in", "retrieve"} /\ outcome = "running" /\ ran = {}
        BY GraphAssumption DEF Init
    <2> HIDE DEF first
    <2>3. escalate \in BOOLEAN BY <2>2, Zenon
    <2>4. /\ blockedBy \in {"nobody", "guard_in", "guard_out"}
          /\ usage \in Nat /\ usage <= iterations /\ iterations \in 0..MaxIterations
          /\ pc \in {"start", "agent", "tools", "guard_out", "end", "closed"}
          /\ waiting \subseteq {"guard_in", "retrieve"}
          /\ outcome \in {"running", "replied", "friendly", "disconnected"} /\ ran \subseteq Tools
        BY <2>2
    <2> QED BY <1>3, <1>4, <1>5, <2>1, <2>2, <2>3, <2>4, Zenon DEF Typed
<1>7. Control BY GraphAssumption DEF Init, Control
<1>8. Mirror
    <2>1. DOMAIN final = {} BY DEF Init
    <2>2. /\ blockedBy = "nobody" /\ escalate = FALSE /\ intake = known /\ trace = {}
          /\ usage = 0 /\ ~(iterations > 0)
        BY DEF Init
    <2> QED BY <2>1, <2>2 DEF Mirror, Get
<1>9. Blocked /\ Guarded /\ Given BY DEF Init, Blocked, Guarded, Given
<1> QED BY <1>6, <1>7, <1>8, <1>9 DEF IInv

LEMMA RetrieveInv == ASSUME IInv, Retrieve PROVE IInv'
<1> USE DEF IInv
<1> DEFINE u == [trace |-> {"retrieve"}]
<1>1. Return(u) /\ Ended("retrieve") BY DEF Retrieve
<1>2. /\ DOMAIN u = {"trace"} /\ Get(u, "trace", {}) = {"retrieve"} BY DEF Get
<1> HIDE DEF u
<1>3. messages' = messages /\ Last' = Last BY <1>1, <1>2, SilentReturn
<1>4. Mirror' BY <1>1, <1>2, ReturnMirrors
<1>5. /\ UNCHANGED <<blockedBy, escalate, intake, usage, iterations, cfg, history, known, reply, outcome,
                     pc, emitted, cleared, ran>>
      /\ waiting' \subseteq waiting /\ Unverified' = Unverified /\ pc # "closed"
    BY <1>1, <1>2 DEF Return, Ended, Get, inputs, given, Unverified
<1>6. Typed' BY <1>3, <1>5 DEF Typed
<1>7. Control' BY <1>3, <1>5 DEF Control
<1>8. Blocked' /\ Guarded' /\ Given' BY <1>3, <1>5 DEF Blocked, Guarded, Given, Judged
<1> QED BY <1>4, <1>6, <1>7, <1>8

LEMMA GuardInInv == ASSUME IInv, GuardIn PROVE IInv'
<1> USE DEF IInv
<1>1. PICK u :
        /\ Return(u) /\ Ended("guard_in")
        /\ DOMAIN u \subseteq {"blocked", "escalate", "trace"}
        /\ "tools" \notin Get(u, "trace", {})
        /\ Get(u, "blocked", blockedBy) \in {"nobody", "guard_in"}
        /\ Get(u, "escalate", escalate) \in BOOLEAN
    <2>1. CASE \E mark \in {"guard_in", "guard_in:unverified"} :
                  Return([blocked |-> "nobody", trace |-> {mark}])
        <3>1. PICK mark \in {"guard_in", "guard_in:unverified"} :
                  Return([blocked |-> "nobody", trace |-> {mark}])
            BY <2>1
        <3> DEFINE u == [blocked |-> "nobody", trace |-> {mark}]
        <3>2. /\ DOMAIN u = {"blocked", "trace"} /\ Get(u, "trace", {}) = {mark}
              /\ Get(u, "blocked", blockedBy) = "nobody" /\ Get(u, "escalate", escalate) = escalate
            BY DEF Get
        <3>3. Return(u) BY <3>1
        <3> HIDE DEF u
        <3> QED BY <3>2, <3>3 DEF GuardIn, Typed
    <2>2. CASE \E prohibited \in BOOLEAN :
                  Return([blocked |-> "guard_in", escalate |-> prohibited, trace |-> {"guard_in"}])
        <3>1. PICK prohibited \in BOOLEAN :
                  Return([blocked |-> "guard_in", escalate |-> prohibited, trace |-> {"guard_in"}])
            BY <2>2
        <3> DEFINE u == [blocked |-> "guard_in", escalate |-> prohibited, trace |-> {"guard_in"}]
        <3>2. /\ DOMAIN u = {"blocked", "escalate", "trace"} /\ Get(u, "trace", {}) = {"guard_in"}
              /\ Get(u, "blocked", blockedBy) = "guard_in" /\ Get(u, "escalate", escalate) = prohibited
            BY DEF Get
        <3>3. Return(u) BY <3>1
        <3> HIDE DEF u
        <3> QED BY <3>2, <3>3 DEF GuardIn
    <2> QED BY <2>1, <2>2 DEF GuardIn
<1>2. messages' = messages /\ Last' = Last BY <1>1, SilentReturn
<1>3. Mirror' BY <1>1, ReturnMirrors
<1>4. pc = "start" BY <1>1 DEF Ended, Typed, Control
<1>5. /\ UNCHANGED <<intake, usage, iterations, cfg, history, known, reply, outcome,
                     pc, emitted, cleared, ran>>
      /\ waiting' \subseteq waiting
      /\ blockedBy' \in {"nobody", "guard_in"} /\ escalate' \in BOOLEAN
    BY <1>1 DEF Return, Ended, Get, inputs, given
<1>6. Typed' BY <1>2, <1>5 DEF Typed
<1>7. Control' BY <1>4, <1>5 DEF Control
<1>8. Blocked' BY <1>4, <1>5 DEF Blocked, Control
<1>9. Guarded' /\ Given' BY <1>4, <1>5 DEF Guarded, Given
<1> QED BY <1>3, <1>6, <1>7, <1>8, <1>9

LEMMA EnterAgentInv == ASSUME IInv, EnterAgent PROVE IInv'
<1> USE DEF IInv
<1>1. /\ pc = "start" /\ pc' = "agent" /\ waiting = {}
      /\ UNCHANGED <<cfg, history, known, messages, blockedBy, escalate, intake, usage, iterations,
                     trace, final, emitted, waiting, reply, outcome, cleared, ran>>
    BY DEF EnterAgent, FanIn, inputs, state, given
<1>2. Typed' BY <1>1 DEF Typed
<1>3. Control' BY <1>1, GraphAssumption DEF Control
<1>4. Mirror' BY <1>1 DEF Mirror, Last, Get
<1>5. Blocked' /\ Guarded' /\ Given' BY <1>1 DEF Blocked, Guarded, Given
<1> QED BY <1>2, <1>3, <1>4, <1>5

\* What both forms of the agent have in common: one message, one iteration.
LEMMA SaysInv ==
    ASSUME IInv, pc = "agent", NEW m \in Messages, m.id = NextId, Says(m),
           NEW u, Return(u), "messages" \in DOMAIN u, u["messages"] = <<m>>,
           "tools" \notin Get(u, "trace", {}),
           "guard_out:unverified" \notin Get(u, "trace", {}),
           Get(u, "blocked", blockedBy) = blockedBy, Get(u, "escalate", escalate) = escalate,
           Get(u, "intake", intake) = intake, Get(u, "iterations", iterations) = iterations + 1,
           \/ blockedBy # "nobody" /\ IsRefusal(m) /\ Get(u, "usage", usage) = usage
           \/ blockedBy = "nobody" /\ Get(u, "usage", usage) = usage + 1,
           UNCHANGED <<waiting, cleared, ran>>
    PROVE  IInv'
<1> USE DEF IInv
<1>1. messages' = messages \o <<m>> BY DEF Return, Get
<1>2. /\ messages' \in Seq(Messages) /\ messages' # <<>> /\ Last' = m
      /\ \A i \in 1..Len(messages') : messages'[i].id = i
      /\ Len(messages') = Len(messages) + 1 /\ Len(messages) \in Nat
    BY <1>1, Appended
<1>3. Mirror' BY ReturnMirrors
<1>4. /\ waiting = {} /\ iterations < MaxIterations /\ blockedBy # "guard_out"
      /\ outcome # "replied" /\ reply = {}
    BY DEF Control, Given
<1>5. /\ UNCHANGED <<cfg, history, known, reply, outcome, waiting, blockedBy, escalate, intake, cleared, ran>>
      /\ iterations' = iterations + 1
      /\ usage' \in {usage, usage + 1} /\ (blockedBy # "nobody" => usage' = usage)
    BY DEF Return, inputs, given
<1>6. /\ pc' \in {"end", "tools", "guard_out"}
      /\ pc' = "end" <=> blockedBy # "nobody"
      /\ pc' = "tools" => iterations + 1 < MaxIterations
    BY <1>4, GraphAssumption DEF Says, AfterAgent, Typed
<1>7. emitted' \cup reply' \cup cleared' \subseteq 1..Len(messages')
    BY <1>2, <1>5 DEF Typed, Says, NextId
<1>8. Typed' BY <1>2, <1>4, <1>5, <1>6, <1>7, GraphAssumption DEF Typed
<1>9. Control'
    <2>1. Last'.calls \subseteq Tools BY <1>2 DEF Messages
    <2> QED BY <1>4, <1>5, <1>6, <2>1 DEF Control, Typed
<1>10. Blocked' BY <1>2, <1>5, <1>6 DEF Blocked
<1>11. Guarded' BY <1>2, <1>5, <1>6 DEF Guarded, Judged, IsRefusal
<1>12. Given' BY <1>4, <1>5 DEF Given
<1> QED BY <1>3, <1>8, <1>9, <1>10, <1>11, <1>12

LEMMA AgentInv == ASSUME IInv, Agent PROVE IInv'
<1>0. pc = "agent" /\ UNCHANGED <<waiting, cleared, ran>> BY DEF Agent
<1>1. CASE Refuse
    <2> DEFINE u == [messages |-> <<Refusal>>, trace |-> {"agent:refused"}, iterations |-> iterations + 1]
    <2>1. Return(u) /\ Says(Refusal) /\ blockedBy # "nobody" BY <1>1 DEF Refuse
    <2>2. /\ DOMAIN u = {"messages", "trace", "iterations"} /\ u["messages"] = <<Refusal>>
          /\ Get(u, "trace", {}) = {"agent:refused"} /\ Get(u, "iterations", iterations) = iterations + 1
        BY DEF Get
    <2> HIDE DEF u
    <2>3. /\ Get(u, "blocked", blockedBy) = blockedBy /\ Get(u, "escalate", escalate) = escalate
          /\ Get(u, "intake", intake) = intake /\ Get(u, "usage", usage) = usage
        BY <2>2 DEF Get
    <2>4. Refusal \in Messages /\ Refusal.id = NextId /\ IsRefusal(Refusal)
        BY RefusalIsAReply DEF IInv
    <2> QED BY <1>0, <2>1, <2>2, <2>3, <2>4, SaysInv
<1>2. CASE \E blank \in BOOLEAN, calls \in SUBSET Tools : Answer(Message(NextId, "ai", blank, calls))
    <2>1. PICK blank \in BOOLEAN, calls \in SUBSET Tools : Answer(Message(NextId, "ai", blank, calls))
        BY <1>2
    <2> DEFINE m == Message(NextId, "ai", blank, calls)
    <2> DEFINE u == [messages |-> <<m>>, usage |-> usage + 1, trace |-> {"agent"},
                     iterations |-> iterations + 1]
    <2>2. Return(u) /\ Says(m) /\ blockedBy = "nobody" BY <2>1 DEF Answer
    <2>3. m \in Messages /\ m.id = NextId
        <3>1. NextId \in Nat BY LastIsAMessage DEF NextId, IInv
        <3> QED BY <3>1 DEF Message, Messages
    <2> HIDE DEF m
    <2>4. /\ DOMAIN u = {"messages", "usage", "trace", "iterations"} /\ u["messages"] = <<m>>
          /\ Get(u, "trace", {}) = {"agent"} /\ Get(u, "iterations", iterations) = iterations + 1
          /\ Get(u, "usage", usage) = usage + 1
        BY DEF Get
    <2> HIDE DEF u
    <2>5. /\ Get(u, "blocked", blockedBy) = blockedBy /\ Get(u, "escalate", escalate) = escalate
          /\ Get(u, "intake", intake) = intake
        BY <2>4 DEF Get
    <2> QED BY <1>0, <2>2, <2>3, <2>4, <2>5, SaysInv
<1> QED BY <1>1, <1>2 DEF Agent

LEMMA ToolsNodeInv == ASSUME IInv, ToolsNode PROVE IInv'
<1> USE DEF IInv
<1> DEFINE m == Message(NextId, "tool", FALSE, Last.calls)
<1>1. PICK more \in SUBSET Facts, flag \in BOOLEAN :
        /\ intake \subseteq more
        /\ Return([messages |-> <<m>>, intake |-> more, escalate |-> flag, trace |-> {"tools"}])
    <2>1. PICK ok \in SUBSET (Last.calls \cap Enabled), captured \in SUBSET Facts :
            Return([messages |-> <<m>>,
                    intake |-> IF "capture_lead" \in ok THEN intake \cup captured ELSE intake,
                    escalate |-> escalate \/ "escalate_to_human" \in ok,
                    trace |-> {"tools"}])
        BY DEF ToolsNode
    <2> DEFINE more == IF "capture_lead" \in ok THEN intake \cup captured ELSE intake
    <2> DEFINE flag == escalate \/ "escalate_to_human" \in ok
    <2>2. more \in SUBSET Facts /\ intake \subseteq more BY DEF Typed
    <2>3. flag \in BOOLEAN OBVIOUS
    <2>4. Return([messages |-> <<m>>, intake |-> more, escalate |-> flag, trace |-> {"tools"}]) BY <2>1
    <2> HIDE DEF more, flag, m
    <2> QED BY <2>2, <2>3, <2>4
<1> DEFINE u == [messages |-> <<m>>, intake |-> more, escalate |-> flag, trace |-> {"tools"}]
<1>2. Return(u) BY <1>1
<1>3. m \in Messages /\ m.id = NextId
    <2>1. NextId \in Nat BY LastIsAMessage DEF NextId
    <2> QED BY <2>1 DEF ToolsNode, Control, Message, Messages
<1> HIDE DEF m
<1>4. /\ DOMAIN u = {"messages", "intake", "escalate", "trace"} /\ u["messages"] = <<m>>
      /\ Get(u, "trace", {}) = {"tools"} /\ Get(u, "intake", intake) = more
      /\ Get(u, "escalate", escalate) = flag
    BY DEF Get
<1> HIDE DEF u
<1>5. Mirror' BY <1>2, <1>3, <1>4, ReturnMirrors
<1>6. messages' = messages \o <<m>> BY <1>2, <1>4 DEF Return, Get
<1>7. /\ messages' \in Seq(Messages) /\ messages' # <<>> /\ Last' = m
      /\ \A i \in 1..Len(messages') : messages'[i].id = i
      /\ Len(messages') = Len(messages) + 1 /\ Len(messages) \in Nat
    BY <1>3, <1>6, Appended
<1>8. /\ pc = "tools" /\ pc' = "agent" /\ waiting = {} /\ blockedBy = "nobody"
      /\ iterations < MaxIterations /\ outcome # "replied"
      /\ UNCHANGED <<cfg, history, known, reply, outcome, waiting, blockedBy, usage, iterations,
                     emitted, cleared>>
      /\ intake' = more /\ escalate' = flag /\ ran' \subseteq Tools
    BY <1>2, <1>4, GraphAssumption DEF ToolsNode, Control, Given, Return, Get, inputs, given, Typed
<1>9. Typed'
    <2>1. emitted' \cup reply' \cup cleared' \subseteq 1..Len(messages') BY <1>7, <1>8 DEF Typed
    <2> QED BY <1>1, <1>7, <1>8, <2>1 DEF Typed
<1>10. Control' BY <1>8 DEF Control
<1>11. Blocked' /\ Guarded' /\ Given' BY <1>8 DEF Blocked, Guarded, Given
<1> QED BY <1>5, <1>9, <1>10, <1>11

LEMMA GuardOutInv == ASSUME IInv, GuardOut PROVE IInv'
<1> USE DEF IInv
<1>1. /\ pc = "guard_out" /\ pc' = "end" /\ waiting = {} /\ blockedBy = "nobody"
      /\ outcome # "replied" /\ iterations > 0
      /\ Len(messages) \in Nat \ {0} /\ Last.id = Len(messages)
      /\ UNCHANGED <<waiting, emitted, ran>>
    BY LastIsAMessage DEF GuardOut, Control, Given
<1>2. CASE Return(Replacement) /\ UNCHANGED cleared
    <2> DEFINE u == Replacement
    <2>1. /\ DOMAIN u = {"messages", "blocked", "trace"} /\ u["messages"] = <<Refusal>>
          /\ Get(u, "trace", {}) = {"guard_out:replaced"} /\ Get(u, "blocked", blockedBy) = "guard_out"
        BY DEF Get, Replacement
    <2> HIDE DEF u
    <2>2. Refusal \in Messages /\ Refusal.id = NextId /\ IsRefusal(Refusal) BY RefusalIsAReply
    <2>3. Return(u) BY <1>2 DEF u
    <2>4. Mirror' BY <2>1, <2>2, <2>3, ReturnMirrors
    <2>5. messages' = messages \o <<Refusal>> BY <2>1, <2>3 DEF Return, Get
    <2>6. /\ messages' \in Seq(Messages) /\ messages' # <<>> /\ Last' = Refusal
          /\ \A i \in 1..Len(messages') : messages'[i].id = i
          /\ Len(messages') = Len(messages) + 1
        BY <2>2, <2>5, Appended
    <2>7. /\ UNCHANGED <<cfg, history, known, reply, outcome, escalate, intake, usage, iterations>>
          /\ blockedBy' = "guard_out"
        BY <2>1, <2>3 DEF Return, Get, inputs, given
    <2>8. Typed' BY <1>1, <1>2, <2>6, <2>7 DEF Typed
    <2>9. Control' BY <1>1, <2>7 DEF Control
    <2>10. Blocked' /\ Guarded' /\ Given' BY <1>1, <2>2, <2>6, <2>7 DEF Blocked, Guarded, Given, Judged, IsRefusal
    <2> QED BY <2>4, <2>8, <2>9, <2>10
<1>3. CASE \E mark \in {"guard_out", "guard_out:unverified"} :
            /\ Return([trace |-> {mark}])
            /\ \/ ~cfg.prohibitions \/ ~IsReply(Last)
               \/ mark = "guard_out:unverified"
               \/ Last.id \in cleared'
            /\ cleared' \in {cleared, cleared \cup {Last.id}}
    <2>1. PICK mark \in {"guard_out", "guard_out:unverified"} :
            /\ Return([trace |-> {mark}])
            /\ \/ ~cfg.prohibitions \/ ~IsReply(Last)
               \/ mark = "guard_out:unverified"
               \/ Last.id \in cleared'
            /\ cleared' \in {cleared, cleared \cup {Last.id}}
        BY <1>3
    <2> DEFINE u == [trace |-> {mark}]
    <2>2. DOMAIN u = {"trace"} /\ Get(u, "trace", {}) = {mark} BY DEF Get
    <2>3. Return(u) BY <2>1
    <2> HIDE DEF u
    <2>4. Mirror' BY <2>2, <2>3, ReturnMirrors
    <2>5. messages' = messages /\ Last' = Last BY <2>2, <2>3, SilentReturn
    <2>6. /\ UNCHANGED <<cfg, history, known, reply, outcome, blockedBy, escalate, intake, usage, iterations>>
          /\ trace' = trace \cup {mark}
        BY <2>2, <2>3 DEF Return, Get, inputs, given
    <2>7. Typed' BY <1>1, <2>1, <2>5, <2>6 DEF Typed
    <2>8. Control' BY <1>1, <2>6 DEF Control
    <2>9. Blocked' /\ Given' BY <1>1, <2>6 DEF Blocked, Given
    <2>10. Guarded' BY <1>1, <2>1, <2>5, <2>6 DEF Guarded, Judged, Unverified
    <2> QED BY <2>4, <2>7, <2>8, <2>9, <2>10
<1> QED
    <2>1. CASE (~cfg.prohibitions \/ ~IsReply(Last)) /\ Return([trace |-> {"guard_out"}]) /\ UNCHANGED cleared
        BY <2>1, <1>3
    <2>2. CASE Return([trace |-> {"guard_out:unverified"}]) /\ UNCHANGED cleared
        BY <2>2, <1>3
    <2>3. CASE Return([trace |-> {"guard_out"}]) /\ cleared' = cleared \cup {Last.id}
        BY <2>3, <1>3
    <2> QED BY <1>2, <2>1, <2>2, <2>3 DEF GuardOut

LEMMA CloseInv == ASSUME IInv, Close PROVE IInv'
<1> USE DEF IInv
<1>1. /\ pc = "end" /\ pc' = "closed" /\ outcome' = "replied"
      /\ reply' = IF cfg.stream THEN StreamReply ELSE JsonReply
      /\ UNCHANGED <<cfg, history, known, messages, blockedBy, escalate, intake, usage, iterations,
                     trace, final, emitted, waiting, cleared, ran>>
    BY DEF Close, inputs, state
<1>2. Last' = Last /\ iterations > 0 BY <1>1 DEF Last, Control
<1>3. Typed'
    <2>1. JsonReply \subseteq 1..Len(messages)
        <3>1. DOMAIN messages = 1..Len(messages) BY LenProperties DEF Typed
        <3>2. \A i \in Replies(messages) : messages[i].id \in 1..Len(messages)
            BY <3>1 DEF Replies, Typed
        <3> QED BY <3>2 DEF JsonReply, ReplyIn
    <2>2. StreamReply \subseteq 1..Len(messages)
        <3>1. Last.id \in 1..Len(messages) BY LastIsAMessage
        <3> DEFINE one == <<Last>>
        <3>2. DOMAIN one = {1} /\ one[1] = Last OBVIOUS
        <3>3. Get(final, "messages", <<>>) = one BY <1>2 DEF Mirror
        <3> HIDE DEF one
        <3>4. \A i \in Replies(one) : one[i].id \in 1..Len(messages) BY <3>1, <3>2 DEF Replies
        <3>5. ReplyIn(one) \subseteq 1..Len(messages) BY <3>4 DEF ReplyIn
        <3> QED BY <3>3, <3>5 DEF StreamReply, Typed
    <2> QED BY <1>1, <2>1, <2>2 DEF Typed
<1>4. Control' BY <1>1 DEF Control
<1>5. Mirror' BY <1>1, <1>2 DEF Mirror, Get
<1>6. Blocked' /\ Guarded' BY <1>1 DEF Blocked, Guarded
<1>7. IsReply(Last) => reply' = {Len(messages)} BY <1>1, <1>2, LastReplyWins
<1>8. Given' BY <1>1, <1>2, <1>7 DEF Given, Blocked, Guarded, Judged, Unverified
<1> QED BY <1>3, <1>4, <1>5, <1>6, <1>8

LEMMA AbortInv == ASSUME IInv, Fail \/ Disconnect PROVE IInv'
<1> USE DEF IInv
<1>1. /\ pc # "closed" /\ pc' = "closed" /\ outcome' \in {"friendly", "disconnected"}
      /\ UNCHANGED <<cfg, history, known, messages, blockedBy, escalate, intake, usage, iterations,
                     trace, final, emitted, waiting, reply, cleared, ran>>
    BY DEF Fail, Disconnect, Abort, inputs, state
<1>2. Typed' BY <1>1 DEF Typed
<1>3. Control' BY <1>1 DEF Control
<1>4. Mirror' BY <1>1 DEF Mirror, Get, Last
<1>5. Blocked' /\ Guarded' /\ Given' BY <1>1 DEF Blocked, Guarded, Given
<1> QED BY <1>2, <1>3, <1>4, <1>5

LEMMA StepInv == IInv /\ [Next]_vars => IInv'
<1> SUFFICES ASSUME IInv, [Next]_vars PROVE IInv' OBVIOUS
<1>1. CASE UNCHANGED vars
    <2>1. UNCHANGED <<cfg, history, known, messages, blockedBy, escalate, intake, usage, iterations,
                      trace, final, emitted, pc, waiting, reply, outcome, cleared, ran>>
        BY <1>1 DEF vars, inputs, state, control, given
    <2>2. Typed' /\ Control' BY <2>1 DEF IInv, Typed, Control, Last
    <2>3. Mirror' BY <2>1 DEF IInv, Mirror, Get, Last
    <2>4. Blocked' /\ Guarded' /\ Given'
        BY <2>1 DEF IInv, Blocked, Guarded, Given, Judged, Unverified, Last
    <2> QED BY <2>2, <2>3, <2>4 DEF IInv
<1>2. CASE Next
    BY <1>2, RetrieveInv, GuardInInv, EnterAgentInv, AgentInv, ToolsNodeInv, GuardOutInv, CloseInv,
        AbortInv DEF Next, Step
<1> QED BY <1>1, <1>2

THEOREM Inductive == Spec => []IInv
BY InitInv, StepInv, PTL DEF Spec

-----------------------------------------------------------------------------
(* What follows from it *)

\* Type correctness; in particular a turn asks the model at most as often as the
\* cap on iterations allows.
THEOREM TypeCorrect == Spec => []TypeOK
<1>1. IInv => TypeOK
    <2> SUFFICES ASSUME IInv PROVE TypeOK OBVIOUS
    <2>1. \A i \in 1..Len(messages) : messages[i] \in Messages /\ messages[i].id = i
        BY ElementOfSeq DEF IInv, Typed
    <2>2. usage \in 0..MaxIterations BY GraphAssumption DEF IInv, Typed
    <2>3. known \subseteq Facts BY DEF IInv, Typed
    <2> QED BY <2>1, <2>2, <2>3 DEF IInv, Typed, TypeOK, Messages
<1> QED BY <1>1, Inductive, PTL

\* A request that guard_in blocks reaches neither the model nor a tool, and is
\* answered with the refusal, whichever node of the fan-out comes first.
THEOREM BlockedIsInert == Spec => []BlockedNeverActs
<1>1. IInv => BlockedNeverActs
    <2> SUFFICES ASSUME IInv, blockedBy = "guard_in" PROVE BlockedNeverActs BY DEF BlockedNeverActs
    <2>1. usage = 0 /\ ran = {} BY DEF IInv, Blocked
    <2>2. outcome = "replied" => \A i \in reply : messages[i].from = "refusal"
        BY DEF IInv, Given, Last, IsRefusal, IsReply
    <2> QED BY <2>1, <2>2 DEF BlockedNeverActs
<1> QED BY <1>1, Inductive, PTL

\* The promise of guard_out, with its exceptions: what the client sees was judged
\* clean or is the refusal.
THEOREM SeenIsCleared == Spec => []SeenWasCleared
<1>1. IInv => SeenWasCleared
    BY DEF IInv, Given, Judged, Last, SeenWasCleared, Seen, NothingToGuard
<1> QED BY <1>1, Inductive, PTL

\* The dictionary the stream merges from the nodes' updates closes a turn like the
\* graph's own state, and gives the same reply whenever the last message is one.
THEOREM TransportsGiveTheSame == Spec => []TransportsAgree
<1>1. IInv => TransportsAgree
    <2> SUFFICES ASSUME IInv, pc = "end" PROVE TransportsAgree BY DEF TransportsAgree
    <2>1. Kept(final) = Kept(State)
        <3>1. /\ Get(State, "blocked", "nobody") = blockedBy /\ Get(State, "escalate", FALSE) = escalate
              /\ Get(State, "intake", {}) = intake /\ Get(State, "usage", 0) = usage
              /\ Get(State, "trace", {}) = trace
            BY DEF State, Get
        <3>2. (IF Get(final, "intake", {}) = {} THEN known ELSE Get(final, "intake", {})) = intake
            BY DEF IInv, Typed, Mirror, Get
        <3>3. (IF intake = {} THEN known ELSE intake) = intake BY DEF IInv, Typed
        <3> QED BY <3>1, <3>2, <3>3 DEF Kept, IInv, Mirror
    <2>2. IsReply(Last) => StreamReply = JsonReply BY LastReplyWins DEF IInv, Control
    <2>3. "tools" \in trace => Get(final, "intake", {}) = intake BY DEF IInv, Mirror, Get
    <2> QED BY <2>1, <2>2, <2>3 DEF TransportsAgree
<1> QED BY <1>1, Inductive, PTL
=============================================================================

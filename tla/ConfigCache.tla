---------------------------- MODULE ConfigCache ----------------------------
(***************************************************************************)
(* The configuration of one tenant: the rows that the admin API edits      *)
(* (update_tenant, add_location, erase, create_tenant) and the copies that *)
(* resolve_tenant keeps for 60 seconds in the memory of each API process.  *)
(*                                                                         *)
(* A SELECT, a COMMIT and whatever runs without an await are steps.  Every *)
(* edit sets a key of its own; every request names the same channel and    *)
(* location, so that a cache key is a version.                             *)
(***************************************************************************)
EXTENDS Integers

CONSTANTS
    Procs,      \* API processes, each with its _CACHE
    Requests,   \* calls of resolve_tenant
    Edits,      \* calls of update_tenant
    None,
    TTL,        \* _TTL_SECONDS, in ticks
    Slack,      \* bound: ticks from a request's first SELECT to its use of the cache
    MaxLives,   \* bound: how often the tenant is created
    MaxOps,     \* bound: how many operations the admin starts
    MaxTime     \* bound: the last tick of the clock

ASSUME CacheAssumption ==
    /\ TTL \in Nat /\ Slack \in Nat /\ MaxTime \in Nat
    /\ MaxLives \in Nat \ {0} /\ MaxOps \in Nat
    /\ None \notin [life : 1..MaxLives, edits : SUBSET Edits, version : Nat \ {0}]

VARIABLES
    clock,
    tenant,     \* the tenant row, None once it is deleted
    place,      \* the row of the location: "absent" or "active"
    adding,     \* add_location has inserted it and not committed
    erasing,    \* the process that erases the tenant, until it has invalidated
    deleting,   \* it has deleted the locations and not yet the tenant row
    lives,      \* how often the tenant was created
    ops,        \* operations the admin has started
    edit,       \* the locals of update_tenant, per edit
    cache,      \* _CACHE of each process
    req,        \* the locals of resolve_tenant, per request
    answer,     \* the configuration each request got
    until,      \* ghost: when each tenant layer was last the committed one
    untilPlace, \* ghost: the same of the location
    contents,   \* ghost: every tenant row that was ever committed
    overlaps    \* ghost: <<e, f>>: edit f was under way when e was loaded

rows == <<tenant, place, adding, erasing, deleting, lives, ops>>
stamps == <<until, untilPlace>>
vars == <<clock, rows, edit, cache, req, answer, stamps, contents, overlaps>>

Layers == [life : 1..MaxLives, edits : SUBSET Edits]
Rows == [life : 1..MaxLives, edits : SUBSET Edits, version : Nat \ {0}]
Places == {"absent", "active"}
Configs == [layer : Layers, place : Places]
Entries == [version : Nat, cfg : Configs, ts : Nat]

Layer(t) == [life |-> t.life, edits |-> t.edits]
Created(life) == [life |-> life, edits |-> {}, version |-> 1]

MaxAge == TTL + Slack
Never == -1 - MaxAge

Init ==
    /\ clock = 0
    /\ tenant = Created(1) /\ place = "absent" /\ lives = 1
    /\ adding = FALSE /\ erasing = None /\ deleting = FALSE /\ ops = 0
    /\ edit = [e \in Edits |-> [pc |-> "new", base |-> None]]
    /\ cache = [p \in Procs |-> {}]
    /\ req = [r \in Requests |-> [pc |-> "new", proc |-> None, row |-> None,
                                  place |-> "absent", began |-> 0]]
    /\ answer = [r \in Requests |-> None]
    /\ until = [l \in Layers |-> IF l = Layer(tenant) THEN 0 ELSE Never]
    /\ untilPlace = [b \in Places |-> IF b = "absent" THEN 0 ELSE Never]
    /\ contents = {tenant}
    /\ overlaps = {}

\* The rows as they are after this step are committed, now.
Stamp ==
    /\ until' = IF tenant' = None THEN until ELSE [until EXCEPT ![Layer(tenant')] = clock']
    /\ untilPlace' = [untilPlace EXCEPT ![place'] = clock']
    /\ contents' = contents \cup ({tenant'} \ {None})

InFlight(r) == req[r].pc \in {"place", "cache"}

Tick ==
    /\ clock < MaxTime
    /\ \A r \in Requests : InFlight(r) => clock - req[r].began < Slack
    /\ clock' = clock + 1
    /\ UNCHANGED <<rows, edit, cache, req, answer, overlaps>>
    /\ Stamp

-----------------------------------------------------------------------------
(* resolve_tenant *)

\* The SELECT of the tenant; without a row the request is refused.
ReadTenant(r, p) ==
    /\ req[r].pc = "new"
    /\ tenant # None
    /\ req' = [req EXCEPT ![r] = [pc |-> "place", proc |-> p, row |-> tenant,
                                  place |-> "absent", began |-> clock]]
    /\ UNCHANGED <<clock, rows, edit, cache, answer, stamps, contents, overlaps>>

SameTenant(t) == tenant # None /\ tenant.life = t.life

\* The SELECT of the location, by the id of the tenant that was read.
Found(t) == IF SameTenant(t) THEN place ELSE "absent"

ReadPlace(r) ==
    /\ req[r].pc = "place"
    /\ req' = [req EXCEPT ![r].pc = "cache", ![r].place = Found(req[r].row)]
    /\ UNCHANGED <<clock, rows, edit, cache, answer, stamps, contents, overlaps>>

Alive_Ever(entry) == TRUE
Alive(entry) == clock - entry.ts <= TTL

Hits(p, v) == {entry \in cache[p] : entry.version = v /\ Alive(entry)}

\* resolve() over the rows that were read.
Resolved(r) == [layer |-> Layer(req[r].row), place |-> req[r].place]

Put(p, v, cfg) ==
    cache' = [cache EXCEPT ![p] = {entry \in @ : entry.version # v}
                                    \cup {[version |-> v, cfg |-> cfg, ts |-> clock]}]

\* get_cached, and put_cached after a miss: no await in between.
Serve(r) ==
    LET p == req[r].proc
        v == req[r].row.version
    IN /\ req[r].pc = "cache"
       /\ req' = [req EXCEPT ![r].pc = "done", ![r].proc = None, ![r].place = "absent", ![r].began = 0]
       /\ \/ /\ \E entry \in Hits(p, v) : answer' = [answer EXCEPT ![r] = entry.cfg]
             /\ UNCHANGED cache
          \/ /\ Hits(p, v) = {}
             /\ answer' = [answer EXCEPT ![r] = Resolved(r)]
             /\ Put(p, v, Resolved(r))
       /\ UNCHANGED <<clock, rows, edit, stamps, contents, overlaps>>

-----------------------------------------------------------------------------
(* The admin API *)

Operation == ops < MaxOps /\ ops' = ops + 1

Invalidate(p) == cache' = [cache EXCEPT ![p] = {}]

\* update_tenant up to its commit: the cache is invalidated before it.
LoadEdit(e, p) ==
    /\ Operation
    /\ edit[e].pc = "new"
    /\ tenant # None
    /\ edit' = [edit EXCEPT ![e] = [pc |-> "loaded", base |-> tenant]]
    /\ Invalidate(p)
    /\ overlaps' = overlaps \cup {<<e, f>> : f \in {g \in Edits : edit[g].pc = "loaded"}}
    /\ UNCHANGED <<clock, tenant, place, adding, erasing, deleting, lives, req, answer, stamps, contents>>

Edited_SameVersion(t, e) == [t EXCEPT !.edits = @ \cup {e}]
Edited_Replaced(t, e) == [t EXCEPT !.edits = {e}, !.version = @ + 1]
\* The row the ORM writes back: what it loaded, merged and counted up.
Edited(t, e) == [t EXCEPT !.edits = @ \cup {e}, !.version = @ + 1]

\* The commit; without the row it loaded the UPDATE matches nothing and fails.
CommitEdit(e) ==
    /\ edit[e].pc = "loaded"
    /\ \/ /\ SameTenant(edit[e].base)
          /\ tenant' = Edited(edit[e].base, e)
          /\ edit' = [edit EXCEPT ![e].pc = "done"]
       \/ /\ ~SameTenant(edit[e].base)
          /\ edit' = [edit EXCEPT ![e].pc = "failed"]
          /\ UNCHANGED tenant
    /\ UNCHANGED <<clock, place, adding, erasing, deleting, lives, ops, cache, req, answer, overlaps>>
    /\ Stamp

\* add_location up to its commit.  The insert locks the tenant row.
AddPlace(p) ==
    /\ Operation
    /\ tenant # None /\ place = "absent" /\ ~adding
    /\ adding' = TRUE
    /\ Invalidate(p)
    /\ UNCHANGED <<clock, tenant, place, erasing, deleting, lives, edit, req, answer, stamps, contents,
                   overlaps>>

CommitPlace ==
    /\ adding
    /\ adding' = FALSE /\ place' = "active"
    /\ UNCHANGED <<clock, tenant, erasing, deleting, lives, ops, edit, cache, req, answer, overlaps>>
    /\ Stamp

\* erase_tenant: the locations go in a transaction of their own, which does not
\* see one that is being added.
EraseLocations(p) ==
    /\ Operation
    /\ tenant # None /\ erasing = None
    /\ place' = "absent" /\ erasing' = p /\ deleting' = TRUE
    /\ UNCHANGED <<clock, tenant, adding, lives, edit, cache, req, answer, overlaps>>
    /\ Stamp

\* Then the tenant row, once no insert locks it, with whatever was added since.
EraseTenant ==
    /\ deleting /\ ~adding
    /\ tenant' = None /\ place' = "absent" /\ deleting' = FALSE
    /\ UNCHANGED <<clock, adding, erasing, lives, ops, edit, cache, req, answer, overlaps>>
    /\ Stamp

\* An exception between the two: erase does not get to its invalidate.
FailErase ==
    /\ deleting
    /\ deleting' = FALSE /\ erasing' = None
    /\ UNCHANGED <<clock, tenant, place, adding, lives, ops, edit, cache, req, answer, stamps, contents,
                   overlaps>>

\* erase invalidates once the row is gone.
EndErase ==
    /\ erasing # None /\ ~deleting
    /\ Invalidate(erasing)
    /\ erasing' = None
    /\ UNCHANGED <<clock, tenant, place, adding, deleting, lives, ops, edit, req, answer, stamps, contents,
                   overlaps>>

\* create_tenant with the same key: config_version starts again at 1.
Create ==
    /\ Operation
    /\ tenant = None /\ lives < MaxLives
    /\ lives' = lives + 1
    /\ tenant' = Created(lives + 1)
    /\ UNCHANGED <<clock, place, adding, erasing, deleting, edit, cache, req, answer, overlaps>>
    /\ Stamp

Next ==
    \/ Tick
    \/ \E r \in Requests : (\E p \in Procs : ReadTenant(r, p)) \/ ReadPlace(r) \/ Serve(r)
    \/ \E e \in Edits : (\E p \in Procs : LoadEdit(e, p)) \/ CommitEdit(e)
    \/ \E p \in Procs : AddPlace(p) \/ EraseLocations(p)
    \/ CommitPlace \/ EraseTenant \/ FailErase \/ EndErase \/ Create

Spec == Init /\ [][Next]_vars

-----------------------------------------------------------------------------
(* Properties *)

\* Every variable has its type; a process holds one entry per version.
TypeOK ==
    /\ clock \in Nat
    /\ tenant \in Rows \cup {None} /\ place \in Places
    /\ adding \in BOOLEAN /\ deleting \in BOOLEAN /\ erasing \in Procs \cup {None}
    /\ lives \in 1..MaxLives /\ ops \in 0..MaxOps
    /\ edit \in [Edits -> [pc : {"new", "loaded", "done", "failed"}, base : Rows \cup {None}]]
    /\ cache \in [Procs -> SUBSET Entries]
    /\ \A p \in Procs : \A x, y \in cache[p] : x.version = y.version => x = y
    /\ req \in [Requests -> [pc : {"new", "place", "cache", "done"}, proc : Procs \cup {None},
                             row : Rows \cup {None}, place : Places, began : Nat]]
    /\ answer \in [Requests -> Configs \cup {None}]
    /\ until \in [Layers -> Int] /\ untilPlace \in [Places -> Int]
    /\ contents \subseteq Rows /\ overlaps \subseteq Edits \X Edits

\* Whatever is edited, added, erased or created meanwhile, and in whichever
\* process: each layer of a configuration that a request is served was the
\* committed one within the last TTL + Slack ticks.
ServedRecent ==
    [][\A r \in Requests : answer'[r] # answer[r] =>
            /\ until[answer'[r].layer] >= clock - MaxAge
            /\ untilPlace[answer'[r].place] >= clock - MaxAge]_vars

\* Two different tenant rows carried this version: of a tenant and its successor
\* with the same key, or of one tenant whose edits overlapped.
Reused(v) ==
    \E x, y \in contents :
        x # y /\ x.version = v /\ y.version = v /\ (x.life # y.life \/ overlaps # {})

\* The version in the cache key makes an edit visible at once: a request is
\* served the tenant layer it has just read, unless its version was given out
\* twice, which takes overlapping edits or a tenant that was created again.
StaleOnlyByReusedVersion ==
    \A r \in Requests : answer[r] # None /\ ~Reused(req[r].row.version) =>
        answer[r].layer = Layer(req[r].row)

\* An edit that was answered with "ok" is in force as long as the tenant lives,
\* unless another one overlapped it: both merge into what they loaded.
EditsLostOnlyByOverlap ==
    \A e \in Edits :
        /\ edit[e].pc = "done" /\ SameTenant(edit[e].base)
        /\ \A f \in Edits : <<e, f>> \notin overlaps /\ <<f, e>> \notin overlaps
        => e \in tenant.edits
=============================================================================

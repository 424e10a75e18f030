-------------------------- MODULE ConfigCacheProofs --------------------------
(***************************************************************************)
(* Theorems about ConfigCache for any number of processes, requests and    *)
(* edits, any TTL and any bounds.                                          *)
(*                                                                         *)
(* Two inductive invariants: Aged says how old what was read can be,       *)
(* Dated which versions it can carry and which edits it can lack.          *)
(***************************************************************************)
EXTENDS ConfigCache, TLAPS

\* What is committed now bears the present time, and nothing a later one.
Stamped ==
    /\ tenant # None => until[Layer(tenant)] = clock
    /\ untilPlace[place] = clock
    /\ \A l \in Layers : until[l] <= clock
    /\ \A b \in Places : untilPlace[b] <= clock

\* What a request carries was committed when it began or later; if its tenant is
\* gone, the location went with it.
FreshReads ==
    \A r \in Requests : InFlight(r) =>
        /\ req[r].row \in Rows /\ req[r].proc \in Procs
        /\ req[r].began <= clock /\ clock - req[r].began <= Slack
        /\ until[Layer(req[r].row)] >= req[r].began
        /\ ~SameTenant(req[r].row) => untilPlace["absent"] >= req[r].began
        /\ req[r].pc = "cache" => untilPlace[req[r].place] >= req[r].began

\* What a process keeps was committed at most Slack ticks before it was put there.
FreshEntries ==
    \A p \in Procs : \A x \in cache[p] :
        /\ until[x.cfg.layer] >= x.ts - Slack
        /\ untilPlace[x.cfg.place] >= x.ts - Slack

\* An edit that has begun has loaded a row.
Based == \A e \in Edits : edit[e].pc # "new" => edit[e].base \in Rows

Aged == TypeOK /\ Stamped /\ Based /\ FreshReads /\ FreshEntries

\* Every row that something refers to was committed once, in a life that began.
Known ==
    /\ \A x \in contents : x.life <= lives
    /\ tenant # None => tenant \in contents
    /\ \A e \in Edits : edit[e].pc # "new" => edit[e].base \in contents
    /\ \A r \in Requests : req[r].pc # "new" => req[r].row \in contents

\* Configurations come from committed rows of the version they are filed under.
Carries(v, layer) == \E x \in contents : x.version = v /\ Layer(x) = layer
Sourced ==
    /\ \A p \in Procs : \A x \in cache[p] : Carries(x.version, x.cfg.layer)
    /\ \A r \in Requests : answer[r] # None =>
            req[r].pc = "done" /\ Carries(req[r].row.version, answer[r].layer)

Loaded(e) == edit[e].pc = "loaded"

\* Without overlapping edits the versions of a life are distinct, the current row
\* has the last one, and the only edit under way has loaded it.
Counted ==
    overlaps = {} =>
        /\ \A x, y \in contents : x.life = y.life /\ x.version = y.version => x = y
        /\ tenant # None => \A x \in contents : x.life = tenant.life => x.version <= tenant.version
        /\ \A e, f \in Edits : Loaded(e) /\ Loaded(f) => e = f
        /\ \A e \in Edits : Loaded(e) /\ SameTenant(edit[e].base) => edit[e].base = tenant

Alone(e) == \A f \in Edits : <<e, f>> \notin overlaps /\ <<f, e>> \notin overlaps
Merged(e) == edit[e].pc = "done" /\ Alone(e)

\* An edit that met no other is part of the tenant, and of what later edits of
\* that tenant have loaded.
Kept ==
    /\ \A e, f \in Edits : Loaded(e) /\ Loaded(f) /\ e # f => ~Alone(e)
    /\ \A e, f \in Edits : Merged(e) /\ Loaded(f) /\ edit[e].base.life = edit[f].base.life =>
            e \in edit[f].base.edits
    /\ \A e \in Edits : Merged(e) /\ SameTenant(edit[e].base) => e \in tenant.edits

Dated == Known /\ Sourced /\ Counted /\ Kept

-----------------------------------------------------------------------------
(* Lemmas about the operators *)

LEMMA LayerType == \A t \in Rows : Layer(t) \in Layers
BY DEF Rows, Layers, Layer

LEMMA NoneIsNoRow == None \notin Rows
BY CacheAssumption DEF Rows

LEMMA CreatedType ==
    \A n \in 1..MaxLives : Created(n) \in Rows /\ Created(n).life = n /\ Created(n).version = 1
BY DEF Rows, Created

LEMMA EditedType ==
    \A t \in Rows, e \in Edits :
        /\ Edited(t, e) \in Rows
        /\ Edited(t, e).life = t.life
        /\ Edited(t, e).version = t.version + 1
        /\ Edited(t, e).edits = t.edits \cup {e}
<1> SUFFICES ASSUME NEW t \in Rows, NEW e \in Edits
             PROVE  /\ Edited(t, e) \in Rows
                    /\ Edited(t, e).life = t.life
                    /\ Edited(t, e).version = t.version + 1
                    /\ Edited(t, e).edits = t.edits \cup {e}
    OBVIOUS
<1>1. /\ Edited(t, e).life = t.life
      /\ Edited(t, e).version = t.version + 1
      /\ Edited(t, e).edits = t.edits \cup {e}
    BY DEF Rows, Edited
<1> DEFINE merged == [t EXCEPT !.edits = @ \cup {e}]
<1>2. merged \in Rows BY DEF Rows
<1>3. Edited(t, e) = [merged EXCEPT !.version = @ + 1] BY DEF Edited, Rows
<1> HIDE DEF merged
<1>4. [merged EXCEPT !.version = @ + 1] \in Rows BY <1>2 DEF Rows
<1> QED BY <1>1, <1>3, <1>4

\* The locals of a request keep their types when some of them are assigned.
Calls == [pc : {"new", "place", "cache", "done"}, proc : Procs \cup {None},
          row : Rows \cup {None}, place : Places, began : Nat]

LEMMA CallUpdates ==
    ASSUME NEW f \in [Requests -> Calls], NEW r \in Requests, NEW b \in Places
    PROVE  /\ [f EXCEPT ![r].pc = "cache", ![r].place = b] \in [Requests -> Calls]
           /\ [f EXCEPT ![r].pc = "done", ![r].proc = None, ![r].place = "absent", ![r].began = 0]
                \in [Requests -> Calls]
<1> DEFINE read(c) == [c EXCEPT !.pc = "cache", !.place = b]
           done(c) == [c EXCEPT !.pc = "done", !.proc = None, !.place = "absent", !.began = 0]
<1>1. \A c \in Calls : read(c) \in Calls BY DEF Calls
<1>2. \A c \in Calls : done(c) \in Calls BY DEF Calls, Places
<1>3. [f EXCEPT ![r] = read(f[r])] \in [Requests -> Calls] BY <1>1
<1>4. [f EXCEPT ![r] = done(f[r])] \in [Requests -> Calls] BY <1>2
<1> QED BY <1>3, <1>4

\* A commit moves stamps forward only, and keeps what was ever committed.
LEMMA StampLemma ==
    ASSUME TypeOK, Stamped, Stamp, clock' \in Nat, clock' >= clock,
           tenant' \in Rows \cup {None}, place' \in Places
    PROVE  /\ until' \in [Layers -> Int] /\ untilPlace' \in [Places -> Int]
           /\ contents \subseteq contents' /\ contents' \subseteq Rows
           /\ \A l \in Layers : until'[l] >= until[l]
           /\ \A b \in Places : untilPlace'[b] >= untilPlace[b]
           /\ Stamped'
<1> USE DEF TypeOK, Stamped
<1>1. contents \subseteq contents' /\ contents' \subseteq Rows BY DEF Stamp
<1>2. /\ untilPlace' \in [Places -> Int] /\ untilPlace'[place'] = clock'
      /\ \A b \in Places : untilPlace'[b] >= untilPlace[b] /\ untilPlace'[b] <= clock'
    BY DEF Stamp
<1>3. CASE tenant' = None
    <2>1. until' = until BY <1>3 DEF Stamp
    <2> QED BY <1>1, <1>2, <1>3, <2>1
<1>4. CASE tenant' # None
    <2>1. Layer(tenant') \in Layers BY <1>4, LayerType
    <2>2. until' = [until EXCEPT ![Layer(tenant')] = clock'] BY <1>4 DEF Stamp
    <2>3. Layer(tenant)' = Layer(tenant') BY DEF Layer
    <2>4. /\ until' \in [Layers -> Int] /\ until'[Layer(tenant')] = clock'
          /\ \A l \in Layers : until'[l] >= until[l] /\ until'[l] <= clock'
        BY <2>1, <2>2
    <2> QED BY <1>1, <1>2, <1>4, <2>3, <2>4
<1> QED BY <1>3, <1>4

\* While no request moves, what is in flight and in the caches stays as fresh as
\* it was: the clock may pass a request that has not used up its Slack, caches may
\* lose entries, and a tenant may go that takes its location with it.
LEMMA StaysFresh ==
    ASSUME Aged, UNCHANGED req, clock' \in Nat,
           \A l \in Layers : until'[l] >= until[l],
           \A b \in Places : untilPlace'[b] >= untilPlace[b],
           until' \in [Layers -> Int], untilPlace' \in [Places -> Int],
           \/ clock' = clock
           \/ clock' = clock + 1 /\ \A r \in Requests : InFlight(r) => clock - req[r].began < Slack,
           \A p \in Procs : cache'[p] \subseteq cache[p],
           \A t \in Rows : SameTenant(t) => SameTenant(t)' \/ untilPlace'["absent"] >= clock
    PROVE  FreshReads' /\ FreshEntries'
<1> USE CacheAssumption DEF Aged, TypeOK, Places
<1>1. ASSUME NEW r \in Requests, InFlight(r)'
      PROVE  /\ req'[r].row \in Rows /\ req'[r].proc \in Procs
             /\ req'[r].began <= clock' /\ clock' - req'[r].began <= Slack
             /\ until'[Layer(req'[r].row)] >= req'[r].began
             /\ ~SameTenant(req[r].row)' => untilPlace'["absent"] >= req'[r].began
             /\ req'[r].pc = "cache" => untilPlace'[req'[r].place] >= req'[r].began
    <2>1. InFlight(r) BY <1>1 DEF InFlight
    <2>2. /\ req[r].row \in Rows /\ req[r].proc \in Procs
          /\ req[r].began <= clock /\ clock - req[r].began <= Slack
          /\ until[Layer(req[r].row)] >= req[r].began
          /\ ~SameTenant(req[r].row) => untilPlace["absent"] >= req[r].began
          /\ req[r].pc = "cache" => untilPlace[req[r].place] >= req[r].began
        BY <2>1 DEF FreshReads
    <2>3. req[r].began \in Nat /\ req[r].place \in Places /\ Layer(req[r].row) \in Layers
        BY <2>2, LayerType
    <2>4. req'[r].began <= clock' /\ clock' - req'[r].began <= Slack BY <2>1, <2>2, <2>3
    <2>5. until'[Layer(req'[r].row)] >= req'[r].began
        <3>1. until[Layer(req[r].row)] \in Int /\ until'[Layer(req[r].row)] \in Int BY <2>3
        <3> QED BY <2>2, <2>3, <3>1
    <2>6. ~SameTenant(req[r].row)' => untilPlace'["absent"] >= req'[r].began
        <3> DEFINE row == req[r].row
                   was == untilPlace["absent"]
                   is == untilPlace'["absent"]
        <3>1. was \in Int /\ is \in Int /\ is >= was /\ clock \in Nat
            OBVIOUS
        <3>2. row' = row /\ row \in Rows BY <2>2
        <3>3. was >= req[r].began \/ (tenant' # None /\ tenant'.life = row.life) \/ is >= clock
            BY <2>2, <3>2 DEF SameTenant
        <3>4. SameTenant(req[r].row)' <=> tenant' # None /\ tenant'.life = row.life
            BY <3>2 DEF SameTenant
        <3> HIDE DEF was, is
        <3>5. (tenant' # None /\ tenant'.life = row.life) \/ is >= req[r].began
            BY <2>2, <2>3, <3>1, <3>3
        <3> QED BY <3>2, <3>4, <3>5 DEF is
    <2>7. req'[r].pc = "cache" => untilPlace'[req'[r].place] >= req'[r].began
        <3>1. untilPlace[req[r].place] \in Int /\ untilPlace'[req[r].place] \in Int BY <2>3
        <3> QED BY <2>2, <2>3, <3>1
    <2> QED BY <2>2, <2>4, <2>5, <2>6, <2>7
<1>2. FreshReads' BY <1>1 DEF FreshReads, InFlight, SameTenant, Layer
<1>3. FreshEntries'
    <2> SUFFICES ASSUME NEW p \in Procs, NEW x \in cache'[p]
                 PROVE  until'[x.cfg.layer] >= x.ts - Slack /\ untilPlace'[x.cfg.place] >= x.ts - Slack
        BY DEF FreshEntries
    <2>1. x \in cache[p] /\ x \in Entries OBVIOUS
    <2>2. x.cfg.layer \in Layers /\ x.cfg.place \in Places /\ x.ts \in Nat
        BY <2>1 DEF Entries, Configs
    <2>3. until[x.cfg.layer] >= x.ts - Slack /\ untilPlace[x.cfg.place] >= x.ts - Slack
        BY <2>1 DEF FreshEntries
    <2>4. /\ until[x.cfg.layer] \in Int /\ until'[x.cfg.layer] \in Int
          /\ untilPlace[x.cfg.place] \in Int /\ untilPlace'[x.cfg.place] \in Int
        BY <2>2
    <2> QED BY <2>2, <2>3, <2>4
<1> QED BY <1>2, <1>3

-----------------------------------------------------------------------------
(* Aged is inductive *)

LEMMA InitAged == Init => Aged
<1> SUFFICES ASSUME Init PROVE Aged OBVIOUS
<1> USE CacheAssumption DEF Init, Places
<1>1. tenant = Created(1) /\ tenant \in Rows /\ Layer(tenant) \in Layers
    BY CreatedType, LayerType
<1>2. Never \in Int /\ Never <= 0 BY DEF Never, MaxAge
<1>3. /\ until \in [Layers -> Int] /\ until[Layer(tenant)] = 0 /\ \A l \in Layers : until[l] <= 0
    BY <1>1, <1>2
<1>4. untilPlace \in [Places -> Int] /\ untilPlace["absent"] = 0 /\ \A b \in Places : untilPlace[b] <= 0
    BY <1>2
<1>5. TypeOK
    <2>1. /\ req \in [Requests -> [pc : {"new", "place", "cache", "done"}, proc : Procs \cup {None},
                                  row : Rows \cup {None}, place : Places, began : Nat]]
          /\ edit \in [Edits -> [pc : {"new", "loaded", "done", "failed"}, base : Rows \cup {None}]]
        OBVIOUS
    <2>2. cache \in [Procs -> SUBSET Entries] /\ \A p \in Procs : cache[p] = {} OBVIOUS
    <2>3. /\ contents \subseteq Rows /\ overlaps \subseteq Edits \X Edits
          /\ answer \in [Requests -> Configs \cup {None}]
        BY <1>1
    <2>4. /\ clock \in Nat /\ place \in Places /\ erasing \in Procs \cup {None}
          /\ lives \in 1..MaxLives /\ ops \in 0..MaxOps
        OBVIOUS
    <2>6. adding \in BOOLEAN /\ deleting \in BOOLEAN OBVIOUS
    <2>5. \A p \in Procs : \A x, y \in cache[p] : x.version = y.version => x = y BY <2>2
    <2> QED BY <1>1, <1>3, <1>4, <2>1, <2>2, <2>3, <2>4, <2>5, <2>6 DEF TypeOK
<1>6. Stamped BY <1>3, <1>4 DEF Stamped
<1>7. Based /\ FreshReads /\ FreshEntries BY DEF Based, FreshReads, InFlight, FreshEntries
<1> QED BY <1>5, <1>6, <1>7 DEF Aged

LEMMA TickAged == ASSUME Aged, Tick PROVE Aged'
<1> USE DEF Aged, Tick, rows
<1>1. clock' \in Nat /\ clock' = clock + 1 /\ tenant' = tenant /\ place' = place BY DEF TypeOK
<1>2. /\ until' \in [Layers -> Int] /\ untilPlace' \in [Places -> Int]
      /\ contents' \subseteq Rows /\ Stamped'
      /\ \A l \in Layers : until'[l] >= until[l]
      /\ \A b \in Places : untilPlace'[b] >= untilPlace[b]
    BY <1>1, StampLemma DEF TypeOK
<1>3. TypeOK' /\ Based' BY <1>1, <1>2 DEF TypeOK, Based
<1>4. FreshReads' /\ FreshEntries' BY <1>1, <1>2, StaysFresh DEF SameTenant
<1> QED BY <1>2, <1>3, <1>4

LEMMA ReadTenantAged == ASSUME Aged, NEW r \in Requests, NEW p \in Procs, ReadTenant(r, p) PROVE Aged'
<1> USE CacheAssumption DEF Aged, Places, rows, stamps
<1>1. /\ tenant \in Rows /\ clock \in Nat /\ until[Layer(tenant)] = clock
      /\ req' = [req EXCEPT ![r] = [pc |-> "place", proc |-> p, row |-> tenant,
                                    place |-> "absent", began |-> clock]]
      /\ UNCHANGED <<clock, tenant, place, adding, erasing, deleting, lives, ops, edit, cache, answer, until,
                     untilPlace, contents, overlaps>>
    BY DEF ReadTenant, TypeOK, Stamped
<1>2. TypeOK' BY <1>1 DEF TypeOK
<1>3. Stamped' /\ Based' BY <1>1 DEF Stamped, Layer, Based
<1>4. FreshEntries' BY <1>1 DEF FreshEntries
<1>5. FreshReads'
    <2> SUFFICES ASSUME NEW q \in Requests, InFlight(q)'
                 PROVE  /\ req'[q].row \in Rows /\ req'[q].proc \in Procs
                        /\ req'[q].began <= clock /\ clock - req'[q].began <= Slack
                        /\ until[Layer(req'[q].row)] >= req'[q].began
                        /\ ~SameTenant(req'[q].row) => untilPlace["absent"] >= req'[q].began
                        /\ req'[q].pc = "cache" => untilPlace[req'[q].place] >= req'[q].began
        BY <1>1 DEF FreshReads, SameTenant, Layer
    <2>1. CASE q = r
        <3>1. /\ req'[q].row = tenant /\ req'[q].proc = p /\ req'[q].began = clock /\ req'[q].pc = "place"
            BY <1>1, <2>1 DEF TypeOK
        <3>2. SameTenant(req'[q].row) BY <3>1 DEF SameTenant, ReadTenant
        <3>3. clock - clock <= Slack /\ clock <= clock BY <1>1
        <3>4. until[Layer(req'[q].row)] >= req'[q].began BY <1>1, <3>1
        <3> QED BY <1>1, <3>1, <3>2, <3>3, <3>4
    <2>2. CASE q # r
        <3>1. req'[q] = req[q] BY <1>1, <2>2 DEF TypeOK
        <3>2. InFlight(q) BY <3>1 DEF InFlight
        <3> QED BY <3>1, <3>2 DEF FreshReads
    <2> QED BY <2>1, <2>2
<1> QED BY <1>2, <1>3, <1>4, <1>5

LEMMA ReadPlaceAged == ASSUME Aged, NEW r \in Requests, ReadPlace(r) PROVE Aged'
<1> USE CacheAssumption DEF Aged, Places, rows, stamps
<1> DEFINE found == Found(req[r].row)
<1>1. /\ req[r].pc = "place" /\ found \in Places
      /\ req' = [req EXCEPT ![r].pc = "cache", ![r].place = found]
      /\ UNCHANGED <<clock, tenant, place, adding, erasing, deleting, lives, ops, edit, cache, answer, until,
                     untilPlace, contents, overlaps>>
    BY DEF ReadPlace, Found, TypeOK, Places
<1>2. found = IF SameTenant(req[r].row) THEN place ELSE "absent" BY DEF Found
<1> HIDE DEF found
<1>3. TypeOK'
    <2>1. req \in [Requests -> Calls] BY DEF TypeOK, Calls
    <2>3. req' \in [Requests -> Calls] BY <1>1, <2>1, CallUpdates
    <2>2. UNCHANGED <<clock, tenant, place, adding, erasing, deleting, lives, ops, edit, cache, answer, until,
                      untilPlace, contents, overlaps>>
        BY <1>1
    <2> QED BY <2>2, <2>3 DEF TypeOK, Calls
<1>4. Stamped' /\ Based' BY <1>1 DEF Stamped, Layer, Based
<1>5. FreshEntries' BY <1>1 DEF FreshEntries
<1>6. FreshReads'
    <2> SUFFICES ASSUME NEW q \in Requests, InFlight(q)'
                 PROVE  /\ req'[q].row \in Rows /\ req'[q].proc \in Procs
                        /\ req'[q].began <= clock /\ clock - req'[q].began <= Slack
                        /\ until[Layer(req'[q].row)] >= req'[q].began
                        /\ ~SameTenant(req'[q].row) => untilPlace["absent"] >= req'[q].began
                        /\ req'[q].pc = "cache" => untilPlace[req'[q].place] >= req'[q].began
        BY <1>1 DEF FreshReads, SameTenant, Layer
    <2>1. CASE q = r
        <3>1. /\ req'[q].row = req[q].row /\ req'[q].proc = req[q].proc /\ req'[q].began = req[q].began
              /\ req'[q].place = found
            BY <1>1, <2>1 DEF TypeOK
        <3>2. InFlight(q) BY <1>1, <2>1 DEF InFlight
        <3>3. /\ req[q].row \in Rows /\ req[q].proc \in Procs
              /\ req[q].began <= clock /\ clock - req[q].began <= Slack
              /\ until[Layer(req[q].row)] >= req[q].began
              /\ ~SameTenant(req[q].row) => untilPlace["absent"] >= req[q].began
            BY <3>2 DEF FreshReads
        <3>4. untilPlace[found] >= req[q].began
            <4>1. CASE SameTenant(req[r].row) BY <1>2, <3>3, <4>1 DEF Stamped
            <4>2. CASE ~SameTenant(req[r].row) BY <1>2, <2>1, <3>3, <4>2
            <4> QED BY <4>1, <4>2
        <3> QED BY <3>1, <3>3, <3>4
    <2>2. CASE q # r
        <3>1. req'[q] = req[q] BY <1>1, <2>2 DEF TypeOK
        <3>2. InFlight(q) BY <3>1 DEF InFlight
        <3> QED BY <3>1, <3>2 DEF FreshReads
    <2> QED BY <2>1, <2>2
<1> QED BY <1>3, <1>4, <1>5, <1>6

LEMMA ServeAged == ASSUME Aged, NEW r \in Requests, Serve(r) PROVE Aged'
<1> USE CacheAssumption DEF Aged, Places, rows, stamps
<1> DEFINE p == req[r].proc
           v == req[r].row.version
           new == [version |-> v, cfg |-> Resolved(r), ts |-> clock]
<1>1. /\ req[r].pc = "cache"
      /\ req' = [req EXCEPT ![r].pc = "done", ![r].proc = None, ![r].place = "absent", ![r].began = 0]
      /\ UNCHANGED <<clock, tenant, place, adding, erasing, deleting, lives, ops, edit, until, untilPlace,
                     contents, overlaps>>
    BY DEF Serve
<1>2. /\ req[r].row \in Rows /\ p \in Procs
      /\ req[r].began <= clock /\ clock - req[r].began <= Slack
      /\ until[Layer(req[r].row)] >= req[r].began /\ untilPlace[req[r].place] >= req[r].began
    BY <1>1 DEF FreshReads, InFlight
<1>3. /\ v \in Nat /\ clock \in Nat /\ req[r].began \in Nat
      /\ Layer(req[r].row) \in Layers /\ req[r].place \in Places
    BY <1>2, LayerType DEF TypeOK, Rows
<1>4. new \in Entries BY <1>3 DEF Entries, Configs, Resolved
<1>5. \/ /\ \E entry \in Hits(p, v) : answer' = [answer EXCEPT ![r] = entry.cfg]
         /\ cache' = cache
      \/ /\ answer' = [answer EXCEPT ![r] = Resolved(r)]
         /\ cache' = [cache EXCEPT ![p] = {entry \in cache[p] : entry.version # v} \cup {new}]
    BY <1>2 DEF Serve, Put
<1> HIDE DEF p, v, new
<1>6. cache' \in [Procs -> SUBSET Entries]
      /\ \A q \in Procs : \A x, y \in cache'[q] : x.version = y.version => x = y
    <2>1. CASE cache' = cache BY <2>1 DEF TypeOK
    <2>2. CASE cache' = [cache EXCEPT ![p] = {entry \in cache[p] : entry.version # v} \cup {new}]
        <3>1. new.version = v BY DEF new
        <3>2. cache' \in [Procs -> SUBSET Entries] BY <1>2, <1>4, <2>2 DEF TypeOK
        <3>3. cache'[p] = {entry \in cache[p] : entry.version # v} \cup {new}
              /\ \A q \in Procs : q # p => cache'[q] = cache[q]
            BY <1>2, <2>2 DEF TypeOK
        <3>4. \A x, y \in cache'[p] : x.version = y.version => x = y
            BY <1>2, <3>1, <3>3 DEF TypeOK
        <3> QED BY <3>2, <3>3, <3>4 DEF TypeOK
    <2> QED BY <1>5, <2>1, <2>2
<1>7. answer' \in [Requests -> Configs \cup {None}]
    <2>1. Resolved(r) \in Configs BY <1>3 DEF Configs, Resolved
    <2>2. \A entry \in Hits(p, v) : entry.cfg \in Configs BY <1>2 DEF Hits, TypeOK, Entries
    <2> QED BY <1>5, <2>1, <2>2 DEF TypeOK
<1>8. TypeOK'
    <2>1. req' \in [Requests -> Calls] BY <1>1, CallUpdates DEF TypeOK, Calls
    <2>2. UNCHANGED <<clock, tenant, place, adding, erasing, deleting, lives, ops, edit, until, untilPlace,
                      contents, overlaps>>
        BY <1>1
    <2> QED BY <1>6, <1>7, <2>1, <2>2 DEF TypeOK, Calls
<1>9. Stamped' /\ Based' BY <1>1 DEF Stamped, Layer, Based
<1>10. FreshReads'
    <2> SUFFICES ASSUME NEW q \in Requests, InFlight(q)'
                 PROVE  /\ req'[q] = req[q] /\ InFlight(q)
        BY <1>1 DEF FreshReads, SameTenant, Layer
    <2>1. q # r BY <1>1 DEF InFlight, TypeOK
    <2> QED BY <1>1, <2>1 DEF InFlight, TypeOK
<1>11. FreshEntries'
    <2> SUFFICES ASSUME NEW q \in Procs, NEW x \in cache'[q]
                 PROVE  until[x.cfg.layer] >= x.ts - Slack /\ untilPlace[x.cfg.place] >= x.ts - Slack
        BY <1>1 DEF FreshEntries
    <2>1. CASE x \in cache[q] BY <2>1 DEF FreshEntries
    <2>2. CASE x = new
        <3>1. x.ts = clock /\ x.cfg.layer = Layer(req[r].row) /\ x.cfg.place = req[r].place
            BY <2>2 DEF new, Resolved
        <3>2. until[x.cfg.layer] \in Int /\ untilPlace[x.cfg.place] \in Int BY <1>3, <3>1 DEF TypeOK
        <3> QED BY <1>2, <1>3, <3>1, <3>2
    <2> QED BY <1>2, <1>5, <2>1, <2>2 DEF TypeOK
<1> QED BY <1>8, <1>9, <1>10, <1>11

\* An operation of the admin before its commit: caches may be emptied.
LEMMA PendingAged ==
    ASSUME Aged, TypeOK', Based', UNCHANGED <<clock, tenant, place, req, until, untilPlace>>,
           \A p \in Procs : cache'[p] \subseteq cache[p]
    PROVE  Aged'
<1>1. Stamped' BY DEF Aged, Stamped, Layer
<1>2. FreshReads' /\ FreshEntries'
    <2>1. clock \in Nat /\ (\A l \in Layers : until[l] >= until[l])
          /\ \A b \in Places : untilPlace[b] >= untilPlace[b]
        BY DEF Aged, TypeOK
    <2>2. until \in [Layers -> Int] /\ untilPlace \in [Places -> Int] BY DEF Aged, TypeOK
    <2> QED BY <2>1, <2>2, StaysFresh DEF SameTenant
<1> QED BY <1>1, <1>2 DEF Aged

\* A commit of the admin: it stamps what is committed from now on.
LEMMA CommitAged ==
    ASSUME Aged, Stamp, UNCHANGED <<clock, req>>, tenant' \in Rows \cup {None}, place' \in Places,
           until' \in [Layers -> Int] /\ untilPlace' \in [Places -> Int] /\ contents' \subseteq Rows
                => TypeOK',
           Based',
           \A p \in Procs : cache'[p] \subseteq cache[p],
           \A t \in Rows : SameTenant(t) => SameTenant(t)' \/ place' = "absent"
    PROVE  Aged'
<1> USE DEF Aged
<1>1. clock' \in Nat /\ clock' >= clock BY DEF TypeOK
<1>2. /\ until' \in [Layers -> Int] /\ untilPlace' \in [Places -> Int]
      /\ contents' \subseteq Rows /\ Stamped'
      /\ \A l \in Layers : until'[l] >= until[l]
      /\ \A b \in Places : untilPlace'[b] >= untilPlace[b]
    BY <1>1, StampLemma
<1>3. TypeOK' BY <1>2
<1>4. place' = "absent" => untilPlace'["absent"] >= clock BY <1>1, <1>2 DEF Stamped, TypeOK
<1>5. FreshReads' /\ FreshEntries' BY <1>1, <1>2, <1>4, StaysFresh
<1> QED BY <1>2, <1>3, <1>5

LEMMA LoadEditAged == ASSUME Aged, NEW e \in Edits, NEW p \in Procs, LoadEdit(e, p) PROVE Aged'
<1> USE CacheAssumption DEF Aged, rows, stamps
<1>1. edit' \in [Edits -> [pc : {"new", "loaded", "done", "failed"}, base : Rows \cup {None}]]
    BY DEF LoadEdit, TypeOK
<1>2. /\ cache' \in [Procs -> SUBSET Entries]
      /\ \A q \in Procs : cache'[q] \subseteq cache[q]
    BY DEF LoadEdit, Invalidate, TypeOK
<1>3. overlaps' \subseteq Edits \X Edits /\ ops' \in 0..MaxOps BY DEF LoadEdit, Operation, TypeOK
<1>4. TypeOK' /\ Based' BY <1>1, <1>2, <1>3 DEF LoadEdit, TypeOK, Based
<1> QED BY <1>2, <1>4, PendingAged DEF LoadEdit

LEMMA AddPlaceAged == ASSUME Aged, NEW p \in Procs, AddPlace(p) PROVE Aged'
<1> USE CacheAssumption DEF Aged, rows, stamps
<1>1. /\ cache' \in [Procs -> SUBSET Entries]
      /\ \A q \in Procs : cache'[q] \subseteq cache[q]
    BY DEF AddPlace, Invalidate, TypeOK
<1>2. ops' \in 0..MaxOps BY DEF AddPlace, Operation, TypeOK
<1>3. TypeOK' /\ Based' BY <1>1, <1>2 DEF AddPlace, TypeOK, Based
<1> QED BY <1>1, <1>3, PendingAged DEF AddPlace

LEMMA EndEraseAged == ASSUME Aged, EndErase PROVE Aged'
<1> USE CacheAssumption DEF Aged, rows, stamps
<1>1. /\ cache' \in [Procs -> SUBSET Entries]
      /\ \A q \in Procs : cache'[q] \subseteq cache[q]
    BY DEF EndErase, Invalidate, TypeOK
<1>2. TypeOK' /\ Based' BY <1>1 DEF EndErase, TypeOK, Based
<1> QED BY <1>1, <1>2, PendingAged DEF EndErase

LEMMA CommitEditAged == ASSUME Aged, NEW e \in Edits, CommitEdit(e) PROVE Aged'
<1> USE CacheAssumption DEF Aged, rows, stamps
<1>1. /\ Stamp /\ UNCHANGED <<clock, place, adding, erasing, deleting, lives, ops, cache, req, answer, overlaps>>
      /\ \/ SameTenant(edit[e].base) /\ tenant' = Edited(edit[e].base, e)
         \/ tenant' = tenant
      /\ \E how \in {"done", "failed"} : edit' = [edit EXCEPT ![e].pc = how]
    BY DEF CommitEdit
<1>2. edit[e].base \in Rows BY DEF CommitEdit, Based
<1>3. /\ edit' \in [Edits -> [pc : {"new", "loaded", "done", "failed"}, base : Rows \cup {None}]]
      /\ \A f \in Edits : edit'[f].base = edit[f].base /\ (f # e => edit'[f] = edit[f])
    BY <1>1 DEF TypeOK
<1>4. tenant' \in Rows \cup {None} BY <1>1, <1>2, EditedType DEF TypeOK
<1>5. Based' BY <1>2, <1>3 DEF Based
<1>6. \A t \in Rows : SameTenant(t) => SameTenant(t)'
    <2> SUFFICES ASSUME NEW t \in Rows, SameTenant(t), tenant' # tenant PROVE SameTenant(t)'
        BY DEF SameTenant
    <2>1. SameTenant(edit[e].base) /\ tenant' = Edited(edit[e].base, e) BY <1>1
    <2>2. tenant'.life = edit[e].base.life BY <1>2, <2>1, EditedType
    <2>3. tenant' # None BY <1>2, <2>1, EditedType, NoneIsNoRow
    <2> QED BY <2>1, <2>2, <2>3 DEF SameTenant
<1> QED BY <1>1, <1>3, <1>4, <1>5, <1>6, CommitAged DEF TypeOK

LEMMA CommitPlaceAged == ASSUME Aged, CommitPlace PROVE Aged'
<1> USE DEF Aged, rows, CommitPlace
<1>1. tenant' \in Rows \cup {None} /\ place' \in Places BY DEF TypeOK, Places
<1>2. Based' BY DEF Based
<1> QED BY <1>1, <1>2, CommitAged DEF TypeOK, SameTenant

LEMMA EraseLocationsAged == ASSUME Aged, NEW p \in Procs, EraseLocations(p) PROVE Aged'
<1> USE CacheAssumption DEF Aged, rows, EraseLocations, Operation
<1>1. tenant' \in Rows \cup {None} /\ place' = "absent" /\ place' \in Places BY DEF Places, TypeOK
<1>2. Based' BY DEF Based
<1>3. ops' \in 0..MaxOps BY DEF TypeOK
<1> QED BY <1>1, <1>2, <1>3, CommitAged DEF TypeOK

LEMMA EraseTenantAged == ASSUME Aged, EraseTenant PROVE Aged'
<1> USE CacheAssumption DEF Aged, rows, EraseTenant
<1>1. tenant' \in Rows \cup {None} /\ place' = "absent" /\ place' \in Places BY DEF Places
<1>2. Based' BY DEF Based
<1> QED BY <1>1, <1>2, CommitAged DEF TypeOK

LEMMA FailEraseAged == ASSUME Aged, FailErase PROVE Aged'
<1> USE CacheAssumption DEF Aged, rows, stamps
<1>1. TypeOK' /\ Based' BY DEF FailErase, TypeOK, Based
<1> QED BY <1>1, PendingAged DEF FailErase

LEMMA CreateAged == ASSUME Aged, Create PROVE Aged'
<1> USE CacheAssumption DEF Aged, rows, Create, Operation
<1>1. lives' \in 1..MaxLives /\ ops' \in 0..MaxOps BY DEF TypeOK
<1>2. tenant' \in Rows BY <1>1, CreatedType
<1>3. Based' BY DEF Based
<1>4. \A t \in Rows : ~SameTenant(t) BY DEF SameTenant
<1> QED BY <1>1, <1>2, <1>3, <1>4, CommitAged DEF TypeOK

LEMMA StepAged == Aged /\ [Next]_vars => Aged'
<1> SUFFICES ASSUME Aged, [Next]_vars PROVE Aged' OBVIOUS
<1>1. CASE UNCHANGED vars
    <2>1. /\ UNCHANGED <<clock, tenant, place, adding, erasing, deleting, lives, ops, edit, cache, req, answer,
                         until, untilPlace, contents, overlaps>>
        BY <1>1 DEF vars, rows, stamps
    <2>2. TypeOK' /\ Based' BY <2>1 DEF Aged, TypeOK, Based
    <2> QED BY <2>1, <2>2, PendingAged
<1>2. ASSUME NEW r \in Requests, (\E p \in Procs : ReadTenant(r, p)) \/ ReadPlace(r) \/ Serve(r)
      PROVE Aged'
    BY <1>2, ReadTenantAged, ReadPlaceAged, ServeAged
<1>3. ASSUME NEW e \in Edits, (\E p \in Procs : LoadEdit(e, p)) \/ CommitEdit(e) PROVE Aged'
    BY <1>3, LoadEditAged, CommitEditAged
<1>4. ASSUME NEW p \in Procs, AddPlace(p) \/ EraseLocations(p) PROVE Aged'
    BY <1>4, AddPlaceAged, EraseLocationsAged
<1>5. CASE CommitPlace \/ EraseTenant \/ FailErase \/ EndErase \/ Create
    BY <1>5, CommitPlaceAged, EraseTenantAged, FailEraseAged, EndEraseAged, CreateAged
<1> QED BY <1>1, <1>2, <1>3, <1>4, <1>5, TickAged DEF Next

THEOREM AgedInductive == Spec => []Aged
BY InitAged, StepAged, PTL DEF Spec

\* Type correctness; in particular a process never holds two entries of a version.
THEOREM TypeCorrect == Spec => []TypeOK
<1>1. Aged => TypeOK BY DEF Aged
<1> QED BY <1>1, AgedInductive, PTL

\* What a request is given has been committed in the last MaxAge ticks.
LEMMA ServesFresh ==
    ASSUME Aged, NEW r \in Requests, Serve(r)
    PROVE  /\ until[answer'[r].layer] >= clock - MaxAge
           /\ untilPlace[answer'[r].place] >= clock - MaxAge
<1> USE DEF Aged
<1> DEFINE p == req[r].proc
           row == req[r].row
           began == req[r].began
<1>1. req[r].pc = "cache" BY DEF Serve
<1>2. /\ row \in Rows /\ p \in Procs
      /\ began <= clock /\ clock - began <= Slack
      /\ until[Layer(row)] >= began /\ untilPlace[req[r].place] >= began
    BY <1>1 DEF FreshReads, InFlight
<1>3. clock \in Nat /\ began \in Nat /\ req[r].place \in Places /\ Layer(row) \in Layers
    BY <1>2, LayerType DEF TypeOK
<1>4. MaxAge = TTL + Slack /\ TTL \in Nat /\ Slack \in Nat BY CacheAssumption DEF MaxAge
<1>5. \/ \E x \in Hits(p, row.version) : answer' = [answer EXCEPT ![r] = x.cfg]
      \/ answer' = [answer EXCEPT ![r] = Resolved(r)]
    BY DEF Serve
<1> HIDE DEF p, row, began
<1>6. CASE answer' = [answer EXCEPT ![r] = Resolved(r)]
    <2>1. answer'[r].layer = Layer(row) /\ answer'[r].place = req[r].place
        BY <1>6 DEF TypeOK, Resolved, row
    <2>2. until[Layer(row)] \in Int /\ untilPlace[req[r].place] \in Int BY <1>3 DEF TypeOK
    <2> QED BY <1>2, <1>3, <1>4, <2>1, <2>2
<1>7. ASSUME NEW x \in Hits(p, row.version), answer' = [answer EXCEPT ![r] = x.cfg]
      PROVE  /\ until[answer'[r].layer] >= clock - MaxAge
             /\ untilPlace[answer'[r].place] >= clock - MaxAge
    <2>1. x \in cache[p] /\ clock - x.ts <= TTL BY <1>7 DEF Hits, Alive
    <2>2. answer'[r] = x.cfg BY <1>7 DEF TypeOK
    <2>3. until[x.cfg.layer] >= x.ts - Slack /\ untilPlace[x.cfg.place] >= x.ts - Slack
        BY <1>2, <2>1 DEF FreshEntries
    <2>4. x.ts \in Nat /\ x.cfg.layer \in Layers /\ x.cfg.place \in Places
        BY <1>2, <2>1 DEF TypeOK, Entries, Configs
    <2>5. until[x.cfg.layer] \in Int /\ untilPlace[x.cfg.place] \in Int BY <2>4 DEF TypeOK
    <2> QED BY <1>3, <1>4, <2>1, <2>2, <2>3, <2>4, <2>5
<1> QED BY <1>5, <1>6, <1>7

\* Bounded staleness: what a request is served was committed within the last
\* TTL + Slack ticks, whatever the admin did in whichever process.
THEOREM ServedIsRecent == Spec => ServedRecent
<1> DEFINE Recent ==
        \A r \in Requests : answer'[r] # answer[r] =>
            /\ until[answer'[r].layer] >= clock - MaxAge
            /\ untilPlace[answer'[r].place] >= clock - MaxAge
<1>1. ASSUME Aged, Next, NEW r \in Requests, answer'[r] # answer[r]
      PROVE  Serve(r)
    <2>1. \E q \in Requests : Serve(q)
        BY <1>1 DEF Next, Tick, ReadTenant, ReadPlace, LoadEdit, CommitEdit, AddPlace, EraseLocations,
            CommitPlace, EraseTenant, FailErase, EndErase, Create
    <2>2. ASSUME NEW q \in Requests, Serve(q), q # r PROVE FALSE
        <3>1. \E cfg : answer' = [answer EXCEPT ![q] = cfg] BY <2>2 DEF Serve
        <3> QED BY <1>1, <2>2, <3>1 DEF Aged, TypeOK
    <2> QED BY <2>1, <2>2
<1>2. Aged /\ [Next]_vars => [Recent]_vars BY <1>1, ServesFresh
<1> QED BY <1>2, AgedInductive, PTL DEF Spec, ServedRecent, Recent

-----------------------------------------------------------------------------
(* Dated is inductive, beside Aged *)

LEMMA InitDated == Init => Dated
<1> SUFFICES ASSUME Init PROVE Dated OBVIOUS
<1> USE CacheAssumption DEF Init
<1>1. tenant.life = 1 /\ lives = 1 BY CreatedType
<1>2. Known BY <1>1 DEF Known
<1>3. Sourced BY DEF Sourced
<1>4. tenant.version \in Nat BY CreatedType
<1>5. Counted BY <1>4 DEF Counted, Loaded
<1>6. Kept BY DEF Kept, Loaded, Merged
<1> QED BY <1>2, <1>3, <1>5, <1>6 DEF Dated

\* Steps that touch neither the tenant nor an edit.
LEMMA SameHistory ==
    ASSUME Counted, Kept, UNCHANGED <<tenant, edit, overlaps, contents>>
    PROVE  Counted' /\ Kept'
<1>1. \A t : SameTenant(t)' = SameTenant(t) BY DEF SameTenant
<1>2. Counted' BY DEF Counted, Loaded, SameTenant
<1>3. Kept' BY DEF Kept, Loaded, Merged, Alone, SameTenant
<1> QED BY <1>2, <1>3

LEMMA QuietDated ==
    ASSUME Dated, UNCHANGED <<tenant, lives, edit, overlaps, contents, req, answer>>,
           \A p \in Procs : cache'[p] \subseteq cache[p]
    PROVE  Dated'
<1> USE DEF Dated
<1>1. Known' BY DEF Known
<1>2. Sourced' BY DEF Sourced, Carries, Layer
<1> QED BY <1>1, <1>2, SameHistory

LEMMA StampOfTheSame ==
    ASSUME Known, Stamp, tenant' = tenant PROVE contents' = contents
BY DEF Known, Stamp

LEMMA ReadTenantDated ==
    ASSUME Aged, Dated, NEW r \in Requests, NEW p \in Procs, ReadTenant(r, p) PROVE Dated'
<1> USE DEF Dated, rows, stamps
<1>1. /\ tenant # None /\ req[r].pc = "new"
      /\ UNCHANGED <<tenant, lives, edit, overlaps, contents, cache, answer>>
      /\ \A q \in Requests \ {r} : req'[q] = req[q]
      /\ req'[r].row = tenant
    BY DEF ReadTenant, Aged, TypeOK
<1>2. Known' BY <1>1 DEF Known
<1>3. answer[r] = None BY <1>1 DEF Sourced
<1>4. Sourced' BY <1>1, <1>3 DEF Sourced, Carries, Layer
<1> QED BY <1>1, <1>2, <1>4, SameHistory

LEMMA ReadPlaceDated ==
    ASSUME Aged, Dated, NEW r \in Requests, ReadPlace(r) PROVE Dated'
<1> USE DEF Dated, rows, stamps
<1>1. /\ req[r].pc = "place"
      /\ UNCHANGED <<tenant, lives, edit, overlaps, contents, cache, answer>>
      /\ \A q \in Requests \ {r} : req'[q] = req[q]
      /\ req'[r].row = req[r].row
    BY DEF ReadPlace, Aged, TypeOK
<1>2. Known' BY <1>1 DEF Known
<1>3. answer[r] = None BY <1>1 DEF Sourced
<1>4. Sourced' BY <1>1, <1>3 DEF Sourced, Carries, Layer
<1> QED BY <1>1, <1>2, <1>4, SameHistory

\* What is served and what is kept comes from the row of the request, or from an
\* entry under the same version.
LEMMA ServeDated ==
    ASSUME Aged, Dated, NEW r \in Requests, Serve(r) PROVE Dated'
<1> USE DEF Dated, rows, stamps
<1> DEFINE p == req[r].proc
           row == req[r].row
           new == [version |-> row.version, cfg |-> Resolved(r), ts |-> clock]
<1>1. /\ req[r].pc = "cache" /\ row \in contents
      /\ UNCHANGED <<tenant, lives, edit, overlaps, contents>>
      /\ \A q \in Requests \ {r} : req'[q] = req[q]
      /\ req'[r].row = row /\ req'[r].pc = "done"
    BY DEF Serve, Aged, TypeOK, Known
<1>2. p \in Procs BY <1>1 DEF Aged, FreshReads, InFlight
<1>3. \/ /\ \E x \in Hits(p, row.version) : answer' = [answer EXCEPT ![r] = x.cfg]
         /\ cache' = cache
      \/ /\ answer' = [answer EXCEPT ![r] = Resolved(r)]
         /\ cache' = [cache EXCEPT ![p] = {x \in cache[p] : x.version # row.version} \cup {new}]
    BY DEF Serve, Put
<1>4. Known' BY <1>1 DEF Known
<1>5. Carries(row.version, Resolved(r).layer) BY <1>1 DEF Carries, Resolved
<1>6. \A q \in Procs : \A x \in cache'[q] : Carries(x.version, x.cfg.layer)
    <2>1. new.version = row.version /\ new.cfg = Resolved(r) OBVIOUS
    <2> HIDE DEF new
    <2>2. \A q \in Procs : cache'[q] \subseteq cache[q] \cup {new} BY <1>2, <1>3 DEF Aged, TypeOK
    <2> QED BY <1>5, <2>1, <2>2 DEF Sourced
<1>7. Carries(row.version, answer'[r].layer)
    <2>1. CASE answer' = [answer EXCEPT ![r] = Resolved(r)] BY <1>5, <2>1 DEF Aged, TypeOK
    <2>2. ASSUME NEW x \in Hits(p, row.version), answer' = [answer EXCEPT ![r] = x.cfg]
          PROVE  Carries(row.version, answer'[r].layer)
        <3>1. x \in cache[p] /\ x.version = row.version BY DEF Hits
        <3>2. Carries(x.version, x.cfg.layer) BY <1>2, <3>1 DEF Sourced
        <3> QED BY <2>2, <3>1, <3>2 DEF Aged, TypeOK
    <2> QED BY <1>3, <2>1, <2>2
<1>8. \A q \in Requests \ {r} : answer'[q] = answer[q] BY <1>3 DEF Aged, TypeOK
<1>9. Sourced' BY <1>1, <1>6, <1>7, <1>8 DEF Sourced, Carries, Layer
<1> QED BY <1>1, <1>4, <1>9, SameHistory

\* Loading the row overlaps with every edit that has loaded it and not committed.
LEMMA LoadEditDated ==
    ASSUME Aged, Dated, NEW e \in Edits, NEW p \in Procs, LoadEdit(e, p) PROVE Dated'
<1> USE DEF Dated, rows, stamps
<1>1. /\ tenant # None /\ edit[e].pc = "new"
      /\ UNCHANGED <<tenant, lives, contents, req, answer>>
      /\ edit'[e].pc = "loaded" /\ edit'[e].base = tenant
      /\ \A f \in Edits \ {e} : edit'[f] = edit[f]
      /\ overlaps' = overlaps \cup {<<e, f>> : f \in {g \in Edits : Loaded(g)}}
      /\ \A q \in Procs : cache'[q] \subseteq cache[q]
    BY DEF LoadEdit, Invalidate, Loaded, Aged, TypeOK
<1>2. Known' BY <1>1 DEF Known
<1>3. Sourced' BY <1>1 DEF Sourced, Carries, Layer
<1>4. \A f \in Edits : Loaded(f) => <<e, f>> \in overlaps' BY <1>1
<1>5. \A f \in Edits : Loaded(f)' => f = e \/ Loaded(f) BY <1>1 DEF Loaded
<1>6. \A t : SameTenant(t)' = SameTenant(t) BY <1>1 DEF SameTenant
<1>7. Counted'
    <2> SUFFICES ASSUME overlaps' = {} PROVE Counted' BY DEF Counted
    <2>1. overlaps = {} /\ \A f \in Edits : Loaded(f)' => f = e BY <1>1, <1>4, <1>5
    <2>2. \A f \in Edits : Loaded(f)' => edit'[f].base = tenant' BY <1>1, <2>1
    <2> QED BY <1>1, <2>1, <2>2 DEF Counted
<1>8. \A f \in Edits : Alone(f)' => Alone(f) BY <1>1 DEF Alone
<1>9. \A f \in Edits : Merged(f)' => Merged(f) /\ f # e BY <1>1, <1>8 DEF Merged
<1>10. \A f, g \in Edits : Loaded(f)' /\ Loaded(g)' /\ f # g => ~Alone(f)'
    <2> SUFFICES ASSUME NEW f \in Edits, NEW g \in Edits, Loaded(f)', Loaded(g)', f # g, Alone(f)'
                 PROVE  FALSE
        OBVIOUS
    <2>1. Loaded(f) => <<e, f>> \notin overlaps' BY <1>4 DEF Alone
    <2>2. Loaded(g) => <<e, g>> \in overlaps' BY <1>4
    <2>3. f # e => Loaded(f) BY <1>5
    <2>4. f = e => Loaded(g) BY <1>5
    <2>5. f # e BY <2>2, <2>4 DEF Alone
    <2> QED BY <1>4, <2>1, <2>3, <2>5
<1>11. ASSUME NEW a \in Edits, NEW f \in Edits, Merged(a)', Loaded(f)',
              edit'[a].base.life = edit'[f].base.life
       PROVE  a \in edit'[f].base.edits
    <2>1. Merged(a) /\ edit'[a] = edit[a] BY <1>1, <1>9, <1>11
    <2>2. CASE f = e
        <3>1. SameTenant(edit[a].base) BY <1>1, <1>11, <2>1, <2>2 DEF SameTenant
        <3> QED BY <1>1, <2>1, <2>2, <3>1 DEF Kept
    <2>3. CASE f # e
        <3>1. Loaded(f) /\ edit'[f] = edit[f] BY <1>1, <1>5, <1>11, <2>3
        <3> QED BY <1>11, <2>1, <3>1 DEF Kept
    <2> QED BY <2>2, <2>3
<1>12. ASSUME NEW a \in Edits, Merged(a)', SameTenant(edit[a].base)' PROVE a \in tenant'.edits
    <2>1. Merged(a) /\ edit'[a] = edit[a] BY <1>1, <1>9, <1>12
    <2>2. SameTenant(edit[a].base) BY <1>1, <1>12, <2>1 DEF SameTenant
    <2> QED BY <1>1, <2>1, <2>2 DEF Kept
<1>13. Kept' BY <1>10, <1>11, <1>12 DEF Kept, SameTenant
<1> QED BY <1>2, <1>3, <1>7, <1>13

\* A commit that finds another row, or none, changes nothing but the edit.
LEMMA FailedEditDated ==
    ASSUME Aged, Dated, NEW e \in Edits, CommitEdit(e), tenant' = tenant,
           edit' = [edit EXCEPT ![e].pc = "failed"]
    PROVE  Dated'
<1> USE DEF Dated
<1>1. /\ UNCHANGED <<lives, overlaps, req, answer, cache>> /\ contents' = contents
      /\ \A f \in Edits : edit'[f].base = edit[f].base /\ (edit[f].pc = "new" => edit'[f].pc = "new")
      /\ \A f \in Edits : edit'[f].pc # "failed" => edit'[f] = edit[f]
      /\ edit[e].pc = "loaded"
    BY StampOfTheSame DEF CommitEdit, Aged, TypeOK
<1>2. \A f \in Edits : edit'[f].pc # "new" => edit[f].pc # "new" BY <1>1
<1>3. Known' BY <1>1, <1>2 DEF Known
<1>4. Sourced' BY <1>1 DEF Sourced, Carries, Layer
<1>5. \A f \in Edits : /\ Loaded(f)' => Loaded(f)
                       /\ Merged(f)' => Merged(f)
                       /\ Alone(f)' = Alone(f)
    BY <1>1 DEF Loaded, Merged, Alone
<1>6. \A f \in Edits : SameTenant(edit[f].base)' = SameTenant(edit[f].base) BY <1>1 DEF SameTenant
<1>7. Counted' BY <1>1, <1>5, <1>6 DEF Counted
<1>8. Kept' BY <1>1, <1>5, <1>6 DEF Kept
<1> QED BY <1>3, <1>4, <1>7, <1>8

\* A commit writes what was loaded, with one edit and one version more.
LEMMA MergedEditDated ==
    ASSUME Aged, Dated, NEW e \in Edits, CommitEdit(e), SameTenant(edit[e].base),
           tenant' = Edited(edit[e].base, e), edit' = [edit EXCEPT ![e].pc = "done"]
    PROVE  Dated'
<1> USE DEF Dated
<1> DEFINE base == edit[e].base
           new == tenant'
<1>1. /\ UNCHANGED <<lives, overlaps, req, answer, cache>>
      /\ edit[e].pc = "loaded" /\ edit'[e].pc = "done"
      /\ \A f \in Edits : edit'[f].base = edit[f].base
      /\ \A f \in Edits \ {e} : edit'[f] = edit[f]
    BY DEF CommitEdit, Aged, TypeOK
<1>2. base \in Rows /\ base \in contents BY <1>1 DEF Aged, Based, Known
<1>3. /\ new \in Rows /\ new # None
      /\ new.life = base.life /\ new.version = base.version + 1 /\ new.edits = base.edits \cup {e}
    BY <1>2, EditedType, NoneIsNoRow
<1>4. tenant # None /\ tenant.life = base.life BY DEF SameTenant
<1>5. contents' = contents \cup {new} BY <1>3 DEF CommitEdit, Stamp
<1> HIDE DEF new
<1>6. Known' BY <1>1, <1>2, <1>3, <1>5 DEF Known, new
<1>7. Sourced' BY <1>1, <1>5 DEF Sourced, Carries, Layer
<1>8. \A f \in Edits : /\ Loaded(f)' => f # e /\ Loaded(f)
                       /\ Merged(f)' => f = e \/ Merged(f)
                       /\ Alone(f)' = Alone(f)
    BY <1>1 DEF Loaded, Merged, Alone
<1>9. Counted'
    <2> SUFFICES ASSUME overlaps = {} PROVE Counted' BY <1>1 DEF Counted
    <2>1. base = tenant BY <1>1 DEF Counted, Loaded
    <2>2. \A f \in Edits : ~Loaded(f)' BY <1>1, <1>8 DEF Counted, Loaded
    <2>3. \A x \in contents : x.life = new.life => x.version < new.version
        <3>1. \A x \in contents : x.version \in Nat BY DEF Aged, TypeOK, Rows
        <3>2. base.version \in Nat BY <1>2 DEF Rows
        <3> QED BY <1>3, <1>4, <2>1, <3>1, <3>2 DEF Counted
    <2>4. \A x \in contents : x.version \in Nat BY DEF Aged, TypeOK, Rows
    <2>5. new.version \in Nat BY <1>3 DEF Rows
    <2>6. \A x, y \in contents' : x.life = y.life /\ x.version = y.version => x = y
        BY <1>5, <2>3, <2>4, <2>5 DEF Counted
    <2>7. \A x \in contents' : x.life = tenant'.life => x.version <= tenant'.version
        BY <1>5, <2>3, <2>4, <2>5 DEF new
    <2> QED BY <2>2, <2>6, <2>7 DEF Counted
<1>10. \A a, f \in Edits : Loaded(a)' /\ Loaded(f)' /\ a # f => ~Alone(a)' BY <1>8 DEF Kept
<1>11. ASSUME NEW a \in Edits, NEW f \in Edits, Merged(a)', Loaded(f)', edit[a].base.life = edit[f].base.life
       PROVE  a \in edit[f].base.edits
    <2>1. Loaded(e) /\ Loaded(f) /\ f # e BY <1>1, <1>8, <1>11 DEF Loaded
    <2>2. ~Alone(e) BY <2>1 DEF Kept
    <2>3. Merged(a) BY <1>8, <1>11, <2>2 DEF Merged
    <2> QED BY <1>11, <2>1, <2>3 DEF Kept
<1>12. ASSUME NEW a \in Edits, Merged(a)', edit[a].base.life = new.life PROVE a \in new.edits
    <2>1. CASE a = e BY <1>3, <2>1
    <2>2. CASE a # e
        <3>1. Merged(a) /\ Loaded(e) BY <1>1, <1>8, <1>12, <2>2 DEF Loaded
        <3>2. a \in base.edits BY <1>3, <1>12, <3>1 DEF Kept
        <3> QED BY <1>3, <3>2
    <2> QED BY <2>1, <2>2
<1>13. Kept' BY <1>1, <1>10, <1>11, <1>12 DEF Kept, SameTenant, new
<1> QED BY <1>6, <1>7, <1>9, <1>13

LEMMA CommitEditDated ==
    ASSUME Aged, Dated, NEW e \in Edits, CommitEdit(e) PROVE Dated'
BY FailedEditDated, MergedEditDated DEF CommitEdit

LEMMA EraseTenantDated ==
    ASSUME Aged, Dated, EraseTenant PROVE Dated'
<1> USE DEF Dated
<1>1. /\ tenant' = None /\ contents' = contents
      /\ UNCHANGED <<lives, edit, overlaps, req, answer, cache>>
    BY DEF EraseTenant, Stamp
<1>2. Known' BY <1>1 DEF Known
<1>3. Sourced' BY <1>1 DEF Sourced, Carries, Layer
<1>4. \A t : ~SameTenant(t)' BY <1>1 DEF SameTenant
<1>5. Counted' BY <1>1, <1>4 DEF Counted, Loaded
<1>6. Kept' BY <1>1, <1>4 DEF Kept, Loaded, Merged, Alone
<1> QED BY <1>2, <1>3, <1>5, <1>6

\* The successor begins a life that no committed row is of.
LEMMA CreateDated ==
    ASSUME Aged, Dated, Create PROVE Dated'
<1> USE DEF Dated
<1> DEFINE new == Created(lives + 1)
<1>1. lives' = lives + 1 /\ lives \in Nat /\ lives + 1 \in 1..MaxLives
    BY CacheAssumption DEF Create, Aged, TypeOK
<1>2. new \in Rows /\ new.life = lives + 1 /\ new.version = 1 BY <1>1, CreatedType
<1> HIDE DEF new
<1>3. /\ tenant' = new /\ new # None /\ contents' = contents \cup {new}
      /\ UNCHANGED <<edit, overlaps, req, answer, cache>>
    BY <1>2, NoneIsNoRow DEF Create, Stamp, new
<1>4. \A x \in contents : x.life \in Nat /\ x.life <= lives /\ x.version \in Nat
    BY DEF Known, Aged, TypeOK, Rows
<1>5. \A x \in contents : x.life # new.life BY <1>1, <1>2, <1>4
<1>6. Known' BY <1>1, <1>2, <1>3, <1>4 DEF Known
<1>7. Sourced' BY <1>3 DEF Sourced, Carries, Layer
<1>8. \A e \in Edits : edit[e].pc # "new" => ~SameTenant(edit[e].base)'
    BY <1>3, <1>5 DEF Known, SameTenant
<1>9. Counted'
    <2>1. \A x \in contents' : x.life = tenant'.life => x = new BY <1>3, <1>5
    <2>2. overlaps = {} => \A x, y \in contents' : x.life = y.life /\ x.version = y.version => x = y
        BY <1>3, <1>5 DEF Counted
    <2>3. \A x \in contents' : x.life = tenant'.life => x.version <= tenant'.version
        BY <1>2, <1>3, <2>1
    <2> QED BY <1>3, <1>8, <2>2, <2>3 DEF Counted, Loaded
<1>10. Kept' BY <1>3, <1>8 DEF Kept, Loaded, Merged, Alone
<1> QED BY <1>6, <1>7, <1>9, <1>10

LEMMA StepDated == Aged /\ Dated /\ [Next]_vars => Dated'
<1> SUFFICES ASSUME Aged, Dated, [Next]_vars PROVE Dated' OBVIOUS
<1>1. CASE UNCHANGED vars \/ EndErase \/ FailErase \/ \E p \in Procs : AddPlace(p)
    <2>1. /\ UNCHANGED <<tenant, lives, edit, overlaps, contents, req, answer>>
          /\ \A p \in Procs : cache'[p] \subseteq cache[p]
        BY <1>1 DEF vars, rows, stamps, EndErase, FailErase, AddPlace, Invalidate, Aged, TypeOK
    <2> QED BY <2>1, QuietDated
<1>2. CASE Tick \/ CommitPlace \/ \E p \in Procs : EraseLocations(p)
    <2>1. Stamp /\ UNCHANGED <<tenant, lives, edit, overlaps, req, answer, cache>>
        BY <1>2 DEF Tick, CommitPlace, EraseLocations, rows
    <2>2. contents' = contents BY <2>1, StampOfTheSame DEF Dated
    <2> QED BY <2>1, <2>2, QuietDated
<1>3. ASSUME NEW r \in Requests, (\E p \in Procs : ReadTenant(r, p)) \/ ReadPlace(r) \/ Serve(r)
      PROVE Dated'
    BY <1>3, ReadTenantDated, ReadPlaceDated, ServeDated
<1>4. ASSUME NEW e \in Edits, (\E p \in Procs : LoadEdit(e, p)) \/ CommitEdit(e) PROVE Dated'
    BY <1>4, LoadEditDated, CommitEditDated
<1> QED BY <1>1, <1>2, <1>3, <1>4, EraseTenantDated, CreateDated DEF Next

THEOREM Inductive == Spec => [](Aged /\ Dated)
<1>1. Init => Aged /\ Dated BY InitAged, InitDated
<1>2. Aged /\ Dated /\ [Next]_vars => (Aged /\ Dated)' BY StepAged, StepDated
<1> QED BY <1>1, <1>2, PTL DEF Spec

\* A request gets the tenant layer it has read, unless its version was given out
\* twice.
THEOREM StaleOnlyByReuse == Spec => []StaleOnlyByReusedVersion
<1>1. Aged /\ Dated => StaleOnlyByReusedVersion
    <2> SUFFICES ASSUME Aged, Dated, NEW r \in Requests, answer[r] # None, ~Reused(req[r].row.version)
                 PROVE  answer[r].layer = Layer(req[r].row)
        BY DEF StaleOnlyByReusedVersion
    <2>1. req[r].pc = "done" /\ Carries(req[r].row.version, answer[r].layer) BY DEF Dated, Sourced
    <2>2. PICK x \in contents : x.version = req[r].row.version /\ Layer(x) = answer[r].layer
        BY <2>1 DEF Carries
    <2>3. req[r].row \in contents BY <2>1 DEF Dated, Known
    <2>4. x = req[r].row BY <2>2, <2>3 DEF Dated, Counted, Reused
    <2> QED BY <2>2, <2>4
<1> QED BY <1>1, Inductive, PTL

\* An edit that met no other stays in force while its tenant lives.
THEOREM EditsLostByOverlap == Spec => []EditsLostOnlyByOverlap
<1>1. Dated => EditsLostOnlyByOverlap BY DEF Dated, Kept, Merged, Alone, EditsLostOnlyByOverlap
<1> QED BY <1>1, Inductive, PTL
=============================================================================

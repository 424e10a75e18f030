------------------------------- MODULE Ingest -------------------------------
(***************************************************************************)
(* ingest_site (app/rag/ingest.py): the pages a crawl brought home are     *)
(* compared by hash with the documents of the tenant, and the chunks of    *)
(* those that changed are replaced, all in one transaction.  An admin's    *)
(* crawl and the worker's run side by side at READ COMMITTED: a statement  *)
(* sees what was committed when it started, then waits for the rows that   *)
(* another transaction holds.                                              *)
(*                                                                         *)
(* A text is its revision, and so is its hash; the chunks that a crawl     *)
(* writes for a page are one.                                              *)
(***************************************************************************)
EXTENDS Naturals

CONSTANTS
    Crawls,     \* calls of ingest_site
    Urls,
    LocationOf, \* location_id of each crawl; None is the whole business
    None,
    MaxRev      \* bound: how many revisions of a page the site publishes

IngestAssumption ==
    /\ MaxRev \in Nat \ {0} /\ DOMAIN LocationOf = Crawls
    /\ None \notin Crawls /\ None \notin Urls
    /\ None \notin [hash : 1..MaxRev, loc : {LocationOf[c] : c \in Crawls}]

VARIABLES
    site,       \* the revision of each page that the site shows
    doc,        \* documents: content_hash and location_id, None without a row
    chunks,     \* committed rows of chunks
    pc,         \* where each crawl is
    pages,      \* what it fetched: a revision per page, None if it found none
    todo,       \* the pages it has yet to look at
    page,       \* the page it is looking at
    target,     \* the chunks its DELETE saw
    held,       \* pages it has rewritten: the row locks it holds
    dropped,    \* the chunks it has deleted
    writer,     \* ghost: the crawl that wrote each document last
    met         \* ghost: <<c, u>>: another crawl was rewriting u beside c

index == <<doc, chunks, writer>>
locals == <<pc, pages, todo, page, target, held, dropped>>
vars == <<site, index, locals, met>>

Revs == 1..MaxRev
Locations == {LocationOf[c] : c \in Crawls}
Docs == [hash : Revs, loc : Locations]
Chunks == [url : Urls, rev : Revs, loc : Locations, by : Crawls]

Init ==
    /\ site = [u \in Urls |-> 1]
    /\ doc = [u \in Urls |-> None]
    /\ chunks = {}
    /\ pc = [c \in Crawls |-> "new"]
    /\ pages = [c \in Crawls |-> [u \in Urls |-> None]]
    /\ todo = [c \in Crawls |-> {}]
    /\ page = [c \in Crawls |-> None]
    /\ target = [c \in Crawls |-> {}]
    /\ held = [c \in Crawls |-> {}]
    /\ dropped = [c \in Crawls |-> {}]
    /\ writer = [u \in Urls |-> None]
    /\ met = {}

\* The business edits its site.
Publish(u) ==
    /\ site[u] < MaxRev
    /\ site' = [site EXCEPT ![u] = @ + 1]
    /\ UNCHANGED <<index, locals, met>>

\* crawl() returns the pages it could fetch.
Fetch(c, found) ==
    /\ pc[c] = "new"
    /\ pc' = [pc EXCEPT ![c] = "next"]
    /\ pages' = [pages EXCEPT ![c] = [u \in Urls |-> IF u \in found THEN site[u] ELSE None]]
    /\ todo' = [todo EXCEPT ![c] = found]
    /\ UNCHANGED <<site, index, page, target, held, dropped, met>>

\* Crawls that have looked at u and are rewriting it, or have and not committed.
Rewriting(u) == {d \in Crawls : u \in held[d] \/ page[d] = u}

Unchanged(c, u) == doc[u] # None /\ doc[u].hash = pages[c][u]

\* The SELECT of the document; the same hash again skips the page.
Look(c, u) ==
    /\ pc[c] = "next" /\ u \in todo[c]
    /\ todo' = [todo EXCEPT ![c] = @ \ {u}]
    /\ \/ /\ Unchanged(c, u)
          /\ UNCHANGED <<pc, page, met>>
       \/ /\ ~Unchanged(c, u)
          /\ pc' = [pc EXCEPT ![c] = IF doc[u] = None THEN "insert" ELSE "delete"]
          /\ page' = [page EXCEPT ![c] = u]
          /\ met' = met \cup UNION {{<<c, u>>, <<d, u>>} : d \in Rewriting(u)}
    /\ UNCHANGED <<site, index, pages, target, held, dropped>>

ChunksOf_Here(c, u) == {k \in chunks : k.url = u /\ k.loc = LocationOf[c]}
ChunksOf(c, u) == {k \in chunks : k.url = u}

\* The DELETE of the old chunks starts: this is all it will ever see.
StartDelete(c) ==
    /\ pc[c] = "delete"
    /\ pc' = [pc EXCEPT ![c] = "replace"]
    /\ target' = [target EXCEPT ![c] = ChunksOf(c, page[c])]
    /\ UNCHANGED <<site, index, pages, todo, page, held, dropped, met>>

Unlocked(c) == \A d \in Crawls \ {c} : page[c] \notin held[d]

Rewrite(c, gone) ==
    /\ held' = [held EXCEPT ![c] = @ \cup {page[c]}]
    /\ dropped' = [dropped EXCEPT ![c] = @ \cup gone]
    /\ pc' = [pc EXCEPT ![c] = "next"]
    /\ page' = [page EXCEPT ![c] = None]
    /\ target' = [target EXCEPT ![c] = {}]
    /\ UNCHANGED <<site, index, pages, todo, met>>

\* The DELETE gets the rows, those of them that are still there; the new chunks
\* and the new hash follow in the same transaction.
Replace(c) ==
    /\ pc[c] = "replace" /\ Unlocked(c)
    /\ Rewrite(c, target[c] \cap chunks)

\* The INSERT of the document waits for one of the same (tenant, url).
Insert(c) ==
    /\ pc[c] = "insert" /\ Unlocked(c) /\ doc[page[c]] = None
    /\ Rewrite(c, {})

NewChunks(c) == {[url |-> u, rev |-> pages[c][u], loc |-> LocationOf[c], by |-> c] : u \in held[c]}

\* A document keeps the location it was inserted with.
NewDoc(c, u) ==
    [hash |-> pages[c][u], loc |-> IF doc[u] = None THEN LocationOf[c] ELSE doc[u].loc]

Close(c, how) ==
    /\ pc' = [pc EXCEPT ![c] = how]
    /\ todo' = [todo EXCEPT ![c] = {}]
    /\ page' = [page EXCEPT ![c] = None]
    /\ target' = [target EXCEPT ![c] = {}]
    /\ held' = [held EXCEPT ![c] = {}]
    /\ dropped' = [dropped EXCEPT ![c] = {}]
    /\ UNCHANGED <<site, pages, met>>

Commit(c) ==
    /\ pc[c] = "next" /\ todo[c] = {}
    /\ doc' = [u \in Urls |-> IF u \in held[c] THEN NewDoc(c, u) ELSE doc[u]]
    /\ chunks' = (chunks \ dropped[c]) \cup NewChunks(c)
    /\ writer' = [u \in Urls |-> IF u \in held[c] THEN c ELSE writer[u]]
    /\ Close(c, "done")

\* embed() raises, the database refuses (a document that was inserted meanwhile,
\* a deadlock it breaks up), or the process dies: everything is rolled back.
Fail(c) ==
    /\ pc[c] \notin {"new", "done", "failed"}
    /\ Close(c, "failed")
    /\ UNCHANGED index

Step(c) ==
    \/ \E found \in SUBSET Urls : Fetch(c, found)
    \/ \E u \in Urls : Look(c, u)
    \/ StartDelete(c) \/ Replace(c) \/ Insert(c) \/ Commit(c) \/ Fail(c)

Next == (\E u \in Urls : Publish(u)) \/ (\E c \in Crawls : Step(c))

Spec == Init /\ [][Next]_vars

-----------------------------------------------------------------------------
(* Properties *)

\* Every variable has its type; no page is rewritten by two crawls at a time.
TypeOK ==
    /\ site \in [Urls -> Revs]
    /\ doc \in [Urls -> Docs \cup {None}]
    /\ chunks \subseteq Chunks
    /\ pc \in [Crawls -> {"new", "next", "delete", "replace", "insert", "done", "failed"}]
    /\ pages \in [Crawls -> [Urls -> Revs \cup {None}]]
    /\ todo \in [Crawls -> SUBSET Urls]
    /\ page \in [Crawls -> Urls \cup {None}]
    /\ target \in [Crawls -> SUBSET Chunks] /\ dropped \in [Crawls -> SUBSET Chunks]
    /\ held \in [Crawls -> SUBSET Urls]
    /\ \A c, d \in Crawls : c # d => held[c] \cap held[d] = {}
    /\ writer \in [Urls -> Crawls \cup {None}]
    /\ met \subseteq Crawls \X Urls

\* What retrieval can find of a page is the text its hash stands for, once, and
\* a re-crawl therefore never skips a page whose chunks are old or missing: unless
\* the crawl that wrote it last met another one rewriting the same page.
IndexInStep ==
    \A u \in Urls :
        doc[u] # None /\ <<writer[u], u>> \notin met =>
            \E k \in chunks : {x \in chunks : x.url = u} = {k} /\ k.rev = doc[u].hash
=============================================================================

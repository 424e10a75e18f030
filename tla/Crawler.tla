------------------------------ MODULE Crawler ------------------------------
(***************************************************************************)
(* crawl (app/rag/crawler.py): breadth first through the links of one      *)
(* site, Concurrency fetches at a time, with a cap on the pages it brings  *)
(* home, on the depth, and on the addresses it will remember.  Results     *)
(* are handled in the order they were asked for, whatever order they come  *)
(* in.  Links are those _links keeps: same host, no mailto, no pictures.   *)
(***************************************************************************)
EXTENDS Naturals, FiniteSets, Sequences, Functions

CONSTANTS
    Urls,
    Home,        \* start_url
    Sites,       \* the sites looked at: a sequence of links per page
    MaxPages,    \* max_pages
    MaxDepth,    \* max_depth
    Concurrency,
    SeenFactor   \* 4: addresses remembered per page wanted

CrawlerAssumption ==
    /\ Home \in Urls /\ Sites \subseteq [Urls -> Seq(Urls)]
    /\ MaxPages \in Nat \ {0} /\ Concurrency \in Nat \ {0}
    /\ MaxDepth \in Nat /\ SeenFactor \in Nat \ {0}

VARIABLES
    site,        \* the links of each page
    frontier,    \* pages to fetch, with their depth
    batch,       \* pages asked for and not yet handled
    found,       \* links of the page handled last, not yet looked at
    seen,        \* addresses ever put on the frontier
    pages,       \* pages with a text
    dead         \* ghost: pages that were forbidden, failed, or are no HTML

vars == <<site, frontier, batch, found, seen, pages, dead>>

Item == [url : Urls, depth : 0..MaxDepth]

Init ==
    /\ site \in Sites
    /\ frontier = <<[url |-> Home, depth |-> 0]>>
    /\ batch = <<>> /\ found = <<>>
    /\ seen = {Home}
    /\ pages = <<>>
    /\ dead = {}

More == frontier # <<>> /\ Len(pages) < MaxPages

Least(m, n) == IF m < n THEN m ELSE n

\* The head of the loop: the next batch is asked for.
Ask ==
    /\ batch = <<>> /\ found = <<>> /\ More
    /\ LET n == Least(Concurrency, Len(frontier))
       IN /\ batch' = SubSeq(frontier, 1, n)
          /\ frontier' = SubSeq(frontier, n + 1, Len(frontier))
    /\ UNCHANGED <<site, found, seen, pages, dead>>

Links(item) == [i \in 1..Len(site[item.url]) |-> [url |-> site[item.url][i], depth |-> item.depth + 1]]

\* A page without enough text is not kept; its links are followed all the same.
Arrive(kept) ==
    /\ batch # <<>> /\ found = <<>>
    /\ batch' = Tail(batch)
    /\ pages' = IF kept THEN Append(pages, Head(batch).url) ELSE pages
    /\ found' = IF Head(batch).depth < MaxDepth THEN Links(Head(batch)) ELSE <<>>
    /\ UNCHANGED <<site, frontier, seen, dead>>

\* robots.txt forbids it, the request fails, or the answer is no HTML page.
Miss ==
    /\ batch # <<>> /\ found = <<>>
    /\ batch' = Tail(batch)
    /\ dead' = dead \cup {Head(batch).url}
    /\ UNCHANGED <<site, frontier, found, seen, pages>>

Full == Cardinality(seen) >= MaxPages * SeenFactor

Remember_NoCap(item) ==
    IF item.url \in seen THEN UNCHANGED <<seen, frontier>>
    ELSE seen' = seen \cup {item.url} /\ frontier' = Append(frontier, item)
Remember_First(item) ==
    IF item.url \in seen \/ Full THEN UNCHANGED <<seen, frontier>>
    ELSE seen' = seen \cup {item.url} /\ frontier' = <<item>> \o frontier
Remember(item) ==
    IF item.url \in seen \/ Full THEN UNCHANGED <<seen, frontier>>
    ELSE seen' = seen \cup {item.url} /\ frontier' = Append(frontier, item)

\* The next link of the page.
Follow ==
    /\ found # <<>>
    /\ found' = Tail(found)
    /\ Remember(Head(found))
    /\ UNCHANGED <<site, batch, pages, dead>>

Next == Ask \/ (\E kept \in BOOLEAN : Arrive(kept)) \/ Miss \/ Follow

Spec == Init /\ [][Next]_vars

Finished == batch = <<>> /\ found = <<>> /\ ~More

-----------------------------------------------------------------------------
(* Properties *)

\* Every variable has its type; no page is fetched twice, none from deeper than
\* max_depth, and the addresses remembered are bounded.
TypeOK ==
    /\ site \in Sites
    /\ frontier \in Seq(Item) /\ batch \in Seq(Item) /\ found \in Seq(Item)
    /\ Len(batch) <= Concurrency
    /\ seen \subseteq Urls /\ Cardinality(seen) <= MaxPages * SeenFactor
    /\ pages \in Seq(Urls) /\ IsInjective(pages) /\ Range(pages) \subseteq seen
    /\ dead \subseteq seen \ Range(pages)

Targets(u) == Range(site[u])

\* The pages at most n links from the start, through pages that answer.
Near[n \in 0..MaxDepth] ==
    IF n = 0 THEN {Home}
    ELSE Near[n - 1] \cup UNION {Targets(u) : u \in Near[n - 1] \ dead}
Within == Near[MaxDepth]

\* A site with no more than max_pages pages in reach is fetched completely: every
\* page at most max_depth links away, by whichever path is shortest, and a page
\* that fails hides no page that another one links to in time.
CoversSmallSites ==
    Finished /\ Cardinality(Within) <= MaxPages => seen = Within /\ frontier = <<>>
=============================================================================

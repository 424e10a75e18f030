------------------------------ MODULE Operator ------------------------------
(***************************************************************************)
(* What an operator sets going: edits of the configuration and the caches  *)
(* that serve it (ConfigCache), crawls and what they leave in the index    *)
(* (Crawler, Ingest), purges (Purge) and the release gate (EvalGate).      *)
(* These five share no state, so a behaviour is one of one of them, chosen *)
(* at the start: interleaving them would show nothing more.                *)
(***************************************************************************)
EXTENDS ConfigCache

CONSTANTS
    Crawls, Urls, LocationOf, MaxRev,                               \* of Ingest
    Pages, Home, Sites, MaxPages, MaxDepth, Concurrency, SeenFactor, \* of Crawler
    Purges, Oldest, BatchSize, MaxBatches,                          \* of Purge
    MaxCases, Attempts, Percent, MaxErrors                          \* of EvalGate

VARIABLES
    part,                                                    \* the part looked at
    shown, doc, chunks, ingesting, fetched, todo, page, target, held, dropped, writer, met,
    links, frontier, batch, found, seen, pages, dead,
    convs, purging, cutoff, preview, picked, deleted, batches, beside, taken,
    gating, cases, done, attempt, scored, sum, verdict, answered, zeros, partial

ingestVars == <<shown, doc, chunks, ingesting, fetched, todo, page, target, held, dropped, writer, met>>
crawlVars == <<links, frontier, batch, found, seen, pages, dead>>
purgeVars == <<convs, purging, cutoff, preview, picked, deleted, batches, beside, taken>>
evalVars == <<gating, cases, done, attempt, scored, sum, verdict, answered, zeros, partial>>

Ing == INSTANCE Ingest WITH site <- shown, pc <- ingesting, pages <- fetched
Crl == INSTANCE Crawler WITH Urls <- Pages, site <- links
Prg == INSTANCE Purge WITH pc <- purging
Evl == INSTANCE EvalGate WITH pc <- gating

ASSUME InstancesAssumption ==
    /\ Ing!IngestAssumption /\ Crl!CrawlerAssumption
    /\ Prg!PurgeAssumption /\ Evl!GateAssumption

\* The variables of a part that is not looked at.
NoIngest ==
    /\ shown = None /\ doc = None /\ chunks = None /\ ingesting = None /\ fetched = None
    /\ todo = None /\ page = None /\ target = None /\ held = None /\ dropped = None
    /\ writer = None /\ met = None
NoCrawl ==
    /\ links = None /\ frontier = None /\ batch = None /\ found = None /\ seen = None
    /\ pages = None /\ dead = None
NoPurge ==
    /\ convs = None /\ purging = None /\ cutoff = None /\ preview = None /\ picked = None
    /\ deleted = None /\ batches = None /\ beside = None /\ taken = None
NoEval ==
    /\ gating = None /\ cases = None /\ done = None /\ attempt = None /\ scored = None
    /\ sum = None /\ verdict = None /\ answered = None /\ zeros = None /\ partial = None

AllInit ==
    /\ part \in {"config", "ingest", "crawl", "purge", "eval"}
    /\ Init
    /\ IF part = "ingest" THEN Ing!Init ELSE NoIngest
    /\ IF part = "crawl" THEN Crl!Init ELSE NoCrawl
    /\ IF part = "purge" THEN Prg!Init ELSE NoPurge
    /\ IF part = "eval" THEN Evl!Init ELSE NoEval

AllNext ==
    \/ /\ part = "config" /\ Next
       /\ UNCHANGED <<part, ingestVars, crawlVars, purgeVars, evalVars>>
    \/ /\ part = "ingest" /\ Ing!Next
       /\ UNCHANGED <<part, vars, crawlVars, purgeVars, evalVars>>
    \/ /\ part = "crawl" /\ Crl!Next
       /\ UNCHANGED <<part, vars, ingestVars, purgeVars, evalVars>>
    \/ /\ part = "purge" /\ Prg!Next
       /\ UNCHANGED <<part, vars, ingestVars, crawlVars, evalVars>>
    \/ /\ part = "eval" /\ Evl!Next
       /\ UNCHANGED <<part, vars, ingestVars, crawlVars, purgeVars>>

AllSpec == AllInit /\ [][AllNext]_<<part, vars, ingestVars, crawlVars, purgeVars, evalVars>>

\* Every variable of the five parts has its type.
AllTypes ==
    /\ TypeOK
    /\ part = "ingest" => Ing!TypeOK
    /\ part = "crawl" => Crl!TypeOK
    /\ part = "purge" => Prg!TypeOK
    /\ part = "eval" => Evl!TypeOK

\* What retrieval finds of a page is the text its hash stands for (Ingest).
IndexInStep == part = "ingest" => Ing!IndexInStep

\* A site with few enough pages is fetched completely (Crawler).
CoversSmallSites == part = "crawl" => Crl!CoversSmallSites

\* A purge that reports "complete" has left nothing past its cutoff (Purge).
CompleteIsTrue == part = "purge" => Prg!CompleteIsTrue

\* The release gate speaks about the answers and not about the judge (EvalGate).
GateHonest == part = "eval" => Evl!GateHonest
=============================================================================

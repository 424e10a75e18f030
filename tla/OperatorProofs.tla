--------------------------- MODULE OperatorProofs ---------------------------
(***************************************************************************)
(* Theorems about Operator: of the crawls that rewrite the index, of the   *)
(* purges, and of the release gate.  Each part has an inductive invariant  *)
(* of its own; a step of one part leaves the variables of the others alone *)
(* and so their invariants too.                                            *)
(***************************************************************************)
EXTENDS Operator, ConfigCacheProofs, FiniteSetTheorems, SequenceTheorems, WellFoundedInduction, TLAPS

\* Induction: a counterexample would have a smallest one.
LEMMA Minimum == ASSUME NEW S \in SUBSET Nat, S # {} PROVE \E m \in S : \A k \in S : m <= k
<1> DEFINE R == OpToRel(<, Nat)
<1>1. IsWellFoundedOn(R, Nat) BY NatLessThanWellFounded
<1> HIDE DEF R
<1>2. PICK m \in S : \A k \in S : <<k, m>> \notin R BY <1>1, WFMin
<1>3. \A k \in S : ~(k < m) BY <1>2 DEF R, OpToRel
<1> QED BY <1>3

-----------------------------------------------------------------------------
(* Ingest *)

Rewrites(c, u) == page[c] = u \/ u \in held[c]

\* The locals of a crawl: the page it is looking at, pages it has a text of, and
\* chunks of nothing else.
IngestLocals ==
    \A c \in Crawls :
        /\ page[c] = None <=> ingesting[c] \notin {"delete", "replace", "insert"}
        /\ page[c] # None => fetched[c][page[c]] \in Ing!Revs
        /\ \A u \in todo[c] \cup held[c] : fetched[c][u] \in Ing!Revs
        /\ ingesting[c] = "new" => held[c] = {}
        /\ \A x \in target[c] : ingesting[c] = "replace" /\ x.url = page[c]
        /\ \A x \in dropped[c] : x.url \in held[c]

\* Two crawls that are rewriting one page have met; chunks have a document.
CrawlsMet ==
    \A c, d \in Crawls : \A u \in Urls :
        c # d /\ Rewrites(c, u) /\ Rewrites(d, u) => <<c, u>> \in met
ChunksOwned == \A x \in chunks : doc[x.url] # None

\* What a crawl that met no other has seen of a page is all there is of it.
SeenWhole ==
    \A c \in Crawls, u \in Urls : <<c, u>> \notin met =>
        /\ u \in held[c] => \A x \in chunks : x.url = u => x \in dropped[c]
        /\ ingesting[c] = "replace" /\ page[c] = u => \A x \in chunks : x.url = u => x \in target[c]

IngestInv ==
    Ing!TypeOK /\ IngestLocals /\ CrawlsMet /\ ChunksOwned /\ SeenWhole /\ Ing!IndexInStep

LEMMA IngestInit == Ing!Init => IngestInv
BY InstancesAssumption DEF Ing!Init, Ing!IngestAssumption, IngestInv, Ing!TypeOK, Ing!Revs,
    IngestLocals, CrawlsMet, Rewrites, ChunksOwned, SeenWhole, Ing!IndexInStep

LEMMA IngestPublish == ASSUME IngestInv, NEW u \in Urls, Ing!Publish(u) PROVE IngestInv'
<1> USE DEF Ing!Publish, Ing!index, Ing!locals
<1>1. Ing!TypeOK' BY InstancesAssumption DEF IngestInv, Ing!TypeOK, Ing!Revs, Ing!IngestAssumption
<1>2. IngestLocals' BY DEF IngestInv, IngestLocals
<1>3. CrawlsMet' BY DEF IngestInv, CrawlsMet, Rewrites
<1>4. ChunksOwned' /\ SeenWhole' BY DEF IngestInv, ChunksOwned, SeenWhole
<1>5. Ing!IndexInStep' BY DEF IngestInv, Ing!IndexInStep
<1> QED BY <1>1, <1>2, <1>3, <1>4, <1>5 DEF IngestInv

LEMMA IngestFetch ==
    ASSUME IngestInv, NEW c \in Crawls, NEW got \in SUBSET Urls, Ing!Fetch(c, got)
    PROVE  IngestInv'
<1> USE DEF Ing!Fetch, Ing!index
<1>1. Ing!TypeOK' BY DEF IngestInv, Ing!TypeOK
<1>2. IngestLocals' BY DEF IngestInv, IngestLocals, Ing!TypeOK
<1>3. CrawlsMet' BY DEF IngestInv, CrawlsMet, Rewrites
<1>4. ChunksOwned' BY DEF IngestInv, ChunksOwned
<1>5. SeenWhole' BY DEF IngestInv, SeenWhole, Ing!TypeOK
<1>6. Ing!IndexInStep' BY DEF IngestInv, Ing!IndexInStep
<1> QED BY <1>1, <1>2, <1>3, <1>4, <1>5, <1>6 DEF IngestInv

LEMMA IngestLook ==
    ASSUME IngestInv, NEW c \in Crawls, NEW u \in Urls, Ing!Look(c, u) PROVE IngestInv'
<1>1. /\ ingesting[c] = "next" /\ u \in todo[c]
      /\ todo' = [todo EXCEPT ![c] = @ \ {u}]
      /\ UNCHANGED <<shown, doc, chunks, writer, fetched, target, held, dropped>>
    BY DEF Ing!Look, Ing!index
<1>2. CASE UNCHANGED <<ingesting, page, met>>
    <2>1. Ing!TypeOK' BY <1>1, <1>2 DEF IngestInv, Ing!TypeOK
    <2>2. IngestLocals' BY <1>1, <1>2 DEF IngestInv, IngestLocals, Ing!TypeOK
    <2>3. CrawlsMet' BY <1>1, <1>2 DEF IngestInv, CrawlsMet, Rewrites
    <2>4. ChunksOwned' /\ SeenWhole' /\ Ing!IndexInStep'
        BY <1>1, <1>2 DEF IngestInv, ChunksOwned, SeenWhole, Ing!IndexInStep
    <2> QED BY <2>1, <2>2, <2>3, <2>4 DEF IngestInv
<1>3. CASE /\ ingesting' = [ingesting EXCEPT ![c] = IF doc[u] = None THEN "insert" ELSE "delete"]
           /\ page' = [page EXCEPT ![c] = u]
           /\ met' = met \cup UNION {{<<c, u>>, <<d, u>>} : d \in Ing!Rewriting(u)}
    <2>1. met \subseteq met' /\ \A d \in Ing!Rewriting(u) : <<c, u>> \in met' /\ <<d, u>> \in met'
        BY <1>3
    <2>2. None \notin Urls BY InstancesAssumption DEF Ing!IngestAssumption
    <2>3. met' \subseteq Crawls \X Urls
        <3>1. met \subseteq Crawls \X Urls BY DEF IngestInv, Ing!TypeOK
        <3> QED BY <3>1, <1>3 DEF Ing!Rewriting
    <2>4. Ing!TypeOK' BY <1>1, <1>3, <2>3 DEF IngestInv, Ing!TypeOK
    <2>5. IngestLocals'
        <3> SUFFICES ASSUME NEW d \in Crawls PROVE IngestLocals!(d)'
            BY DEF IngestLocals
        <3>1. CASE d = c BY <3>1, <1>1, <1>3, <2>2 DEF IngestInv, IngestLocals, Ing!TypeOK
        <3>2. CASE d # c
            BY <3>2, <1>1, <1>3 DEF IngestInv, IngestLocals, Ing!TypeOK
        <3> QED BY <3>1, <3>2
    <2>6. CrawlsMet'
        <3>1. SUFFICES ASSUME NEW a \in Crawls, NEW d \in Crawls, NEW v \in Urls, a # d,
                              Rewrites(a, v)', Rewrites(d, v)'
                       PROVE  <<a, v>> \in met'
            BY DEF CrawlsMet
        <3>2. \A e \in Crawls : Rewrites(e, v)' => Rewrites(e, v) \/ (e = c /\ v = u)
            BY <1>1, <1>3 DEF Rewrites, IngestInv, Ing!TypeOK
        <3>3. CASE Rewrites(a, v) /\ Rewrites(d, v)
            BY <3>1, <3>3, <2>1 DEF IngestInv, CrawlsMet
        <3>4. CASE v = u /\ (a = c \/ d = c)
            BY <3>1, <3>2, <3>4, <2>1 DEF Ing!Rewriting, Rewrites
        <3> QED BY <3>1, <3>2, <3>3, <3>4
    <2>7. ChunksOwned' BY <1>1 DEF IngestInv, ChunksOwned
    <2>8. SeenWhole' BY <1>1, <1>3, <2>1 DEF IngestInv, SeenWhole, Ing!TypeOK
    <2>9. Ing!IndexInStep' BY <1>1, <2>1 DEF IngestInv, Ing!IndexInStep
    <2> QED BY <2>4, <2>5, <2>6, <2>7, <2>8, <2>9 DEF IngestInv
<1> QED BY <1>2, <1>3 DEF Ing!Look

LEMMA IngestStartDelete ==
    ASSUME IngestInv, NEW c \in Crawls, Ing!StartDelete(c) PROVE IngestInv'
<1> USE DEF Ing!StartDelete, Ing!index
<1>1. Ing!TypeOK' BY DEF IngestInv, Ing!TypeOK, Ing!ChunksOf
<1>2. IngestLocals' BY DEF IngestInv, IngestLocals, Ing!TypeOK, Ing!ChunksOf
<1>3. CrawlsMet' BY DEF IngestInv, CrawlsMet, Rewrites
<1>4. ChunksOwned' BY DEF IngestInv, ChunksOwned
<1>5. SeenWhole' BY DEF IngestInv, SeenWhole, Ing!TypeOK, Ing!ChunksOf
<1>6. Ing!IndexInStep' BY DEF IngestInv, Ing!IndexInStep
<1> QED BY <1>1, <1>2, <1>3, <1>4, <1>5, <1>6 DEF IngestInv

\* The DELETE or the INSERT of a page: of a crawl that met no other it has seen
\* every chunk there is.
LEMMA IngestRewrite ==
    ASSUME IngestInv, NEW c \in Crawls, Ing!Replace(c) \/ Ing!Insert(c) PROVE IngestInv'
<1> DEFINE gone == IF ingesting[c] = "replace" THEN target[c] \cap chunks ELSE {}
<1>1. /\ ingesting[c] \in {"replace", "insert"} /\ Ing!Unlocked(c) /\ Ing!Rewrite(c, gone)
      /\ ingesting[c] = "insert" => doc[page[c]] = None
      /\ UNCHANGED <<doc, chunks, writer>>
    BY DEF Ing!Replace, Ing!Insert, Ing!Rewrite, Ing!index
<1>2. None \notin Urls BY InstancesAssumption DEF Ing!IngestAssumption
<1>3. page[c] \in Urls
    BY <1>1, <1>2 DEF IngestInv, IngestLocals, Ing!TypeOK
<1>4. gone \subseteq chunks /\ \A x \in gone : x.url = page[c]
    BY DEF IngestInv, IngestLocals
<1> HIDE DEF gone
<1>5. /\ held' = [held EXCEPT ![c] = @ \cup {page[c]}]
      /\ dropped' = [dropped EXCEPT ![c] = @ \cup gone]
      /\ ingesting' = [ingesting EXCEPT ![c] = "next"]
      /\ page' = [page EXCEPT ![c] = None]
      /\ target' = [target EXCEPT ![c] = {}]
      /\ UNCHANGED <<shown, fetched, todo, met, doc, chunks, writer>>
    BY <1>1 DEF Ing!Rewrite, Ing!index
<1>6. Ing!TypeOK'
    BY <1>1, <1>3, <1>4, <1>5 DEF IngestInv, Ing!TypeOK, Ing!Unlocked
<1>7. IngestLocals'
    BY <1>3, <1>4, <1>5, <1>2 DEF IngestInv, IngestLocals, Ing!TypeOK
<1>8. CrawlsMet'
    <2>1. \A d \in Crawls, v \in Urls : Rewrites(d, v)' => Rewrites(d, v)
        BY <1>2, <1>5 DEF Rewrites, IngestInv, Ing!TypeOK
    <2> QED BY <2>1, <1>5 DEF IngestInv, CrawlsMet
<1>9. SeenWhole'
    <2>1. ASSUME <<c, page[c]>> \notin met PROVE \A x \in chunks : x.url = page[c] => x \in gone
        BY <1>1, <1>3, <2>1 DEF IngestInv, SeenWhole, ChunksOwned, gone
    <2> QED BY <2>1, <1>5 DEF IngestInv, SeenWhole, Ing!TypeOK
<1>10. ChunksOwned' /\ Ing!IndexInStep' BY <1>5 DEF IngestInv, ChunksOwned, Ing!IndexInStep
<1> QED BY <1>6, <1>7, <1>8, <1>9, <1>10 DEF IngestInv

LEMMA IngestClose ==
    ASSUME IngestInv, NEW c \in Crawls, NEW how \in {"done", "failed"}, Ing!Close(c, how)
    PROVE  IngestLocals' /\ CrawlsMet' /\ (UNCHANGED chunks => SeenWhole')
<1>1. None \notin Urls BY InstancesAssumption DEF Ing!IngestAssumption
<1>2. IngestLocals' BY <1>1 DEF Ing!Close, IngestInv, IngestLocals, Ing!TypeOK
<1>3. CrawlsMet' BY <1>1 DEF Ing!Close, IngestInv, CrawlsMet, Rewrites, Ing!TypeOK
<1>4. UNCHANGED chunks => SeenWhole' BY DEF Ing!Close, IngestInv, SeenWhole, Ing!TypeOK
<1> QED BY <1>2, <1>3, <1>4

LEMMA IngestFail == ASSUME IngestInv, NEW c \in Crawls, Ing!Fail(c) PROVE IngestInv'
<1>1. Ing!Close(c, "failed") /\ UNCHANGED <<doc, chunks, writer>> BY DEF Ing!Fail, Ing!index
<1>2. Ing!TypeOK' BY <1>1 DEF Ing!Close, IngestInv, Ing!TypeOK
<1>3. ChunksOwned' /\ Ing!IndexInStep'
    BY <1>1 DEF Ing!Close, IngestInv, ChunksOwned, Ing!IndexInStep
<1> QED BY <1>1, <1>2, <1>3, IngestClose DEF IngestInv

\* A crawl that commits leaves one chunk of each page it has rewritten, if it met
\* no other there.
LEMMA IngestCommit == ASSUME IngestInv, NEW c \in Crawls, Ing!Commit(c) PROVE IngestInv'
<1>1. /\ doc' = [u \in Urls |-> IF u \in held[c] THEN Ing!NewDoc(c, u) ELSE doc[u]]
      /\ chunks' = (chunks \ dropped[c]) \cup Ing!NewChunks(c)
      /\ writer' = [u \in Urls |-> IF u \in held[c] THEN c ELSE writer[u]]
      /\ UNCHANGED <<shown, fetched, met>> /\ Ing!Close(c, "done")
    BY DEF Ing!Commit, Ing!Close
<1>2. \A u \in held[c] :
        /\ Ing!NewDoc(c, u) \in Ing!Docs /\ Ing!NewDoc(c, u) # None
        /\ Ing!NewDoc(c, u).hash = fetched[c][u]
    <2> SUFFICES ASSUME NEW u \in held[c]
                 PROVE  /\ Ing!NewDoc(c, u) \in Ing!Docs /\ Ing!NewDoc(c, u) # None
                        /\ Ing!NewDoc(c, u).hash = fetched[c][u]
        OBVIOUS
    <2>1. fetched[c][u] \in Ing!Revs BY DEF IngestInv, IngestLocals
    <2>2. doc[u] \in Ing!Docs \cup {None} /\ LocationOf[c] \in Ing!Locations
        BY DEF IngestInv, Ing!TypeOK, Ing!Locations
    <2>3. Ing!NewDoc(c, u) \in Ing!Docs /\ Ing!NewDoc(c, u).hash = fetched[c][u]
        BY <2>1, <2>2 DEF Ing!NewDoc, Ing!Docs
    <2>4. None \notin Ing!Docs
        BY InstancesAssumption DEF Ing!IngestAssumption, Ing!Docs, Ing!Revs, Ing!Locations
    <2> QED BY <2>3, <2>4
<1>3. \A x \in Ing!NewChunks(c) :
        /\ x \in Ing!Chunks /\ x.url \in held[c] /\ x.rev = fetched[c][x.url]
    <2> SUFFICES ASSUME NEW u \in held[c]
                 PROVE  /\ [url |-> u, rev |-> fetched[c][u], loc |-> LocationOf[c], by |-> c]
                                \in Ing!Chunks
        BY DEF Ing!NewChunks
    <2>1. fetched[c][u] \in Ing!Revs /\ u \in Urls /\ LocationOf[c] \in Ing!Locations
        BY DEF IngestInv, IngestLocals, Ing!TypeOK, Ing!Locations
    <2> QED BY <2>1 DEF Ing!Chunks
<1>4. \A u \in held[c] :
        \E k \in Ing!NewChunks(c) : k.url = u /\ \A x \in Ing!NewChunks(c) : x.url = u => x = k
    <2> DEFINE Chunk(u) == [url |-> u, rev |-> fetched[c][u], loc |-> LocationOf[c], by |-> c]
    <2>1. Ing!NewChunks(c) = {Chunk(u) : u \in held[c]} BY DEF Ing!NewChunks
    <2>2. \A u \in held[c] : Chunk(u).url = u OBVIOUS
    <2> HIDE DEF Chunk
    <2>3. \A u \in held[c] : Chunk(u) \in Ing!NewChunks(c) BY <2>1
    <2>4. \A x \in Ing!NewChunks(c) : x = Chunk(x.url) BY <2>1, <2>2
    <2> QED BY <2>2, <2>3, <2>4
<1>5. held[c] \subseteq Urls BY DEF IngestInv, Ing!TypeOK
<1>6. Ing!TypeOK'
    <2>1. doc' \in [Urls -> Ing!Docs \cup {None}]
        BY <1>1, <1>2 DEF IngestInv, Ing!TypeOK
    <2>2. chunks' \subseteq Ing!Chunks BY <1>1, <1>3 DEF IngestInv, Ing!TypeOK
    <2>3. writer' \in [Urls -> Crawls \cup {None}] BY <1>1 DEF IngestInv, Ing!TypeOK
    <2> QED BY <1>1, <2>1, <2>2, <2>3 DEF Ing!Close, IngestInv, Ing!TypeOK
<1>7. ChunksOwned'
    <2> SUFFICES ASSUME NEW x \in chunks' PROVE doc'[x.url] # None
        BY DEF ChunksOwned
    <2>1. CASE x \in chunks
        <3>1. x.url \in Urls /\ doc[x.url] # None
            BY <2>1 DEF IngestInv, Ing!TypeOK, ChunksOwned, Ing!Chunks
        <3> QED BY <3>1, <1>1, <1>2
    <2>2. CASE x \in Ing!NewChunks(c) BY <2>2, <1>1, <1>2, <1>3, <1>5
    <2> QED BY <2>1, <2>2, <1>1
<1>8. SeenWhole'
    <2> SUFFICES ASSUME NEW d \in Crawls, NEW u \in Urls, <<d, u>> \notin met, d # c,
                        Rewrites(d, u), NEW x \in chunks', x.url = u
                 PROVE  x \in chunks
        BY <1>1 DEF SeenWhole, IngestInv, Ing!Close, Ing!TypeOK, Rewrites
    <2>1. x \notin Ing!NewChunks(c) BY <1>3 DEF IngestInv, CrawlsMet, Rewrites
    <2> QED BY <2>1, <1>1
<1>9. Ing!IndexInStep'
    <2> SUFFICES ASSUME NEW u \in Urls, doc'[u] # None, <<writer'[u], u>> \notin met
                 PROVE  \E k \in chunks' : {x \in chunks' : x.url = u} = {k} /\ k.rev = doc'[u].hash
        BY <1>1 DEF Ing!IndexInStep
    <2>1. CASE u \in held[c]
        <3>1. PICK k \in Ing!NewChunks(c) :
                k.url = u /\ \A x \in Ing!NewChunks(c) : x.url = u => x = k
            BY <1>4, <2>1
        <3>2. <<c, u>> \notin met BY <2>1, <1>1
        <3>3. \A x \in chunks : x.url = u => x \in dropped[c]
            BY <2>1, <3>2, <1>5 DEF IngestInv, SeenWhole
        <3>4. {x \in chunks' : x.url = u} = {k} /\ k \in chunks' BY <3>1, <3>3, <1>1
        <3>5. k.rev = doc'[u].hash BY <3>1, <1>1, <1>2, <1>3, <2>1, <1>5
        <3> QED BY <3>4, <3>5
    <2>2. CASE u \notin held[c]
        <3>1. doc'[u] = doc[u] /\ writer'[u] = writer[u] BY <2>2, <1>1
        <3>2. PICK k \in chunks : {x \in chunks : x.url = u} = {k} /\ k.rev = doc[u].hash
            BY <3>1 DEF IngestInv, Ing!IndexInStep
        <3>3. \A x \in chunks : x.url = u => x \notin dropped[c]
            BY <2>2 DEF IngestInv, IngestLocals
        <3>4. {x \in chunks' : x.url = u} = {x \in chunks : x.url = u}
            BY <3>3, <1>1, <1>3, <2>2
        <3> QED BY <3>1, <3>2, <3>4
    <2> QED BY <2>1, <2>2
<1> QED BY <1>1, <1>6, <1>7, <1>8, <1>9, IngestClose DEF IngestInv

LEMMA IngestNext == IngestInv /\ Ing!Next => IngestInv'
<1> SUFFICES ASSUME IngestInv, Ing!Next PROVE IngestInv'
    OBVIOUS
<1>1. ASSUME NEW u \in Urls, Ing!Publish(u) PROVE IngestInv' BY <1>1, IngestPublish
<1>2. ASSUME NEW c \in Crawls, Ing!Step(c) PROVE IngestInv'
    <2>1. ASSUME NEW got \in SUBSET Urls, Ing!Fetch(c, got) PROVE IngestInv' BY <2>1, IngestFetch
    <2>2. ASSUME NEW u \in Urls, Ing!Look(c, u) PROVE IngestInv' BY <2>2, IngestLook
    <2>3. CASE Ing!StartDelete(c) BY <2>3, IngestStartDelete
    <2>4. CASE Ing!Replace(c) \/ Ing!Insert(c) BY <2>4, IngestRewrite
    <2>5. CASE Ing!Commit(c) BY <2>5, IngestCommit
    <2>6. CASE Ing!Fail(c) BY <2>6, IngestFail
    <2> QED BY <1>2, <2>1, <2>2, <2>3, <2>4, <2>5, <2>6 DEF Ing!Step
<1> QED BY <1>1, <1>2 DEF Ing!Next

-----------------------------------------------------------------------------
(* EvalGate *)

\* Every score the gate counts is one of the judge's, or stands for a dimension
\* that an answer lacked.
ScoresCounted == \A d \in Evl!Dimensions :
    /\ sum[d] + zeros[d] <= answered
    /\ partial = 0 => sum[d] + zeros[d] = answered

EvalInv ==
    /\ Evl!TypeOK
    /\ gating \in {"run", "judge"} => done < cases
    /\ gating # "end" => verdict = "none"
    /\ scored = answered
    /\ ScoresCounted
    /\ Evl!GateHonest

LEMMA EvalInit == Evl!Init => EvalInv
BY InstancesAssumption
    DEF Evl!Init, Evl!GateAssumption, EvalInv, Evl!TypeOK, ScoresCounted, Evl!GateHonest

LEMMA EvalFails == EvalInv /\ (Evl!RunCase \/ Evl!CaseFails \/ Evl!JudgeFails) => EvalInv'
<1> SUFFICES ASSUME EvalInv, Evl!RunCase \/ Evl!CaseFails \/ Evl!JudgeFails PROVE EvalInv'
    OBVIOUS
<1> USE InstancesAssumption
    DEF Evl!GateAssumption, EvalInv, Evl!TypeOK, ScoresCounted, Evl!GateHonest, Evl!ghosts
<1>1. CASE Evl!RunCase BY <1>1 DEF Evl!RunCase
<1>2. CASE Evl!CaseFails BY <1>2 DEF Evl!CaseFails, Evl!NextCase
<1>3. CASE Evl!JudgeFails BY <1>3 DEF Evl!JudgeFails, Evl!NextCase, Evl!AfterFailure
<1> QED BY <1>1, <1>2, <1>3

LEMMA EvalJudged ==
    ASSUME EvalInv, NEW given \in SUBSET Evl!Dimensions, NEW ones \in SUBSET Evl!Dimensions,
           Evl!Judged(given, ones)
    PROVE  EvalInv'
<1>1. /\ gating = "judge" /\ done < cases /\ done' = done + 1 /\ attempt' = 0
      /\ gating' \in {"run", "grade"} /\ (gating' = "run" => done' < cases)
      /\ scored' = scored + 1 /\ answered' = answered + 1
      /\ UNCHANGED <<cases, verdict>> /\ verdict = "none"
    BY DEF EvalInv, Evl!TypeOK, Evl!Judged, Evl!NextCase
<1>2. /\ sum \in [Evl!Dimensions -> 0..answered] /\ zeros \in [Evl!Dimensions -> 0..answered]
      /\ partial \in 0..answered /\ answered \in 0..done /\ scored = answered
      /\ done \in Nat /\ cases \in 1..MaxCases
    BY DEF EvalInv, Evl!TypeOK
<1>3. partial' = partial + (IF given # Evl!Dimensions THEN 1 ELSE 0) BY DEF Evl!Judged
<1>4. \A d \in Evl!Dimensions :
        /\ sum'[d] = sum[d] + (IF d \in ones THEN 1 ELSE 0)
        /\ zeros'[d] = zeros[d] + (IF d \in given \ ones THEN 1 ELSE 0)
    BY DEF Evl!Judged
<1>5. Evl!TypeOK'
    <2>1. sum' \in [Evl!Dimensions -> 0..scored'] /\ zeros' \in [Evl!Dimensions -> 0..answered']
        BY <1>1, <1>2 DEF Evl!Judged
    <2> QED BY <1>1, <1>2, <1>3, <2>1, InstancesAssumption DEF Evl!TypeOK, Evl!GateAssumption
<1>6. ScoresCounted'
    <2> SUFFICES ASSUME NEW d \in Evl!Dimensions
                 PROVE  /\ sum'[d] + zeros'[d] <= answered'
                        /\ partial' = 0 => sum'[d] + zeros'[d] = answered'
        BY DEF ScoresCounted
    <2>1. sum[d] \in Nat /\ zeros[d] \in Nat BY <1>2
    <2>2. sum[d] + zeros[d] <= answered /\ (partial = 0 => sum[d] + zeros[d] = answered)
        BY DEF EvalInv, ScoresCounted
    <2>3. ones \subseteq given BY DEF Evl!Judged
    <2> QED BY <1>1, <1>2, <1>3, <1>4, <2>1, <2>2, <2>3
<1>7. Evl!GateHonest' BY <1>1 DEF Evl!GateHonest
<1> QED BY <1>1, <1>2, <1>5, <1>6, <1>7 DEF EvalInv

\* A score below its gate is too few ones among the answers.
LEMMA Complement ==
    ASSUME NEW p \in 0..100, NEW n \in Nat, NEW ones \in Nat, NEW nils \in Nat
    PROVE  /\ ones + nils <= n /\ ~(ones * 100 < p * n) => nils * 100 <= (100 - p) * n
           /\ ones + nils = n /\ ones * 100 < p * n => ~(nils * 100 <= (100 - p) * n)
<1>1. (100 - p) * n = 100 * n - p * n OBVIOUS
<1>2. p * n \in Int OBVIOUS
<1> QED BY <1>1, <1>2

LEMMA EvalGrade == EvalInv /\ Evl!Grade => EvalInv'
<1> SUFFICES ASSUME EvalInv, Evl!Grade PROVE EvalInv'
    OBVIOUS
<1>1. /\ gating' = "end"
      /\ UNCHANGED <<cases, done, attempt, scored, sum, answered, zeros, partial>>
    BY DEF Evl!Grade, Evl!ghosts
<1>2. Evl!TypeOK' BY <1>1 DEF Evl!Grade, EvalInv, Evl!TypeOK
<1>3. ScoresCounted' BY <1>1 DEF EvalInv, ScoresCounted
<1>4. \A d \in Evl!Dimensions :
        /\ ~Evl!Below(d) => Evl!Enough(d)
        /\ partial = 0 /\ Evl!Below(d) => ~Evl!Enough(d)
    <2> SUFFICES ASSUME NEW d \in Evl!Dimensions
                 PROVE  /\ ~Evl!Below(d) => Evl!Enough(d)
                        /\ partial = 0 /\ Evl!Below(d) => ~Evl!Enough(d)
        OBVIOUS
    <2>1. Percent[d] \in 0..100 /\ answered \in Nat /\ sum[d] \in Nat /\ zeros[d] \in Nat
        BY InstancesAssumption DEF EvalInv, Evl!TypeOK, Evl!GateAssumption
    <2>2. /\ sum[d] + zeros[d] <= answered /\ (partial = 0 => sum[d] + zeros[d] = answered)
          /\ scored = answered
        BY DEF EvalInv, ScoresCounted
    <2>3. PICK p \in 0..100, n \in Nat, ones \in Nat, nils \in Nat :
            p = Percent[d] /\ n = answered /\ ones = sum[d] /\ nils = zeros[d]
        BY <2>1
    <2>4. /\ ones + nils <= n /\ ~(ones * 100 < p * n) => nils * 100 <= (100 - p) * n
          /\ ones + nils = n /\ ones * 100 < p * n => ~(nils * 100 <= (100 - p) * n)
        BY Complement
    <2>5. Evl!Below(d) <=> ones * 100 < p * n BY <2>2, <2>3 DEF Evl!Below
    <2>6. Evl!Enough(d) <=> nils * 100 <= (100 - p) * n BY <2>3 DEF Evl!Enough
    <2>7. ones + nils <= n /\ (partial = 0 => ones + nils = n) BY <2>2, <2>3
    <2> QED BY <2>4, <2>5, <2>6, <2>7
<1>5. Evl!Unreliable <=> ~Evl!Trusted
    <2>1. scored = answered /\ cases \in Nat /\ answered \in Nat /\ MaxErrors \in Nat
        BY InstancesAssumption DEF EvalInv, Evl!TypeOK, Evl!GateAssumption
    <2>2. MaxErrors * cases \in Int /\ (cases - answered) * 100 \in Int BY <2>1
    <2> QED BY <2>1, <2>2 DEF Evl!Unreliable, Evl!Trusted
<1>6. \A d \in Evl!Dimensions : Evl!Enough(d)' <=> Evl!Enough(d)
    BY <1>1 DEF Evl!Enough
<1>7. Evl!Trusted' <=> Evl!Trusted BY <1>1 DEF Evl!Trusted
<1>8. scored = answered /\ answered \in Nat /\ partial \in Nat BY DEF EvalInv, Evl!TypeOK
<1>9. Evl!GateHonest'
    <2>1. verdict' = "exit" => answered = 0 BY <1>8 DEF Evl!Grade
    <2>2. verdict' = "pass" => answered > 0 /\ ~Evl!Unreliable /\ \A d \in Evl!Dimensions : ~Evl!Below(d)
        BY <1>8 DEF Evl!Grade
    <2>3. verdict' = "fail" => Evl!Unreliable \/ \E d \in Evl!Dimensions : Evl!Below(d)
        BY DEF Evl!Grade
    <2>4. partial > 0 \/ partial = 0 BY <1>8
    <2>5. verdict' = "fail" =>
            ~Evl!Trusted \/ partial > 0 \/ \E d \in Evl!Dimensions : ~Evl!Enough(d)
        BY <2>3, <2>4, <1>4, <1>5
    <2>6. verdict' = "pass" => answered > 0 /\ Evl!Trusted /\ \A d \in Evl!Dimensions : Evl!Enough(d)
        BY <2>2, <1>4, <1>5
    <2> QED BY <1>1, <1>6, <1>7, <2>1, <2>5, <2>6 DEF Evl!GateHonest
<1> QED BY <1>1, <1>2, <1>3, <1>8, <1>9 DEF EvalInv

LEMMA EvalNext == EvalInv /\ Evl!Next => EvalInv'
BY EvalFails, EvalJudged, EvalGrade DEF Evl!Next

-----------------------------------------------------------------------------
(* Purge *)

\* A module that is instantiated brings a Cardinality of its own.
LEMMA SameCardinality == \A S : Prg!Cardinality(S) = Cardinality(S)
BY DEF Prg!Cardinality, Cardinality, Prg!IsFiniteSet, IsFiniteSet

\* A batch that comes up short was all there is.
LEMMA ShortBatch ==
    ASSUME NEW E \in SUBSET Nat, IsFiniteSet(E), NEW n \in Nat
    PROVE  LET first == {i \in E : Cardinality({k \in E : k < i}) < n}
           IN  Cardinality(first) < n => first = E
<1> DEFINE first == {i \in E : Cardinality({k \in E : k < i}) < n}
<1>1. SUFFICES ASSUME Cardinality(first) < n, first # E PROVE FALSE
    OBVIOUS
<1>8. first \subseteq E /\ \A i \in E \ first : ~(Cardinality({k \in E : k < i}) < n) OBVIOUS
<1> HIDE DEF first
<1>2. PICK m \in E \ first : \A k \in E \ first : m <= k
    <2>1. E \ first \in SUBSET Nat /\ E \ first # {} BY <1>1, <1>8
    <2> QED BY <2>1, Minimum
<1> DEFINE below == {k \in E : k < m}
<1>3. below \subseteq first
    <2>1. \A k \in E \ first : m <= k BY <1>2
    <2>2. \A k \in below : k \in E /\ k \in Nat /\ m \in Nat /\ k < m OBVIOUS
    <2>3. \A k \in below : ~(m <= k) BY <2>2
    <2> QED BY <2>1, <2>2, <2>3
<1>4. IsFiniteSet(first) /\ IsFiniteSet(below)
    <2>1. below \in SUBSET E /\ first \in SUBSET E BY <1>8
    <2> QED BY <2>1, FS_Subset
<1>5. Cardinality(below) \in Nat /\ Cardinality(first) \in Nat BY <1>4, FS_CardinalityType
<1>6. Cardinality(below) <= Cardinality(first) BY <1>3, <1>4, FS_Subset
<1>7. ~(Cardinality(below) < n) BY <1>2, <1>8
<1> QED BY <1>1, <1>5, <1>6, <1>7

\* Purges that run at the same time have met; one that met no other holds what it
\* has picked, and has only ever deleted whole batches.
PurgesMet == \A p, q \in Purges : p # q /\ Prg!Running(p) /\ Prg!Running(q) => p \in beside
WholeBatches ==
    \A p \in Purges \ beside :
        /\ Prg!Running(p) => deleted[p] >= batches[p] * BatchSize
        /\ purging[p] = "delete" =>
            /\ picked[p] \subseteq convs
            /\ Prg!Cardinality(picked[p]) < BatchSize => Prg!Expired(p) \subseteq picked[p]

PurgeLocals ==
    \A p \in Purges :
        /\ Prg!Running(p) => batches[p] < MaxBatches
        /\ picked[p] # {} => purging[p] = "delete"
        /\ \A i \in picked[p] \cup taken[p] : i <= cutoff[p]
        /\ taken[p] \cap convs = {}
        /\ purging[p] = "new" => deleted[p] = 0 /\ batches[p] = 0
        /\ purging[p] \in {"new", "dry"} => taken[p] = {}

PurgeInv == Prg!TypeOK /\ PurgeLocals /\ PurgesMet /\ WholeBatches /\ Prg!CompleteIsTrue

LEMMA PurgeInit == Prg!Init => PurgeInv
<1> SUFFICES ASSUME Prg!Init PROVE PurgeInv
    OBVIOUS
<1> USE InstancesAssumption DEF Prg!Init, Prg!PurgeAssumption, Prg!Running
<1>1. Prg!TypeOK BY DEF Prg!TypeOK
<1>2. PurgeLocals /\ PurgesMet /\ WholeBatches BY DEF PurgeLocals, PurgesMet, WholeBatches
<1>3. Prg!CompleteIsTrue
    <2>1. Prg!Cardinality({}) = 0 BY FS_EmptySet, SameCardinality
    <2>2. \A q \in Purges : taken[q] = {} /\ deleted[q] = 0 /\ purging[q] = "new" OBVIOUS
    <2>3. Prg!Ids \ convs = {} OBVIOUS
    <2> HIDE DEF Prg!Init
    <2> QED BY <2>1, <2>2, <2>3 DEF Prg!CompleteIsTrue
<1> QED BY <1>1, <1>2, <1>3 DEF PurgeInv

LEMMA PurgeBegin ==
    ASSUME PurgeInv, NEW p \in Purges, NEW n \in 0..Oldest, NEW dry \in BOOLEAN,
           Prg!Begin(p, n, dry)
    PROVE  PurgeInv'
<1>1. /\ purging[p] = "new" /\ purging' = [purging EXCEPT ![p] = IF dry THEN "dry" ELSE "select"]
      /\ cutoff' = [cutoff EXCEPT ![p] = n]
      /\ UNCHANGED <<convs, picked, deleted, batches, taken>>
    BY DEF Prg!Begin
<1>2. beside \subseteq beside' /\ beside' \subseteq Purges
    BY DEF Prg!Begin, PurgeInv, Prg!TypeOK
<1>3. Prg!TypeOK'
    <2> DEFINE expiring == {i \in convs : i <= n}
    <2>1. Cardinality(expiring) \in 0..Oldest
        <3>1. IsFiniteSet(1..Oldest) /\ Cardinality(1..Oldest) = Oldest /\ Oldest \in Nat
            BY FS_Interval, InstancesAssumption DEF Prg!PurgeAssumption
        <3>2. expiring \subseteq 1..Oldest BY DEF PurgeInv, Prg!TypeOK, Prg!Ids
        <3>3. IsFiniteSet(expiring) /\ Cardinality(expiring) <= Oldest BY <3>1, <3>2, FS_Subset
        <3> QED BY <3>1, <3>3, FS_CardinalityType
    <2>3. preview' = [preview EXCEPT ![p] = Cardinality(expiring)] BY SameCardinality DEF Prg!Begin
    <2> HIDE DEF expiring
    <2>2. preview' \in [Purges -> 0..Oldest] BY <2>1, <2>3 DEF PurgeInv, Prg!TypeOK
    <2> QED BY <1>1, <1>2, <2>2 DEF PurgeInv, Prg!TypeOK
<1>4. PurgeLocals'
    <2>1. MaxBatches > 0 BY InstancesAssumption DEF Prg!PurgeAssumption
    <2> QED BY <1>1, <2>1 DEF PurgeInv, PurgeLocals, Prg!Running, Prg!TypeOK
<1>5. PurgesMet'
    <2>1. \A q \in Purges \ {p} : Prg!Running(q)' <=> Prg!Running(q)
        BY <1>1 DEF Prg!Running, PurgeInv, Prg!TypeOK
    <2>2. CASE dry BY <1>1, <1>2, <2>1, <2>2 DEF PurgeInv, PurgesMet, Prg!Running, Prg!TypeOK
    <2>3. CASE ~dry
        <3>1. ASSUME NEW q \in Purges \ {p}, Prg!Running(q) PROVE p \in beside' /\ q \in beside'
            BY <2>3, <3>1 DEF Prg!Begin
        <3> QED BY <1>2, <2>1, <3>1 DEF PurgeInv, PurgesMet
    <2> QED BY <2>2, <2>3
<1>6. WholeBatches'
    <2> SUFFICES ASSUME NEW q \in Purges, q \notin beside'
                 PROVE  /\ Prg!Running(q)' => deleted[q] >= batches[q] * BatchSize
                        /\ purging'[q] = "delete" =>
                            /\ picked[q] \subseteq convs
                            /\ Prg!Cardinality(picked[q]) < BatchSize => Prg!Expired(q)' \subseteq picked[q]
        BY <1>1 DEF WholeBatches
    <2>1. CASE q = p
        <3>1. deleted[q] = 0 /\ batches[q] = 0 /\ purging'[q] # "delete"
            BY <2>1, <1>1 DEF PurgeInv, PurgeLocals, Prg!TypeOK
        <3>2. BatchSize \in Nat BY InstancesAssumption DEF Prg!PurgeAssumption
        <3> QED BY <3>1, <3>2
    <2>2. CASE q # p
        <3>1. purging'[q] = purging[q] /\ cutoff'[q] = cutoff[q] /\ q \notin beside
            BY <2>2, <1>1, <1>2 DEF PurgeInv, Prg!TypeOK
        <3> QED BY <3>1, <1>1 DEF PurgeInv, WholeBatches, Prg!Running, Prg!Expired
    <2> QED BY <2>1, <2>2
<1>7. Prg!CompleteIsTrue'
    <2>1. \A q \in Purges : purging'[q] = "done" /\ Prg!Complete(q)' /\ q \notin beside' => Prg!Expired(q)' = {}
        <3> SUFFICES ASSUME NEW q \in Purges, purging'[q] = "done", Prg!Complete(q)', q \notin beside'
                     PROVE  Prg!Expired(q)' = {}
            OBVIOUS
        <3>1. q # p /\ purging[q] = "done" /\ cutoff'[q] = cutoff[q]
            BY <1>1 DEF PurgeInv, Prg!TypeOK
        <3> QED BY <3>1, <1>1, <1>2 DEF PurgeInv, Prg!CompleteIsTrue, Prg!Complete, Prg!Expired
    <2>2. \A i \in Prg!Ids \ convs :
            \E q \in Purges : i <= cutoff'[q] /\ purging'[q] # "dry" /\ i \in taken[q]
        <3> SUFFICES ASSUME NEW i \in Prg!Ids \ convs
                     PROVE  \E q \in Purges : i <= cutoff'[q] /\ purging'[q] # "dry" /\ i \in taken[q]
            OBVIOUS
        <3>1. PICK q \in Purges : i <= cutoff[q] /\ purging[q] # "dry" /\ i \in taken[q]
            BY DEF PurgeInv, Prg!CompleteIsTrue
        <3>2. q # p BY <3>1, <1>1 DEF PurgeInv, PurgeLocals
        <3> QED BY <3>1, <3>2, <1>1 DEF PurgeInv, Prg!TypeOK
    <2> QED BY <1>1, <2>1, <2>2 DEF PurgeInv, Prg!CompleteIsTrue, Prg!Ids
<1> QED BY <1>3, <1>4, <1>5, <1>6, <1>7 DEF PurgeInv

LEMMA PurgeSelect == ASSUME PurgeInv, NEW p \in Purges, Prg!Select(p) PROVE PurgeInv'
<1> DEFINE first == {i \in Prg!Expired(p) : Prg!Cardinality({k \in Prg!Expired(p) : k < i}) < BatchSize}
<1>0. picked' = [picked EXCEPT ![p] = first] BY DEF Prg!Select
<1>1. /\ purging[p] = "select" /\ purging' = [purging EXCEPT ![p] = "delete"]
      /\ UNCHANGED <<convs, cutoff, preview, deleted, batches, beside, taken>>
    BY DEF Prg!Select
<1>2. first \subseteq Prg!Expired(p) OBVIOUS
<1>3. Prg!Cardinality(first) < BatchSize => first = Prg!Expired(p)
    <2>1. IsFiniteSet(1..Oldest) BY FS_Interval, InstancesAssumption DEF Prg!PurgeAssumption
    <2>2. Prg!Expired(p) \subseteq 1..Oldest BY DEF Prg!Expired, PurgeInv, Prg!TypeOK, Prg!Ids
    <2>3. Prg!Expired(p) \in SUBSET Nat BY <2>2
    <2>5. IsFiniteSet(Prg!Expired(p)) BY <2>1, <2>2, FS_Subset
    <2>4. BatchSize \in Nat BY InstancesAssumption DEF Prg!PurgeAssumption
    <2>6. first = {i \in Prg!Expired(p) : Cardinality({k \in Prg!Expired(p) : k < i}) < BatchSize}
        BY SameCardinality
    <2> HIDE DEF first
    <2>7. Cardinality(first) < BatchSize => first = Prg!Expired(p)
        BY <2>3, <2>4, <2>5, <2>6, ShortBatch
    <2> QED BY <2>7, SameCardinality
<1> HIDE DEF first
<1>4. \A q \in Purges : Prg!Running(q)' <=> Prg!Running(q)
    BY <1>1 DEF Prg!Running, PurgeInv, Prg!TypeOK
<1>5. \A q \in Purges : Prg!Expired(q)' = Prg!Expired(q) BY <1>1 DEF Prg!Expired
<1>6. Prg!TypeOK'
    BY <1>0, <1>1, <1>2 DEF PurgeInv, Prg!TypeOK, Prg!Expired
<1>7. PurgeLocals'
    BY <1>0, <1>1, <1>2, <1>4 DEF PurgeInv, PurgeLocals, Prg!TypeOK, Prg!Expired
<1>8. PurgesMet' BY <1>1, <1>4 DEF PurgeInv, PurgesMet
<1>9. WholeBatches'
    BY <1>0, <1>1, <1>2, <1>3, <1>4, <1>5 DEF PurgeInv, WholeBatches, Prg!TypeOK, Prg!Expired
<1>10. Prg!CompleteIsTrue'
    BY <1>1, <1>5 DEF PurgeInv, Prg!CompleteIsTrue, Prg!Complete, Prg!Ids, Prg!TypeOK
<1> QED BY <1>6, <1>7, <1>8, <1>9, <1>10 DEF PurgeInv

LEMMA PurgeInterrupt == ASSUME PurgeInv, NEW p \in Purges, Prg!Interrupt(p) PROVE PurgeInv'
<1>1. /\ Prg!Running(p) /\ purging' = [purging EXCEPT ![p] = "stopped"]
      /\ picked' = [picked EXCEPT ![p] = {}]
      /\ UNCHANGED <<convs, cutoff, preview, deleted, batches, beside, taken>>
    BY DEF Prg!Interrupt
<1>2. \A q \in Purges : Prg!Running(q)' => Prg!Running(q)
    BY <1>1 DEF Prg!Running, PurgeInv, Prg!TypeOK
<1>3. \A q \in Purges : Prg!Expired(q)' = Prg!Expired(q) BY <1>1 DEF Prg!Expired
<1>4. Prg!TypeOK' BY <1>1 DEF PurgeInv, Prg!TypeOK
<1>5. PurgeLocals' BY <1>1, <1>2 DEF PurgeInv, PurgeLocals, Prg!TypeOK, Prg!Running
<1>6. PurgesMet' BY <1>1, <1>2 DEF PurgeInv, PurgesMet
<1>7. WholeBatches'
    BY <1>1, <1>2, <1>3 DEF PurgeInv, WholeBatches, Prg!TypeOK
<1>8. Prg!CompleteIsTrue'
    BY <1>1, <1>3 DEF PurgeInv, Prg!CompleteIsTrue, Prg!Complete, Prg!Ids, Prg!TypeOK
<1> QED BY <1>4, <1>5, <1>6, <1>7, <1>8 DEF PurgeInv

LEMMA PurgeDelete == ASSUME PurgeInv, NEW p \in Purges, Prg!Delete(p) PROVE PurgeInv'
<1> DEFINE gone == picked[p] \cap convs
           removed == Cardinality(gone)
           last == removed < BatchSize \/ batches[p] + 1 = MaxBatches
<1>1. /\ purging[p] = "delete" /\ convs' = convs \ picked[p]
      /\ UNCHANGED <<cutoff, preview, beside>>
      /\ picked' = [picked EXCEPT ![p] = {}] /\ batches' = [batches EXCEPT ![p] = @ + 1]
      /\ taken' = [taken EXCEPT ![p] = @ \cup gone]
    BY DEF Prg!Delete
<1>2. /\ deleted' = [deleted EXCEPT ![p] = @ + removed]
      /\ purging' = [purging EXCEPT ![p] = IF last THEN "done" ELSE "select"]
    BY SameCardinality DEF Prg!Delete, Prg!LastBatch
<1>3. /\ purging \in [Purges -> {"new", "dry", "select", "delete", "done", "stopped"}]
      /\ convs \subseteq Prg!Ids /\ picked[p] \subseteq Prg!Ids
      /\ taken \in [Purges -> SUBSET Prg!Ids] /\ batches \in [Purges -> 0..MaxBatches]
      /\ deleted \in [Purges -> 0..Oldest] /\ beside \subseteq Purges
    BY DEF PurgeInv, Prg!TypeOK
<1>4. /\ Oldest \in Nat /\ BatchSize \in Nat \ {0} /\ MaxBatches \in Nat \ {0}
    BY InstancesAssumption DEF Prg!PurgeAssumption
<1>5. IsFiniteSet(Prg!Ids) /\ Cardinality(Prg!Ids) = Oldest BY <1>4, FS_Interval DEF Prg!Ids
<1>6. removed \in Nat
    <2>1. IsFiniteSet(gone) BY <1>3, <1>5, FS_Subset
    <2> QED BY <2>1, FS_CardinalityType
<1>7. taken[p] \cap gone = {} BY DEF PurgeInv, PurgeLocals
<1>8. batches[p] + 1 <= MaxBatches BY <1>1, <1>3, <1>4 DEF PurgeInv, PurgeLocals, Prg!Running
\* What it reports is what it has removed.
<1>9. deleted'[p] = Cardinality(taken'[p]) /\ deleted'[p] \in 0..Oldest
    <2>1. deleted[p] = Cardinality(taken[p]) BY SameCardinality DEF PurgeInv, Prg!CompleteIsTrue
    <2>2. IsFiniteSet(taken[p]) /\ IsFiniteSet(gone) BY <1>3, <1>5, FS_Subset
    <2>3. Cardinality(taken[p] \cup gone) = deleted[p] + removed
        BY <1>7, <2>1, <2>2, <1>3, <1>6, FS_Union, FS_EmptySet
    <2>4. taken'[p] = taken[p] \cup gone /\ deleted'[p] = deleted[p] + removed
        BY <1>1, <1>2, <1>3
    <2>5. taken[p] \cup gone \in SUBSET Prg!Ids BY <1>3
    <2>6. Cardinality(taken[p] \cup gone) <= Oldest BY <2>5, <1>5, FS_Subset
    <2> QED BY <2>3, <2>4, <2>6, <1>3, <1>6
<1> HIDE DEF removed
<1>10. Prg!TypeOK'
    <2>1. deleted' \in [Purges -> 0..Oldest] BY <1>2, <1>3, <1>9
    <2>2. batches' \in [Purges -> 0..MaxBatches] BY <1>1, <1>3, <1>8, <1>4
    <2> QED BY <1>1, <1>2, <1>3, <2>1, <2>2 DEF PurgeInv, Prg!TypeOK
<1>11. \A q \in Purges \ {p} :
        /\ purging'[q] = purging[q] /\ picked'[q] = picked[q] /\ taken'[q] = taken[q]
        /\ deleted'[q] = deleted[q] /\ batches'[q] = batches[q]
    BY <1>1, <1>2, <1>3 DEF PurgeInv, Prg!TypeOK
<1>12. /\ purging'[p] = IF last THEN "done" ELSE "select"
       /\ picked'[p] = {} /\ taken'[p] = taken[p] \cup gone
       /\ batches'[p] = batches[p] + 1 /\ deleted'[p] = deleted[p] + removed
    BY <1>1, <1>2, <1>3 DEF PurgeInv, Prg!TypeOK
<1>13. PurgeLocals'
    <2> SUFFICES ASSUME NEW q \in Purges
                 PROVE  /\ Prg!Running(q)' => batches'[q] < MaxBatches
                        /\ picked'[q] # {} => purging'[q] = "delete"
                        /\ \A i \in picked'[q] \cup taken'[q] : i <= cutoff'[q]
                        /\ taken'[q] \cap convs' = {}
                        /\ purging'[q] = "new" => deleted'[q] = 0 /\ batches'[q] = 0
                        /\ purging'[q] \in {"new", "dry"} => taken'[q] = {}
        BY DEF PurgeLocals
    <2>1. CASE q = p
        <3>1. Prg!Running(q)' => batches'[q] < MaxBatches
            BY <2>1, <1>12, <1>8, <1>3, <1>4 DEF Prg!Running
        <3>2. \A i \in taken[p] \cup picked[p] : i <= cutoff[p] BY DEF PurgeInv, PurgeLocals
        <3>3. taken[p] \cap convs = {} BY DEF PurgeInv, PurgeLocals
        <3> QED BY <2>1, <3>1, <3>2, <3>3, <1>1, <1>12
    <2>2. CASE q # p
        BY <2>2, <1>1, <1>11 DEF PurgeInv, PurgeLocals, Prg!Running
    <2> QED BY <2>1, <2>2
<1>14. PurgesMet'
    <2>1. \A q \in Purges : Prg!Running(q)' => Prg!Running(q)
        BY <1>1, <1>11 DEF Prg!Running
    <2> QED BY <2>1, <1>1 DEF PurgeInv, PurgesMet
\* Alone, it removes all it picked.
<1>15. ASSUME p \notin beside
       PROVE  /\ deleted[p] >= batches[p] * BatchSize
              /\ removed < BatchSize => Prg!Expired(p)' = {}
    <2>1. Prg!Running(p) BY <1>1 DEF Prg!Running
    <2>2. /\ deleted[p] >= batches[p] * BatchSize /\ picked[p] \subseteq convs
          /\ Cardinality(picked[p]) < BatchSize => Prg!Expired(p) \subseteq picked[p]
        BY <1>15, <2>1, <1>1, SameCardinality DEF PurgeInv, WholeBatches
    <2>3. gone = picked[p] BY <2>2
    <2>4. Prg!Expired(p)' = Prg!Expired(p) \ picked[p] BY <1>1 DEF Prg!Expired
    <2> QED BY <2>2, <2>3, <2>4 DEF removed
<1>16. WholeBatches'
    <2> SUFFICES ASSUME NEW q \in Purges, q \notin beside
                 PROVE  /\ Prg!Running(q)' => deleted'[q] >= batches'[q] * BatchSize
                        /\ purging'[q] = "delete" =>
                            /\ picked'[q] \subseteq convs'
                            /\ Prg!Cardinality(picked'[q]) < BatchSize => Prg!Expired(q)' \subseteq picked'[q]
        BY <1>1 DEF WholeBatches
    <2>1. CASE q = p
        <3>1. Prg!Running(q)' => removed >= BatchSize
            BY <2>1, <1>12, <1>4, <1>6 DEF Prg!Running
        <3>2. deleted[p] >= batches[p] * BatchSize BY <2>1, <1>15
        <3>3. (batches[p] + 1) * BatchSize = batches[p] * BatchSize + BatchSize
            BY <1>3, <1>4
        <3>4. batches[p] * BatchSize \in Int BY <1>3, <1>4
        <3>5. Prg!Running(q)' => deleted'[q] >= batches'[q] * BatchSize
            BY <3>1, <3>2, <3>3, <3>4, <2>1, <1>12, <1>3, <1>4, <1>6
        <3> QED BY <3>5, <2>1, <1>12
    <2>2. CASE q # p
        <3>1. Prg!Running(p) BY <1>1 DEF Prg!Running
        <3>2. ~Prg!Running(q) BY <2>2, <3>1 DEF PurgeInv, PurgesMet
        <3> QED BY <2>2, <3>2, <1>11 DEF Prg!Running
    <2> QED BY <2>1, <2>2
<1>17. Prg!CompleteIsTrue'
    <2>1. ASSUME NEW q \in Purges, purging'[q] = "done", Prg!Complete(q)', q \notin beside
          PROVE  Prg!Expired(q)' = {}
        <3>1. CASE q # p
            <4>1. purging[q] = "done" /\ Prg!Complete(q) BY <2>1, <3>1, <1>11 DEF Prg!Complete
            <4>2. Prg!Expired(q) = {} BY <4>1, <2>1 DEF PurgeInv, Prg!CompleteIsTrue
            <4> QED BY <4>2, <1>1 DEF Prg!Expired
        <3>2. CASE q = p /\ removed < BatchSize BY <3>2, <2>1, <1>15
        <3>3. CASE q = p /\ ~(removed < BatchSize)
            <4>1. batches[p] + 1 = MaxBatches BY <3>3, <2>1, <1>12
            <4>2. MaxBatches * BatchSize = batches[p] * BatchSize + BatchSize BY <4>1, <1>3, <1>4
            <4>3. batches[p] * BatchSize \in Int BY <1>3, <1>4
            <4>4. deleted'[p] >= MaxBatches * BatchSize
                BY <4>2, <4>3, <3>3, <2>1, <1>15, <1>12, <1>3, <1>4, <1>6
            <4> QED BY <4>4, <3>3, <2>1, <1>4, <1>9 DEF Prg!Complete
        <3> QED BY <3>1, <3>2, <3>3
    <2>2. ASSUME NEW i \in Prg!Ids \ convs'
          PROVE  \E q \in Purges : i <= cutoff[q] /\ purging'[q] # "dry" /\ i \in taken'[q]
        <3>1. CASE i \in picked[p] /\ i \in convs
            <4>1. i <= cutoff[p] BY <3>1 DEF PurgeInv, PurgeLocals
            <4> QED BY <3>1, <4>1, <1>12
        <3>2. CASE i \notin convs
            <4>1. PICK q \in Purges : i <= cutoff[q] /\ purging[q] # "dry" /\ i \in taken[q]
                BY <3>2, <2>2 DEF PurgeInv, Prg!CompleteIsTrue
            <4> QED BY <4>1, <1>11, <1>12
        <3> QED BY <3>1, <3>2, <2>2, <1>1
    <2>3. ASSUME NEW q \in Purges, NEW s \in Purges, q # s PROVE taken'[q] \cap taken'[s] = {}
        <3>1. taken[q] \cap taken[s] = {} BY <2>3 DEF PurgeInv, Prg!CompleteIsTrue
        <3>2. \A t \in Purges : taken[t] \cap gone = {} BY DEF PurgeInv, PurgeLocals
        <3> QED BY <2>3, <3>1, <3>2, <1>11, <1>12
    <2>4. ASSUME NEW q \in Purges PROVE deleted'[q] = Prg!Cardinality(taken'[q])
        <3>1. CASE q = p BY <3>1, <1>9, SameCardinality
        <3>2. CASE q # p BY <3>2, <1>11 DEF PurgeInv, Prg!CompleteIsTrue
        <3> QED BY <3>1, <3>2
    <2> QED BY <2>1, <2>2, <2>3, <2>4, <1>1 DEF Prg!CompleteIsTrue, Prg!Ids
<1> QED BY <1>10, <1>13, <1>14, <1>16, <1>17 DEF PurgeInv

LEMMA PurgeNext == PurgeInv /\ Prg!Next => PurgeInv'
BY PurgeBegin, PurgeSelect, PurgeDelete, PurgeInterrupt DEF Prg!Next

-----------------------------------------------------------------------------
(* Crawler *)

\* What is still to be fetched, in the order in which it will be.
Queue == batch \o frontier
Waiting == {Queue[i].url : i \in 1..Len(Queue)}
Arrived == (seen \ dead) \ Waiting

Distinct ==
    /\ Queue \in Seq(Crl!Item)
    /\ Waiting \subseteq seen \ (dead \cup Crl!Range(pages))
    /\ \A i, j \in 1..Len(Queue) : i < j => Queue[i].url # Queue[j].url

\* A page has the level it was put on the frontier with: one more than some page
\* that arrived and links to it; levels never decrease along the queue and differ
\* by one at most; the links of a page that arrived are known at its level plus
\* one or less, but for those still to be looked at.
Linked(level) ==
    \A u \in seen \ {Home} : \E p \in Arrived : u \in Crl!Targets(p) /\ level[u] = level[p] + 1
InOrder(level) ==
    \A i \in 1..Len(Queue) :
        /\ level[Queue[i].url] = Queue[i].depth
        /\ \A j \in 1..Len(Queue) : i < j => Queue[i].depth <= Queue[j].depth
        /\ \A u \in seen : level[u] <= Queue[i].depth + 1
OnePage(level) ==
    \A k \in 1..Len(found) :
        /\ \E p \in Arrived : found[k].url \in Crl!Targets(p) /\ found[k].depth = level[p] + 1
        /\ \A u \in seen : level[u] <= found[k].depth
        /\ \A i \in 1..Len(Queue) : found[k].depth <= Queue[i].depth + 1
        /\ \A j \in 1..Len(found) : found[j].depth = found[k].depth
Explored(level) ==
    \A p \in Arrived : level[p] < MaxDepth => \A u \in Crl!Targets(p) :
        \/ Crl!Full
        \/ u \in seen /\ level[u] <= level[p] + 1
        \/ \E k \in 1..Len(found) : found[k] = [url |-> u, depth |-> level[p] + 1]
Levelled(level) ==
    level[Home] = 0 /\ Linked(level) /\ InOrder(level) /\ OnePage(level) /\ Explored(level)

Levels == [Pages -> 0..MaxDepth]

CrawlInv ==
    /\ Crl!TypeOK
    /\ Home \in seen /\ IsFiniteSet(seen)
    /\ Distinct
    /\ \E level \in Levels : Levelled(level)

LEMMA SameSize == \A S : Crl!Cardinality(S) = Cardinality(S)
BY DEF Crl!Cardinality, Cardinality, Crl!IsFiniteSet, IsFiniteSet

\* The queue after each of the four steps.
LEMMA QueueType == Crl!TypeOK => Queue \in Seq(Crl!Item) /\ Len(Queue) = Len(batch) + Len(frontier)
BY ConcatProperties DEF Crl!TypeOK, Queue

LEMMA AskedQueue == ASSUME Crl!TypeOK, Crl!Ask PROVE Queue' = Queue
<1> DEFINE n == Crl!Least(Concurrency, Len(frontier))
<1>1. frontier \in Seq(Crl!Item) /\ batch = <<>> /\ frontier # <<>>
    BY DEF Crl!TypeOK, Crl!Ask, Crl!More
<1>2. n \in 1..Len(frontier)
    BY <1>1, LenProperties, EmptySeq, InstancesAssumption DEF Crl!Least, Crl!CrawlerAssumption
<1>3. batch' = SubSeq(frontier, 1, n) /\ frontier' = SubSeq(frontier, n + 1, Len(frontier))
    BY DEF Crl!Ask
<1> HIDE DEF n
<1>4. batch' \o frontier' = SubSeq(frontier, 1, Len(frontier))
    BY <1>1, <1>2, <1>3, ConcatAdjacentSubSeq
<1>5. batch' \o frontier' = frontier BY <1>1, <1>4, SubSeqFull
<1>6. batch \o frontier = frontier BY <1>1, ConcatEmptySeq
<1> QED BY <1>5, <1>6 DEF Queue

LEMMA HandledQueue ==
    ASSUME Crl!TypeOK, batch # <<>>, batch' = Tail(batch), UNCHANGED frontier
    PROVE  /\ Len(Queue) \in Nat \ {0} /\ Head(batch) = Queue[1]
           /\ Queue' \in Seq(Crl!Item) /\ Len(Queue') = Len(Queue) - 1
           /\ \A i \in 1..Len(Queue') : Queue'[i] = Queue[i + 1]
           /\ Len(batch') < Len(batch) /\ batch' \in Seq(Crl!Item)
<1>1. batch \in Seq(Crl!Item) /\ frontier \in Seq(Crl!Item) BY DEF Crl!TypeOK
<1>2. Len(batch) \in Nat \ {0} /\ Len(frontier) \in Nat BY <1>1, EmptySeq, LenProperties
<1>3. /\ batch' \in Seq(Crl!Item) /\ Len(batch') = Len(batch) - 1
      /\ \A i \in 1..Len(batch') : batch'[i] = batch[i + 1]
    BY <1>1, HeadTailProperties
<1>4. Head(batch) = batch[1] BY <1>1
<1>5. /\ Len(Queue) = Len(batch) + Len(frontier)
      /\ \A i \in 1..(Len(batch) + Len(frontier)) :
            Queue[i] = IF i <= Len(batch) THEN batch[i] ELSE frontier[i - Len(batch)]
    BY <1>1, ConcatProperties DEF Queue
<1>6. /\ Queue' \in Seq(Crl!Item) /\ Len(Queue') = Len(batch') + Len(frontier)
      /\ \A i \in 1..(Len(batch') + Len(frontier)) :
            Queue'[i] = IF i <= Len(batch') THEN batch'[i] ELSE frontier[i - Len(batch')]
    BY <1>1, <1>3, ConcatProperties DEF Queue
<1>7. ASSUME NEW i \in 1..Len(Queue') PROVE Queue'[i] = Queue[i + 1]
    <2>1. CASE i <= Len(batch') BY <2>1, <1>2, <1>3, <1>5, <1>6
    <2>2. CASE ~(i <= Len(batch'))
        <3>1. Queue'[i] = frontier[i - Len(batch')] BY <2>2, <1>6
        <3>2. Queue[i + 1] = frontier[i + 1 - Len(batch)] BY <2>2, <1>2, <1>3, <1>5, <1>6
        <3>3. i - Len(batch') = i + 1 - Len(batch) BY <1>2, <1>3
        <3> QED BY <3>1, <3>2, <3>3
    <2> QED BY <2>1, <2>2
<1> QED BY <1>2, <1>3, <1>4, <1>5, <1>6, <1>7

LEMMA RememberedQueue ==
    ASSUME Crl!TypeOK, NEW x \in Crl!Item, frontier' = Append(frontier, x), UNCHANGED batch
    PROVE  /\ Queue' \in Seq(Crl!Item) /\ Len(Queue') = Len(Queue) + 1
           /\ \A i \in 1..Len(Queue) : Queue'[i] = Queue[i]
           /\ Queue'[Len(Queue) + 1] = x /\ frontier' \in Seq(Crl!Item)
<1>1. batch \in Seq(Crl!Item) /\ frontier \in Seq(Crl!Item) BY DEF Crl!TypeOK
<1>2. Len(batch) \in Nat /\ Len(frontier) \in Nat BY <1>1, LenProperties
<1>3. /\ frontier' \in Seq(Crl!Item) /\ Len(frontier') = Len(frontier) + 1
      /\ \A i \in 1..Len(frontier) : frontier'[i] = frontier[i]
      /\ frontier'[Len(frontier) + 1] = x
    BY <1>1, AppendProperties
<1>4. /\ Len(Queue) = Len(batch) + Len(frontier)
      /\ \A i \in 1..(Len(batch) + Len(frontier)) :
            Queue[i] = IF i <= Len(batch) THEN batch[i] ELSE frontier[i - Len(batch)]
    BY <1>1, ConcatProperties DEF Queue
<1>5. /\ Queue' \in Seq(Crl!Item) /\ Len(Queue') = Len(batch) + Len(frontier')
      /\ \A i \in 1..(Len(batch) + Len(frontier')) :
            Queue'[i] = IF i <= Len(batch) THEN batch[i] ELSE frontier'[i - Len(batch)]
    BY <1>1, <1>3, ConcatProperties DEF Queue
<1>6. ASSUME NEW i \in 1..Len(Queue) PROVE Queue'[i] = Queue[i]
    <2>1. i \in 1..(Len(batch) + Len(frontier)) /\ i \in 1..(Len(batch) + Len(frontier'))
        BY <1>2, <1>3, <1>4
    <2>2. CASE i <= Len(batch) BY <2>1, <2>2, <1>4, <1>5
    <2>3. CASE ~(i <= Len(batch))
        <3>1. Queue[i] = frontier[i - Len(batch)] BY <2>1, <2>3, <1>4
        <3>2. Queue'[i] = frontier'[i - Len(batch)] BY <2>1, <2>3, <1>5
        <3>3. i - Len(batch) \in 1..Len(frontier) BY <2>1, <2>3, <1>2
        <3> QED BY <3>1, <3>2, <3>3, <1>3
    <2> QED BY <2>2, <2>3
<1>7. Queue'[Len(Queue) + 1] = x
    <2>1. PICK k \in 1..(Len(batch) + Len(frontier')) : k = Len(Queue) + 1 /\ ~(k <= Len(batch))
        BY <1>2, <1>3, <1>4
    <2>2. Queue'[k] = frontier'[k - Len(batch)] BY <2>1, <1>5
    <2>3. k - Len(batch) = Len(frontier) + 1 BY <2>1, <1>2, <1>4
    <2> QED BY <2>1, <2>2, <2>3, <1>3
<1> QED BY <1>2, <1>3, <1>4, <1>5, <1>6, <1>7

-----------------------------------------------------------------------------
LEMMA LinkType ==
    ASSUME Crl!TypeOK, NEW u \in Pages
    PROVE  links[u] \in Seq(Pages) /\ Crl!Targets(u) \subseteq Pages
<1>1. links \in [Pages -> Seq(Pages)]
    BY InstancesAssumption DEF Crl!TypeOK, Crl!CrawlerAssumption
<1>2. links[u] \in Seq(Pages) BY <1>1
<1>3. DOMAIN links[u] = 1..Len(links[u]) BY <1>2, LenProperties
<1> QED BY <1>2, <1>3, ElementOfSeq DEF Crl!Targets, Crl!Range

LEMMA CrawlInit == Crl!Init => CrawlInv
<1> SUFFICES ASSUME Crl!Init PROVE CrawlInv
    OBVIOUS
<1>1. /\ links \in Sites /\ batch = <<>> /\ found = <<>> /\ seen = {Home} /\ pages = <<>>
      /\ dead = {} /\ frontier = <<[url |-> Home, depth |-> 0]>>
    BY DEF Crl!Init
<1>2. /\ Home \in Pages /\ MaxPages \in Nat \ {0} /\ Concurrency \in Nat \ {0}
      /\ MaxDepth \in Nat /\ SeenFactor \in Nat \ {0}
    BY InstancesAssumption DEF Crl!CrawlerAssumption
<1>3. [url |-> Home, depth |-> 0] \in Crl!Item BY <1>2 DEF Crl!Item
<1>4. frontier \in Seq(Crl!Item) /\ Len(frontier) = 1 /\ frontier[1] = [url |-> Home, depth |-> 0]
    BY <1>1, <1>3
<1>5. IsFiniteSet(seen) /\ Cardinality(seen) = 1 BY <1>1, FS_Singleton
<1>6. Crl!Range(pages) = {} /\ Crl!IsInjective(pages) /\ pages \in Seq(Pages) BY <1>1 DEF Crl!Range, Crl!IsInjective
<1>7. Crl!TypeOK
    <2>1. MaxPages * SeenFactor >= 1 BY <1>2
    <2>2. Crl!Cardinality(seen) <= MaxPages * SeenFactor BY <1>5, <2>1, SameSize
    <2>3. batch \in Seq(Crl!Item) /\ found \in Seq(Crl!Item) /\ Len(batch) <= Concurrency
        BY <1>1, <1>2
    <2> QED BY <1>1, <1>2, <1>4, <1>6, <2>2, <2>3 DEF Crl!TypeOK
<1>8. Queue = frontier BY <1>1, <1>4, ConcatEmptySeq DEF Queue
<1>9. Waiting = {Home} /\ Arrived = {} BY <1>1, <1>4, <1>8 DEF Waiting, Arrived
<1>10. Distinct BY <1>1, <1>4, <1>6, <1>8, <1>9 DEF Distinct
<1>11. Levelled([u \in Pages |-> 0])
    <2>1. Linked([u \in Pages |-> 0]) BY <1>1 DEF Linked
    <2>2. InOrder([u \in Pages |-> 0]) BY <1>1, <1>2, <1>4, <1>8 DEF InOrder
    <2>3. OnePage([u \in Pages |-> 0]) BY <1>1 DEF OnePage
    <2>4. Explored([u \in Pages |-> 0]) BY <1>9 DEF Explored
    <2> QED BY <1>2, <2>1, <2>2, <2>3, <2>4 DEF Levelled
<1>12. [u \in Pages |-> 0] \in Levels BY <1>2 DEF Levels
<1> QED BY <1>1, <1>5, <1>7, <1>10, <1>11, <1>12 DEF CrawlInv

LEMMA CrawlAsk == ASSUME CrawlInv, Crl!Ask PROVE CrawlInv'
<1>1. Queue' = Queue BY AskedQueue DEF CrawlInv
<1>2. UNCHANGED <<links, found, seen, pages, dead>> BY DEF Crl!Ask
<1>3. Crl!TypeOK'
    <2> DEFINE n == Crl!Least(Concurrency, Len(frontier))
    <2>1. frontier \in Seq(Crl!Item) /\ frontier # <<>> BY DEF CrawlInv, Crl!TypeOK, Crl!Ask, Crl!More
    <2>2. Len(frontier) \in Nat \ {0} /\ Concurrency \in Nat \ {0}
        BY <2>1, EmptySeq, InstancesAssumption DEF Crl!CrawlerAssumption
    <2>3. n \in 1..Len(frontier) /\ n <= Concurrency BY <2>2 DEF Crl!Least
    <2>4. batch' = SubSeq(frontier, 1, n) /\ frontier' = SubSeq(frontier, n + 1, Len(frontier))
        BY DEF Crl!Ask
    <2> HIDE DEF n
    <2>5. \A i \in 1..Len(frontier) : frontier[i] \in Crl!Item BY <2>1, ElementOfSeq
    <2>6. batch' \in Seq(Crl!Item) /\ Len(batch') = n
        BY <2>2, <2>3, <2>4, <2>5, SubSeqProperties
    <2>7. frontier' \in Seq(Crl!Item)
        BY <2>2, <2>3, <2>4, <2>5, SubSeqProperties
    <2> QED BY <1>2, <2>3, <2>6, <2>7 DEF CrawlInv, Crl!TypeOK, Crl!Item, Crl!Range, Crl!Cardinality,
            Crl!IsInjective
<1>4. Waiting' = Waiting /\ Arrived' = Arrived BY <1>1, <1>2 DEF Waiting, Arrived
<1>5. Distinct' BY <1>1, <1>2, <1>4 DEF CrawlInv, Distinct, Crl!Range
<1>6. ASSUME NEW level \in Levels, Levelled(level) PROVE Levelled(level)'
    <2>1. Linked(level)' BY <1>2, <1>4, <1>6 DEF Levelled, Linked, Crl!Targets
    <2>2. InOrder(level)' BY <1>1, <1>2, <1>6 DEF Levelled, InOrder
    <2>3. OnePage(level)' BY <1>1, <1>2, <1>4, <1>6 DEF Levelled, OnePage, Crl!Targets
    <2>4. Explored(level)' BY <1>1, <1>2, <1>4, <1>6 DEF Levelled, Explored, Crl!Targets, Crl!Full
    <2> QED BY <1>6, <2>1, <2>2, <2>3, <2>4 DEF Levelled
<1> QED BY <1>2, <1>3, <1>5, <1>6 DEF CrawlInv, Levels

\* What Arrive and Miss have in common: the page at the head of the queue leaves it.
LEMMA CrawlHandled ==
    ASSUME CrawlInv, batch # <<>>, batch' = Tail(batch), UNCHANGED <<frontier, links, seen>>,
           NEW u, u = Head(batch).url
    PROVE  /\ u \in seen \ (dead \cup Crl!Range(pages)) /\ u \in Pages
           /\ Waiting' = Waiting \ {u} /\ u \in Waiting /\ Head(batch) \in Crl!Item
           /\ Queue' \in Seq(Crl!Item) /\ Len(batch') <= Concurrency /\ batch' \in Seq(Crl!Item)
           /\ \A i, j \in 1..Len(Queue') : i < j => Queue'[i].url # Queue'[j].url
           /\ \A level : InOrder(level) =>
                /\ InOrder(level)'
                /\ level[u] = Head(batch).depth
                /\ \A i \in 1..Len(Queue') : Head(batch).depth <= Queue'[i].depth
                /\ \A v \in seen : level[v] <= level[u] + 1
<1>1. /\ Len(Queue) \in Nat \ {0} /\ Head(batch) = Queue[1]
      /\ Queue' \in Seq(Crl!Item) /\ Len(Queue') = Len(Queue) - 1
      /\ \A i \in 1..Len(Queue') : Queue'[i] = Queue[i + 1]
      /\ Len(batch') < Len(batch) /\ batch' \in Seq(Crl!Item)
    BY HandledQueue DEF CrawlInv
<1>2. /\ Waiting \subseteq seen \ (dead \cup Crl!Range(pages)) /\ Queue \in Seq(Crl!Item)
      /\ \A i, j \in 1..Len(Queue) : i < j => Queue[i].url # Queue[j].url
    BY DEF CrawlInv, Distinct
<1>3. \A i \in 1..Len(Queue) : Queue[i] \in Crl!Item BY <1>2, ElementOfSeq
<1>4. u = Queue[1].url /\ u \in Waiting /\ 1 \in 1..Len(Queue) BY <1>1 DEF Waiting
<1>5. Queue[1] \in Crl!Item BY <1>3, <1>4
<1>6. u \in Pages BY <1>4, <1>5 DEF Crl!Item
<1>7. \A i \in 1..Len(Queue') : i + 1 \in 1..Len(Queue) /\ 1 < i + 1 BY <1>1
<1>8. Waiting' = Waiting \ {u}
    <2>1. ASSUME NEW v \in Waiting' PROVE v \in Waiting \ {u}
        <3>1. PICK i \in 1..Len(Queue') : v = Queue'[i].url BY <2>1 DEF Waiting
        <3>2. v = Queue[i + 1].url BY <3>1, <1>1
        <3> QED BY <3>2, <1>2, <1>4, <1>7 DEF Waiting
    <2>2. ASSUME NEW v \in Waiting \ {u} PROVE v \in Waiting'
        <3>1. PICK i \in 1..Len(Queue) : v = Queue[i].url BY DEF Waiting
        <3>2. i # 1 BY <3>1, <1>4
        <3>3. PICK k \in 1..Len(Queue') : i = k + 1 BY <3>2, <1>1
        <3>4. Queue'[k].url = v BY <3>1, <3>3, <1>1
        <3> QED BY <3>4 DEF Waiting
    <2> QED BY <2>1, <2>2
<1>9. ASSUME NEW i \in 1..Len(Queue'), NEW j \in 1..Len(Queue'), i < j
      PROVE  Queue'[i].url # Queue'[j].url
    <2>1. i + 1 \in 1..Len(Queue) /\ j + 1 \in 1..Len(Queue) /\ i + 1 < j + 1 BY <1>1, <1>9
    <2> QED BY <2>1, <1>1, <1>2
<1>10. ASSUME NEW level, InOrder(level)
       PROVE  /\ InOrder(level)'
              /\ level[u] = Head(batch).depth
              /\ \A i \in 1..Len(Queue') : Head(batch).depth <= Queue'[i].depth
              /\ \A v \in seen : level[v] <= level[u] + 1
    <2>1. ASSUME NEW i \in 1..Len(Queue')
          PROVE  /\ level[Queue'[i].url] = Queue'[i].depth
                 /\ \A j \in 1..Len(Queue') : i < j => Queue'[i].depth <= Queue'[j].depth
                 /\ \A v \in seen : level[v] <= Queue'[i].depth + 1
        <3>1. Queue'[i] = Queue[i + 1] /\ i + 1 \in 1..Len(Queue) BY <1>1, <1>7
        <3>2. ASSUME NEW j \in 1..Len(Queue'), i < j PROVE Queue'[i].depth <= Queue'[j].depth
            <4>1. Queue'[j] = Queue[j + 1] /\ j + 1 \in 1..Len(Queue) /\ i + 1 < j + 1
                BY <1>1, <1>7, <3>2
            <4> QED BY <4>1, <3>1, <1>10 DEF InOrder
        <3> QED BY <3>1, <3>2, <1>10 DEF InOrder
    <2>2. InOrder(level)' BY <2>1 DEF InOrder
    <2>3. \A i \in 1..Len(Queue') : Head(batch).depth <= Queue'[i].depth
        BY <1>1, <1>4, <1>7, <1>10 DEF InOrder
    <2>4. level[u] = Head(batch).depth BY <1>1, <1>4, <1>10 DEF InOrder
    <2>5. \A v \in seen : level[v] <= level[u] + 1 BY <1>1, <1>4, <1>10 DEF InOrder
    <2> QED BY <2>2, <2>3, <2>4, <2>5
<1>11. Len(batch') <= Concurrency
    <2>1. Len(batch) <= Concurrency /\ batch \in Seq(Crl!Item) BY DEF CrawlInv, Crl!TypeOK
    <2>2. Concurrency \in Nat BY InstancesAssumption DEF Crl!CrawlerAssumption
    <2> QED BY <2>1, <2>2, <1>1, LenProperties
<1> QED BY <1>1, <1>2, <1>4, <1>5, <1>6, <1>8, <1>9, <1>10, <1>11

LEMMA CrawlMiss == ASSUME CrawlInv, Crl!Miss PROVE CrawlInv'
<1> DEFINE u == Head(batch).url
<1>1. /\ batch # <<>> /\ batch' = Tail(batch) /\ found = <<>> /\ dead' = dead \cup {u}
      /\ UNCHANGED <<frontier, links, seen, found, pages>>
    BY DEF Crl!Miss
<1>2. /\ u \in seen \ (dead \cup Crl!Range(pages)) /\ u \in Pages
      /\ Waiting' = Waiting \ {u} /\ u \in Waiting
      /\ Queue' \in Seq(Crl!Item) /\ Len(batch') <= Concurrency /\ batch' \in Seq(Crl!Item)
      /\ \A i, j \in 1..Len(Queue') : i < j => Queue'[i].url # Queue'[j].url
      /\ \A level : InOrder(level) => InOrder(level)'
    BY <1>1, CrawlHandled
<1> HIDE DEF u
<1>3. Arrived' = Arrived BY <1>1, <1>2 DEF Arrived
<1>4. Crl!TypeOK'
    BY <1>1, <1>2 DEF CrawlInv, Crl!TypeOK, Crl!Item, Crl!Range, Crl!Cardinality, Crl!IsInjective
<1>5. Distinct' BY <1>1, <1>2 DEF CrawlInv, Distinct, Crl!Range
<1>6. ASSUME NEW level \in Levels, Levelled(level) PROVE Levelled(level)'
    <2>1. Linked(level)' BY <1>1, <1>3, <1>6 DEF Levelled, Linked, Crl!Targets
    <2>2. InOrder(level)' BY <1>2, <1>6 DEF Levelled
    <2>3. OnePage(level)' BY <1>1 DEF OnePage
    <2>4. Explored(level)' BY <1>1, <1>3, <1>6 DEF Levelled, Explored, Crl!Targets, Crl!Full
    <2> QED BY <1>6, <2>1, <2>2, <2>3, <2>4 DEF Levelled
<1> QED BY <1>1, <1>4, <1>5, <1>6 DEF CrawlInv, Levels

LEMMA CrawlArrive == ASSUME CrawlInv, NEW kept \in BOOLEAN, Crl!Arrive(kept) PROVE CrawlInv'
<1>0. PICK u, d : u = Head(batch).url /\ d = Head(batch).depth OBVIOUS
<1>1. /\ batch # <<>> /\ batch' = Tail(batch) /\ found = <<>>
      /\ found' = IF d < MaxDepth THEN Crl!Links(Head(batch)) ELSE <<>>
      /\ pages' = IF kept THEN Append(pages, u) ELSE pages
      /\ UNCHANGED <<frontier, links, seen, dead>>
    BY <1>0 DEF Crl!Arrive
<1>2. /\ u \in seen \ (dead \cup Crl!Range(pages)) /\ u \in Pages
      /\ Waiting' = Waiting \ {u} /\ u \in Waiting /\ Head(batch) \in Crl!Item
      /\ Queue' \in Seq(Crl!Item) /\ Len(batch') <= Concurrency /\ batch' \in Seq(Crl!Item)
      /\ \A i, j \in 1..Len(Queue') : i < j => Queue'[i].url # Queue'[j].url
      /\ \A level : InOrder(level) =>
            /\ InOrder(level)' /\ level[u] = d
            /\ \A i \in 1..Len(Queue') : d <= Queue'[i].depth
            /\ \A v \in seen : level[v] <= level[u] + 1
    BY <1>0, <1>1, CrawlHandled
<1>3. d \in 0..MaxDepth /\ MaxDepth \in Nat
    BY <1>0, <1>2, InstancesAssumption DEF Crl!Item, Crl!CrawlerAssumption
<1>4. links[u] \in Seq(Pages) /\ Len(links[u]) \in Nat BY <1>2, LinkType, LenProperties DEF CrawlInv
\* The links that are to be looked at next.
<1>5. /\ found' \in Seq(Crl!Item)
      /\ \A k \in 1..Len(found') : found'[k].url \in Crl!Targets(u) /\ found'[k].depth = d + 1
      /\ d < MaxDepth => \A v \in Crl!Targets(u) :
            \E k \in 1..Len(found') : found'[k] = [url |-> v, depth |-> d + 1]
    <2>1. CASE d < MaxDepth
        <3>1. found' = [i \in 1..Len(links[u]) |-> [url |-> links[u][i], depth |-> d + 1]]
            BY <1>0, <1>1, <2>1 DEF Crl!Links
        <3>2. \A i \in 1..Len(links[u]) : [url |-> links[u][i], depth |-> d + 1] \in Crl!Item
            BY <1>3, <1>4, <2>1, ElementOfSeq DEF Crl!Item
        <3>3. found' \in Seq(Crl!Item) /\ Len(found') = Len(links[u]) BY <1>4, <3>1, <3>2
        <3>4. DOMAIN links[u] = 1..Len(links[u]) BY <1>4, LenProperties
        <3> QED BY <3>1, <3>3, <3>4 DEF Crl!Targets, Crl!Range
    <2>2. CASE ~(d < MaxDepth) BY <1>1, <2>2
    <2> QED BY <2>1, <2>2
\* The page, if it has text, is a new one.
<1>6. /\ Crl!Range(pages') = Crl!Range(pages) \cup (IF kept THEN {u} ELSE {})
      /\ pages' \in Seq(Pages) /\ Crl!IsInjective(pages')
    <2>1. pages \in Seq(Pages) /\ Crl!IsInjective(pages)
        BY DEF CrawlInv, Crl!TypeOK
    <2>2. CASE ~kept BY <2>1, <2>2, <1>1
    <2>3. CASE kept
        <3>1. /\ pages' \in Seq(Pages) /\ Len(pages') = Len(pages) + 1
              /\ \A i \in 1..Len(pages) : pages'[i] = pages[i]
              /\ pages'[Len(pages) + 1] = u
            BY <2>1, <2>3, <1>1, <1>2, AppendProperties
        <3>2. /\ DOMAIN pages = 1..Len(pages) /\ DOMAIN pages' = 1..(Len(pages) + 1)
              /\ Len(pages) \in Nat
            BY <2>1, <3>1, LenProperties
        <3>3. \A i \in 1..Len(pages) : pages[i] # u BY <1>2, <3>2 DEF Crl!Range
        <3> QED BY <2>1, <2>3, <3>1, <3>2, <3>3 DEF Crl!Range, Crl!IsInjective
    <2> QED BY <2>2, <2>3
<1>7. Arrived' = Arrived \cup {u} BY <1>1, <1>2 DEF Arrived
<1>8. Crl!TypeOK'
    BY <1>1, <1>2, <1>5, <1>6 DEF CrawlInv, Crl!TypeOK, Crl!Item, Crl!Cardinality, Crl!Range, Crl!IsInjective
<1>9. Distinct' BY <1>1, <1>2, <1>6 DEF CrawlInv, Distinct, Crl!Range
<1>10. ASSUME NEW level \in Levels, Levelled(level) PROVE Levelled(level)'
    <2>1. Linked(level)' BY <1>1, <1>7, <1>10 DEF Levelled, Linked, Crl!Targets
    <2>2. InOrder(level)' BY <1>2, <1>10 DEF Levelled
    <2>3. OnePage(level)'
        <3> SUFFICES ASSUME NEW k \in 1..Len(found')
                     PROVE  /\ \E p \in Arrived' : found'[k].url \in Crl!Targets(p)' /\ found'[k].depth = level[p] + 1
                            /\ \A v \in seen : level[v] <= found'[k].depth
                            /\ \A i \in 1..Len(Queue') : found'[k].depth <= Queue'[i].depth + 1
                            /\ \A j \in 1..Len(found') : found'[j].depth = found'[k].depth
            BY <1>1 DEF OnePage
        <3>1. found'[k].url \in Crl!Targets(u)' /\ found'[k].depth = level[u] + 1
            BY <1>1, <1>2, <1>5, <1>10 DEF Levelled, Crl!Targets
        <3>2. \A v \in seen : level[v] <= found'[k].depth BY <3>1, <1>2, <1>10 DEF Levelled
        <3>3. ASSUME NEW i \in 1..Len(Queue') PROVE found'[k].depth <= Queue'[i].depth + 1
            <4>1. d <= Queue'[i].depth /\ found'[k].depth = d + 1 BY <1>2, <1>5, <1>10 DEF Levelled
            <4>2. Queue'[i].depth \in Int
                <5>1. Queue'[i] \in Crl!Item BY <1>2, ElementOfSeq
                <5> QED BY <5>1, <1>3 DEF Crl!Item
            <4> QED BY <4>1, <4>2, <1>3
        <3> QED BY <3>1, <3>2, <3>3, <1>5, <1>7
    <2>4. Explored(level)'
        <3> SUFFICES ASSUME NEW p \in Arrived', level[p] < MaxDepth, NEW v \in Crl!Targets(p)'
                     PROVE  \/ Crl!Full'
                            \/ v \in seen' /\ level[v] <= level[p] + 1
                            \/ \E k \in 1..Len(found') : found'[k] = [url |-> v, depth |-> level[p] + 1]
            BY DEF Explored
        <3>1. v \in Crl!Targets(p) BY <1>1 DEF Crl!Targets
        <3>2. CASE p = u BY <3>1, <3>2, <1>2, <1>5, <1>10 DEF Levelled
        <3>3. CASE p \in Arrived BY <3>1, <3>3, <1>1, <1>10 DEF Levelled, Explored, Crl!Full
        <3> QED BY <3>2, <3>3, <1>7
    <2> QED BY <1>10, <2>1, <2>2, <2>3, <2>4 DEF Levelled
<1> QED BY <1>1, <1>8, <1>9, <1>10 DEF CrawlInv, Levels

LEMMA CrawlFollow == ASSUME CrawlInv, Crl!Follow PROVE CrawlInv'
<1>0. PICK x : x = Head(found) OBVIOUS
<1>1. /\ found # <<>> /\ found' = Tail(found) /\ Crl!Remember(x)
      /\ UNCHANGED <<links, batch, pages, dead>>
    BY <1>0 DEF Crl!Follow
<1>2. /\ found \in Seq(Crl!Item) /\ Len(found) \in Nat \ {0} /\ x = found[1] /\ x \in Crl!Item
      /\ found' \in Seq(Crl!Item) /\ Len(found') = Len(found) - 1
      /\ \A k \in 1..Len(found') : found'[k] = found[k + 1]
    <2>1. found \in Seq(Crl!Item) BY DEF CrawlInv, Crl!TypeOK
    <2>2. Head(found) = found[1] BY <2>1
    <2> QED BY <1>0, <1>1, <2>1, <2>2, HeadTailProperties, EmptySeq
<1>3. \A k \in 1..Len(found) : k = 1 \/ \E j \in 1..Len(found') : found'[j] = found[k]
    <2> SUFFICES ASSUME NEW k \in 1..Len(found), k # 1
                 PROVE  \E j \in 1..Len(found') : found'[j] = found[k]
        OBVIOUS
    <2>1. PICK j \in 1..Len(found') : k = j + 1 BY <1>2
    <2> QED BY <2>1, <1>2
<1>4. \A k \in 1..Len(found') : k + 1 \in 1..Len(found) BY <1>2
<1>5. 1 \in 1..Len(found) BY <1>2
<1>6. CASE UNCHANGED <<seen, frontier>> /\ (x.url \in seen \/ Crl!Full)
    <2>1. Queue' = Queue BY <1>1, <1>6 DEF Queue
    <2>2. Waiting' = Waiting /\ Arrived' = Arrived BY <1>1, <1>6, <2>1 DEF Waiting, Arrived
    <2>3. Crl!TypeOK'
        BY <1>1, <1>2, <1>6 DEF CrawlInv, Crl!TypeOK, Crl!Item, Crl!Range, Crl!Cardinality, Crl!IsInjective
    <2>4. Distinct' BY <1>1, <1>6, <2>1, <2>2 DEF CrawlInv, Distinct, Crl!Range
    <2>5. ASSUME NEW level \in Levels, Levelled(level) PROVE Levelled(level)'
        <3>1. Linked(level)' BY <1>1, <1>6, <2>2, <2>5 DEF Levelled, Linked, Crl!Targets
        <3>2. InOrder(level)' BY <1>6, <2>1, <2>5 DEF Levelled, InOrder
        <3>3. OnePage(level)'
            BY <1>1, <1>2, <1>4, <1>6, <2>1, <2>2, <2>5 DEF Levelled, OnePage, Crl!Targets
        <3>4. Explored(level)'
            <4> SUFFICES ASSUME NEW p \in Arrived, level[p] < MaxDepth, NEW v \in Crl!Targets(p)
                         PROVE  \/ Crl!Full'
                                \/ v \in seen' /\ level[v] <= level[p] + 1
                                \/ \E k \in 1..Len(found') : found'[k] = [url |-> v, depth |-> level[p] + 1]
                BY <1>1, <2>2 DEF Explored, Crl!Targets
            <4>1. CASE Crl!Full BY <4>1, <1>6 DEF Crl!Full
            <4>2. CASE v \in seen /\ level[v] <= level[p] + 1 BY <4>2, <1>6
            <4>3. ASSUME NEW k \in 1..Len(found), found[k] = [url |-> v, depth |-> level[p] + 1], ~Crl!Full
                  PROVE  \/ v \in seen' /\ level[v] <= level[p] + 1
                         \/ \E j \in 1..Len(found') : found'[j] = [url |-> v, depth |-> level[p] + 1]
                <5>1. CASE k # 1 BY <5>1, <4>3, <1>3
                <5>2. CASE k = 1
                    <6>1. x = [url |-> v, depth |-> level[p] + 1] BY <5>2, <4>3, <1>2
                    <6>2. v \in seen BY <6>1, <4>3, <1>6
                    <6>3. level[v] <= x.depth BY <6>2, <1>2, <1>5, <2>5 DEF Levelled, OnePage
                    <6> QED BY <6>1, <6>2, <6>3, <1>6
                <5> QED BY <5>1, <5>2
            <4> QED BY <4>1, <4>2, <4>3, <2>5 DEF Levelled, Explored
        <3> QED BY <2>5, <3>1, <3>2, <3>3, <3>4 DEF Levelled
    <2> QED BY <1>6, <2>3, <2>4, <2>5 DEF CrawlInv, Levels
<1>7. CASE /\ x.url \notin seen /\ ~Crl!Full
           /\ seen' = seen \cup {x.url} /\ frontier' = Append(frontier, x)
    <2>1. /\ Queue' \in Seq(Crl!Item) /\ Len(Queue') = Len(Queue) + 1
          /\ \A i \in 1..Len(Queue) : Queue'[i] = Queue[i]
          /\ Queue'[Len(Queue) + 1] = x /\ frontier' \in Seq(Crl!Item)
        BY <1>1, <1>2, <1>7, RememberedQueue DEF CrawlInv
    <2>2. Queue \in Seq(Crl!Item) /\ Len(Queue) \in Nat BY LenProperties DEF CrawlInv, Distinct
    <2>3. \A i \in 1..Len(Queue') : i \in 1..Len(Queue) \/ i = Len(Queue) + 1 BY <2>1, <2>2
    <2>4. /\ Waiting \subseteq seen \ (dead \cup Crl!Range(pages))
          /\ \A i, j \in 1..Len(Queue) : i < j => Queue[i].url # Queue[j].url
          /\ dead \subseteq seen \ Crl!Range(pages) /\ Crl!Range(pages) \subseteq seen
        BY DEF CrawlInv, Distinct, Crl!TypeOK
    <2>5. Waiting' = Waiting \cup {x.url}
        <3>1. ASSUME NEW v \in Waiting' PROVE v \in Waiting \cup {x.url}
            <4>1. PICK i \in 1..Len(Queue') : v = Queue'[i].url BY <3>1 DEF Waiting
            <4> QED BY <4>1, <2>1, <2>3 DEF Waiting
        <3>2. ASSUME NEW v \in Waiting PROVE v \in Waiting'
            <4>1. PICK i \in 1..Len(Queue) : v = Queue[i].url BY <3>2 DEF Waiting
            <4>2. i \in 1..Len(Queue') /\ Queue'[i].url = v BY <4>1, <2>1, <2>2
            <4> QED BY <4>2 DEF Waiting
        <3>3. Len(Queue) + 1 \in 1..Len(Queue') BY <2>1, <2>2
        <3>4. x.url \in Waiting' BY <2>1, <3>3 DEF Waiting
        <3> QED BY <3>1, <3>2, <3>4
    <2>6. Arrived' = Arrived BY <1>1, <1>7, <2>4, <2>5 DEF Arrived
    <2>7. IsFiniteSet(seen') /\ Crl!Cardinality(seen') <= MaxPages * SeenFactor
        <3>1. IsFiniteSet(seen) BY DEF CrawlInv
        <3>2. /\ IsFiniteSet(seen') /\ Cardinality(seen') = Cardinality(seen) + 1
              /\ Cardinality(seen) \in Nat
            BY <3>1, <1>7, FS_AddElement, FS_CardinalityType
        <3>3. ~(Cardinality(seen) >= MaxPages * SeenFactor) BY <1>7, SameSize DEF Crl!Full
        <3>4. MaxPages * SeenFactor \in Nat BY InstancesAssumption DEF Crl!CrawlerAssumption
        <3>5. Cardinality(seen') <= MaxPages * SeenFactor BY <3>2, <3>3, <3>4
        <3> QED BY <3>2, <3>5, SameSize
    <2>8. Crl!TypeOK'
        BY <1>1, <1>2, <1>7, <2>1, <2>7
        DEF CrawlInv, Crl!TypeOK, Crl!Item, Crl!Range, Crl!Cardinality, Crl!IsInjective
    <2>9. Distinct'
        <3>1. Waiting' \subseteq seen' \ (dead' \cup Crl!Range(pages)')
            BY <1>1, <1>7, <2>4, <2>5 DEF Crl!Range
        <3>2. ASSUME NEW i \in 1..Len(Queue'), NEW j \in 1..Len(Queue'), i < j
              PROVE  Queue'[i].url # Queue'[j].url
            <4>1. i \in 1..Len(Queue) BY <3>2, <2>1, <2>2
            <4>2. Queue'[i] = Queue[i] /\ Queue[i].url \in seen BY <4>1, <2>1, <2>4 DEF Waiting
            <4>3. CASE j \in 1..Len(Queue) BY <4>1, <4>2, <4>3, <3>2, <2>1, <2>4
            <4>4. CASE j = Len(Queue) + 1 BY <4>2, <4>4, <2>1, <1>7
            <4> QED BY <4>3, <4>4, <2>3
        <3> QED BY <3>1, <3>2, <2>1 DEF Distinct
    <2>10. ASSUME NEW level \in Levels, Levelled(level)
           PROVE  \E new \in Levels : Levelled(new)'
        <3>1. PICK new : new = [level EXCEPT ![x.url] = x.depth] OBVIOUS
        <3>2. x.url \in Pages /\ x.depth \in 0..MaxDepth BY <1>2 DEF Crl!Item
        <3>3. seen \subseteq Pages BY DEF CrawlInv, Crl!TypeOK
        <3>4. new \in Levels /\ new[x.url] = x.depth /\ \A u \in seen : new[u] = level[u]
            BY <3>1, <3>2, <3>3, <1>7 DEF Levels
        <3>5. Arrived \subseteq seen BY DEF Arrived
        <3>6. new[Home] = 0 BY <3>4, <2>10 DEF CrawlInv, Levelled
        <3>7. \A u \in seen : level[u] <= x.depth BY <1>2, <1>5, <2>10 DEF Levelled, OnePage
        <3>8. \A i \in 1..Len(Queue) : x.depth <= Queue[i].depth + 1
            BY <1>2, <1>5, <2>10 DEF Levelled, OnePage
        <3>9. \A k \in 1..Len(found) : found[k].depth = x.depth
            BY <1>2, <1>5, <2>10 DEF Levelled, OnePage
        <3>10. ASSUME NEW i \in 1..Len(Queue) PROVE Queue[i] \in Crl!Item /\ Queue[i].depth \in Nat /\ Queue[i].url \in seen
            <4>1. Queue[i] \in Crl!Item BY <2>2, ElementOfSeq
            <4> QED BY <4>1, <2>4 DEF Crl!Item, Waiting
        <3>11. Linked(new)'
            <4> SUFFICES ASSUME NEW u \in seen' \ {Home}
                         PROVE  \E p \in Arrived : u \in Crl!Targets(p) /\ new[u] = new[p] + 1
                BY <1>1, <2>6 DEF Linked, Crl!Targets
            <4>1. CASE u = x.url
                <5>1. PICK p \in Arrived : x.url \in Crl!Targets(p) /\ x.depth = level[p] + 1
                    BY <1>2, <1>5, <2>10 DEF Levelled, OnePage
                <5> QED BY <4>1, <5>1, <3>4, <3>5
            <4>2. CASE u \in seen
                <5>1. PICK p \in Arrived : u \in Crl!Targets(p) /\ level[u] = level[p] + 1
                    BY <4>2, <2>10 DEF Levelled, Linked
                <5> QED BY <4>2, <5>1, <3>4, <3>5
            <4> QED BY <4>1, <4>2, <1>7
        <3>12. InOrder(new)'
            <4> SUFFICES ASSUME NEW i \in 1..Len(Queue')
                         PROVE  /\ new[Queue'[i].url] = Queue'[i].depth
                                /\ \A j \in 1..Len(Queue') : i < j => Queue'[i].depth <= Queue'[j].depth
                                /\ \A u \in seen' : new[u] <= Queue'[i].depth + 1
                BY DEF InOrder
            <4>1. CASE i \in 1..Len(Queue)
                <5>1. Queue'[i] = Queue[i] BY <4>1, <2>1
                <5>2. new[Queue[i].url] = Queue[i].depth
                    BY <4>1, <3>4, <3>10, <2>10 DEF Levelled, InOrder
                <5>3. ASSUME NEW j \in 1..Len(Queue'), i < j PROVE Queue'[i].depth <= Queue'[j].depth
                    <6>1. CASE j \in 1..Len(Queue)
                        BY <6>1, <5>1, <5>3, <4>1, <2>1, <2>10 DEF Levelled, InOrder
                    <6>2. CASE j = Len(Queue) + 1
                        <7>1. PICK p \in Arrived : x.depth = level[p] + 1
                            BY <1>2, <1>5, <2>10 DEF Levelled, OnePage
                        <7>2. level[Queue[i].url] <= x.depth BY <3>7, <3>10, <4>1
                        <7>3. level[Queue[i].url] = Queue[i].depth
                            BY <4>1, <2>10 DEF Levelled, InOrder
                        <7> QED BY <7>2, <7>3, <6>2, <5>1, <2>1
                    <6> QED BY <6>1, <6>2, <2>3
                <5>4. ASSUME NEW u \in seen' PROVE new[u] <= Queue[i].depth + 1
                    <6>1. CASE u \in seen BY <6>1, <3>4, <4>1, <2>10 DEF Levelled, InOrder
                    <6>2. CASE u = x.url BY <6>2, <3>4, <3>8, <4>1
                    <6> QED BY <6>1, <6>2, <1>7
                <5> QED BY <5>1, <5>2, <5>3, <5>4
            <4>2. CASE i = Len(Queue) + 1
                <5>1. Queue'[i] = x BY <4>2, <2>1
                <5>2. \A j \in 1..Len(Queue') : ~(i < j) BY <4>2, <2>1, <2>2
                <5>3. ASSUME NEW u \in seen' PROVE new[u] <= x.depth + 1
                    <6>1. CASE u \in seen
                        <7>1. level[u] \in Nat /\ x.depth \in Nat BY <6>1, <3>2, <3>3 DEF Levels
                        <7> QED BY <6>1, <7>1, <3>4, <3>7
                    <6>2. CASE u = x.url BY <6>2, <3>2, <3>4
                    <6> QED BY <6>1, <6>2, <1>7
                <5> QED BY <5>1, <5>2, <5>3, <3>4
            <4> QED BY <4>1, <4>2, <2>3
        <3>13. OnePage(new)'
            <4> SUFFICES ASSUME NEW k \in 1..Len(found')
                         PROVE  /\ \E p \in Arrived : found'[k].url \in Crl!Targets(p) /\ found'[k].depth = new[p] + 1
                                /\ \A u \in seen' : new[u] <= found'[k].depth
                                /\ \A i \in 1..Len(Queue') : found'[k].depth <= Queue'[i].depth + 1
                                /\ \A j \in 1..Len(found') : found'[j].depth = found'[k].depth
                BY <1>1, <2>6 DEF OnePage, Crl!Targets
            <4>1. k + 1 \in 1..Len(found) /\ found'[k] = found[k + 1] BY <1>2, <1>4
            <4>2. \A j \in 1..Len(found') : found'[j].depth = x.depth BY <1>2, <1>4, <3>9
            <4>3. PICK p \in Arrived : found'[k].url \in Crl!Targets(p) /\ found'[k].depth = level[p] + 1
                BY <4>1, <2>10 DEF Levelled, OnePage
            <4>4. found'[k].depth = new[p] + 1 BY <4>3, <3>4, <3>5
            <4>5. ASSUME NEW u \in seen' PROVE new[u] <= x.depth
                <5>1. CASE u \in seen BY <5>1, <3>4, <3>7
                <5>2. CASE u = x.url BY <5>2, <3>2, <3>4
                <5> QED BY <5>1, <5>2, <1>7
            <4>6. ASSUME NEW i \in 1..Len(Queue') PROVE x.depth <= Queue'[i].depth + 1
                <5>1. CASE i \in 1..Len(Queue) BY <5>1, <2>1, <3>8
                <5>2. CASE i = Len(Queue) + 1 BY <5>2, <2>1, <3>2
                <5> QED BY <5>1, <5>2, <2>3
            <4> QED BY <4>2, <4>3, <4>4, <4>5, <4>6
        <3>14. Explored(new)'
            <4> SUFFICES ASSUME NEW p \in Arrived, new[p] < MaxDepth, NEW v \in Crl!Targets(p)
                         PROVE  \/ v \in seen' /\ new[v] <= new[p] + 1
                                \/ \E k \in 1..Len(found') : found'[k] = [url |-> v, depth |-> new[p] + 1]
                BY <1>1, <2>6 DEF Explored, Crl!Targets
            <4>1. new[p] = level[p] BY <3>4, <3>5
            <4>2. CASE v \in seen /\ level[v] <= level[p] + 1 BY <4>1, <4>2, <1>7, <3>4
            <4>3. ASSUME NEW k \in 1..Len(found), found[k] = [url |-> v, depth |-> level[p] + 1]
                  PROVE  \/ v \in seen' /\ new[v] <= new[p] + 1
                         \/ \E j \in 1..Len(found') : found'[j] = [url |-> v, depth |-> new[p] + 1]
                <5>1. CASE k # 1 BY <5>1, <4>1, <4>3, <1>3
                <5>2. CASE k = 1
                    <6>1. x = [url |-> v, depth |-> level[p] + 1] BY <5>2, <4>3, <1>2
                    <6>2. v = x.url /\ v \in seen' /\ new[v] = new[p] + 1 BY <6>1, <4>1, <3>4, <1>7
                    <6>3. new[p] \in Nat BY <3>3, <3>4, <3>5 DEF Levels
                    <6> QED BY <6>2, <6>3
                <5> QED BY <5>1, <5>2
            <4> QED BY <4>1, <4>2, <4>3, <1>7, <2>10 DEF Levelled, Explored
        <3> QED BY <3>4, <3>6, <3>11, <3>12, <3>13, <3>14 DEF Levelled
    <2>11. Home \in seen' BY <1>7 DEF CrawlInv
    <2>12. \E new \in Levels' : Levelled(new)' BY <2>10 DEF CrawlInv, Levels
    <2> QED BY <2>7, <2>8, <2>9, <2>11, <2>12 DEF CrawlInv
<1> QED BY <1>1, <1>6, <1>7 DEF Crl!Remember

LEMMA CrawlNext == CrawlInv /\ Crl!Next => CrawlInv'
BY CrawlAsk, CrawlArrive, CrawlMiss, CrawlFollow DEF Crl!Next

-----------------------------------------------------------------------------
\* One link further than X.
Further(X) == X \cup UNION {Crl!Targets(u) : u \in X \ dead}

LEMMA NearExists ==
    ASSUME Crl!TypeOK
    PROVE  \A n \in Nat : \E g \in [0..n -> SUBSET Pages] :
                g[0] = {Home} /\ \A i \in 1..n : g[i] = Further(g[i - 1])
<1> DEFINE Is(g, n) == /\ g \in [0..n -> SUBSET Pages] /\ g[0] = {Home}
                       /\ \A i \in 1..n : g[i] = Further(g[i - 1])
           without == {n \in Nat : ~\E g : Is(g, n)}
<1>1. ASSUME without # {} PROVE FALSE
    <2>1. PICK m \in without : \A k \in without : m <= k BY <1>1, Minimum
    <2>2. m # 0
        <3>1. Home \in Pages BY InstancesAssumption DEF Crl!CrawlerAssumption
        <3>2. Is([i \in 0..0 |-> {Home}], 0) BY <3>1
        <3> QED BY <3>2
    <2>3. PICK n \in Nat : m = n + 1 BY <2>2
    <2>4. n \notin without
        <3>1. m \in Nat BY <2>1
        <3> HIDE DEF without
        <3> QED BY <2>1, <2>3, <3>1
    <2>5. PICK g : Is(g, n) BY <2>4
    <2>6. PICK h : h = [i \in 0..m |-> IF i = m THEN Further(g[n]) ELSE g[i]] OBVIOUS
    <2>7. g[n] \in SUBSET Pages BY <2>5
    <2>8. Further(g[n]) \in SUBSET Pages BY <2>7, LinkType DEF Further
    <2>9. h \in [0..m -> SUBSET Pages] /\ h[0] = {Home} BY <2>3, <2>5, <2>6, <2>8
    <2>10. ASSUME NEW i \in 1..m PROVE h[i] = Further(h[i - 1])
        <3>1. CASE i = m BY <3>1, <2>3, <2>6
        <3>2. CASE i # m
            <4>1. i \in 1..n /\ i - 1 \in 0..m /\ i - 1 # m /\ i \in 0..m BY <3>2, <2>3
            <4>2. h[i] = g[i] /\ h[i - 1] = g[i - 1] BY <3>2, <4>1, <2>6
            <4> QED BY <4>1, <4>2, <2>5
        <3> QED BY <3>1, <3>2
    <2> QED BY <2>1, <2>9, <2>10
<1> QED BY <1>1

LEMMA NearLevels ==
    ASSUME Crl!TypeOK
    PROVE  /\ Crl!Near[0] = {Home}
           /\ \A n \in 1..MaxDepth : Crl!Near[n] = Further(Crl!Near[n - 1])
           /\ \A n \in 0..MaxDepth : Crl!Near[n] \subseteq Pages
<1>1. Home \in Pages /\ MaxDepth \in Nat BY InstancesAssumption DEF Crl!CrawlerAssumption
<1>2. PICK g \in [0..MaxDepth -> SUBSET Pages] :
        g[0] = {Home} /\ \A i \in 1..MaxDepth : g[i] = Further(g[i - 1])
    BY <1>1, NearExists
<1>3. g = [n \in 0..MaxDepth |-> IF n = 0 THEN {Home} ELSE Further(g[n - 1])] BY <1>1, <1>2
<1>4. Crl!Near = [n \in 0..MaxDepth |-> IF n = 0 THEN {Home} ELSE Further(Crl!Near[n - 1])]
    BY <1>3 DEF Crl!Near, Further
<1>5. Crl!Near[0] = {Home} /\ \A n \in 1..MaxDepth : Crl!Near[n] = Further(Crl!Near[n - 1])
    <2>1. PICK body : body = [n \in 0..MaxDepth |-> IF n = 0 THEN {Home} ELSE Further(Crl!Near[n - 1])]
        OBVIOUS
    <2>2. body[0] = {Home} /\ \A n \in 1..MaxDepth : body[n] = Further(Crl!Near[n - 1])
        BY <1>1, <2>1
    <2>3. Crl!Near = body BY <1>4, <2>1
    <2> QED BY <2>2, <2>3
<1>6. \A n \in 0..MaxDepth : Crl!Near[n] \subseteq Pages
    <2> DEFINE out == {n \in Nat : n <= MaxDepth /\ ~(Crl!Near[n] \subseteq Pages)}
    <2>1. ASSUME out # {} PROVE FALSE
        <3>1. PICK m \in out : \A k \in out : m <= k BY <2>1, Minimum
        <3>2. m # 0 BY <3>1, <1>1, <1>5
        <3>3. m \in 1..MaxDepth /\ m - 1 \in Nat /\ m - 1 \notin out BY <3>1, <3>2, <1>1
        <3>4. Crl!Near[m - 1] \subseteq Pages BY <3>3, <1>1
        <3> QED BY <3>1, <3>3, <3>4, <1>5, LinkType DEF Further
    <2> QED BY <2>1, <1>1
<1> QED BY <1>5, <1>6

LEMMA NearGrows ==
    ASSUME Crl!TypeOK, NEW n \in 0..MaxDepth
    PROVE  Crl!Near[n] \subseteq Crl!Within
<1> DEFINE out == {k \in Nat : k <= MaxDepth /\ ~(Crl!Near[MaxDepth - k] \subseteq Crl!Near[MaxDepth])}
<1>0. MaxDepth \in Nat BY InstancesAssumption DEF Crl!CrawlerAssumption
<1>1. ASSUME out # {} PROVE FALSE
    <2>1. PICK m \in out : \A k \in out : m <= k BY <1>1, Minimum
    <2>2. m # 0 BY <2>1, <1>0
    <2>3. PICK k \in Nat : m = k + 1 BY <2>1, <2>2
    <2>4. k \notin out BY <2>1, <2>3
    <2>5. Crl!Near[MaxDepth - k] \subseteq Crl!Near[MaxDepth] BY <1>0, <2>1, <2>3, <2>4
    <2>6. MaxDepth - k \in 1..MaxDepth /\ MaxDepth - k - 1 = MaxDepth - m BY <2>1, <2>3, <1>0
    <2>7. Crl!Near[MaxDepth - m] \subseteq Crl!Near[MaxDepth - k] BY <2>6, NearLevels DEF Further
    <2> QED BY <2>1, <2>5, <2>7
<1>2. PICK k \in Nat : k <= MaxDepth /\ n = MaxDepth - k BY <1>0
<1>3. k \notin out BY <1>1
<1> QED BY <1>2, <1>3 DEF Crl!Within

\* A set of pages has finitely many links.
LEMMA FiniteLinks ==
    ASSUME Crl!TypeOK
    PROVE  \A F \in SUBSET Pages : IsFiniteSet(F) => IsFiniteSet(UNION {Crl!Targets(u) : u \in F})
<1> DEFINE Of(F) == UNION {Crl!Targets(u) : u \in F}
           Bad(F) == F \in SUBSET Pages /\ IsFiniteSet(F) /\ ~IsFiniteSet(Of(F))
           sizes == {n \in Nat : \E F : Bad(F) /\ Cardinality(F) = n}
<1>1. ASSUME sizes # {} PROVE FALSE
    <2>1. PICK m \in sizes : \A k \in sizes : m <= k BY <1>1, Minimum
    <2>2. PICK F : Bad(F) /\ Cardinality(F) = m BY <2>1
    <2>3. F # {} BY <2>2, FS_EmptySet
    <2>4. PICK u \in F : TRUE BY <2>3
    <2>5. PICK G : G = F \ {u} OBVIOUS
    <2>6. IsFiniteSet(G) /\ Cardinality(G) = m - 1 /\ G \in SUBSET Pages
        BY <2>2, <2>4, <2>5, FS_RemoveElement
    <2>7. Cardinality(G) \in Nat BY <2>6, FS_CardinalityType
    <2>8. m - 1 \notin sizes
        <3>1. m \in Nat BY <2>1
        <3> HIDE DEF sizes
        <3> QED BY <2>1, <3>1
    <2>9. IsFiniteSet(Of(G)) BY <2>6, <2>7, <2>8
    <2>10. IsFiniteSet(Crl!Targets(u))
        <3>1. u \in Pages /\ links[u] \in Seq(Pages) BY <2>2, <2>4, LinkType
        <3>2. DOMAIN links[u] = 1..Len(links[u]) /\ Len(links[u]) \in Nat
            BY <3>1, LenProperties
        <3>3. links[u] \in Surjection(1..Len(links[u]), Crl!Targets(u))
            BY <3>1, <3>2 DEF Surjection, Crl!Targets, Crl!Range
        <3>4. IsFiniteSet(1..Len(links[u])) BY <3>2, FS_Interval
        <3> QED BY <3>3, <3>4, FS_Surjection
    <2>11. Of(F) = Of(G) \cup Crl!Targets(u) BY <2>4, <2>5
    <2> HIDE DEF Of, Bad, sizes
    <2>12. IsFiniteSet(Of(F)) BY <2>9, <2>10, <2>11, FS_Union
    <2> QED BY <2>2, <2>12 DEF Bad
<1>2. ASSUME NEW F \in SUBSET Pages, IsFiniteSet(F) PROVE IsFiniteSet(Of(F))
    <2>1. Cardinality(F) \in Nat BY <1>2, FS_CardinalityType
    <2> QED BY <1>1, <1>2, <2>1
<1> QED BY <1>2

LEMMA WithinFinite == Crl!TypeOK => IsFiniteSet(Crl!Within)
<1> SUFFICES ASSUME Crl!TypeOK PROVE IsFiniteSet(Crl!Within)
    OBVIOUS
<1> DEFINE out == {n \in Nat : n <= MaxDepth /\ ~IsFiniteSet(Crl!Near[n])}
<1>0. MaxDepth \in Nat BY InstancesAssumption DEF Crl!CrawlerAssumption
<1>1. ASSUME out # {} PROVE FALSE
    <2>1. PICK m \in out : \A k \in out : m <= k BY <1>1, Minimum
    <2>2. m # 0
        <3>1. IsFiniteSet({Home}) BY FS_Singleton
        <3>2. Crl!Near[0] = {Home} BY NearLevels
        <3> QED BY <2>1, <3>1, <3>2
    <2>3. m \in 1..MaxDepth /\ m - 1 \in 0..MaxDepth /\ m - 1 \notin out BY <2>1, <2>2, <1>0
    <2>4. IsFiniteSet(Crl!Near[m - 1]) /\ Crl!Near[m - 1] \subseteq Pages BY <2>3, NearLevels
    <2>5. PICK F : F = Crl!Near[m - 1] \ dead OBVIOUS
    <2>6. IsFiniteSet(F) /\ F \in SUBSET Pages BY <2>4, <2>5, FS_Subset
    <2>7. IsFiniteSet(UNION {Crl!Targets(u) : u \in F}) BY <2>6, FiniteLinks
    <2>8. IsFiniteSet(Crl!Near[m - 1] \cup UNION {Crl!Targets(u) : u \in F})
        BY <2>4, <2>7, FS_Union
    <2> QED BY <2>1, <2>3, <2>5, <2>8, NearLevels DEF Further
<1> QED BY <1>0, <1>1 DEF Crl!Within

\* Whatever was put on the frontier is within reach: at the distance of its level.
LEMMA SeenWithin ==
    ASSUME CrawlInv, NEW level \in Levels, Levelled(level)
    PROVE  seen \subseteq Crl!Within
<1>1. /\ MaxDepth \in Nat /\ Crl!TypeOK /\ seen \subseteq Pages
      /\ \A u \in seen : level[u] \in 0..MaxDepth
    BY InstancesAssumption DEF Crl!CrawlerAssumption, CrawlInv, Crl!TypeOK, Levels
<1> DEFINE out == {n \in Nat : \E u \in seen : level[u] = n /\ u \notin Crl!Near[n]}
<1>2. ASSUME out # {} PROVE FALSE
    <2>1. PICK m \in out : \A k \in out : m <= k BY <1>2, Minimum
    <2>2. PICK u \in seen : level[u] = m /\ u \notin Crl!Near[m] BY <2>1
    <2>3. CASE u = Home
        <3>1. m = 0 BY <2>2, <2>3, <1>1 DEF Levelled
        <3> QED BY <3>1, <2>2, <2>3, <1>1, NearLevels
    <2>4. CASE u # Home
        <3>1. PICK p \in Arrived : u \in Crl!Targets(p) /\ level[u] = level[p] + 1
            BY <2>2, <2>4 DEF Levelled, Linked
        <3>2. p \in seen \ dead BY DEF Arrived
        <3>3. level[p] \in Nat /\ level[p] < m /\ m \in 1..MaxDepth /\ m - 1 = level[p]
            BY <3>1, <3>2, <2>2, <1>1
        <3>4. level[p] \notin out
            <4>1. m \in Nat BY <3>3
            <4> HIDE DEF out
            <4> QED BY <2>1, <3>3, <4>1
        <3>5. p \in Crl!Near[m - 1] BY <3>2, <3>3, <3>4
        <3>6. u \in Further(Crl!Near[m - 1]) BY <3>1, <3>2, <3>5 DEF Further
        <3> QED BY <3>3, <3>6, <2>2, <1>1, NearLevels
    <2> QED BY <2>3, <2>4
<1>3. ASSUME NEW u \in seen PROVE u \in Crl!Within
    <2>1. level[u] \in Nat /\ level[u] \in 0..MaxDepth BY <1>1
    <2>2. u \in Crl!Near[level[u]] BY <1>2, <2>1
    <2> QED BY <2>1, <2>2, <1>1, NearGrows
<1> QED BY <1>3

\* When nothing waits, and memory has not run out, all that is in reach was seen.
LEMMA WithinSeen ==
    ASSUME CrawlInv, NEW level \in Levels, Levelled(level), Queue = <<>>, found = <<>>, ~Crl!Full
    PROVE  Crl!Within \subseteq seen
<1>1. /\ MaxDepth \in Nat /\ Crl!TypeOK /\ seen \subseteq Pages
      /\ \A u \in seen : level[u] \in 0..MaxDepth
    BY InstancesAssumption DEF Crl!CrawlerAssumption, CrawlInv, Crl!TypeOK, Levels
<1>2. Arrived = seen \ dead BY DEF Arrived, Waiting
<1> DEFINE Reached(n) == \A u \in Crl!Near[n] : u \in seen /\ level[u] <= n
           out == {n \in Nat : n <= MaxDepth /\ ~Reached(n)}
<1>3. ASSUME out # {} PROVE FALSE
    <2>1. PICK m \in out : \A k \in out : m <= k BY <1>3, Minimum
    <2>2. m # 0
        <3>1. Reached(0) BY <1>1, NearLevels DEF CrawlInv, Levelled
        <3> QED BY <2>1, <3>1
    <2>3. PICK n \in Nat : m = n + 1 /\ m \in 1..MaxDepth /\ n = m - 1 BY <2>1, <2>2, <1>1
    <2>4. n \notin out
        <3>1. m \in Nat BY <2>1
        <3> HIDE DEF out
        <3> QED BY <2>1, <2>3, <3>1
    <2>5. Reached(n) BY <2>3, <2>4, <1>1
    <2>6. ASSUME NEW u \in Crl!Near[m] PROVE u \in seen /\ level[u] <= m
        <3>1. u \in Further(Crl!Near[n]) BY <2>3, <1>1, NearLevels
        <3>2. CASE u \in Crl!Near[n]
            <4>1. u \in seen /\ level[u] <= n /\ level[u] \in Nat BY <3>2, <2>5, <1>1
            <4> QED BY <4>1, <2>3
        <3>3. CASE u \notin Crl!Near[n]
            <4>1. PICK p \in Crl!Near[n] \ dead : u \in Crl!Targets(p) BY <3>1, <3>3 DEF Further
            <4>2. p \in Arrived /\ level[p] <= n /\ level[p] \in Nat BY <4>1, <2>5, <1>1, <1>2
            <4>3. level[p] < MaxDepth BY <4>2, <2>3, <1>1
            <4>4. u \in seen /\ level[u] <= level[p] + 1
                BY <4>1, <4>2, <4>3 DEF Levelled, Explored
            <4>5. level[u] \in Nat BY <4>4, <1>1
            <4> QED BY <4>2, <4>4, <4>5, <2>3
        <3> QED BY <3>2, <3>3
    <2> QED BY <2>1, <2>6
<1>4. Reached(MaxDepth) BY <1>1, <1>3
<1> QED BY <1>4 DEF Crl!Within

\* A page that was kept was seen and waits no more, and none was kept twice.
LEMMA KeptPages ==
    ASSUME CrawlInv
    PROVE  /\ Crl!Range(pages) \subseteq seen \ Waiting
           /\ IsFiniteSet(Crl!Range(pages)) /\ Cardinality(Crl!Range(pages)) = Len(pages)
<1>1. /\ pages \in Seq(Pages) /\ Crl!IsInjective(pages) /\ Crl!Range(pages) \subseteq seen
      /\ Waiting \cap Crl!Range(pages) = {}
    BY DEF CrawlInv, Crl!TypeOK, Distinct
<1>2. DOMAIN pages = 1..Len(pages) /\ Len(pages) \in Nat BY <1>1, LenProperties
<1>3. pages \in Bijection(1..Len(pages), Crl!Range(pages))
    BY <1>1, <1>2 DEF Bijection, Injection, Surjection, IsInjective, Crl!Range, Crl!IsInjective
<1>4. ExistsBijection(1..Len(pages), Crl!Range(pages)) BY <1>3 DEF ExistsBijection
<1>5. IsFiniteSet(1..Len(pages)) /\ Cardinality(1..Len(pages)) = Len(pages)
    <2>1. PICK n \in Nat : n = Len(pages) BY <1>2
    <2>2. IsFiniteSet(1..n) /\ Cardinality(1..n) = n BY FS_Interval
    <2> QED BY <2>1, <2>2
<1>6. IsFiniteSet(Crl!Range(pages)) /\ Cardinality(Crl!Range(pages)) = Cardinality(1..Len(pages))
    BY <1>4, <1>5, FS_Bijection
<1> QED BY <1>1, <1>5, <1>6

LEMMA CrawlCovers == CrawlInv => Crl!CoversSmallSites
<1> SUFFICES ASSUME CrawlInv, Crl!Finished, Crl!Cardinality(Crl!Within) <= MaxPages
             PROVE  seen = Crl!Within /\ frontier = <<>>
    BY DEF Crl!CoversSmallSites
<1>1. PICK level \in Levels : Levelled(level) BY DEF CrawlInv
<1>2. seen \subseteq Crl!Within BY <1>1, SeenWithin
<1>3. /\ IsFiniteSet(Crl!Within) /\ Cardinality(Crl!Within) <= MaxPages
      /\ Cardinality(Crl!Within) \in Nat
    BY WithinFinite, FS_CardinalityType, SameSize DEF CrawlInv
<1>4. IsFiniteSet(seen) /\ Cardinality(seen) <= Cardinality(Crl!Within) /\ Cardinality(seen) \in Nat
    BY <1>2, <1>3, FS_Subset, FS_CardinalityType
<1>5. Cardinality(seen) = Cardinality(Crl!Within) => seen = Crl!Within
    BY <1>2, <1>3, FS_Subset
<1>6. MaxPages \in Nat \ {0} /\ SeenFactor \in Nat \ {0}
    BY InstancesAssumption DEF Crl!CrawlerAssumption
<1>7. MaxPages * SeenFactor >= MaxPages BY <1>6
<1>8. Crl!Full => seen = Crl!Within
    <2>1. Crl!Full => Cardinality(seen) >= MaxPages * SeenFactor BY SameSize DEF Crl!Full
    <2>2. MaxPages * SeenFactor \in Nat BY <1>6
    <2> QED BY <2>1, <2>2, <1>3, <1>4, <1>5, <1>6, <1>7
<1>9. frontier \in Seq(Crl!Item) /\ batch = <<>> /\ found = <<>>
    BY DEF CrawlInv, Crl!TypeOK, Crl!Finished
<1>10. Queue = frontier BY <1>9, ConcatEmptySeq DEF Queue
<1>11. CASE frontier = <<>>
    <2>1. ~Crl!Full => Crl!Within \subseteq seen BY <1>1, <1>9, <1>10, <1>11, WithinSeen
    <2> QED BY <2>1, <1>2, <1>8, <1>11
\* A crawl that has all the pages it wants has kept every page there is.
<1>12. CASE frontier # <<>>
    <2>1. ~(Len(pages) < MaxPages) BY <1>9, <1>12 DEF Crl!Finished, Crl!More
    <2>2. /\ Crl!Range(pages) \subseteq seen \ Waiting
          /\ IsFiniteSet(Crl!Range(pages)) /\ Cardinality(Crl!Range(pages)) = Len(pages)
        BY KeptPages
    <2>3. Cardinality(Crl!Range(pages)) \in Nat BY <2>2, FS_CardinalityType
    <2>4. Cardinality(Crl!Range(pages)) <= Cardinality(seen)
        BY <2>2, <1>4, FS_Subset
    <2>5. Cardinality(Crl!Range(pages)) = Cardinality(seen)
        BY <2>1, <2>2, <2>3, <2>4, <1>3, <1>4, <1>6
    <2>6. seen = Crl!Range(pages)
        BY <2>2, <2>5, <1>4, FS_Subset
    <2>7. Waiting = {} BY <2>2, <2>6 DEF CrawlInv, Distinct
    <2>8. Len(frontier) \in Nat \ {0} BY <1>9, <1>12, EmptySeq
    <2>9. Queue[1].url \in Waiting BY <2>8, <1>10 DEF Waiting
    <2> QED BY <2>7, <2>9
<1> QED BY <1>11, <1>12

-----------------------------------------------------------------------------
(* The parts together *)

OperatorInv ==
    /\ Aged
    /\ part = "ingest" => IngestInv
    /\ part = "crawl" => CrawlInv
    /\ part = "purge" => PurgeInv
    /\ part = "eval" => EvalInv

LEMMA IngestUnchanged == IngestInv /\ UNCHANGED ingestVars => IngestInv'
BY DEF ingestVars, IngestInv, Ing!TypeOK, IngestLocals, CrawlsMet, Rewrites, ChunksOwned,
    SeenWhole, Ing!IndexInStep, Ing!Revs

LEMMA CrawlUnchanged == CrawlInv /\ UNCHANGED crawlVars => CrawlInv'
<1> SUFFICES ASSUME CrawlInv, UNCHANGED crawlVars PROVE CrawlInv'
    OBVIOUS
<1>1. UNCHANGED <<links, frontier, batch, found, seen, pages, dead>> BY DEF crawlVars
<1>2. UNCHANGED <<Queue, Waiting, Arrived>> BY <1>1 DEF Queue, Waiting, Arrived
<1>3. Crl!TypeOK' BY <1>1 DEF CrawlInv, Crl!TypeOK, Crl!Item, Crl!Range, Crl!Cardinality, Crl!IsInjective
<1>4. Distinct' BY <1>1, <1>2 DEF CrawlInv, Distinct, Crl!Range
<1>5. ASSUME NEW level \in Levels, Levelled(level) PROVE Levelled(level)'
    BY <1>1, <1>2, <1>5
    DEF Levelled, Linked, InOrder, OnePage, Explored, Crl!Full, Crl!Targets
<1> QED BY <1>1, <1>3, <1>4, <1>5 DEF CrawlInv, Levels

LEMMA PurgeUnchanged == PurgeInv /\ UNCHANGED purgeVars => PurgeInv'
BY DEF purgeVars, PurgeInv, Prg!TypeOK, PurgeLocals, PurgesMet, WholeBatches,
    Prg!CompleteIsTrue, Prg!Complete, Prg!Expired, Prg!Running

LEMMA EvalUnchanged == EvalInv /\ UNCHANGED evalVars => EvalInv'
BY DEF evalVars, EvalInv, ScoresCounted, Evl!TypeOK, Evl!GateHonest, Evl!Trusted, Evl!Enough

LEMMA OperatorInitially == AllInit => OperatorInv
BY InitAged, IngestInit, CrawlInit, PurgeInit, EvalInit DEF AllInit, OperatorInv

LEMMA OperatorStep ==
    OperatorInv /\ [AllNext]_<<part, vars, ingestVars, crawlVars, purgeVars, evalVars>>
        => OperatorInv'
<1> SUFFICES ASSUME OperatorInv,
                    [AllNext]_<<part, vars, ingestVars, crawlVars, purgeVars, evalVars>>
             PROVE  OperatorInv'
    OBVIOUS
<1>1. UNCHANGED part BY DEF AllNext
<1>2. Aged'
    <2>1. Next \/ UNCHANGED vars BY DEF AllNext
    <2> QED BY <2>1, StepAged DEF OperatorInv
<1>3. part = "ingest" => IngestInv'
    <2>1. part = "ingest" => Ing!Next \/ UNCHANGED ingestVars BY DEF AllNext
    <2> QED BY <2>1, IngestNext, IngestUnchanged DEF OperatorInv
<1>4. part = "crawl" => CrawlInv'
    <2>1. part = "crawl" => Crl!Next \/ UNCHANGED crawlVars BY DEF AllNext
    <2> QED BY <2>1, CrawlNext, CrawlUnchanged DEF OperatorInv
<1>5. part = "purge" => PurgeInv'
    <2>1. part = "purge" => Prg!Next \/ UNCHANGED purgeVars BY DEF AllNext
    <2> QED BY <2>1, PurgeNext, PurgeUnchanged DEF OperatorInv
<1>6. part = "eval" => EvalInv'
    <2>1. part = "eval" => Evl!Next \/ UNCHANGED evalVars BY DEF AllNext
    <2> QED BY <2>1, EvalNext, EvalUnchanged DEF OperatorInv
<1> QED BY <1>1, <1>2, <1>3, <1>4, <1>5, <1>6 DEF OperatorInv

\* The inductive invariant of the five parts is one.
THEOREM OperatorInvariant == AllSpec => []OperatorInv
BY OperatorInitially, OperatorStep, PTL DEF AllSpec

\* Type correctness of the five parts; and with it, that no page is fetched twice or
\* from too deep, the addresses a crawl remembers are bounded, and no page of the
\* index is rewritten by two crawls at a time.
THEOREM OperatorTypes == AllSpec => []AllTypes
<1>1. OperatorInv => AllTypes
    BY DEF OperatorInv, Aged, IngestInv, CrawlInv, PurgeInv, EvalInv, AllTypes
<1> QED BY <1>1, OperatorInvariant, PTL

\* What retrieval finds of a page is the text its hash stands for, unless two
\* crawls have rewritten the page side by side (ingest_site).
THEOREM IndexStaysInStep == AllSpec => []IndexInStep
<1>1. OperatorInv => IndexInStep BY DEF OperatorInv, IngestInv, IndexInStep
<1> QED BY <1>1, OperatorInvariant, PTL

\* A site with no more than max_pages pages in reach is fetched completely (crawl).
THEOREM SmallSitesCovered == AllSpec => []CoversSmallSites
<1>1. OperatorInv => CoversSmallSites BY CrawlCovers DEF OperatorInv, CoversSmallSites
<1> QED BY <1>1, OperatorInvariant, PTL

\* A purge that reports "complete" has left nothing past its cutoff, and what it
\* counts are conversations it removed itself (purge_tenant).
THEOREM CompleteIsSo == AllSpec => []CompleteIsTrue
<1>1. OperatorInv => CompleteIsTrue BY DEF OperatorInv, PurgeInv, CompleteIsTrue
<1> QED BY <1>1, OperatorInvariant, PTL

\* The release gate speaks about the answers and not about the judge (run, judge).
THEOREM GateIsHonest == AllSpec => []GateHonest
<1>1. OperatorInv => GateHonest BY DEF OperatorInv, EvalInv, GateHonest
<1> QED BY <1>1, OperatorInvariant, PTL
=============================================================================

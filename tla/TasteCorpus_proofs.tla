------------------------- MODULE TasteCorpus_proofs -------------------------
(***************************************************************************)
(* Proofs about TasteCorpus, for every set of scenarios and labels, any    *)
(* evaluation and any verdicts on it, any number of imports and requests,  *)
(* and every fault. Why an incomplete file is never given is in            *)
(* LoadIsServable and ReadIsServable; why the caches follow the files is   *)
(* that a file that is written is in changed from its opening on.          *)
(***************************************************************************)
EXTENDS TasteCorpus, FiniteSetTheorems, TLAPS

LEMMA LoadIsServable ==
  ASSUME NEW content
  PROVE  Servable(Load(content)) /\ Servable({}) /\ Load(content) \subseteq content
BY DEF Servable, Load

(* The documents of an import are of the rows it takes.                    *)
LEMMA DocsAreTaken ==
  ASSUME TypeOK, NEW s \in SUBSET rows
  PROVE  /\ Docs(s) \in [File -> SUBSET Row]
         /\ \A f \in File : Docs(s)[f] \subseteq s
         /\ \A f \in WholeSlugs(s) : Whole(Docs(s)[f])
         /\ WholeSlugs(s) \subseteq Slug /\ Labels(s) \subseteq Label
<1>1. s \subseteq Row
  BY DEF TypeOK
<1>2. \A f \in File : Docs(s)[f] \subseteq s
  BY DEF Docs, Content, OfSlug, OfLabel, WithUrl
<1>3. Docs(s) \in [File -> SUBSET Row]
  BY <1>1 DEF Docs, Content, OfSlug, OfLabel, WithUrl
<1>4. \A f \in WholeSlugs(s) : Whole(Docs(s)[f])
  BY DEF Docs, WholeSlugs, File
<1>5. \A w \in s : SlugOf[w.run] \in Slug /\ LabelOf[SlugOf[w.run]] \in Label
  BY CorpusAssumption DEF TypeOK
<1>6. WholeSlugs(s) \subseteq Slug /\ Labels(s) \subseteq Label
  BY <1>5 DEF WholeSlugs, Labels
<1> QED
  BY <1>2, <1>3, <1>4, <1>6

LEMMA TakenIsRows ==
  ASSUME TypeOK, NEW source \in Sources
  PROVE  Taken(source) \subseteq Row
BY DEF TypeOK, Taken, Sources

LEMMA Loaded ==
  ASSUME TypeOK, NEW f \in File
  PROVE  Load(corpus[f]) \in SUBSET Row /\ Got(f) \in [File -> SUBSET Row]
BY DEF TypeOK, Load, Got

LEMMA KeyIsRead ==
  ASSUME TypeOK, NEW k \in Key
  PROVE  FileOf(k) \in SUBSET Row /\ Servable(FileOf(k))
<1>1. k[1] \in File
  BY DEF Key, File
<1> QED
  BY <1>1, Loaded, LoadIsServable DEF FileOf

(* What a miss leaves in the cache: the entry of its key, and of the other *)
(* keys at most what was there.                                            *)
LEMMA KeptOrGone ==
  ASSUME TypeOK, NEW k \in Key, Keep(k)
  PROVE  /\ cache' \in [Key -> SUBSET SUBSET Row] /\ read' \subseteq Key
         /\ cache'[k] = {FileOf(k)}
         /\ \A x \in Key \ {k} : cache'[x] \in {cache[x], {}}
<1>1. FileOf(k) \in SUBSET Row
  BY KeyIsRead
<1>2. CASE cache' = [cache EXCEPT ![k] = {FileOf(k)}]
  BY <1>1, <1>2 DEF Keep, TypeOK
<1>3. CASE \E old \in Cached : cache' = [cache EXCEPT ![old] = {}, ![k] = {FileOf(k)}]
  BY <1>1, <1>3 DEF Keep, Cached, TypeOK
<1> QED
  BY <1>2, <1>3 DEF Keep

(* With room for every key that was read, nothing else leaves the cache.   *)
LEMMA RoomyKeeps ==
  ASSUME TypeOK, CacheHolds, NEW k \in Key, k \notin read, Keep(k)
  PROVE  /\ CacheHolds'
         /\ Roomy' => Roomy /\ \A x \in Key \ {k} : cache'[x] = cache[x]
<1>1. read' = read \cup {k} /\ IsFiniteSet(read') /\ Cardinality(read') = Cardinality(read) + 1
      /\ Cardinality(read) \in Nat
  BY FS_AddElement, FS_CardinalityType DEF Keep, CacheHolds
<1>2. Cached' \subseteq Cached \cup {k} /\ k \in Cached'
  BY KeptOrGone DEF Cached
<1>3. ASSUME Roomy'
      PROVE  Roomy /\ cache' = [cache EXCEPT ![k] = {FileOf(k)}]
  <2>1. Cardinality(read) < CacheSize
    BY <1>1, <1>3, CorpusAssumption DEF Roomy
  <2>2. Roomy /\ Cached = read
    BY <2>1, <1>1, CorpusAssumption DEF CacheHolds, Roomy
  <2> QED
    BY <2>1, <2>2, <1>1, CorpusAssumption DEF Keep
<1>4. Roomy' => Cached' = read'
  <2> SUFFICES ASSUME Roomy' PROVE Cached' = read'
    OBVIOUS
  <2>1. Cached = read /\ \A x \in Key \ {k} : cache'[x] = cache[x]
    BY <1>3 DEF CacheHolds, TypeOK
  <2> QED
    BY <1>1, <1>2, <2>1 DEF Cached, CacheHolds
<1> QED
  BY <1>1, <1>2, <1>3, <1>4 DEF CacheHolds, TypeOK

(* A key that made room for others is read again.                          *)
LEMMA KeepsAgain ==
  ASSUME TypeOK, CacheHolds, NEW k \in Key, k \in read, k \notin Cached, Keep(k)
  PROVE  CacheHolds' /\ ~Roomy /\ ~Roomy'
<1>1. ~Roomy /\ read' = read
  BY DEF CacheHolds, Keep
<1>2. Cached' \subseteq Cached \cup {k}
  BY KeptOrGone DEF Cached
<1> QED
  BY <1>1, <1>2 DEF CacheHolds, Roomy

(* What an import puts into its job.                                       *)
LEMMA ImportedJob ==
  ASSUME TypeOK, NEW layout \in Layouts, NEW source \in Sources, NEW slugs, NEW indices,
         Import(layout, source, slugs, indices)
  PROVE  /\ job'.stage = "writing" /\ job'.reviews = (IF source = "missing" THEN "missing" ELSE "read")
         /\ job' \in [stage : {"none", "writing", "open"}, reviews : {"missing", "read"},
                      todo : SUBSET File, docs : [File -> SUBSET Row], open : File]
         /\ \A f \in File : job'.docs[f] \subseteq Taken(source)
         /\ \A f \in job'.todo \cap Slug : Whole(job'.docs[f])
<1> DEFINE s == {w \in rows \cap Taken(source) : SlugOf[w.run] \in slugs /\ (layout = "v2" \/ w.index \in indices)}
<1>1. s \in SUBSET rows /\ s \subseteq Taken(source)
  OBVIOUS
<1>2. job' = [stage |-> "writing", reviews |-> IF source = "missing" THEN "missing" ELSE "read",
              todo |-> IF layout = "v2" THEN WholeSlugs(s) ELSE Labels(s), docs |-> Docs(s), open |-> General]
  BY DEF Import
<1> HIDE DEF s
<1>3. /\ Docs(s) \in [File -> SUBSET Row] /\ \A f \in File : Docs(s)[f] \subseteq s
      /\ \A f \in WholeSlugs(s) : Whole(Docs(s)[f])
      /\ WholeSlugs(s) \subseteq Slug /\ Labels(s) \subseteq Label
  BY <1>1, DocsAreTaken
<1>4. Taken(source) \in SUBSET Row /\ General \in File
  BY TakenIsRows, CorpusAssumption DEF File
<1>5. job'.todo \subseteq File /\ (\A f \in job'.todo \cap Slug : Whole(job'.docs[f]))
  BY <1>2, <1>3, CorpusAssumption DEF File
<1> QED
  BY <1>1, <1>2, <1>3, <1>4, <1>5

LEMMA MatchedIsOfSlug ==
  ASSUME NEW q \in Request
  PROVE  \A s \in Matched(q) : s \in Slug /\ \A entries \in index : entries[s] # {}
BY DEF Matched

-----------------------------------------------------------------------------
LEMMA InitTypeOK == Init => TypeOK
<1> SUFFICES ASSUME Init PROVE TypeOK
  OBVIOUS
<1>1. General \in File /\ Nothing \in [File -> SUBSET Row] /\ Seeded \subseteq Row
  <2>1. \A i \in Index : [run |-> Seed, index |-> i, url |-> TRUE] \in Row
    BY DEF Row
  <2> QED
    BY <2>1, CorpusAssumption DEF File, Nothing, Seeded
<1>2. corpus \in [File -> SUBSET Row]
  BY <1>1 DEF Init
<1>3. NoJob \in [stage : {"none", "writing", "open"}, reviews : {"missing", "read"},
                 todo : SUBSET File, docs : [File -> SUBSET Row], open : File]
  BY <1>1 DEF NoJob, Sources
<1>4. Idle \in [by : Request \cup {Nobody, Grid}, left : SUBSET File, got : [File -> SUBSET Row], next : Label]
  BY <1>1, CorpusAssumption DEF Idle
<1>5. 0 \in 0..MaxImports
  BY CorpusAssumption
<1>6. cache \in [Key -> SUBSET SUBSET Row] /\ req \in [Request -> {"idle", "resolving", "given", "live", "refused", "failed"}]
      /\ from \in [Request -> File] /\ plates \in [Request -> SUBSET Row]
  BY <1>1 DEF Init
<1> QED
  BY <1>2, <1>3, <1>4, <1>5, <1>6 DEF Init, TypeOK

LEMMA NextKey ==
  ASSUME TypeOK, NEW q \in Request
  PROVE  <<scan.next, KeyVersion(q)>> \in Key /\ scan.next \in Label
BY CorpusAssumption DEF TypeOK, Key, KeyVersion

LEMMA ResolveTypeOK ==
  ASSUME TypeOK, NEW q \in Request, NEW content \in SUBSET Row, Resolve(q, content)
  PROVE  /\ scan' \in [by : Request \cup {Nobody, Grid}, left : SUBSET File, got : [File -> SUBSET Row], next : Label]
         /\ req' \in [Request -> {"idle", "resolving", "given", "live", "refused", "failed"}]
         /\ from' \in [Request -> File] /\ plates' \in [Request -> SUBSET Row]
<1>1. General \in Label /\ scan.next \in File /\ Nothing \in [File -> SUBSET Row]
  BY CorpusAssumption DEF TypeOK, File, Nothing
<1>2. Idle \in [by : Request \cup {Nobody, Grid}, left : SUBSET File, got : [File -> SUBSET Row], next : Label]
  BY <1>1 DEF Idle
<1>3. CASE Give(q, scan.next, content)
  BY <1>1, <1>2, <1>3 DEF Give, TypeOK
<1>4. CASE Answer(q, "live") \/ Answer(q, "refused")
  BY <1>2, <1>4 DEF Answer, TypeOK
<1>5. CASE scan' = [scan EXCEPT !.next = General] /\ UNCHANGED requests
  BY <1>1, <1>5 DEF requests, TypeOK
<1> QED
  BY <1>3, <1>4, <1>5 DEF Resolve

(* Type correctness, one lemma for each of the four processes.             *)
LEMMA EvaluateTypeOK ==
  ASSUME TypeOK, Evaluate \/ Review
  PROVE  TypeOK'
<1> USE DEF review, service, requests, history
<1>1. CASE StartEval \/ WriteOutputs \/ EvalDies
  BY <1>1 DEF StartEval, WriteOutputs, EvalDies, TypeOK
<1>2. CASE SubmitAndPoll
  <2>1. PICK r \in left :
          /\ left' = left \ {r}
          /\ \/ UNCHANGED rows
             \/ \E with \in Uploads : rows' = rows \cup {[run |-> r, index |-> i, url |-> i \in with] : i \in Index}
    BY <1>2 DEF SubmitAndPoll
  <2>2. rows' \subseteq {w \in Row : w.run \in Run}
    <3>1. \A with : \A i \in Index : [run |-> r, index |-> i, url |-> i \in with] \in {w \in Row : w.run \in Run}
      <4> TAKE with
      <4> TAKE i \in Index
      <4>1. (i \in with) \in BOOLEAN
        OBVIOUS
      <4> DEFINE url == i \in with
      <4>2. url \in BOOLEAN
        BY <4>1
      <4> HIDE DEF url
      <4>3. [run |-> r, index |-> i, url |-> url] \in {w \in Row : w.run \in Run}
        BY <2>1, <4>2 DEF TypeOK, Row
      <4> QED
        BY <4>3 DEF url
    <3> DEFINE Made(with) == {[run |-> r, index |-> i, url |-> i \in with] : i \in Index}
    <3>2. \A with : Made(with) \subseteq {w \in Row : w.run \in Run}
      <4> SUFFICES ASSUME NEW with, NEW w \in Made(with) PROVE w \in {v \in Row : v.run \in Run}
        OBVIOUS
      <4>1. PICK i \in Index : w = [run |-> r, index |-> i, url |-> i \in with]
        BY Zenon
      <4> QED
        BY <3>1, <4>1, Zenon
    <3>3. rows' = rows \/ \E with \in Uploads : rows' = rows \cup Made(with)
      BY <2>1, Zenon
    <3> HIDE DEF Made
    <3> QED
      BY <3>2, <3>3 DEF TypeOK
  <2> QED
    BY <1>2, <2>1, <2>2 DEF SubmitAndPoll, TypeOK
<1>3. CASE Review
  BY <1>3 DEF Review, Save, SaveDies, WriteKeyed, script, TypeOK
<1> QED
  BY <1>1, <1>2, <1>3 DEF Evaluate

LEMMA ImportTypeOK ==
  ASSUME TypeOK, ImportStep
  PROVE  TypeOK'
<1> USE DEF script, review, service, requests, history
<1>1. CASE \E layout \in Layouts, source \in Sources, slugs \in {Slug} \cup {{s} : s \in Slug},
             indices \in {Index} \cup {{i} : i \in Index} : Import(layout, source, slugs, indices)
  <2>1. PICK layout \in Layouts, source \in Sources, slugs \in {Slug} \cup {{s} : s \in Slug},
            indices \in {Index} \cup {{i} : i \in Index} : Import(layout, source, slugs, indices)
    BY <1>1
  <2>2. imports' \in 0..MaxImports
    <3>1. imports < MaxImports /\ imports' = imports + 1
      BY <2>1 DEF Import
    <3>2. imports \in 0..MaxImports
      BY DEF TypeOK
    <3> QED
      BY <3>1, <3>2, CorpusAssumption
  <2>3. UNCHANGED <<script, review, corpus, service, requests, history>>
    BY <2>1 DEF Import
  <2> QED
    BY <2>1, <2>2, <2>3, ImportedJob DEF TypeOK
<1>2. CASE \E f \in File : OpenFile(f)
  <2>1. PICK f \in File : OpenFile(f)
    BY <1>2
  <2>2. job' = [job EXCEPT !.stage = "open", !.open = f] /\ corpus' = [corpus EXCEPT ![f] = {}]
        /\ changed' = changed \cup {f}
        /\ UNCHANGED <<script, review, imports, service, requests, read, unreviewed, approved>>
    BY <2>1 DEF OpenFile, Put
  <2>3. job' \in [stage : {"none", "writing", "open"}, reviews : {"missing", "read"},
                  todo : SUBSET File, docs : [File -> SUBSET Row], open : File]
    BY <2>2 DEF TypeOK
  <2>4. corpus' \in [File -> SUBSET Row]
    BY <2>2 DEF TypeOK
  <2> QED
    BY <2>2, <2>3, <2>4 DEF TypeOK
<1>3. CASE FillFile
  BY <1>3 DEF FillFile, Put, TypeOK
<1>4. CASE EndImport \/ ImportDies
  <2>1. NoJob \in [stage : {"none", "writing", "open"}, reviews : {"missing", "read"},
                   todo : SUBSET File, docs : [File -> SUBSET Row], open : File]
    BY CorpusAssumption DEF NoJob, Sources, File, Nothing
  <2> QED
    BY <1>4, <2>1 DEF EndImport, ImportDies, TypeOK
<1> QED
  BY <1>1, <1>2, <1>3, <1>4 DEF ImportStep

LEMMA ServiceTypeOK ==
  ASSUME TypeOK, GridStep \/ RequestStep \/ Restart
  PROVE  TypeOK'
<1> USE DEF script, review, requests, history
<1>1. Nothing \in [File -> SUBSET Row] /\ Idle \in [by : Request \cup {Nobody, Grid}, left : SUBSET File, got : [File -> SUBSET Row], next : Label]
  BY CorpusAssumption DEF Nothing, Idle
<1>2. CASE OpenGrid
  BY <1>1, <1>2, CorpusAssumption DEF OpenGrid, ClearCaches, TypeOK, File
<1>3. CASE \E l \in Label : ReadForGrid(l)
  <2>1. PICK l \in Label : ReadForGrid(l)
    BY <1>3
  <2>2. Load(corpus[l]) \in SUBSET Row /\ Got(l) \in [File -> SUBSET Row]
    BY Loaded DEF File
  <2>3. cache' \in [Key -> SUBSET SUBSET Row] /\ read' \subseteq Key /\ shown' \subseteq [File -> SUBSET Row]
    <3>1. <<l, "1.0">> \in Key /\ Keep(<<l, "1.0">>)
      BY <2>1, CorpusAssumption DEF Key, ReadForGrid
    <3> QED
      BY <2>1, <2>2, <3>1, KeptOrGone DEF ReadForGrid
  <2>4. scan' \in [by : Request \cup {Nobody, Grid}, left : SUBSET File, got : [File -> SUBSET Row], next : Label]
    BY <1>1, <2>1, <2>2 DEF ReadForGrid, TypeOK
  <2> QED
    BY <2>1, <2>3, <2>4 DEF ReadForGrid, TypeOK
<1>4. CASE \E s \in Slug : ReadForIndex(s)
  <2>1. PICK s \in Slug : ReadForIndex(s)
    BY <1>4
  <2>2. Got(s) \in [File -> SUBSET Row]
    BY Loaded DEF File
  <2> QED
    BY <2>1, <2>2 DEF ReadForIndex, TypeOK
<1>5. ASSUME NEW q \in Request, Ask(q) \/ ResolveBySlug(q) \/ ReadForRequest(q) \/ ResolveByLabel(q) \/ InsertRefused(q)
      PROVE  TypeOK'
  <2>2. CASE Ask(q)
    BY <1>1, <2>2, CorpusAssumption DEF Ask, TypeOK, File
  <2>3. CASE ResolveBySlug(q)
    <3>1. PICK s \in Matched(q), entries \in index : Give(q, s, entries[s])
      BY <2>3 DEF ResolveBySlug
    <3>2. s \in File /\ entries[s] \in SUBSET Row
      BY MatchedIsOfSlug DEF TypeOK, File
    <3> QED
      BY <1>1, <2>3, <3>1, <3>2 DEF ResolveBySlug, Give, TypeOK
  <2>4. CASE ReadForRequest(q)
    <3>1. PICK k : k = <<scan.next, KeyVersion(q)>>
      OBVIOUS
    <3>2. k \in Key /\ Keep(k) /\ Resolve(q, FileOf(k))
          /\ UNCHANGED <<script, review, job, imports, corpus, index, shown, changed, unreviewed, approved>>
      BY <2>4, <3>1, NextKey DEF ReadForRequest
    <3>3. cache' \in [Key -> SUBSET SUBSET Row] /\ read' \subseteq Key
      BY <3>2, KeptOrGone
    <3> QED
      BY <3>2, <3>3, KeyIsRead, ResolveTypeOK DEF TypeOK
  <2>5. CASE ResolveByLabel(q)
    <3>1. PICK k : k = <<scan.next, KeyVersion(q)>>
      OBVIOUS
    <3>2. PICK content \in cache[k] : Resolve(q, content)
      BY <2>5, <3>1 DEF ResolveByLabel
    <3>3. content \in SUBSET Row
      BY <3>1, <3>2, NextKey DEF TypeOK
    <3>4. UNCHANGED <<script, review, job, imports, corpus, cache, index, shown, history>>
      BY <2>5 DEF ResolveByLabel
    <3> QED
      BY <3>2, <3>3, <3>4, ResolveTypeOK DEF TypeOK
  <2>6. CASE InsertRefused(q)
    BY <2>6, CorpusAssumption DEF InsertRefused, service, File, TypeOK
  <2> QED
    BY <1>5, <2>2, <2>3, <2>4, <2>5, <2>6
<1>6. CASE Restart
  BY <1>1, <1>6, CorpusAssumption DEF Restart, ClearCaches, File, TypeOK
<1> QED
  BY <1>2, <1>3, <1>4, <1>5, <1>6 DEF GridStep, RequestStep

(* The state of the corpus is well formed.                                 *)
THEOREM TypeCorrect == Spec => []TypeOK
<1>1. TypeOK /\ [Next]_vars => TypeOK'
  <2> SUFFICES ASSUME TypeOK, [Next]_vars PROVE TypeOK'
    OBVIOUS
  <2>1. CASE UNCHANGED vars
    BY <2>1 DEF vars, script, review, service, requests, history, TypeOK
  <2> QED
    BY <2>1, EvaluateTypeOK, ImportTypeOK, ServiceTypeOK DEF Next
<1> QED
  BY <1>1, InitTypeOK, PTL DEF Spec

-----------------------------------------------------------------------------
LEMMA InitCorpusInv == Init => CorpusInv
<1> SUFFICES ASSUME Init PROVE CorpusInv
  OBVIOUS
<1>1. \A f \in File : \A w \in corpus[f] : w.run = Seed
  BY DEF Init, Seeded
<1>2. \A f \in File : Servable(Nothing[f])
  BY DEF Servable, Nothing
<1>3. JobHolds /\ ReadIsServable /\ IndexIsBuilt /\ GridIsCached
  BY <1>2, CorpusAssumption DEF Init, NoJob, Idle, JobHolds, ReadIsServable, IndexIsBuilt, GridIsCached
<1>4. CacheHolds
  BY FS_EmptySet DEF Init, CacheHolds, Cached
<1> QED
  BY <1>1, <1>3, <1>4 DEF Init, CorpusInv, GivenTriadIsWhole, CachesAreRefreshed, OnlyApprovedImages

(* The evaluation and the verdicts: what was approved stays so.            *)
LEMMA EvaluateInv ==
  ASSUME TypeOK, CorpusInv, Evaluate \/ Review
  PROVE  CorpusInv'
<1>1. UNCHANGED <<job, imports, corpus, service, requests, changed, read, unreviewed>>
  BY DEF Evaluate, Review, StartEval, SubmitAndPoll, WriteOutputs, EvalDies, Save, SaveDies, WriteKeyed, history
<1>2. approved \subseteq approved' /\ \A sheet \in keyed' : sheet \subseteq approved'
  BY DEF Evaluate, Review, StartEval, SubmitAndPoll, WriteOutputs, EvalDies, Save, SaveDies, WriteKeyed,
         history, review, CorpusInv
<1>3. JobHolds'
  BY <1>1, <1>2 DEF CorpusInv, JobHolds, TypeOK
<1>4. OnlyApprovedImages'
  BY <1>1, <1>2 DEF CorpusInv, OnlyApprovedImages
<1>5. (ReadIsServable /\ IndexIsBuilt /\ GridIsCached /\ GivenTriadIsWhole /\ CachesAreRefreshed)'
  BY <1>1 DEF CorpusInv, ReadIsServable, IndexIsBuilt, GridIsCached, GivenTriadIsWhole, CachesAreRefreshed,
              FileOf, Roomy, service, requests
<1>6. CacheHolds'
  BY <1>1 DEF CorpusInv, CacheHolds, Cached, Roomy, service
<1> QED
  BY <1>2, <1>3, <1>4, <1>5, <1>6 DEF CorpusInv

(* Whatever writes a file puts it into changed.                            *)
LEMMA PutFollows ==
  ASSUME TypeOK, IndexIsBuilt, CachesAreRefreshed, NEW f \in File, NEW content,
         Put(f, content), UNCHANGED service
  PROVE  IndexIsBuilt' /\ CachesAreRefreshed'
<1>1. \A g \in File \ changed' : g \notin changed /\ corpus'[g] = corpus[g]
  BY DEF Put, TypeOK
<1>2. Label \subseteq File /\ Slug \subseteq File /\ changed \subseteq changed'
  BY DEF File, Put
<1>3. IndexIsBuilt'
  BY <1>1, <1>2 DEF IndexIsBuilt, service
<1>4. CachesAreRefreshed'
  <2>1. \A k \in Key : k[1] \in File
    BY <1>2 DEF Key
  <2> QED
    BY <1>1, <1>2, <2>1 DEF CachesAreRefreshed, FileOf, service
<1> QED
  BY <1>3, <1>4

LEMMA ImportInv ==
  ASSUME TypeOK, CorpusInv, ImportStep
  PROVE  CorpusInv'
<1>1. UNCHANGED <<script, review, service, requests, read, approved>>
  BY DEF ImportStep, Import, OpenFile, FillFile, EndImport, ImportDies, history
<1>2. (ReadIsServable /\ CacheHolds /\ GridIsCached /\ GivenTriadIsWhole)' /\ (\A sheet \in keyed' : sheet \subseteq approved')
  BY <1>1 DEF CorpusInv, ReadIsServable, CacheHolds, Cached, Roomy, GridIsCached, GivenTriadIsWhole, service, requests, review
<1>3. CASE \E layout \in Layouts, source \in Sources, slugs \in {Slug} \cup {{s} : s \in Slug},
             indices \in {Index} \cup {{i} : i \in Index} : Import(layout, source, slugs, indices)
  <2>1. PICK layout \in Layouts, source \in Sources, slugs \in {Slug} \cup {{s} : s \in Slug},
            indices \in {Index} \cup {{i} : i \in Index} : Import(layout, source, slugs, indices)
    BY <1>3
  <2>2. source # "missing" => Taken(source) \subseteq approved
    BY DEF Taken, Sources, CorpusInv
  <2>3. JobHolds'
    BY <1>1, <2>1, <2>2, ImportedJob DEF JobHolds
  <2>4. UNCHANGED <<corpus, history>>
    BY <2>1 DEF Import
  <2>5. (IndexIsBuilt /\ CachesAreRefreshed /\ OnlyApprovedImages)'
    BY <1>1, <2>4 DEF CorpusInv, IndexIsBuilt, CachesAreRefreshed, FileOf, OnlyApprovedImages, service, history
  <2> QED
    BY <1>2, <2>3, <2>5 DEF CorpusInv
<1>4. CASE \E f \in File : OpenFile(f)
  <2>1. PICK f \in File : OpenFile(f)
    BY <1>4
  <2>2. job' = [job EXCEPT !.stage = "open", !.open = f] /\ Put(f, {}) /\ job.stage = "writing" /\ f \in job.todo
        /\ unreviewed' = unreviewed
    BY <2>1 DEF OpenFile
  <2>3. JobHolds'
    BY <1>1, <2>2 DEF CorpusInv, JobHolds, TypeOK
  <2>4. OnlyApprovedImages'
    BY <1>1, <2>2 DEF CorpusInv, OnlyApprovedImages, Put, TypeOK
  <2> QED
    BY <1>1, <1>2, <2>2, <2>3, <2>4, PutFollows DEF CorpusInv
<1>5. CASE FillFile
  <2>1. job' = [job EXCEPT !.stage = "writing", !.todo = @ \ {job.open}] /\ Put(job.open, job.docs[job.open])
        /\ job.stage = "open" /\ unreviewed' = (unreviewed \/ job.reviews = "missing")
    BY <1>5 DEF FillFile
  <2>2. JobHolds'
    BY <1>1, <2>1 DEF CorpusInv, JobHolds, TypeOK
  <2>3. job.open \in File /\ (job.reviews # "missing" => job.docs[job.open] \subseteq approved)
    BY <2>1 DEF CorpusInv, JobHolds, TypeOK
  <2>4. OnlyApprovedImages'
    <3>1. ~unreviewed' => ~unreviewed /\ job.reviews # "missing"
      BY <2>1, Zenon
    <3>2. \A g \in File : corpus'[g] = corpus[g] \/ (g = job.open /\ corpus'[g] = job.docs[g])
      BY <2>1, <2>3 DEF Put, TypeOK
    <3> QED
      BY <1>1, <2>3, <3>1, <3>2 DEF CorpusInv, OnlyApprovedImages
  <2> QED
    BY <1>1, <1>2, <2>1, <2>2, <2>3, <2>4, PutFollows DEF CorpusInv
<1>6. CASE EndImport \/ ImportDies
  <2>1. job'.stage = "none" /\ UNCHANGED <<corpus, history>>
    BY <1>6 DEF EndImport, ImportDies, NoJob
  <2>2. JobHolds'
    BY <2>1 DEF JobHolds
  <2>3. (IndexIsBuilt /\ CachesAreRefreshed /\ OnlyApprovedImages)'
    BY <1>1, <2>1 DEF CorpusInv, IndexIsBuilt, CachesAreRefreshed, FileOf, OnlyApprovedImages, service, history
  <2> QED
    BY <1>2, <2>2, <2>3 DEF CorpusInv
<1> QED
  BY <1>3, <1>4, <1>5, <1>6 DEF ImportStep

(* The service's handlers write no file.                                   *)
LEMMA ReadersWriteNothing ==
  ASSUME TypeOK, CorpusInv, UNCHANGED <<review, job, corpus, unreviewed, approved>>
  PROVE  /\ JobHolds' /\ OnlyApprovedImages'
         /\ \A sheet \in keyed' : sheet \subseteq approved'
BY DEF CorpusInv, JobHolds, OnlyApprovedImages, review

(* A miss leaves in the cache what is in the files, but for those written  *)
(* since the caches were cleared.                                          *)
LEMMA KeepRefreshes ==
  ASSUME TypeOK, ReadIsServable, CachesAreRefreshed, NEW k \in Key, Keep(k), UNCHANGED <<corpus, changed>>
  PROVE  /\ \A x \in Key : \A content \in cache'[x] : Servable(content)
         /\ \A x \in Key : x[1] \notin changed' => cache'[x] \subseteq {FileOf(x)'}
<1>1. \A x \in Key : FileOf(x)' = FileOf(x)
  BY DEF FileOf
<1>2. \A x \in Key : \/ cache'[x] = {FileOf(k)} /\ x = k
                    \/ cache'[x] \subseteq cache[x]
  BY KeptOrGone
<1> QED
  BY <1>1, <1>2, KeyIsRead DEF ReadIsServable, CachesAreRefreshed

LEMMA GridInv ==
  ASSUME TypeOK, CorpusInv, GridStep \/ Restart
  PROVE  CorpusInv'
<1>1. UNCHANGED <<review, job, corpus, unreviewed, approved>>
  BY DEF GridStep, OpenGrid, ReadForGrid, Restart, history
<1>2. GivenTriadIsWhole'
  BY DEF GridStep, OpenGrid, ReadForGrid, Restart, requests, CorpusInv, GivenTriadIsWhole, TypeOK
<1>3. \A f \in File : Servable(Nothing[f])
  BY DEF Servable, Nothing
<1>4. Label \subseteq File /\ Label # {} /\ (\A l \in Label : <<l, "1.0">> \in Key) /\ Grid \notin Request /\ Nobody \notin Request /\ Nobody # Grid
  BY CorpusAssumption DEF File, Key
<1>5. CASE OpenGrid \/ Restart
  <2>1. ClearCaches /\ shown' = {} /\ scan'.got = Nothing /\ scan'.by \in {Grid, Nobody}
        /\ (scan'.by = Grid => scan'.left = Label)
    <3>1. CASE OpenGrid
      <4>1. scan'.by = Grid /\ scan'.left = Label /\ scan'.got = Nothing
        BY <3>1 DEF OpenGrid, Idle
      <4> QED
        BY <3>1, <4>1 DEF OpenGrid
    <3>2. CASE Restart
      BY <1>4, <3>2 DEF Restart, Idle
    <3> QED
      BY <1>5, <3>1, <3>2
  <2>2. ReadIsServable' /\ CachesAreRefreshed'
    BY <1>3, <2>1 DEF ClearCaches, ReadIsServable, CachesAreRefreshed
  <2>3. IndexIsBuilt' /\ GridIsCached' /\ CacheHolds'
    BY <1>4, <2>1, FS_EmptySet DEF IndexIsBuilt, GridIsCached, CacheHolds, Cached, ClearCaches
  <2> QED
    BY <1>1, <1>2, <2>2, <2>3, ReadersWriteNothing DEF CorpusInv
<1>6. CASE \E l \in Label : ReadForGrid(l)
  <2>1. PICK l \in Label : ReadForGrid(l)
    BY <1>6
  <2>2. /\ scan.by = Grid /\ l \in scan.left /\ Keep(<<l, "1.0">>)
        /\ scan' = IF scan.left = {l} THEN Idle ELSE [scan EXCEPT !.left = @ \ {l}, !.got = Got(l)]
        /\ shown' = IF scan.left = {l} THEN {Got(l)} ELSE {}
        /\ UNCHANGED <<corpus, index, changed>>
    BY <2>1 DEF ReadForGrid
  <2>3. <<l, "1.0">> \in Key /\ FileOf(<<l, "1.0">>) = Load(corpus[l]) /\ Servable(Load(corpus[l]))
        /\ <<l, "1.0">> \notin read
    BY <1>4, <2>2, CorpusAssumption, LoadIsServable DEF FileOf, CorpusInv, GridIsCached
  <2>4. /\ CacheHolds' /\ read' = read \cup {<<l, "1.0">>} /\ cache'[<<l, "1.0">>] = {Load(corpus[l])}
        /\ Roomy' => Roomy /\ \A x \in Key \ {<<l, "1.0">>} : cache'[x] = cache[x]
    BY <2>2, <2>3, RoomyKeeps, KeptOrGone DEF CorpusInv, Keep
  <2>5. Got(l)[l] = Load(corpus[l]) /\ (\A f \in File \ {l} : Got(l)[f] = scan.got[f])
    BY <1>4, <2>1 DEF TypeOK, Got
  <2>6. scan'.got \in {Nothing, Got(l)} /\ (scan'.by = Grid => scan'.got = Got(l) /\ scan'.left = scan.left \ {l} /\ scan.left # {l})
        /\ scan'.by \in {Grid, Nobody}
    BY <1>4, <2>2 DEF Idle, TypeOK
  <2>7. ReadIsServable' /\ CachesAreRefreshed'
    <3>1. \A f \in File : Servable(Got(l)[f])
      BY <2>3, <2>5 DEF CorpusInv, ReadIsServable
    <3>2. \A f \in File : Servable(scan'.got[f])
      BY <1>3, <2>6, <3>1
    <3> QED
      BY <2>2, <2>3, <3>2, KeepRefreshes DEF CorpusInv, ReadIsServable, CachesAreRefreshed
  <2>8. IndexIsBuilt'
    BY <1>4, <2>6 DEF IndexIsBuilt
  <2>9. GridIsCached'
    <3>1. \A k \in Label \ {l} : <<k, "1.0">> \in Key \ {<<l, "1.0">>}
      BY <1>4
    <3>2. Roomy' => \A k \in Label \ (scan.left \ {l}) : cache'[<<k, "1.0">>] = {Got(l)[k]}
      BY <1>4, <2>2, <2>4, <2>5, <3>1 DEF CorpusInv, GridIsCached
    <3>3. \A k \in scan.left \ {l} : <<k, "1.0">> \notin read'
      BY <2>2, <2>4, <3>1 DEF CorpusInv, GridIsCached
    <3>4. scan'.by = Grid => scan'.left # {} /\ scan'.left \subseteq Label /\ shown' = {}
      BY <1>4, <2>2, <2>6 DEF CorpusInv, GridIsCached
    <3>5. \A plain \in shown' : scan.left = {l} /\ plain = Got(l)
      BY <2>2
    <3> QED
      BY <2>6, <3>2, <3>3, <3>4, <3>5 DEF GridIsCached
  <2> QED
    BY <1>1, <1>2, <2>4, <2>7, <2>8, <2>9, ReadersWriteNothing DEF CorpusInv
<1> QED
  BY <1>5, <1>6 DEF GridStep

LEMMA ResolveScans ==
  ASSUME TypeOK, NEW q \in Request, NEW content, scan.by = q, scan.left = {}, Resolve(q, content)
  PROVE  scan'.got \in {scan.got, Nothing} /\ scan'.left = {} /\ scan'.by \in {q, Nobody}
BY DEF Resolve, Give, Answer, Idle, TypeOK

LEMMA ResolvedIsWhole ==
  ASSUME TypeOK, GivenTriadIsWhole, NEW q \in Request, NEW content, Servable(content), Resolve(q, content)
  PROVE  GivenTriadIsWhole'
BY DEF Resolve, Give, Answer, Servable, GivenTriadIsWhole, requests, TypeOK

LEMMA RequestInv ==
  ASSUME TypeOK, CorpusInv, RequestStep
  PROVE  CorpusInv'
<1>1. UNCHANGED <<review, job, corpus, changed, unreviewed, approved, shown>>
  BY DEF RequestStep, ReadForIndex, Ask, ResolveBySlug, ReadForRequest, ResolveByLabel, InsertRefused, history, service
<1>2. Label \subseteq File /\ Slug \subseteq File /\ Label \cap Slug = {} /\ Grid \notin Request /\ Nobody \notin Request /\ Nobody # Grid
  BY CorpusAssumption DEF File
<1>3. \A f \in File : Servable(Nothing[f])
  BY DEF Servable, Nothing
<1>4. CASE \E s \in Slug : ReadForIndex(s)
  <2>1. PICK s \in Slug : ReadForIndex(s)
    BY <1>4
  <2>2. /\ scan.by \in Request /\ s \in scan.left
        /\ scan' = [scan EXCEPT !.left = @ \ {s}, !.got = Got(s)]
        /\ index' = IF scan.left = {s} THEN {Got(s)} ELSE index
        /\ UNCHANGED <<cache, read, shown, requests>>
    BY <2>1 DEF ReadForIndex, history
  <2>3. Got(s)[s] = Load(corpus[s]) /\ (\A f \in File \ {s} : Got(s)[f] = scan.got[f]) /\ Servable(Load(corpus[s]))
    BY <1>2, LoadIsServable DEF TypeOK, Got
  <2>4. \A f \in File : Servable(Got(s)[f])
    BY <2>3 DEF CorpusInv, ReadIsServable
  <2>5. scan'.by = scan.by /\ scan'.left = scan.left \ {s} /\ scan'.got = Got(s)
    BY <2>2 DEF TypeOK
  <2>6. ReadIsServable'
    BY <2>2, <2>4, <2>5 DEF CorpusInv, ReadIsServable
  <2>7. \A f \in Slug \ ((scan.left \ {s}) \cup changed) : Got(s)[f] = Load(corpus[f])
    BY <1>2, <2>2, <2>3 DEF CorpusInv, IndexIsBuilt
  <2>8. IndexIsBuilt'
    BY <1>1, <2>2, <2>5, <2>7 DEF CorpusInv, IndexIsBuilt
  <2>9. CachesAreRefreshed'
    BY <1>1, <2>2, <2>7 DEF CorpusInv, CachesAreRefreshed, FileOf
  <2>10. (CacheHolds /\ GridIsCached /\ GivenTriadIsWhole)'
    BY <1>2, <2>2, <2>5 DEF CorpusInv, CacheHolds, Cached, Roomy, GridIsCached, GivenTriadIsWhole, requests
  <2> QED
    BY <1>1, <2>6, <2>8, <2>9, <2>10, ReadersWriteNothing DEF CorpusInv
<1>5. ASSUME NEW q \in Request, ReadForRequest(q)
      PROVE  CorpusInv'
  <2>1. PICK k : k = <<scan.next, KeyVersion(q)>>
    OBVIOUS
  <2>2. k \in Key /\ scan.next \in Label /\ scan.by = q /\ k \notin Cached /\ Keep(k) /\ Resolve(q, FileOf(k))
        /\ UNCHANGED <<corpus, index, shown, changed>>
    BY <1>5, <2>1, NextKey DEF ReadForRequest, Looks
  <2>3. (\A f \in File : Servable(scan'.got[f])) /\ scan'.by # Grid /\ (scan'.by \in Request => scan'.left = {})
    BY <1>2, <1>3, <1>5, <2>2, ResolveScans DEF CorpusInv, ReadIsServable, ReadForRequest, Looks
  <2>4. ReadIsServable' /\ CachesAreRefreshed'
    BY <2>2, <2>3, KeepRefreshes DEF CorpusInv, ReadIsServable, CachesAreRefreshed
  <2>5. CacheHolds' /\ (Roomy' => Roomy /\ \A x \in Key \ {k} : cache'[x] = cache[x])
    BY <2>2, RoomyKeeps, KeepsAgain DEF CorpusInv
  <2>6. GridIsCached'
    <3> SUFFICES ASSUME Roomy', NEW plain \in shown', NEW l \in Label PROVE cache'[<<l, "1.0">>] = {plain[l]}
      BY <2>3 DEF GridIsCached
    <3>1. cache[<<l, "1.0">>] = {plain[l]} /\ <<l, "1.0">> \in Key
      BY <2>2, <2>5, CorpusAssumption DEF CorpusInv, GridIsCached, Key
    <3>2. <<l, "1.0">> \in Cached
      BY <3>1 DEF Cached
    <3> QED
      BY <2>2, <2>5, <3>1, <3>2
  <2>7. IndexIsBuilt' /\ GivenTriadIsWhole'
    BY <2>2, <2>3, KeyIsRead, ResolvedIsWhole DEF IndexIsBuilt, CorpusInv
  <2> QED
    BY <1>1, <2>4, <2>5, <2>6, <2>7, ReadersWriteNothing DEF CorpusInv
<1>6. ASSUME NEW q \in Request, Ask(q) \/ ResolveBySlug(q) \/ ResolveByLabel(q) \/ InsertRefused(q)
      PROVE  CorpusInv'
  <2>1. UNCHANGED <<cache, index, read>>
    BY <1>6 DEF Ask, ResolveBySlug, ResolveByLabel, InsertRefused, service, history
  <2>2. scan'.got \in {scan.got, Nothing} /\ scan'.left \in {scan.left, {}, Slug}
        /\ (scan'.by \in Request /\ scan'.left # {} => scan'.left = Slug \/ UNCHANGED scan)
        /\ (scan'.by = Grid => UNCHANGED scan)
    <3>1. CASE Ask(q) \/ ResolveBySlug(q) \/ InsertRefused(q)
      BY <1>2, <3>1 DEF Ask, ResolveBySlug, InsertRefused, Give, Idle, service
    <3>2. CASE ResolveByLabel(q)
      BY <1>2, <3>2, ResolveScans DEF ResolveByLabel, Looks
    <3> QED
      BY <1>6, <3>1, <3>2
  <2>3. (ReadIsServable /\ IndexIsBuilt /\ CacheHolds /\ GridIsCached /\ CachesAreRefreshed)'
    <3>1. ReadIsServable' /\ CacheHolds' /\ CachesAreRefreshed'
      BY <1>1, <1>3, <2>1, <2>2 DEF CorpusInv, ReadIsServable, CacheHolds, Cached, Roomy, CachesAreRefreshed, FileOf
    <3>2. IndexIsBuilt' /\ GridIsCached'
      BY <1>1, <2>1, <2>2 DEF CorpusInv, IndexIsBuilt, GridIsCached, Roomy
    <3> QED
      BY <3>1, <3>2
  <2>4. GivenTriadIsWhole'
    <3>1. CASE Ask(q) \/ InsertRefused(q)
      BY <3>1 DEF Ask, InsertRefused, CorpusInv, GivenTriadIsWhole, TypeOK
    <3>2. CASE ResolveBySlug(q)
      <4>1. PICK s \in Matched(q), entries \in index : Give(q, s, entries[s])
        BY <3>2 DEF ResolveBySlug
      <4>2. Whole(entries[s])
        BY <1>2, MatchedIsOfSlug DEF CorpusInv, ReadIsServable, Servable
      <4> QED
        BY <4>1, <4>2 DEF Give, CorpusInv, GivenTriadIsWhole, TypeOK
    <3>3. CASE ResolveByLabel(q)
      <4>1. PICK content \in cache[<<scan.next, KeyVersion(q)>>] : Resolve(q, content)
        BY <3>3 DEF ResolveByLabel
      <4>2. Servable(content)
        BY <4>1, NextKey DEF CorpusInv, ReadIsServable
      <4> QED
        BY <4>1, <4>2, ResolvedIsWhole DEF CorpusInv
    <3> QED
      BY <1>6, <3>1, <3>2, <3>3
  <2> QED
    BY <1>1, <2>3, <2>4, ReadersWriteNothing DEF CorpusInv
<1> QED
  BY <1>4, <1>5, <1>6 DEF RequestStep

(* The invariant of the files, the caches and the jobs.                    *)
THEOREM CorpusCorrect == Spec => []CorpusInv
<1>1. TypeOK /\ CorpusInv /\ [Next]_vars => CorpusInv'
  <2> SUFFICES ASSUME TypeOK, CorpusInv, [Next]_vars PROVE CorpusInv'
    OBVIOUS
  <2>1. CASE UNCHANGED vars
    BY <2>1 DEF vars, review, service, requests, history, CorpusInv, JobHolds, ReadIsServable, IndexIsBuilt,
                GridIsCached, GivenTriadIsWhole, CachesAreRefreshed, OnlyApprovedImages, CacheHolds, Cached, Roomy, FileOf
  <2> QED
    BY <2>1, EvaluateInv, ImportInv, GridInv, RequestInv DEF Next
<1> QED
  BY <1>1, InitCorpusInv, TypeCorrect, PTL DEF Spec

-----------------------------------------------------------------------------
(* What the run checks. *)

(* GivenTriadIsWhole: no request is given a part of a triad, whatever the  *)
(* import was writing when the file was read.                              *)
THEOREM GivenTriadsAreWhole == Spec => []GivenTriadIsWhole
<1>1. CorpusInv => GivenTriadIsWhole
  BY DEF CorpusInv
<1> QED
  BY <1>1, CorpusCorrect, PTL

(* CachesAreRefreshed: clearing them brings what was imported into service.*)
THEOREM CachesFollowTheFiles == Spec => []CachesAreRefreshed
<1>1. CorpusInv => CachesAreRefreshed
  BY DEF CorpusInv
<1> QED
  BY <1>1, CorpusCorrect, PTL

(* OnlyApprovedImages, for any number of imports and changed verdicts.     *)
THEOREM ImportedImagesAreApproved == Spec => []OnlyApprovedImages
<1>1. CorpusInv => OnlyApprovedImages
  BY DEF CorpusInv
<1> QED
  BY <1>1, CorpusCorrect, PTL

(* CompleteStaysComplete: a complete file is only opened for another one.  *)
THEOREM CompleteFilesStayComplete == Spec => CompleteStaysComplete
<1>1. TypeOK /\ CorpusInv /\ [Next]_vars =>
        [\A s \in Slug : Whole(corpus[s]) /\ ~Whole(corpus'[s]) =>
           job'.stage = "open" /\ job'.open = s /\ Whole(job'.docs[s])]_vars
  <2> SUFFICES ASSUME TypeOK, CorpusInv, Next, NEW s \in Slug, Whole(corpus[s]), ~Whole(corpus'[s])
               PROVE  job'.stage = "open" /\ job'.open = s /\ Whole(job'.docs[s])
    BY DEF vars
  <2>1. s \in File
    BY DEF File
  <2>2. PICK f \in File : OpenFile(f) \/ (FillFile /\ f = job.open)
    BY DEF Next, Evaluate, Review, ImportStep, GridStep, RequestStep, StartEval, SubmitAndPoll, WriteOutputs,
           EvalDies, Save, SaveDies, WriteKeyed, Import, FillFile, EndImport, ImportDies, OpenGrid, ReadForGrid,
           ReadForIndex, Ask, ResolveBySlug, ReadForRequest, ResolveByLabel, InsertRefused, Restart, TypeOK
  <2>3. \A g \in File \ {f} : corpus'[g] = corpus[g]
    BY <2>2 DEF OpenFile, FillFile, Put, TypeOK
  <2>4. f = s
    BY <2>1, <2>3
  <2>5. ~FillFile
    BY <2>1, <2>2, <2>4 DEF FillFile, Put, CorpusInv, JobHolds, TypeOK
  <2>6. job.stage = "writing" /\ s \in job.todo /\ job' = [job EXCEPT !.stage = "open", !.open = s]
    BY <2>2, <2>4, <2>5 DEF OpenFile
  <2> QED
    BY <2>6 DEF CorpusInv, JobHolds, TypeOK
<1> QED
  BY <1>1, CorpusCorrect, TypeCorrect, PTL DEF Spec, CompleteStaysComplete

(* GridShowsWhatIsServed: what the grid has cached answers the requests    *)
(* that look it up under the same string, while nothing made room.         *)
THEOREM GridsShowWhatIsServed == Spec => GridShowsWhatIsServed
<1>1. TypeOK /\ CorpusInv /\ [Next]_vars =>
        [\A q \in Request, plain \in shown :
           /\ req[q] = "resolving" /\ req'[q] = "given" /\ from'[q] \in Label
           /\ KeyVersion(q) = "1.0" /\ Roomy
           => plates'[q] = plain[from'[q]]]_vars
  <2> SUFFICES ASSUME TypeOK, CorpusInv, Next, NEW q \in Request, NEW plain \in shown,
                      req[q] = "resolving", req'[q] = "given", from'[q] \in Label,
                      KeyVersion(q) = "1.0", Roomy
               PROVE  plates'[q] = plain[from'[q]]
    BY DEF vars
  <2>1. PICK p \in Request : ResolveBySlug(p) \/ ReadForRequest(p) \/ ResolveByLabel(p)
    BY DEF Next, Evaluate, Review, ImportStep, GridStep, RequestStep, StartEval, SubmitAndPoll, WriteOutputs,
           EvalDies, Save, SaveDies, WriteKeyed, Import, OpenFile, FillFile, EndImport, ImportDies, OpenGrid,
           ReadForGrid, ReadForIndex, Ask, InsertRefused, Restart, requests, TypeOK
  <2>2. \A l \in Label : cache[<<l, "1.0">>] = {plain[l]} /\ <<l, "1.0">> \in Key
    BY CorpusAssumption DEF CorpusInv, GridIsCached, Key
  <2>3. CASE ResolveBySlug(p)
    <3>1. PICK s \in Matched(p), entries \in index : Give(p, s, entries[s])
      BY <2>3 DEF ResolveBySlug
    <3>2. from'[q] \in Slug
      BY <3>1, MatchedIsOfSlug DEF Give, TypeOK
    <3> QED
      BY <3>2, CorpusAssumption
  <2>4. CASE ReadForRequest(p) \/ ResolveByLabel(p)
    <3>1. PICK content :
            /\ Resolve(p, content)
            /\ \/ <<scan.next, KeyVersion(p)>> \notin Cached
               \/ content \in cache[<<scan.next, KeyVersion(p)>>]
      BY <2>4 DEF ReadForRequest, ResolveByLabel
    <3>2. p = q /\ from'[q] = scan.next /\ plates'[q] = content
      BY <3>1 DEF Resolve, Give, Answer, requests, TypeOK
    <3>3. scan.next \in Label
      BY DEF TypeOK
    <3>4. <<scan.next, "1.0">> \in Cached
      BY <2>2, <3>3 DEF Cached
    <3>5. content \in {plain[scan.next]}
      BY <2>2, <3>1, <3>2, <3>3, <3>4
    <3> QED
      BY <3>2, <3>5
  <2> QED
    BY <2>1, <2>3, <2>4
<1> QED
  BY <1>1, CorpusCorrect, TypeCorrect, PTL DEF Spec, GridShowsWhatIsServed
=============================================================================

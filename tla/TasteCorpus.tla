---------------------------- MODULE TasteCorpus ----------------------------
(***************************************************************************)
(* The taste corpus from the evaluation of a cohort to the requests that   *)
(* are answered from it: hero_cohort_eval asks for triads and writes what  *)
(* came of them to a CSV file; the inspector shows its images and keeps    *)
(* the verdicts on them; import_cohort_to_corpus writes the images that    *)
(* were judged good into corpus files; the service reads these files, and  *)
(* caches what it read until the grid page of the inspector clears it.     *)
(* The scripts are processes of their own beside the service: all they     *)
(* share is the files.                                                     *)
(***************************************************************************)
EXTENDS Naturals, FiniteSets

CONSTANTS
  Slug,      \* scenarios of the evaluation; the names of the files in v2
  Place,     \* of a file among the sorted names
  Label,     \* industry labels; the names of the files in v1
  General,   \* "general_services"
  LabelOf,   \* resolve_industry of a scenario
  Run,       \* runs of the evaluation
  SlugOf,
  Turn,      \* of a run in the evaluation: scenarios times replicates
  Index,     \* the indices of a triad
  Uploads,   \* which of its variants have a url when the poll of a run ends
  Seed,      \* the run that the files under data/ came from
  Version, Major,  \* the strings that stand in corpus_version; up to their first dot
  Request, Wants,  \* hero requests with generation_mode corpus
  CacheSize,  \* entries of the cache of _load_corpus_file
  Nobody, Grid,
  MaxImports,  \* bound
  Faults     \* "eval", "inspector", "import", "service"

File == Label \cup Slug
Key == Label \X Version
Layouts == {"v1", "v2"}  \* what an import with version 1.0 or 2.0 writes to
Sources == {"missing", "export", "json", "keyed"}

ASSUME CorpusAssumption ==
  /\ Label \cap Slug = {} /\ General \in Label
  /\ Place \in [Slug -> Nat] /\ \A s, t \in Slug : Place[s] = Place[t] => s = t
  /\ LabelOf \in [Slug -> Label] /\ SlugOf \in [Run -> Slug]
  /\ Turn \in [Run -> Nat] /\ \A r, o \in Run : Turn[r] = Turn[o] => r = o
  /\ Seed \notin Run /\ Uploads \subseteq SUBSET Index
  /\ Major \in [Version -> STRING] /\ "1.0" \in Version /\ Major["1.0"] = "1" /\ CacheSize \in Nat \ {0}
  /\ Wants \in [Request -> [version : Version, label : Label, match : [Slug -> Nat], fallback : BOOLEAN]]
  /\ {Nobody, Grid} \cap Request = {} /\ Nobody # Grid /\ MaxImports \in Nat

(* A row of the CSV file; with its image it is what a corpus file has.     *)
Row == [run : Run \cup {Seed}, index : Index, url : BOOLEAN]

VARIABLES
  \* hero_cohort_eval: the session directory is made first, its CSV file last
  evaluation, left, rows,
  \* human_review.json, and a reviews file with the keys of its good verdicts
  good, bad, keyed,
  \* import_cohort_to_corpus
  job, imports,
  \* the files; one that is missing or was cut off has no rows
  corpus,
  \* the service: the cache of _load_corpus_file with an entry for each label
  \* and version string it was called with, that of _v2_slug_index, the handler
  \* that reads files, the grid page
  cache, index, scan, shown,
  \* the requests: where they are, the file and the rows they were given
  req, from, plates,
  \* history: files written and keys read since the caches were cleared, whether
  \* there was an import without reviews, and rows that were in a reviews file
  changed, read, unreviewed, approved

script == <<evaluation, left, rows>>
review == <<good, bad, keyed>>
service == <<cache, index, scan, shown>>
requests == <<req, from, plates>>
history == <<changed, read, unreviewed, approved>>
vars == <<script, review, job, imports, corpus, service, requests, history>>

Nothing == [f \in File |-> {}]
NoJob == [stage |-> "none", reviews |-> "missing", todo |-> {}, docs |-> Nothing, open |-> General]
Idle == [by |-> Nobody, left |-> {}, got |-> Nothing, next |-> General]

Whole(content) == Cardinality(content) = Cardinality(Index) /\ {w.index : w \in content} = Index

(* Mutant: the indices are not looked at. *)
LoadAny(content) == content

(* _triad_from_dict: three variants with the three indices, or None.       *)
Load(content) == IF Whole(content) THEN content ELSE {}

Seeded == {[run |-> Seed, index |-> i, url |-> TRUE] : i \in Index}

Init ==
  /\ evaluation = "none" /\ left = Run /\ rows = {}
  /\ good = {} /\ bad = {} /\ keyed = {}
  /\ job = NoJob /\ imports = 0
  /\ \E first \in {{}, Seeded} : corpus = [f \in File |-> first]
  /\ cache = [k \in Key |-> {}] /\ index = {} /\ scan = Idle /\ shown = {}
  /\ req = [q \in Request |-> "idle"] /\ from = [q \in Request |-> General]
  /\ plates = [q \in Request |-> {}]
  /\ changed = {} /\ read = {} /\ unreviewed = FALSE /\ approved = {}

-----------------------------------------------------------------------------
(* The evaluation. *)

StartEval ==
  /\ evaluation = "none" /\ evaluation' = "running"
  /\ UNCHANGED <<left, rows, review, job, imports, corpus, service, requests, history>>

(* submit_and_poll: a POST that is refused leaves no row; otherwise there  *)
(* is a row for each index, with the url that the last poll has of it.     *)
SubmitAndPoll ==
  /\ evaluation = "running"
  /\ \E r \in left :
       /\ \A o \in left : Turn[r] <= Turn[o]
       /\ left' = left \ {r}
       /\ \/ UNCHANGED rows
          \/ \E with \in Uploads :
               rows' = rows \cup {[run |-> r, index |-> i, url |-> i \in with] : i \in Index}
  /\ UNCHANGED <<evaluation, review, job, imports, corpus, service, requests, history>>

WriteOutputs ==
  /\ evaluation = "running" /\ left = {} /\ evaluation' = "written"
  /\ UNCHANGED <<left, rows, review, job, imports, corpus, service, requests, history>>

(* An error of the client ends the script; its rows were only in memory.   *)
EvalDies ==
  /\ "eval" \in Faults
  /\ evaluation = "running" /\ evaluation' = "dead"
  /\ rows' = {} /\ left' = {}
  /\ UNCHANGED <<review, job, imports, corpus, service, requests, history>>

-----------------------------------------------------------------------------
(* The inspector's review. *)

OfSlug(s, slug) == {w \in s : SlugOf[w.run] = slug}
OfLabel(s, label) == {w \in s : LabelOf[SlugOf[w.run]] = label}
WithUrl(s) == {w \in s : w.url}

(* Of each index the last row. *)
Content(s) == {w \in s : \A v \in s : v.index = w.index => Turn[v.run] <= Turn[w.run]}

(* load_cohort_items: of each scenario and index the last row with a url.  *)
Items == IF evaluation = "written" THEN UNION {Content(OfSlug(WithUrl(rows), s)) : s \in Slug} ELSE {}

(* save_review_entry reads the file and writes it with the entry, without  *)
(* an await in between.                                                    *)
Save(w) ==
  /\ w \in Items
  /\ \/ good' = good \cup {w} /\ bad' = bad \ {w}
     \/ bad' = bad \cup {w} /\ good' = good \ {w}
  /\ UNCHANGED <<script, keyed, job, imports, corpus, service, requests, history>>

(* A file that was cut off is no JSON: it reads as no verdict at all.      *)
SaveDies ==
  /\ "inspector" \in Faults /\ Items # {}
  /\ good' = {} /\ bad' = {}
  /\ UNCHANGED <<script, keyed, job, imports, corpus, service, requests, history>>

(* The file that _load_reviews can read has columns run_id, variant_index  *)
(* and verdict; nothing under src/ writes one.                             *)
WriteKeyed ==
  /\ good \cup bad # {} /\ keyed' = {good}
  /\ approved' = approved \cup good
  /\ UNCHANGED <<script, good, bad, job, imports, corpus, service, requests, changed, read, unreviewed>>

-----------------------------------------------------------------------------
(* The import. *)

(* Mutant: the verdict of a row is not looked at. *)
TakenUnjudged(source) ==
  CASE source = "missing" -> Row
    [] source = "keyed" -> good \cup bad
    [] OTHER -> {}

(* _load_reviews: the rows it lets through. A path that is no file stands  *)
(* for no review at all; the inspector's export has no key columns, and    *)
(* its JSON file no verdict column.                                        *)
Taken(source) ==
  CASE source = "missing" -> Row
    [] source = "keyed" -> UNION keyed
    [] OTHER -> {}

(* Mutant: a triad need not be complete. *)
AnySlugs(s) == {SlugOf[w.run] : w \in WithUrl(s)}

(* import_v2_slugs_from_cohort_csv writes the scenarios with a complete    *)
(* triad, whatever runs its images are of; import_from_cohort_csv the      *)
(* labels with any row, with or without a url.                             *)
WholeSlugs(s) == {slug \in Slug : Whole(Content(OfSlug(WithUrl(s), slug)))}
Labels(s) == {LabelOf[SlugOf[w.run]] : w \in s}

Docs(s) == [f \in File |-> Content(IF f \in Slug THEN OfSlug(WithUrl(s), f) ELSE OfLabel(s, f))]

Import(layout, source, slugs, indices) ==
  LET s == {w \in rows \cap Taken(source) : SlugOf[w.run] \in slugs /\ (layout = "v2" \/ w.index \in indices)}
  IN
  /\ evaluation = "written" /\ job.stage = "none" /\ imports < MaxImports /\ imports' = imports + 1
  /\ source = "keyed" => keyed # {}
  /\ job' = [stage |-> "writing", reviews |-> IF source = "missing" THEN "missing" ELSE "read",
             todo |-> IF layout = "v2" THEN WholeSlugs(s) ELSE Labels(s), docs |-> Docs(s), open |-> General]
  /\ UNCHANGED <<script, review, corpus, service, requests, history>>

Put(f, content) ==
  /\ corpus' = [corpus EXCEPT ![f] = content]
  /\ changed' = changed \cup {f}

(* write_corpus_yaml opens the file, which empties it, and fills it.       *)
OpenFile(f) ==
  /\ job.stage = "writing" /\ f \in job.todo
  /\ job' = [job EXCEPT !.stage = "open", !.open = f]
  /\ Put(f, {})
  /\ UNCHANGED <<script, review, imports, service, requests, read, unreviewed, approved>>

FillFile ==
  /\ job.stage = "open"
  /\ job' = [job EXCEPT !.stage = "writing", !.todo = @ \ {job.open}]
  /\ Put(job.open, job.docs[job.open])
  /\ unreviewed' = (unreviewed \/ job.reviews = "missing")
  /\ UNCHANGED <<script, review, imports, service, requests, read, approved>>

(* It clears the caches of its own process, which nobody else reads.       *)
EndImport ==
  /\ job.stage = "writing" /\ job.todo = {}
  /\ job' = NoJob
  /\ UNCHANGED <<script, review, imports, corpus, service, requests, history>>

ImportDies ==
  /\ "import" \in Faults /\ job.stage \in {"writing", "open"}
  /\ job' = NoJob
  /\ UNCHANGED <<script, review, imports, corpus, service, requests, history>>

-----------------------------------------------------------------------------
(* The service. No handler awaits while it reads files, so that one at a   *)
(* time does; the import may write between two files.                      *)

(* Mutant: the index of the scenarios is not cleared. *)
ClearOneCache ==
  /\ cache' = [k \in Key |-> {}] /\ UNCHANGED index
  /\ changed' = {} /\ read' = {}

ClearCaches ==
  /\ cache' = [k \in Key |-> {}] /\ index' = {}
  /\ changed' = {} /\ read' = {}

(* taste_corpus_rows *)
OpenGrid ==
  /\ scan.by = Nobody
  /\ ClearCaches
  /\ scan' = [Idle EXCEPT !.by = Grid, !.left = Label] /\ shown' = {}
  /\ UNCHANGED <<script, review, job, imports, corpus, requests, unreviewed, approved>>

(* A version of another major than 1 stands for a directory without files  *)
(* of a label; the strings of major 2 are no key.                          *)
FileOf(k) == IF Major[k[2]] = "1" THEN Load(corpus[k[1]]) ELSE {}

Cached == {k \in Key : cache[k] # {}}
Roomy == Cardinality(read) <= CacheSize

(* Mutant: the entry of a key that was just read makes room for the next.  *)
KeepOne(k) ==
  /\ read' = read \cup {k}
  /\ cache' = [x \in Key |-> IF x = k THEN {FileOf(k)} ELSE {}]

(* What lru_cache does on a miss: the file is read, or found missing, and  *)
(* when every entry is taken another one makes room, of which the model    *)
(* leaves open which.                                                      *)
Keep(k) ==
  /\ read' = read \cup {k}
  /\ \/ Cardinality(Cached) < CacheSize /\ cache' = [cache EXCEPT ![k] = {FileOf(k)}]
     \/ Cardinality(Cached) >= CacheSize /\ \E old \in Cached : cache' = [cache EXCEPT ![old] = {}, ![k] = {FileOf(k)}]

Got(f) == [scan.got EXCEPT ![f] = Load(corpus[f])]

(* The coverage of a label and then its triad: both are the cached one.    *)
ReadForGrid(l) ==
  /\ scan.by = Grid /\ l \in scan.left
  /\ Keep(<<l, "1.0">>)
  /\ scan' = IF scan.left = {l} THEN Idle ELSE [scan EXCEPT !.left = @ \ {l}, !.got = Got(l)]
  /\ shown' = IF scan.left = {l} THEN {Got(l)} ELSE {}
  /\ UNCHANGED <<script, review, job, imports, corpus, index, requests, changed, unreviewed, approved>>

(* resolve_taste_corpus: only major 2 needs the index of the scenarios.    *)
OfScenarios(q) == Major[Wants[q].version] = "2"

Ask(q) ==
  /\ scan.by = Nobody /\ req[q] = "idle"
  /\ req' = [req EXCEPT ![q] = "resolving"]
  /\ scan' = [by |-> q, left |-> IF OfScenarios(q) /\ index = {} THEN Slug ELSE {}, got |-> Nothing,
              next |-> Wants[q].label]
  /\ UNCHANGED <<script, review, job, imports, corpus, cache, index, shown, from, plates, history>>

ReadForIndex(s) ==
  /\ scan.by \in Request /\ s \in scan.left
  /\ scan' = [scan EXCEPT !.left = @ \ {s}, !.got = Got(s)]
  /\ index' = IF scan.left = {s} THEN {Got(s)} ELSE index
  /\ UNCHANGED <<script, review, job, imports, corpus, cache, shown, requests, history>>

(* The scenario of the index with the longest key that the industry        *)
(* contains, the first of them if there are several.                       *)
Better(q, s, t) ==
  \/ Wants[q].match[s] > Wants[q].match[t]
  \/ Wants[q].match[s] = Wants[q].match[t] /\ Place[s] <= Place[t]
Matched(q) ==
  LET found == {s \in Slug : Wants[q].match[s] > 0 /\ \A entries \in index : entries[s] # {}}
  IN  IF OfScenarios(q) THEN {s \in found : \A t \in found : Better(q, s, t)} ELSE {}

Give(q, file, content) ==
  /\ from' = [from EXCEPT ![q] = file] /\ plates' = [plates EXCEPT ![q] = content]
  /\ req' = [req EXCEPT ![q] = "given"]
  /\ scan' = Idle

Answer(q, what) ==
  /\ req' = [req EXCEPT ![q] = what] /\ scan' = Idle
  /\ UNCHANGED <<from, plates>>

ResolveBySlug(q) ==
  /\ scan.by = q /\ scan.left = {}
  /\ \E s \in Matched(q), entries \in index : Give(q, s, entries[s])
  /\ UNCHANGED <<script, review, job, imports, corpus, cache, index, shown, history>>

(* Without a scenario, _load_corpus_file for the label of the industry and *)
(* then for General, under the version string of the request unless its    *)
(* major is 2.                                                             *)
KeyVersion(q) == IF OfScenarios(q) THEN "1.0" ELSE Wants[q].version
Looks(q) == scan.by = q /\ scan.left = {} /\ Matched(q) = {}

Resolve(q, content) ==
  \/ content # {} /\ Give(q, scan.next, content)
  \/ content = {} /\ scan.next # General /\ scan' = [scan EXCEPT !.next = General] /\ UNCHANGED requests
  \/ content = {} /\ scan.next = General /\ Answer(q, IF Wants[q].fallback THEN "live" ELSE "refused")

ReadForRequest(q) ==
  LET k == <<scan.next, KeyVersion(q)>> IN
  /\ Looks(q) /\ k \notin Cached
  /\ Keep(k) /\ Resolve(q, FileOf(k))
  /\ UNCHANGED <<script, review, job, imports, corpus, index, shown, changed, unreviewed, approved>>

ResolveByLabel(q) ==
  /\ Looks(q)
  /\ \E content \in cache[<<scan.next, KeyVersion(q)>>] : Resolve(q, content)
  /\ UNCHANGED <<script, review, job, imports, corpus, cache, index, shown, history>>

(* fulfill_corpus_hero_run inserts the first row with provider "corpus",   *)
(* which the CHECK of db/migrations/001 refuses; the exception leaves the  *)
(* handler, whose locals are gone.                                         *)
InsertRefused(q) ==
  /\ req[q] = "given" /\ req' = [req EXCEPT ![q] = "failed"]
  /\ from' = [from EXCEPT ![q] = General] /\ plates' = [plates EXCEPT ![q] = {}]
  /\ UNCHANGED <<script, review, job, imports, corpus, service, history>>

Restart ==
  /\ "service" \in Faults
  /\ ClearCaches
  /\ scan' = Idle /\ shown' = {}
  /\ req' = [q \in Request |-> IF req[q] \in {"resolving", "given"} THEN "failed" ELSE req[q]]
  /\ from' = [q \in Request |-> General] /\ plates' = [q \in Request |-> {}]
  /\ UNCHANGED <<script, review, job, imports, corpus, unreviewed, approved>>

-----------------------------------------------------------------------------
Evaluate == StartEval \/ SubmitAndPoll \/ WriteOutputs \/ EvalDies
Review == (\E w \in rows : Save(w)) \/ SaveDies \/ WriteKeyed
ImportStep ==
  \/ \E layout \in Layouts, source \in Sources, slugs \in {Slug} \cup {{s} : s \in Slug},
        indices \in {Index} \cup {{i} : i \in Index} : Import(layout, source, slugs, indices)
  \/ (\E f \in File : OpenFile(f)) \/ FillFile \/ EndImport \/ ImportDies
GridStep == OpenGrid \/ \E l \in Label : ReadForGrid(l)
RequestStep ==
  \/ \E s \in Slug : ReadForIndex(s)
  \/ \E q \in Request :
       \/ Ask(q) \/ ResolveBySlug(q) \/ ReadForRequest(q) \/ ResolveByLabel(q) \/ InsertRefused(q)

Next == Evaluate \/ Review \/ ImportStep \/ GridStep \/ RequestStep \/ Restart

Spec == Init /\ [][Next]_vars

-----------------------------------------------------------------------------
TypeOK ==
  /\ evaluation \in {"none", "running", "written", "dead"}
  /\ left \subseteq Run /\ rows \subseteq {w \in Row : w.run \in Run}
  /\ good \subseteq Row /\ bad \subseteq Row /\ keyed \subseteq SUBSET Row
  /\ job \in [stage : {"none", "writing", "open"}, reviews : {"missing", "read"},
              todo : SUBSET File, docs : [File -> SUBSET Row], open : File]
  /\ imports \in 0..MaxImports
  /\ corpus \in [File -> SUBSET Row]
  /\ cache \in [Key -> SUBSET SUBSET Row] /\ index \subseteq [File -> SUBSET Row]
  /\ scan \in [by : Request \cup {Nobody, Grid}, left : SUBSET File, got : [File -> SUBSET Row], next : Label]
  /\ shown \subseteq [File -> SUBSET Row]
  /\ req \in [Request -> {"idle", "resolving", "given", "live", "refused", "failed"}]
  /\ from \in [Request -> File] /\ plates \in [Request -> SUBSET Row]
  /\ changed \subseteq File /\ read \subseteq Key /\ unreviewed \in BOOLEAN /\ approved \subseteq Row

(* What a request is given is a triad with each of its variants, all from  *)
(* one content of one file: never the part that an import of version 1     *)
(* writes, nor a file that was being written when it was read.             *)
GivenTriadIsWhole ==
  \A q \in Request : req[q] = "given" => Whole(plates[q])

(* The caches differ from the files only where a file was written since    *)
(* they were cleared: after an import the grid page is enough to bring it  *)
(* into service, and what is read later is not mixed with what was before. *)
CachesAreRefreshed ==
  /\ \A k \in Key : k[1] \notin changed => cache[k] \subseteq {FileOf(k)}
  /\ \A s \in Slug \ changed : \A entries \in index : entries[s] = Load(corpus[s])

(* An image reaches a corpus file only after somebody judged it good,      *)
(* until somebody imports without reviews.                                 *)
OnlyApprovedImages ==
  ~unreviewed => \A f \in File : \A w \in corpus[f] : w.run = Seed \/ w \in approved

(* The file of a scenario that is complete is only opened to be filled     *)
(* with another complete triad: an import with fewer images judged good    *)
(* leaves it alone.                                                        *)
CompleteStaysComplete ==
  [][\A s \in Slug :
       Whole(corpus[s]) /\ ~Whole(corpus'[s]) =>
         job'.stage = "open" /\ job'.open = s /\ Whole(job'.docs[s])]_vars

(* Once the grid has shown the files of version 1, requests that look them *)
(* up under "1.0", as those of major 2 do, are given what it has shown,    *)
(* whatever is imported afterwards: as long as no more keys were read than *)
(* the cache has entries. A request with another string, such as "1.1", is *)
(* given what is in the file when that string is first looked up, which no *)
(* grid has shown.                                                         *)
GridShowsWhatIsServed ==
  [][\A q \in Request, plain \in shown :
       /\ req[q] = "resolving" /\ req'[q] = "given" /\ from'[q] \in Label
       /\ KeyVersion(q) = "1.0" /\ Roomy
       => plates'[q] = plain[from'[q]]]_vars

-----------------------------------------------------------------------------
(* The inductive invariant of the proofs. What is left to write of version *)
(* 2 is whole, and was approved if there were reviews.                     *)
JobHolds ==
  job.stage # "none" =>
    /\ job.stage = "open" => job.open \in job.todo
    /\ \A f \in job.todo \cap Slug : Whole(job.docs[f])
    /\ job.reviews # "missing" => \A f \in job.todo : job.docs[f] \subseteq approved

Servable(content) == content = {} \/ Whole(content)

(* What was read from a file is a triad or nothing.                        *)
ReadIsServable ==
  /\ \A k \in Key : \A content \in cache[k] : Servable(content)
  /\ \A f \in File : Servable(scan.got[f]) /\ \A entries \in index : Servable(entries[f])

(* A request that builds the index has read what is in the files, but for  *)
(* those written since the caches were cleared.                            *)
IndexIsBuilt ==
  scan.by \in Request /\ scan.left # {} =>
    /\ scan.left \subseteq Slug
    /\ \A s \in Slug \ (scan.left \cup changed) : scan.got[s] = Load(corpus[s])

(* An entry has made room only for more keys than there are entries.      *)
CacheHolds ==
  /\ IsFiniteSet(read) /\ Cached \subseteq read
  /\ Roomy => Cached = read

(* What the grid has read, and what it shows when it is done, is cached.   *)
GridIsCached ==
  /\ scan.by = Grid =>
       /\ scan.left # {} /\ scan.left \subseteq Label /\ shown = {}
       /\ \A l \in scan.left : <<l, "1.0">> \notin read
       /\ Roomy => \A l \in Label \ scan.left : cache[<<l, "1.0">>] = {scan.got[l]}
  /\ Roomy => \A plain \in shown, l \in Label : cache[<<l, "1.0">>] = {plain[l]}

CorpusInv ==
  /\ JobHolds /\ ReadIsServable /\ IndexIsBuilt /\ CacheHolds /\ GridIsCached
  /\ GivenTriadIsWhole /\ CachesAreRefreshed /\ OnlyApprovedImages
  /\ \A sheet \in keyed : sheet \subseteq approved
=============================================================================

# arthor-image-service in TLA+

A specification of the image service in `src/app`: FastAPI routes that accept
signed requests, background tasks on one asyncio event loop that generate
images with external providers, a Postgres database (`agent_runs`,
`external_media_assets`, `tool_calls`, `image_request_payloads`), an R2 bucket
and a callback to the consumer. The modules are read from the Python sources;
where a document disagrees with the source, the source is modelled;
the disagreements are in section 12, two of them as runs that TLC must find
violated.

## 1. The system

One Python process, one event loop. Every SQL statement runs on a pooled
connection and commits on its own: no handler opens a transaction, so the unit
of atomicity is one statement and every `await` is a place where other tasks
run, an exception surfaces or the process dies. The database, R2 and the
providers are reached by network calls that return or raise.

| component | state it keeps | operations | talks to |
|---|---|---|---|
| asset-pack route and worker (`routes/asset_pack.py`, `orchestration/pack_worker.py`) | the run's locals: order, summaries, hero bytes | accept, spawn; insert, generate, retry, finalize, batch and fallback, roll up, close, call back | database, R2, providers, semaphore, consumer |
| row writers (`storage/asset_writer.py`, `runs/*.py`) | `external_media_assets`, `agent_runs`, `tool_calls` | guarded status UPDATEs, unguarded run UPDATE, cost sum | used by every worker |
| regenerate-slot and supersession (`routes/regenerate_slot.py`, `storage/supersession.py`, inspector POSTs) | `status`, `replaced_by`, `soft_deleted` | regenerate, supersede, unsupersede, soft-delete | database, semaphore |
| cold storage (`jobs/cold_storage.py`, `storage/r2.py`) | the list a sweep selected | select, copy, delete, update, sleep | database, R2 |
| hero candidates (`routes/hero_candidates.py`, `orchestration/hero_worker.py`, `style/hero_desktop_seed.py`) | three variant jobs, desktop seeds | accept, wait for a desktop run, gather, finalize, regenerate, poll | database, R2, OpenAI, semaphore |
| style preview (`routes/style_preview.py`) | none beyond its rows | synchronous probe, replay | database, R2, provider |
| idempotency (`payload/idempotency.py`, `payload/repository.py`) | `image_request_payloads` with a UNIQUE key | lookup, insert, conflict | used by three routes |
| runtime (`main.py`, `runtime.py`, `db/pool.py`) | the service singletons: pool, R2 client, semaphore | lazy initialisation, lifespan start and stop | everything |
| providers (`providers/*.py`) | none | one generation call, inner and outer retry, cost table | OpenAI, Google |
| style, layout, prompts, quality (`style/*`, `layout/*`, `quality/*`) | static catalogues | pure functions from payload to prompt, from image to flags | used by the workers |
| payload contract (`payload/models.py`, `validator.py`) | none | validation, completeness score | used by the routes |
| inspector (`inspector/*`) | CSRF tokens | HTML pages, queries, four mutating POSTs, polls of the viewport lab that close stale triads | database, own API |
| taste corpus (`scripts/hero_cohort_eval.py`, `inspector/cohort_review.py`, `scripts/import_cohort_to_corpus.py`, `style/hero_taste_corpus.py`) | a CSV file, a file of verdicts, the corpus files, two caches of the service | evaluate, judge, export, import, show, resolve, fulfil | files between processes |
| other scripts (`src/scripts`) | none | send a request, measure quality | the HTTP API |

How a pack flows: the route looks the idempotency key up, inserts the run and
the payload record, resolves the style and creates a task; the task waits for a
permit of the semaphore every worker shares, generates the slots in order,
stores and records each, sums the cost, closes the run and POSTs the callback.

What is hard here, and what makes each component correct:

- **Packs.** A row, its object, its drift flag and its tool call are four
  separate writes; a pack-consistent batch that fails leaves rows which must be
  failed before the fallback makes new ones; cost, status and callback are
  written in that order and must agree; the permit must come back on every way
  out. Correct: a run that says `ok` is settled, accounted for and truthfully
  reported; nothing is published before it is stored; a closed run stays closed.
- **Supersession and retention.** A slot has a chain of rows; regenerate,
  unsupersede, soft-delete and the sweep touch them without a lock. Correct: a
  row is superseded only for a replacement that was uploaded, and an active row
  has its object where it says.
- **Hero candidates.** Three variants run concurrently and may each raise; a
  mobile run waits for a desktop run while holding a permit; the poll derives a
  status from two queries. Correct: the run's status agrees with its rows, and
  a terminal poll is final. The inspector's viewport lab guesses from its age
  that a run is orphaned: what a crash left must be closed, a live run must not.
- **Idempotency.** Look up, then insert, with a UNIQUE index in between.
  Correct: one key, one run, one spawned worker, and every reply names it.
- **Providers.** A retry inside a retry, a batch of single calls, a repeat for
  quality, each with a seed of its own. Correct: what is recorded of an image is
  what was asked and paid for, and a slot is given up only after it was retried.
- **Runtime.** Tasks live in memory only; a pool of ten connections without a
  timeout, shared by everything, and a request that holds two of them. Correct:
  nobody waits for ever, and what is taken is given back on every way out. The
  services are made before the first request and taken away under the tasks that
  still run: nobody may work with what is closed, or was made for another event
  loop, without noticing.
- **Taste corpus.** Four programs hand images on through files that are emptied
  and filled in place, and the service caches what it read. Correct: only whole
  triads are given to requests, only approved images are imported, and what is
  shown is what is served.

## 2. Modules

| module | what it is |
|---|---|
| `PackPromise` | what the consumer of a pack may rely on: runs open, publish slots, close once and are told the truth once; a shutdown may take an ok back |
| `PackWorker` | the route and worker of an asset pack, one action per await, with faults, crash and restart |
| `PackWorkerInvariant` | the inductive invariant of `PackWorker` |
| `SlotLineage` | regenerations of published images and the inspector's row actions, racing on one slot |
| `ColdStorage` | the sweep that moves old superseded images, on top of `SlotLineage` |
| `KeyPromise` | what a caller may rely on who sends a request with an idempotency key |
| `Acceptance` | the three routes that take a key, from lookup to reply, with their tasks abstracted |
| `TriadPromise` | what a consumer may rely on who polls a triad: images appear, the run closes once, a final answer is about a closed run |
| `HeroTriad` | the worker of a hero triad: three concurrent variants, the wait for a desktop run, the cache, the poll, the lab that closes stale runs |
| `ProviderCalls` | what one run asks of the providers: both levels of retry, the batch, the repeat, seeds and tool calls |
| `ConnPool` | the pool's connections and the workers' permits, and in which order every handler, task and page takes them |
| `Runtime` | the services of the process: lazy initialisation, lifespan, event loops, shutdown, and what requests and tasks find of them |
| `TasteCorpus` | the taste corpus from the evaluation over review and import to the requests that are given a triad of it |
| `MCPackWorker`, `MCSlotLineage`, `MCColdStorage`, `MCAcceptance`, `MCHeroTriad`, `MCProviderCalls`, `MCConnPool`, `MCRuntime`, `MCTasteCorpus` | instances for TLC: payloads, starts, ordinals, mixes of handlers, symmetry |
| `PackWorker_proofs`, `ColdStorage_proofs` (also those about `SlotLineage`), `Acceptance_proofs`, `HeroTriad_proofs`, `ProviderCalls_proofs`, `ConnPool_proofs`, `Runtime_proofs`, `TasteCorpus_proofs` | theorems |

`Acceptance` ends where the workers begin: its `SpawnTask` is the creation of
the task whose life is `PackWorker` or `HeroTriad`, and of that life it keeps
what the other modules establish of it, that images appear while the run is open
and that the run is closed once or lost; that nothing else of it shows is proved
in both (section 6). `ColdStorage` composes with
`SlotLineage` by extension, because both write the same rows. The workers share
the semaphore and the pool; each of their modules has the semaphore for its own
tasks and takes a connection for granted, and `ConnPool` has both for all tasks
together, with nothing else of them. `Runtime` is what all of these modules
assume of the process: their `Crash` and `Restart` are its ends and its starts.
`TasteCorpus` ends where `Acceptance` goes on, with the insertion of the rows of
a corpus run, which fails. `ProviderCalls` is the step "the provider
answers" of `PackWorker` and `HeroTriad` in detail.

## 3. The asset-pack pipeline (`PackWorker`)

**State and code.** `runStatus`, `finished` and `costBasis` are the columns of
`agent_runs` (the cost as the set of tool calls it was summed over); `row`,
`flagged` and `toolCalls` are `external_media_assets.status`, its
`palette_drift` key and the `tool_calls` rows; `bucket` is R2, `mocked` the
assets that got a key without an R2 client and have no object (the fault
`no_r2`); `callback` what the consumer was POSTed. `pc`, `path`, `cur`, `attempt` and `summary` are the
locals of `run_in_background`. An asset is named by run, slot and the way it was
made (`single` or `batch`), because a failed batch row is never reused. A label
of `pc` is the next awaited call, so between two labels the task cannot be
interrupted, and at every label another task, an exception or a crash may come.

- `AcceptPack`, `SpawnTask`, `AbandonRequest`: `generate_asset_pack` after the
  idempotency lookup. The handler can raise between inserting the run and
  creating the task.
- `InsertPending` ... `RecordErrorCall`: `_run_slot_generate_single` with
  `with_retry`; `MarkGenerated` ... `RecordOkCall`: `_finalize_slot_success`.
- `BatchInsert`, `BatchSucceeds`, `BatchFails`, `BatchAbort`:
  `_maybe_generate_pack_consistent`.
- `RollUpCost`, `MarkRunOk`, `EmitCallback`, `LoseCallback`, `Raise`,
  `RecordFailure`, `LoseFailure`, `ReleasePermit`: the end of
  `run_in_background`, its `except BaseException` and its `finally`.
- `Crash`, `Restart`: the process. A SIGTERM is a `Crash` when the lifespan closes
  the pool before the loop cancels the tasks, so that the write their `except`
  branch attempts fails.
- `Cancel`: the shutdown that raises before it closes the pool, as when R2's
  `__aexit__` does (`main.py:141`). The runner of the loop then cancels tasks that
  can still write. One that waits for its permit dies without closing its run;
  one in its `try` block fails it; and one at its callback, sent or not, has the
  `CancelledError` in `except BaseException` too and overwrites `ok` with
  `failed` (`pack_worker.py:586-589`). `CallbackMatchesRows`,
  `ClosedRunsStayClosed` and `PackPromise` (`Retract`) allow just this step.

An exception is modelled at the await that raises it, before its effect; a
write that committed although the client saw an error is not modelled. The
empty-slots branch is unreachable behind the validator (`min_length=1`).

**Runs.**

| run | bounds | shows |
|---|---|---|
| `pack_safety` | one run, three payload shapes (batch of three, conditioned pair, a hero id that is no slot), every fault, cancellation, R2 or none, crash and restart | rows, tool calls, cost, objects and callback of a run agree; `PackWorker` implements `PackPromise` |
| `pack_liveness` | two runs, one permit, provider, exception and callback faults, `FairSpec` | the semaphore balances on every way out; every spawned task closes its run; every permit comes back |

One run is enough for the data invariants: no action reads another run's rows,
and only the semaphore is shared, which is what the two-run instances exercise;
the proofs then cover any number. Three slots give a first, a middle and a last
element to every loop.

**Fairness.** Ready tasks run (`WF` on a task's steps): the loop is
cooperative and no step spins. An await ends: the provider, R2 and callback
clients have timeouts; the asyncpg pool is created with none, so that the
database answers is an assumption. `asyncio.Semaphore` wakes waiters
in FIFO order, hence `SF` on `AcquirePermit`. The liveness run leaves out
cancellation, which takes the task away, and the `database` fault: if the final UPDATE fails the run stays `running`, which the
code logs and accepts.

**Proofs.** `TypeCorrect` proves `TypeOK` together with `PositionOK` (a task
stands on a slot of its payload). `PermitsAlwaysBalance` needs, beside the
balance itself, that no task lives while the process is down (`NoOrphanTask`);
the count of holders changes by one because a step moves one run across the
border of `Holding`. The data invariants are not inductive on their own: that an
`ok` run is settled depends on what was true of each slot before the task
passed it, so `WorkerInv` says of each run, slot by slot, which rows exist
before, at and after the position of the task, as a function of its label. It
is proved once (`WorkerCorrect`), with a frame lemma for the runs and slots a
step leaves alone and a lemma per group of actions; `OkRunsAreSettled`,
`OkRunsAreAccountedFor`, `CallbacksMatchRows`, `PublishedRowsHaveObjects`,
`SlotsHaveOneLiveRow`, `ConditioningFollowsHero` and `ClosedRunsStayClosed`
follow from it. `WorkerKeepsPromise` proves the refinement: initial states map
to initial states and every step to a step of `PackPromise` or a stutter. All of
this holds for any sets of runs, slots, payloads and faults that meet
`PacksAssumption` and `LimitsAssumption`.

That every spawned task closes its run is liveness and model-checked only; what
of it is safety is proved. `PackUpdatesFindTheirRows`: no UPDATE of a row finds it
in a status that makes it raise `InvalidStateTransition`, so that outside the
semaphore a task waits for nobody. `PackWaitersHaveHolders`: while no permit is
left, another task has one. `PacksAreFinite`: `StepsLeft` falls with every step of
a task, the retries, the batch and its fallback included; its bound is 12n + 8
for n slots, since the batch can be given up after all of its rows, each of which
is then failed and made again. `PackEndedRunsAreClosed`: a task that is over has
closed its run, unless the database or a cancellation took the last UPDATE. What is
left to fairness is that a step that can be taken is.

## 4. Regeneration and supersession (`SlotLineage`)

**State and code.** An asset row is `Original` (an earlier pack or triad
uploaded it) or named by the request that makes it. `row`, `replacedBy`,
`softDeleted`, `key`, `url` and `aged` are the columns and metadata keys of
`external_media_assets` that outlive the generation; `runStatus`, `charged` and
`billed` are the regeneration's run, whether its cost was rolled up and whether
its tool call was recorded; `pc`, `kind`, `target`, `source`, `reply` are the
locals of one request and of the task it creates.

- `CheckTarget`, `InsertRun`, `InsertAsset`, `AbandonRequest`: the routes
  `regenerate_slot` and `regenerate_hero_variant`, with their refusals.
- `AcquirePermit` ... `ReleasePermit`: `run_single_slot_in_background` and
  `run_hero_variant_regenerate_in_background`, whose tails are the same calls in
  the same order. Kind `mobile` is the hero edit `mobile_from_desktop`, which
  fetches another asset before the permit and before the `try`
  (`SourceLoaded` ... `RaiseUnguarded`).
- `Supersede`, `Unsupersede`, `SoftDelete`: the guarded UPDATEs. The tests of
  the repository call each alone; here they come at any await of two requests.

With `no_r2` among the faults a regeneration may find `services.r2` None: the row
then gets a key under which nothing is stored (`unstored`: a `mock/` key, or for a
hero variant its usual one) and is published all the same. Whether an uploaded
source is a hero candidate is not modelled: `SourceMissing` may come of any.

What is asked of the provider is in `ProviderCalls`. The metadata patch a hero
regeneration writes between its tool call and `supersede_asset` changes nothing
a property sees; that it may raise is an exception at `supersede`.

**Runs.** Two requests, one image, one permit: two regenerations of one image
is the smallest race, and a regeneration is refused on an image another
regeneration made, so a longer chain of requests cannot arise. One permit makes
the second request wait.

| run | instance | shows |
|---|---|---|
| `lineage_race` | both kinds, the inspector, provider and exception faults, no R2 client, crash, `FairSpec` | a row is superseded only for an image that is published, only the regeneration the old row names reports ok and is accounted for, permits balance, accepted regenerations close their runs |

That an accepted regeneration closes its run is claimed unless its task dies: a
reframe whose source cannot be fetched dies before its `try` (section 12). A
request of `Refused` may also have its last UPDATE refused by the database, and
then nothing closes its run: the claim is made for the other requests. `restored` is a history variable: the code
keeps no trace of an unsupersede, and without one "only one regeneration of an
image reports ok" cannot be said of a system where images are restored.

Fairness is that of `PackWorker`; the inspector and new requests are not fair.

**Proofs.** `ReplacementIsActive` and `OkRunReplacedItsTarget` are about links
between rows made by different requests at different times. `LineageInv` says
what carries them: at each label what the request's own row is
(`RowFollowsTask`) and what its run has recorded (`RunFollowsTask`); that a
superseded row has exactly one of its two reasons and its replacement, once
uploaded, never becomes anything but superseded (`LinkHolds`); and that a target
nobody restored names the request from `supersede` on (`TargetFollowsTask`). The argument turns on two facts of the code. A live
request's target is an original image, because the route refuses what has no
payload record, so a request's row is never itself replaced and links have
length one; without this a chain `a -> r1 -> r2` would break
`ReplacementIsActive`. And the guards of the three UPDATEs exclude one
another through `status`, so two requests cannot both see `uploaded`. Proved for any sets
of images and requests: `TypeCorrect`, `LineageCorrect`,
`ReplacementsAreActive`, `OkRunsReplacedTheirTargets`, `OkRunsAreAccountedFor`,
`SoftDeletionIsFinal`, and `PermitsAlwaysBalance`, which counts the
holders of permits as for packs: the source of a reframe is fetched before its
permit is taken, and its failure must not give one back.

The safety half of `AcceptedRegenerationCloses` is proved as for packs:
`RowsAreFoundByTheirTasks` (other requests and the inspector touch a row only
once it is uploaded, so that of all UPDATEs of a regeneration only that of the old
row can raise `InvalidStateTransition`), `PermitWaitersHaveHolders`,
`RegenerationsAreFinite` (14 steps) and `EndedRegenerationsAreClosed`.

## 5. Cold storage (`ColdStorage`)

Extends `SlotLineage` with the worker of `jobs/cold_storage.py`, so that a sweep
runs beside regenerations and the inspector. `StartSweep` is the SELECT; per row
`Copy` and `Delete` are the two calls of `move_to_cold_storage` and `Update` the
statement by id; each may fail (`CopyFails`, `DeleteFails`, `UpdateFails`), is
logged, and the loop goes on; a delete that raises may have been done. `StopSweep` is a crash or the lifespan cancelling
the worker at its await. `bucket` holds the objects, `key` what the row says.
Thirty days are an action, `Age`, of a row nobody updated; it is not fair.
An object belongs to one row: corpus rows are refused and prompt-cache hits raise
before they are published (section 12, `hero_cache`), so no key is shared.

| run | instance | shows |
|---|---|---|
| `cold_sweep` | an image, its regeneration, the inspector, every fault, crash, `ColdFairSpec` | a published image is always in the bucket, a cold key never dangles; an active image that was not restored keeps its warm key, URL and object; an old superseded row gets its cold key although steps fail, unless its move is interrupted |

A sweep that is stopped, or whose UPDATE fails, or whose delete raises though it
was done, leaves a row that names an object which is gone; `Stranded` is that row,
and no later sweep can move it. `OldRowsGoCold` does not take the gap between an
ordinary delete and its UPDATE for an excuse: it exempts the rows that the history
variable `interrupted` collects, of which each is there through one of those three
faults, and that a sweep which deletes and never writes the key breaks it is one of
its mutants. A key under which nothing was stored (section 4) is selected by every
sweep, and its copy fails every time: the property is about stored images. An image restored since the SELECT is moved (section 12).

The replaced image and its deleted replacement give a sweep a first and a second
row, so that one changes while the other is moved.

**Fairness.** The worker loops for ever (`WF` on its steps). `SF` on each copy
and delete says R2 does not refuse the same object at every sweep; without it
nothing can be promised, and `retention.md` promises nothing. Restarts are not
fair: the promise is that of a worker that is up.

**Proofs.** `NoObjectLost` is not inductive: that `Delete` is safe depends on
the copy made before, and that `Update` may write a cold key depends on the row
not having been given a new object. `SweepInv` adds that selected rows stay on
their key (only the sweep writes keys of published rows), that the row in
hand has its cold copy, that nothing is under the key of a row written without R2, and that rows not yet published have no key.
`SweepCorrect`, `ObjectsAreNeverLost` and `ActiveImagesStayWarm` hold under every fault and for any
number of images and requests; the lemmas about requests are those of
`ColdStorage_proofs`.

`OldRowsGoCold` needs fairness and stays with TLC. Proved of it: a sweep under way has
a row to work on (`SweepsAreNeverStuck`) and every step of it finishes one or
gets further with the one in hand, so that a sweep ends (`SweepsComeToAnEnd`).
Its exception, a stranded row, is delimited from both sides: only a failed UPDATE,
a delete whose answer was lost or the end of the process strands one (`RowsAreStrandedByFaults`), and nothing the
code does ever repairs it (`StrandedRowsStay`). Both rest on `SweepInv`.

## 6. Accepting requests (`Acceptance`)

**State and code.** `run` is `agent_runs.status`, `bound` the UNIQUE column
`image_request_payloads.idempotency_key` with the run inserted beside it,
`uploaded` the runs that have an image. `pc`, `found` and `reply` are a
handler's position, what its lookup returned and what it answered; `started`
says for which runs a task was created or a provider called, `working` which
tasks are alive. A run has the name of the request that inserted it.

- `Lookup`, `Replay`, `InsertRun`, `InsertPayload` are common to the routes.
  The loser of a race goes three ways: a pack answers 500, a hero looks the key
  up again, a preview first deletes the run it inserted (`DeleteRun`).
- `Prepare`: the UPDATE that stores the profile and sets `running`, without
  looking at the status. `SpawnTask`, `InsertCorpus`, `CloseTyped`, `StartProbe`
  are the four ways on. `InsertCorpus` always raises: a CHECK refuses its rows.
- `TaskPublishes`, `TaskEnds`, `TaskLost`: the worker, as the other modules show
  it to outsiders. That the workers do nothing else is proved:
  `PacksWorkAsAccepted` and `TriadsWorkAsAccepted` instantiate `Acceptance` (as
  `Route`) in `PackWorker` and `HeroTriad` with what is seen there of a run, and
  map every step after the creation of a task to one of these three, to the death
  or the restart of the process, or to none. The viewport lab, which closes runs
  under their tasks, is outside of this (`Run \ Lab`), and so is the one step of a
  pack that a cancelled worker makes from ok to failed: `WorksAsAccepted` of
  `PackWorker` names it.
- `Crash` takes handlers and tasks, `Restart` lets new requests in. A caller
  that retries is another request with the same key.

The replies before the lookup (401, 400, 503) change nothing and are left out,
and so is the body of a request: the code does not compare the bodies of two
requests with one key.

| run | instance | shows |
|---|---|---|
| `accept_safety` | three requests of any route, two keys, every fault, crash | one owner and one worker per key; whoever is answered with a run is answered with the owner of the key; a final status once replayed is never revised; no deleted run is named; `Acceptance` implements `KeyPromise` |

Three requests on a key are a winner, a loser and a later replay, in all mixes
of routes; the second key shows that keys do not disturb each other. Symmetry in
requests and keys is sound: no action distinguishes them and no liveness is
checked.

**Proofs.** `VerdictStands` is about statements far apart: a status read for a
replay, and the writes of the winner's handler and task, none of which look at
the status. It holds because `Prepare` comes before the task exists and because
a task closes its run once, so `KeyInv` says at each label of a handler whether
its run exists, whether it owns its key (`Owning`) or cannot (`Unbound`), and of
a task that its run is still `running`. With it `NamedRunsExist` is the fact
that a run that is deleted never owned a key. `RoutesKeepKeys` maps every step
to `KeyPromise`: a key is claimed once, and answers name its owner. All of this
holds for any requests, keys, routes and faults.

Three consequences for a consumer who sends a key again follow. `OneRunForEveryKey`:
one run is worked on, and everybody is told of that one. A key is `Abandoned` when
its run is `running` and neither a handler nor a task is left to close it.
`KeysAreAbandonedByFaults`: that takes an exception, a refused UPDATE, a cancelled
worker, a crash, or the corpus route; a provider that refuses, a lost race, or a replay never leads to
it. The invariant is `Attended`: without those faults a request that has accepted
or is over owns no running run without a task. `AbandonedKeysStay`: nothing looks
for abandoned keys, so each stays one, and a later caller who is told of a run is
told that it is running (the viewport lab, which may close a triad, is in
`HeroTriad`).

## 7. Hero triads (`HeroTriad`)

**State and code.** `run` and `row` are the status columns of the run and of its
variants; `pc` is the position of `run_hero_candidates_in_background`, `step`
that of `_generate_one_variant` for each of the coroutines that `gather` waits
for; `holding` and `queue` are the semaphore with its waiters in order; `look`
and `poll` are a poll between its two statements and the last answer that told
its consumer to stop; `suspect` are the runs that a page of the inspector's
viewport lab has read as unfinished and may be about to close.

- `Accept`, `Spawn`, `AcquirePermit`, `LoadRun`: from the row of the run to the
  choice of reference images. `SeedsReady` and `SeedsTimeOut` are the looks of
  `load_desktop_seed_map` that end the wait; the code gives up only after a look
  that found fewer than three, and so does the model.
  `LoadRun` also has the UPDATE that writes the reference plan back: it sets the
  status to `running` whatever it was, so a run that the lab failed while it
  waited for its permit is open again (`hero_worker.py:714-720`).
- `InsertVariant`, `StartVariants`, `Gather`, `Close`, `CloseFailed`, `Raise`.
- `LookUp`, `FinalizeCached`, `Generate`, `MarkGenerated`, `MarkUploaded`,
  `MarkFailed`, `Record`, `VariantRaises`: one variant.
- `Supersede`: what a regeneration does to a published variant; the route asks
  only that the row is `uploaded`, so it may come while the triad is unfinished.
- `PollRun`, `PollRows`: `_build_poll_response`.
- `Suspect`, `Reconcile`, `Spare`: `reconcile_stale_hero_run`, which every poll of
  the lab calls first. It reads the run and its rows, and closes the run as
  failed by its age: five minutes, or two with no row to be generated. Time is
  not modelled, so either may be the case of any run whose route has answered.

Variants are alike, so their order is not kept. `Limits` are the values of
`max_concurrent_packs`; an initial state chooses one, and a start: a mobile run
naming a desktop run, or a run whose prompts an earlier run has been served for.
`Watched` are the runs whose consumer polls and regenerates, `Lab` those that are
polled in the lab.

| run | instance | shows |
|---|---|---|
| `hero_triad` | a desktop and a mobile run, or a request served before; two variants; one or two permits; every fault, crash; the lab polls the desktop run, the consumer the other; `FairSpec` | a closed run is quiet, the consumer is kept what `TriadPromise` says, permits and their queue are in order, every task ends, the lab closes what a crash left running |
| `hero_cache` (violation) | three variants, no fault | a prompt-cache hit raises, against `plan/HANDOFF-HERO-VISUAL-STRATEGY.md:90` |
| `hero_orphan` (violation) | the lab polls a mobile run, no fault | a run whose task is alive is marked failed as orphaned, against `src/app/inspector/hero_ab.py:75` |

Two variants are enough to have none, some and all of them published, failed or
superseded, and one raising while the other writes. With one permit a mobile run
that got it before its desktop run waits for a task that waits for it, and only
the ten minutes end that; with two they run together. `ClosedRunIsQuiet` and
`KeepsTriadPromise` are claimed of runs outside `Lab`: the lab fails a run under
its task, which goes on writing rows and may then close it as ok, so neither
holds of a run that is polled there.

**The promise.** `TriadPromise` has no worker, no permits and no statements: per
run an outcome, the variants that were made, those that were replaced, and the
last final answer. Images are published only while a run is open, a run closes
once and as ok only with an image, and an answer is the verdict on the images of
a closed run at one moment. The mapping takes `made` from the rows that are
`uploaded` or `superseded` and `answer` from `poll`; every other step of
`HeroTriad` stutters. That a consumer who stops polling at a final answer misses
nothing (`FinalPollStands`) is a consequence.

**Fairness.** As before; the end of the wait is fair because its deadline comes.
The queue is explicit, so no strong fairness is needed for the permit. A page of
the lab polls every eight seconds, sixty times, unless a poll fails
(`inspector/templates/hero_ab.html:98`), which outlasts the 300 seconds for which
a running run is spared: a poll that suspects it comes again and is not always a
`Spare`, hence weak fairness for `Suspect` and strong fairness for `Reconcile`.
This is the fairness of a page that is opened, or opened again, after the last
crash; `OrphansAreClosed` assumes one and nothing closes the run without it.
What the
property asks under a crash or a refused last UPDATE is only that the permit is
free.

**Proofs.** `TriadKeepsPromise` relates an answer to one given before, each read
by two statements between which anything may happen. It needs that a status
read as closed stays what it was, that a poll which began before the run closed
cannot follow a final one (`PollHolds`), and that the rows of a closed run do
not change but for supersession, which comes from `TaskHolds`: outside `gather`
no variant is at work. The UPDATE of `LoadRun` changes nothing in a run outside
the lab, which is still `running` then (`LoadKeepsRun`). The invariant is stated with the lab in the system: only
a run of `Lab` can be failed and not done. `PermitsInOrder` counts holders by adding and removing
one element of a finite set, and treats the queue as a sequence without
repetitions. `TriadKeepsPromise` has one
lemma for the steps of the task, one for those of a variant and one for polls:
the step of a run is not seen in another, and what is seen of its own run
changes as the promise allows. It, `ClosedRunsAreQuiet`, `FinalPollsStand`, `TriadCorrect` and
`PermitsInOrder` hold for any runs, variants, limits, desktop assignments and
faults.

`EveryTriadEnds` and `OrphansAreClosed` are model-checked; their safety is proved.
`TriadsAreNeverStuck` is the one that could fail: every permit may be with a mobile
run that waits for a desktop run in the queue. Some task can go on nevertheless,
because the wait has an end, which is a step of the waiting task.
`TriadsAreFinite` bounds the steps of a task by eight and those of a variant by
seven; `EndedTriadsAreClosed` says of a task that is over that its permit is back,
its variants are over and its run is closed. `OrphansStayInReach` is an action
property of the runs that a crash left `running`: the lab can close one until it
does, or it never can, unless the consumer comes back to replace a variant.

## 8. Provider calls (`ProviderCalls`)

**State and code.** One run with its slots in the order of generation. `outer`
is the attempt of the `with_retry` around `generate_single`, `inner` that of the
second `with_retry` inside `GoogleNanoBananaProvider.generate_single`, `seed` the
seed of the next call relative to the base seed; `next` is the slot for which
`_run_pack_genai_sdk` asks next, `inHand` the image that is about to be stored,
or that of a hero variant whose repeat is asked for. `calls` is a history: every request that reached a provider
and whether an image came back. `billed` and `failed` are the rows of
`tool_calls`. `priced` says for which slots the cost table knows the size.

- `Answered`, `Refused`, `AsksAgain`: an image; an error after which the worker
  tries again, gives up or keeps the image in hand; an error after which Gemini
  is asked again inside the provider.
- `AnsweredFlawed`: `AUTO_RETRY_FAILURE_MODES` of `_generate_one_variant`.
- `Garbled`, `Unpriced`: exceptions that no `with_retry` repeats, and that end
  the run of a pack.
- `BatchGoesOn`, `BatchSucceeds`, `BatchFails`: the pack-consistent batch, one
  call per slot with the smallest seed of all.
- `Store`, `StoreFails`: `_finalize_slot_success`, `_finalize_hero_slot` or the
  error path of a slot that is given up, with the tool call as its last
  statement; whatever raises before that ends the slot, and a pack, without one.
  The images of a batch are stored one after the other, so a raise leaves those
  behind it in hand for good.

The statements between an answer and its tool call are one step that succeeds or
raises: their order, crashes and other runs are those of `PackWorker` and
`HeroTriad`. A regeneration has one slot and the path of a pack's first.

| run | instance | shows |
|---|---|---|
| `provider_calls` | three slots with ordinals in order, reversed or equal; packs and triads, both providers in any mix, any sizes priced, any answers | a slot that comes to its end has the cost of every image made for it, unless its batch was aborted or a repeat took its place; it is given up only after its own seed and the next one failed |

`ImagesAreBilled` speaks of slots that come to their end. A slot whose storing
raises does not, and its image stays without a cost: `packet/SPEC.md:145` as it
stands, a row for every provider call, is violated by one pack with one answer
(section 12).

Three slots give the batch a slot before and a slot after one that fails. A run
ends, so deadlock is not checked; no liveness is claimed, hence no fairness.

**Proofs.** `CallsInv` says of every call made so far which attempt it was and
that its seed follows from that (`SeedOf`), that a slot that asks or is being
stored still has every image made for it but one a repeat replaced (`HandHolds`,
`SlotHolds`), and that a batch that goes on has an image of every slot before
`next`, and one that is over has them all in hand or billed up to the first that
raised (`BatchHolds`, `BatchStores`). `ImagesAreBilled` and
`FailedSlotsWereRetried` follow: the latter because an attempt is reached only
through a failure of the one before. For any number of slots, any ordinals.

A run claims no liveness, but its cost is bounded: `CallsAreFinite` multiplies out
the two retries within one another, the batch with its fallback and the repeat of
a flawed image to six calls of a slot and one in a batch, each with an attempt of
its own; `EverySlotIsAskedFor` says that between them no slot is forgotten.

## 9. Connections and permits (`ConnPool`)

**State and code.** Every handler, background task and page is the sequence of
its `async with pool.acquire()` blocks (`Handlers`); `job` gives each task one,
`at` and `label` say where it is. `owner` is the task that has a connection,
`inside` the tasks that have a permit. Neither `pool.acquire()` nor
`sem.acquire()` has a timeout. Every block is single but one:
`regenerate_slot` calls `_style_profile_from_original_run`, which acquires a
connection, inside the block that read the asset (`routes/regenerate_slot.py:149`).

- `Ask`, `Take`, `Give`: a block; `AskWithin`, `Take`, `GiveWithin`: the block
  inside it. `Enter` is the semaphore; the permit goes with the last block.
- `Pass`: a block of a branch that is not taken.
- `LeaveEarly`: an exception or an early return; a worker goes to the block of
  its `except` clause, any other task ends.

A loop over slots stands for one slot, and the variants of a triad are tasks of
their own beside the one that gathers them.

| run | instance | shows |
|---|---|---|
| `conn_pool` | three tasks on two connections and one permit: two regenerations beside every handler, a regeneration and a worker beside every handler, two workers beside every handler | the pool is exhausted for good only by as many regenerations as it has connections; if it is not, every task ends |

Two connections are what two nested blocks need to lock each other out, and the
third task is the one that suffers. The code's numbers are ten and
`max_concurrent_packs`, and the theorems hold for any. Deadlock is not checked,
because the pool can come to one: that is the case `PoolSurvives` delimits and
`EveryTaskEnds` excludes.

**Fairness.** Weak, of each task's next step: statements are answered, and a
waiter is woken by the queue of asyncio when something is given back. In this
model nobody is overtaken for ever, since every script is finite.

**Proofs.** `PoolInv` says of each label what a task holds: nothing between
blocks, one connection in a block, two in the block inside it. A pool is `Stuck`
when every connection belongs to a task that waits for another one. By `PoolInv`
each of these is a different regeneration, so the owners of connections are an
injection into the regenerations, and a stuck pool has no more connections than
those (`PoolAlwaysSurvives`, for any pool, semaphore and mix of handlers).
`StuckForGood` proves the converse hazard: no step gives anything back, so a
stuck pool stays stuck until the process is restarted.

`EveryTaskEnds` is model-checked for three tasks. For any number of them
`SomebodyAlwaysMoves` proves that nested blocks are the only deadlock, in particular
that connections and permits never wait for one another, and `TasksAreFinite` that
no task makes more than eight steps per block: a pool that is not stuck comes to
the end of what it was asked.

## 10. The process and its services (`Runtime`)

**State and code.** `pool`, `sem`, `r2` and `sweeper` are what
`app.state.services` holds: the pool, the event loop that the semaphore is bound
to, the R2 client, the cold-storage task. `poolLoop` and `poolState` are the
pools themselves, since a pool that was replaced may still be in use. `stage` is
the position of the lifespan, of the server's shutdown or of the loop's runner;
`loop` counts processes of a server, or event loops of an in-process client.
`req`, `task`, `taskPool`, `run`, `stored` and `published` are one request each
with its task, reduced to one image: `run` and the row outlive the process.

`Modes` are the three ways the code is used: by uvicorn with the R2 settings, by
uvicorn without them, and by an in-process client (the tests), which sends no
lifespan events, so that the middleware makes the pool and the services outlive
the event loop of a request.

- `Start`, `LifespanPool`, `EnterR2`, `StartFails`: up to the `yield` of
  `lifespan`. What fails there is before its `try`, and nothing is closed.
- `Arrive`, `RequestPool`, `RequestPoolFails`: `ensure_runtime_ready` behind the
  middleware, split at its `await`: it tests `services.pool`, awaits
  `init_pool` and assigns, so that several first requests each make a pool.
- `Handle`, `Accept`: the 503 without a pool, the row of the run, `create_task`.
- `Begin` ... `LoseFailure`: the task. It reads `services.pool` when it starts and
  `services.r2` when it stores, not when it was created. To wait for a permit
  binds the semaphore to the running loop; one bound to an earlier loop raises
  before the `try`.
- `Stop`, `Drain`, `CloseR2`, `CloseR2Fails`, `ClosePool`, `CancelAll`,
  `CloseLoop`: uvicorn waits for the requests, the lifespan cancels and awaits the
  sweep, leaves R2, closes the pool; then `asyncio` cancels the tasks that are
  left. Tasks go on at every step of this.
- `Crash`, and `Sweep` for the sweep between its two sleeps.

| run | instance | shows |
|---|---|---|
| `runtime_life` | two requests, two processes or loops, one permit, each mode, a database, an R2 or a provider that fails, a crash at any moment; `FairSpec` | a server never publishes a mock's key, a request finds a pool of its own loop, the sweep never works with a client that is being closed, what ends while the process serves has closed its run, a shutdown ends |

Two requests are the race of two first requests, and one permit makes the second
task wait; two loops are one that makes the services and one that finds them.
What a task does after its image is in the other modules.

**Fairness.** Ready tasks run and awaits end. `ClosePool` waits for the
connections in use without a timeout, so that `StopEnds` says that tasks which go
on while the pool is closing give theirs back: they can finish the statement they
are in, and no new one is answered.

**Proofs.** `PublishedIsStored` is about a step of the shutdown that looks
dangerous: `services.r2` is `None` again before the pool is closed, and a task that
stores an image then would take the client for one that was never set up and
publish a key without an object. It holds because `__aexit__` resets `services.r2`
and `pool.close()` refuses statements without an `await` in between, so that such
a task cannot mark its row. `RuntimeInv` says this of each task
(`RequestHolds`), and of each stage which clients are there (`ServerHolds`,
`ClientHolds`). For any number of requests, permits and restarts and all faults:
`TypeCorrect`, `RuntimeCorrect`, `ServersPublishObjects`, `PoolsBelongToTheLoop`,
`SweepsHaveTheirClients`, and `ServedRunsClose` for the action property.

`StopEnds` is model-checked; proved of it are `ShutdownsAreNeverStuck` (the lifespan
waits for tasks, and of the tasks one can always go on, though its statements may
be refused), `ShutdownsAreFinite` (stages only advance, a task makes at most ten
steps), and `ShutdownsAreComplete`: a process that is down has no task, and has
closed its pools unless R2 raised when it was entered or left.

## 11. The taste corpus (`TasteCorpus`)

**State and code.** Four programs share files. `evaluation`, `left` and `rows` are
`hero_cohort_eval.py`: the triads still to be asked for and the rows it has in
memory until it writes its CSV file. `good` and `bad` are the inspector's
`human_review.json`; `keyed` a reviews file with the columns the import reads.
`job` is `import_cohort_to_corpus.py` with the documents it has yet to write,
`corpus` the files under `data/hero_taste_corpus`: each is the set of rows in it,
empty if it is missing or was cut off. `cache` and `index` are the two
`lru_cache`s of the service: that of `_load_corpus_file` has an entry for each label
*and version string* it was called with, `CacheSize` (64) of them, and `read` is the
history of these keys since it was cleared. `scan` is the handler that is reading
files, `shown` what the grid page has shown since; `req`, `from` and `plates` a
request and the file and images it was given.

- `SubmitAndPoll`, `WriteOutputs`, `EvalDies`; `Save`, `SaveDies`: a cut-off
  review file reads as no verdict at all.
- `WriteKeyed` is external: nothing in the repository writes a file that the
  import can read (section 12).
- `Import` with `Taken` (`_load_reviews`: no file lets every image through),
  `WholeSlugs` and `Labels` (both versions, of which the script's
  default and its documented use are "1.0" and "2.0", `Layouts`; the last row of an
  index wins, whatever run it is of); `OpenFile` and `FillFile` (`write_corpus_yaml`);
  `EndImport`, which clears the caches of its own process; `ImportDies`.
- `OpenGrid`, `ReadForGrid`: the grid page, which clears the service's caches.
- `Ask`, `ReadForIndex`, `ResolveBySlug`, `ReadForRequest`, `ResolveByLabel`,
  `InsertRefused`: a hero request in corpus mode, with a step for each call of
  `_load_corpus_file`. `corpus_version` of a request is any string (`Version`, of
  which only what is before the dot decides, `Major`): "2.x" reads the index and
  then the keys of the grid, every other string its own keys (`KeyVersion`), of the
  files of version 1 if it is "1.x" and of no file otherwise (`FileOf`). `Keep` is
  `lru_cache` on a miss; it leaves open which entry makes room. No handler awaits while it reads
  files, so `scan` is one handler at a time; the import writes between two files.
- `Restart` of the service.

| run | instance | shows |
|---|---|---|
| `corpus_review` | two scenarios of one label and their files with and without a first content; one evaluation with a triad or one image of it, one import of either version from any source, the grid, two requests with "2.0" and "1.1", a cache of two entries; every process may die | a request is given whole triads only; a cache differs from a file only if the file was written since the caches were cleared; without an import without reviews only approved images are in the files; a complete file of a scenario is only replaced by a complete one; requests that use the keys of the grid are given what it has shown, as long as no more keys were read than there are entries |

One import is enough to replace a first content, to leave a file empty or partial,
and to have every order of writing and reading. Two indices give a triad a part
that is missing; they are alike, which the symmetry of the instance uses. The grid
fills both entries of the cache, and a key of "1.1" makes room. What the run does
not claim is as telling: TLC finds a request with "1.1" that is given what no grid
has shown, and one with "2.0" after three keys, if the two conditions of
`GridShowsWhatIsServed` are dropped. Images of several runs in one file, which
`Content` has, are covered by the proofs alone. There is no liveness to claim: people
and scripts act when they like. Deadlock is not checked, since the evaluation and the
import are done once.

**Proofs.** `CorpusInv` is inductive: what an import has left to write for a
scenario is whole and, if there were reviews, approved (`JobHolds`); what was read
of any file, even one that was being written, is a triad or nothing
(`ReadIsServable`), since `_triad_from_dict` rejects parts; a request that is half
way through the files has what is in those not written since (`IndexIsBuilt`); the
keys read are the keys cached, until they are more than the entries (`CacheHolds`);
and till then what the grid has read is cached (`GridIsCached`). For any scenarios, labels,
evaluation, verdicts, number of imports and requests, version strings, size of
the cache, and all faults:
`TypeCorrect`, `CorpusCorrect`, and the five properties of the runs
(`GivenTriadsAreWhole`, `CachesFollowTheFiles`, `ImportedImagesAreApproved`,
`CompleteFilesStayComplete`, `GridsShowWhatIsServed`).

## 12. Divergences

Checked by a run that TLC finds violated, with the text it contradicts in
`PROJECT.json`: `hero_cache`, `hero_orphan`.
Read in the code while modelling, and not a run of their own:

- A triad in the default corpus mode is answered 500: `fulfill_corpus_hero_run`
  inserts its rows with provider `corpus` (`style/hero_taste_corpus.py:225`),
  which the CHECK of `db/migrations/001_external_media_assets.sql:23` refuses
  (`plan/HERO-CANDIDATES-CONSUMER.md:140`: the default mode serves curated
  plates). `InsertCorpus` of `Acceptance` is that statement.
- The loser of two regenerations of one image is failed with its new row left
  `uploaded` and the old row superseded by the other one
  (`slices/s11-endpoint-regenerate-slot/SPEC.md:23`: on failure the new row is
  `failed`, the old one stays `uploaded`): `supersede_asset` comes after the
  upload and raises (`orchestration/pack_worker.py:760`). `SlotLineage` has it;
  two plain regenerations without any fault are enough.
- The seed stored with an image, base seed plus ordinal, is written before any
  call, so that the image of a retry, or of a batch, was made with a seed that is
  not stored (`packet/SPEC.md:51`: re-running with identical inputs reproduces).
  In `ProviderCalls` a call of `billed` has another seed than `Stored`.
- The inspector's export of verdicts has no columns `run_id` and `variant_index`,
  and `human_review.json` is no CSV file, so that an import given either takes no
  image (`plan/HANDOFF-HERO-CORPUS-LOCKIN.md:151`: export or point `--reviews` at
  it): `Taken` of `TasteCorpus`.
- An import of version 1 writes as many variants as were judged good, also over a
  complete file, and then the label has no triad at all; that of version 2 skips
  what is not complete (`Labels` and `WholeSlugs`).
- After an import and a look at the grid page, a hero request with the version
  string "1.1" may still be given a triad that the page did not show: each string is
  a key of its own in the cache (`style/hero_taste_corpus.py:89`).
- The semaphore outlives the event loop of an in-process client, while the pool
  is renewed: a task of a later loop that has to wait for a permit raises before
  its `try`, and its run stays `running` (`main.py:60`).
- As many simultaneous regenerate-slot requests as the pool has connections
  block each other, and with them the whole service, until it is restarted
  (`StuckForGood`).
- A Gemini call that fails is repeated up to three times, with the seeds s+1, s+1 and
  s+2, where `plan/adr/0007-image-provider-abstraction.md:78` has one
  retry with a new seed.
- Of the provider calls of a slot only the last is a `tool_calls` row
  (`packet/SPEC.md:145`: every call is): retried calls, the images of a batch that
  failed, and the first image of a hero variant that is repeated for quality are
  not. And an exception between the answer and `insert_tool_call`, which comes
  last (`orchestration/pack_worker.py:143`, `160`, `184`, `195`,
  `orchestration/hero_worker.py:204-288`), leaves that image without a row, and
  in the loop over a batch (`pack_worker.py:426-438`) those behind it: `StoreFails`
  of `ProviderCalls`.
- The cost of a batch is looked up after its images were made, so an unknown
  size aborts the run with images that were paid for.
- Nothing closes the packs and regenerations that a crashed process left
  `running`: there is no startup reconcile step
  (`plan/adr/0008-background-task-strategy.md:54`). Triads are closed only if
  someone polls them in the viewport lab, and not when all of their variants had
  been published (`inspector/hero_ab.py:94`).
- A pack whose worker is cancelled at its callback, in a shutdown that left the pool
  open, goes from `ok` to `failed`, though its consumer may have been told that it
  is complete: `Cancel` of `PackWorker`.
- A pack whose worker raises is closed as failed without a callback
  (`plan/ASSET-PACK-CONSUMER.md:126`: the service POSTs when the worker
  finishes), and leaves the rows in hand `pending` or `generated`
  (`plan/adr/0005-external-media-assets-ddl.md:71`).
- A failed pack, a failed regeneration and the loser of two regenerations never
  roll up the cost of the calls they recorded (`packet/SPEC.md:145`).
- The image of a regeneration cannot be regenerated: its run has no payload
  record, so the route answers 400 (`slices/s11-endpoint-regenerate-slot/SPEC.md:18`).
- A reframe whose source cannot be fetched raises outside the `try`, so its run
  stays `running` (`plan/adr/0008-background-task-strategy.md:35`).
- After an unsupersede the old and the new image of a slot are both active
  (`slices/s14-inspector-iteration/SPEC.md:13`: it rolls back a regeneration).
- The sweep cancelled between delete and UPDATE strands its row
  (`slices/s16-cold-storage-cron/SPEC.md:21`: in-flight sweeps drain), and it
  moves a row restored since its SELECT (`docs/retention.md:17`).
- A pack that loses the race for its key is answered 500, not with the winner's
  run (`plan/ASSET-PACK-CONSUMER.md:36`), and leaves a run that stays `running`.
- A preview whose first attempt failed is answered 409 for its key for ever
  (`slices/s12-endpoint-style-preview/SPEC.md:18`).
- The poll of a run without a photograph answers `failed`, since it closed as
  ok with no upload, and the poll of a regenerated variant, whose run has one
  row, can only answer `partial`: three uploads are expected of every run
  (`routes/hero_candidates.py:53`).
- A mobile run keeps waiting, and keeps its permit, after its desktop run failed
  or was superseded: it looks at rows only.

## 13. What is not modelled, and what is out of reach

- Pages and queries of the inspector (its mutations of rows, runs and verdicts are
  `SlotLineage`, `HeroTriad` and `TasteCorpus`), authentication, payload schemas,
  prompt texts, the catalogues, price tables, the other scripts: no state that
  changes under concurrency, or functions of one request.
- The pixels: drift and quality checks are nondeterministic outcomes.
- A statement that commits although its client sees an error; a database that
  never answers.
- Liveness and ENABLED are model-checked on the instances above, never proved.
  The prover has no rule for them here, nor induction over data, which the step
  from "each step counts down" to "it ends" would take. What is proved for every
  instance is their safety: somebody can go on (`CanMove` and its like repeat the
  guards of the actions), each step counts down, and who has ended has done its
  part.
- The inductive invariants (`WorkerInv`, `LineageInv`, `SweepInv`, `KeyInv`,
  `TriadInv`, `CallsInv`, `PoolInv`, `RuntimeInv`, `CorpusInv`), the type invariants of these
  modules, `ClosedStaysClosed` and `FinalPollStands` are proved and for
  that reason are properties of no run. Nor are those at the end of each module,
  on what of its liveness is safety and on abandoned keys, stranded rows and
  orphans: they were proved after TLC had found no counterexample on the instances
  of the runs.

## 14. Plan

In order of what it would show:

1. Pure functions against reference definitions: `_generation_slot_order`, the
   layout resolver's table, `pick_primary_failure_mode`, `_map_poll_status` for
   runs of any size.
2. `ConnPool` as the environment of the other modules: that an await of theirs
   ends, which their fairness assumes, as a consequence of `EveryTaskEnds`.
3. Two imports one after the other in `TasteCorpus`, and the edits of a hero
   variant's prompt in `SlotLineage`.

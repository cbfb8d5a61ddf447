# A TLA+ verification project for vocabulary-micro

vocabulary-micro is a vocabulary trainer made of small services. A React page
talks to an API gateway (TypeScript, Fastify), which runs jobs and streams their
events to the browser. Behind it are a lexicon service and an assignments
service (TypeScript over one Postgres database), an NLP service (Python: parse
pipeline, asynchronous lexicon sync, caches of lexicon indexes, an optional
local LLM server) and an export service.

This directory holds TLA+ models of the parts where order, concurrency and
failure matter and of the rules that decide what a parse finds, TLC
configurations that check them on small instances, and proofs checked by TLAPS.
`PROJECT.json` is the machine-readable side of this text: components, runs,
mutants, the map from definitions to source lines, findings, hazards and
theorems.

    tlc -workers 2 -config MCUnitStore.cfg MCUnitStore     # one run
    tlapm UnitStoreProofs.tla                              # one proof module

## 1. Inventory

Paths below `src/backend/python_services` are written `py/`, those below
`src/backend/services` are written `ts/`.

| component | source | state it keeps | operations | module |
|---|---|---|---|---|
| async sync queue | `py/core/domain/services/sync_queue.py`, `ParseAndSyncInteractor.close` | a bounded `queue.Queue`, `_queued_jobs`, `_in_flight_jobs`, the stop event, worker threads | enqueue, worker loop, wait_for_idle, shutdown with or without drain | AsyncSyncQueue, JobQueueContract |
| gateway jobs and streams | `ts/api-gateway/src/jobs.ts`, the job routes and `streamGatewayJob` of `app.ts` | maps of jobs and timers; per job a queue of events and a queue of waiters | createJob, pushJobEvent, nextJobEvent, cleanupJob, the TTL timer, the producers | GatewayJobs |
| browser job client | `src/frontend/src/shared/hooks/useSSEJob.ts`, `api/client.ts`, the Parse tab | status, result and error of the hook, `cleanupRef`, the EventSource | start, the handlers of the stream, reconnects | SseJobClient |
| legacy job bridge | `ts/shared/src/legacy.ts` | none between requests | forwards the events of a backend stream into a gateway job | part of GatewayJobs |
| gateway proxy routes | `ts/api-gateway/src/app.ts` | none | forward one request to one service | not modelled |
| parse use case | `py/core/use_cases/parse_and_sync.py` | the queue it owns | execute (tokenize, match, three passes of candidates, table, summary), close | ParsePipeline, TextAnalysis; close in AsyncSyncQueue |
| NLP pipeline | `py/infrastructure/nlp/lexicon_engine.py`, `tokenizer.py` and the matchers beside them | lazily loaded models, the WordNet check and lookups, a circuit breaker, an embedding cache, `_last_doc`, the documents kept per request | the five stages of `parse_text`, each with a limit, a deadline and a fallback | MatcherStages; the kept document in ParsePipeline |
| second pass | `nlp/mwe_second_pass_engine.py`, `mwe_candidate_detector.py`, `mwe_detector.py`, `mwe_disambiguator.py` | a lazily loaded model, the synset cache | augment the index, detect, drop overlaps, choose senses | MweDetection, run by TextAnalysis |
| text rules and table | `py/core/domain/services/text_processor.py`, `parse_table_builder.py` | none | canonical forms, candidates, categories, rows | TextRules, run by TextAnalysis |
| candidate resolver | `py/core/use_cases/parse_sync_candidate_resolver.py` | none of its own | sync_candidates, enqueue_async_sync, process_async_sync_job | ParsePipeline |
| third pass | `py/core/use_cases/third_pass_orchestrator.py`, `llm_third_pass.py` | none of its own | extract, validate, upsert what was found | LlmThirdPass, run by TextAnalysis; failures in ParsePipeline; the upserts' statements in MweIndexCache |
| snapshot client, index caches | `py/infrastructure/adapters/http_lexicon_gateway.py`, `nlp/mwe_index_provider.py` | a snapshot with its TTL; an index with its version, under a lock | get_snapshot, version check, rebuild, upsert and invalidate | MweIndexCache |
| lexicon store | `ts/lexicon-service/src/postgres_repository.ts`, `app.ts` | `lexicon_entries`, `lexicon_categories`, `lexicon_meta`, the three `mwe_` tables | add, bulk add, update, delete, bulk status, sync row, create and delete a category, MWE upserts, export | LexiconStore, MweIndexCache |
| lexicon SQLite repository | `ts/lexicon-service/src/repository.ts` | one SQLite connection | as above, synchronous; kept for its types | not modelled |
| assignments store | `ts/assignments-service/src/postgres_repository.ts`, `app.ts` | `units`, `unit_subunits` | create, update, delete, bulk delete, list; quick-add and scan | UnitStore |
| assignment scanner | `ts/assignments-service/src/scanner.ts` | none | coverage, matching, diff | not modelled |
| schema migrations | `ts/shared/src/postgres_migrations.ts` | the table of applied migrations, an advisory lock | apply what is pending | not modelled |
| local LLM server, warm-up | `py/infrastructure/bootstrap/llama_server_runtime.py`, `initialization_coordinator.py`, `useWarmup.ts` | a child process; a phase and a thread; a polling query | ensure_started, close; start, snapshot; poll | LlamaRuntime, but for the polling |
| NLP service shell | `py/nlp_service/*` | its use cases | lifespan: build, warm up, close; HTTP routes | the lifespan in LlamaRuntime |
| export service | `py/export_service/*` | none between requests | write one workbook from one snapshot | not modelled |
| shared HTTP, contracts, config | `ts/shared/src/*`, `py/infrastructure/config/settings.py` | none | validation, parsing | not modelled |
| other frontend views, logging, tooling | see `PROJECT.json` | none of the system's | - | not modelled |

How they interact. The page posts a job to the gateway and opens an EventSource
on it; the gateway's producer calls the NLP service (parse, then the third pass)
or forwards a legacy stream, and pushes events. The NLP service reads indexes
and snapshots from the lexicon service over HTTP and adds the candidates of a
parse through its bulk and upsert routes, at once or from the worker threads of
the queue. The assignments service searches and adds lexicon entries over HTTP
for scan and quick-add. The two stores share one Postgres database and no
tables.

What is hard, and what makes each part correct:

- *Queue.* Three counters kept by hand beside a `queue.Queue`, a stop event set
  without the lock, a worker that decides on a snapshot. Correct: the counters
  never drift, an accepted job is handled or reported, a reported idleness is
  final, the workers stop.
- *Parse.* Request threads share a tokenizer that hands over its document
  through a field, three passes decide from an index loaded once, any call may
  fail or run out of time halfway. Correct: the answer tells the truth about the
  lexicon, no candidate is lost in silence, an expression gets one category, a
  second pass reads its own text.
- *Gateway and browser.* Several streams may compete for the events of one job;
  the gateway does not notice that a reader is gone; an EventSource reconnects
  by itself; a TTL timer may remove the job under everybody. Correct: every
  event reaches one stream and in order, every stream ends, memory is given
  back, the page shows the outcome of the run the user is in and settles.
- *NLP stages.* Stage objects are shared by all request threads: a WordNet check
  made once, lookups cached with their exceptions, a circuit breaker, a bounded
  embedding cache. A stage may be missing, late or failing. Correct: an answer
  with status `ok` has missed nothing, and one request after another never
  leaves the shared state worse than it found it.
- *Text analysis.* Three passes recognize the same phrase on three ways, each
  with its own canonical form, and the second and third extend the index the
  next parse reads. Words that WordNet adds get negative ids, limits decide what
  is separable, the LLM answers in any shape. Correct: what is in reach is
  found, a sense belongs to its expression, the table shows what the lexicon
  has, a usable answer is not lost in silence.
- *LLM server.* `ensure_started` takes no lock and is called at start-up and by
  every third-pass request; the child may hang, die or lose the port. Correct:
  no server without an owner, no server stopped that answers, every call
  returns.
- *Index caches.* Version and rows are read at different moments, from different
  tables, through a cache with a TTL, while upserts write the row and the
  version in two statements. Correct: an index that passes the version check has
  the rows of that version; a parse sees what was acknowledged before it began.
- *Stores.* READ COMMITTED transactions of several statements, some operations
  with no transaction at all, sequences, unique constraints, row locks. Correct:
  committed data is whole, answers are about the own write, deleted means
  deleted, a version counts every change, deadlocks are confined.

Each hazard of the code is in `PROJECT.json` under `hazards`, at its line, with
the properties that would catch it or the reason why none does yet.

## 2. Modules and how they correspond to the code

**JobQueueContract** is the abstract promise of the queue: a bounded FIFO
backlog, at most one running job per worker, each job that leaves the backlog
run once or canceled, and cancellation only once the queue is closed.

**AsyncSyncQueue** models `sync_queue.py` thread by thread. Each `with
self._lock` block is one action, except that of `enqueue`, which is two (check
and put) because the stop event is set without the lock. `_worker_loop` is
`WorkerSnapshot` (line 125), `WorkerDecide` (126), `ClaimJob` or `ClaimNothing`,
`HandlerEnds`, `ReleaseInFlight`. The closing thread walks through `close()` and
`shutdown()`: wait for idle, choose drain, set the event, drain or clear, join,
report; every wait may time out. `fate` is a history variable: what became of
each job. `Contract == INSTANCE JobQueueContract WITH ...` is the refinement
mapping: backlog is the queue, running/settled/canceled are read off `fate`, and
the contract is open until the event is set *and* the enqueue that had passed
its check is through.

**ParsePipeline** models one call of `execute` per request, each a thread of the
NLP service, down to `LexiconEngine.parse_text`, the candidate resolver and the
third-pass orchestrator. `req[r].pc` is the next stretch of code that touches
something shared: `Intake` (the first pop of `_last_doc`), `Tokenize`,
`PopLastDoc`, `CacheDoc` (`_request_doc_cache`), `LoadIndex`, then
`Choose`/`Insert` (direct) or `Enqueue` (queued) once per pass, `SecondPass`,
`ThirdPass`, `UpsertMwes`, `Release`. `known` is what `sync_existing_*` hold:
the index and what the passes have decided since. `WorkerTakes`, `WorkerAdds`
and `WorkerFails` are `process_async_sync_job` on the queue's one worker.
`Reject` is a user in the lexicon's page; the index that is loaded afterwards
leaves the entry out (`Visible`, `buildIndex`). What
the matchers find in a text is a constant of the instance (how they find it is
in MatcherStages and TextAnalysis); what the LLM names and how sure the
transformer is are arbitrary. A request chooses its parameters (sync, third
pass) where the code first looks at them, and one that is over keeps nothing but
how it ended.

**MatcherStages** models `parse_text` and what its five stages share between
requests. A step is the code between two accesses of shared state: the snapshot,
the lemma stage, `WordNetMatcher._ensure_available` in its two halves (marked as
checked, then checked), each lookup, each call of the circuit breaker, each read
or write of the embedding cache. A token keeps whether it is known, by which
stage and with which categories. Which packages and models are there (`cfg`) is
chosen at the start; any stage may exceed its deadline or its limit of unknown
tokens, any lookup and any encoding may fail. A snapshot's content (`rows`) and
its version are chosen apart, since the code fetches them apart; the cached
embeddings are those of the content a request had that encoded them (`encoded`),
and a request compares with what it found there (`basis`). What embeds near a
word (`Near`) and what has similar letters (`Alike`) are two relations: the
fallback of a failed encoding matches other words than the model. The tokenizer
keeps the first `MaxTokens` words (`Kept`). `raised` and `overlap` are
histories: words whose lookup has raised, and whether two requests have met.

**TextRules**, **MweDetection** and **LlmThirdPass** are pure operators, one per
function of the code: the spelling rules, candidates and categories of
`TextProcessor` and the rows of `ParseTableBuilder`; the augmentation,
detection, overlap and sense choice of the second pass; the parsing of an LLM
answer by the shape of its JSON (`Shapes`: where the items are and what is cut
off or around them; what JSON of which shape a real model writes is not
modelled). Texts are short sequences of tokens with the tags the rules read. What
a spelling rule makes of a word, what WordNet says and what scores the vectors
give are functions given as constants; words that the patterns of
`allow_auto_add` refuse are the set `Unsafe`.
What goes through a list from its first element to its last is a recursive
function on the places of the list. `Taken`, what the overlap rule keeps, is the
one subset in which a candidate is in unless a better one that is in overlaps it:
what the loop over the ranked list computes. Their constants are assumed to be
what the code guarantees: the spelling rules change plain words only
(`RulesAssumption`), `IsIndex` is what the tables of the lexicon service keep
(positive ids, one expression for a form), and one thing their contents keep: a
separable pair of verb and particle is a phrasal verb with these two as base and
particle, unless those are left blank.

**TextAnalysis** EXTENDS the three and runs one text through `execute` several
times: `ParseTokens`, `SecondPass`, `ThirdPass` or `NoThirdPass`, `BuildTable`,
`Answered`. Between parses live the lexicon, the expression index (`store`), the
lazily loaded model and the synset cache. Candidates are added at once and no
call to the lexicon fails, as ParsePipeline covers both; of the two upserts of an
occurrence either may fail (`upserts`).

**LlamaRuntime** models the process of the NLP service around its warm-up thread
and its llama-server: the lifespan (`StartWarmUp`, `Serve`, `Shutdown`,
`Stopped`) and `ensure_started` in steps between two points where another thread
can run: the check, taking the old process, killing it, the probe of the
endpoint, the decision, Popen, recording the child, the wait for readiness. A
child process binds the port or dies, loads, serves, stalls, recovers or crashes
as it likes, and a probe may miss one that serves. `overlap` says that two calls
have run at the same time.

**GatewayJobs** models `jobs.ts` and its users. Node runs one callback at a
time, so an action is the code between two awaits; events pushed without an
await in between are pushed in one action. A resolved promise continues later:
`inbox` holds what a waiter was given. Producers exist for parse, parse with
third pass, service jobs and forwarded legacy streams (`kind`); every HTTP call
they make may succeed or fail. `Expire` is the TTL timer, free to fire whenever
the job is in the map. `produced` and `written` are histories.

**SseJobClient** EXTENDS GatewayJobs with the hook, one EventSource per run and
the network. `source[j].read` is how much of what the stream wrote has arrived.
`LoseConnection` breaks one (bounded by `MaxDrops` per job): what was written
and not yet read is gone, and the stream on the server goes on as if nothing had
happened, as in the code. A response that ends while the source is open makes
the browser reconnect, too.

**MweIndexCache** models the path of a multi-word index: `get_snapshot` of
`MweIndexProvider` (version outside the lock, then lock, compare, load rows),
`_HttpLexiconSnapshotClient` with its one cached answer and TTL,
`exportSnapshot` with one statement per table, and the upserts of the third pass
with the two statements of the service and the two invalidations of the client.
The contents of a table are the set of upserts it has absorbed. `torn` and
`unlabelled` are histories that say when an answer was read while the store
changed and when a row has changed since the last bump.

**UnitStore** models the assignments repository. A request picks its operation
and its arguments when it begins; `pc` is its next SQL statement. `units` is
what is committed, `draft` what a transaction has written, `lock` the row locks.
An update that waits for a lock sees the row as committed when it gets it; an
insert of a taken number fails; subunits need their unit; ids are never reused.
A transaction may fail between any two statements.

**LexiconStore** models the lexicon repository without the `mwe_` tables.
Transactions (`addEntry`, `addEntries`, `syncRow`, `bulkUpdateStatus`) go through
`After`, their statement order; `updateEntry`, `deleteEntries`, `createCategory`
and `deleteCategory` are separate statements. `WaitsFor(r)` is the set of
transactions the next statement of `r` waits for (an uncommitted insert of the
same key or the locked row of an entry that has it, a locked row, the row of
`lexicon_meta`); a statement runs when it is empty. The `UPDATE` of `updateEntry`
is two steps, because it locks its row (`LockEntry`) before it looks for its key
(`UpdateEntry`) and may wait in between. `counted`, `lost` and `raced` are
histories: the entries when the version was last raised, a bump that never came,
and the categories that were dropped while a request was putting them to use.

Common abstractions: identifiers are model values or small numbers; texts,
timestamps, pages of search results and log lines are left out; HTTP calls
succeed or fail; the locks of one SQL statement are taken at once, those of the
`UPDATE` of `updateEntry` apart.

## 3. Runs

Every passing run is exhaustive within its bounds; sizes are distinct states.
Each property of a passing run has a mutant of the code it is about in
`PROJECT.json` (a dropped guard, a swapped order, a missing reset), which
violates it under the same configuration. The types (`TypeOK`) of
AsyncSyncQueue, GatewayJobs, MweIndexCache, UnitStore, LexiconStore and
LlamaRuntime (there `RuntimeTypeOK`) are proved for all instances (section 5) and
so are not repeated in the runs.

| run | instance | size | shows |
|---|---|---|---|
| `queue` | 3 jobs, 2 workers, queue of 2 | 212 thousand | `CountersMatch`, `IdleIsFinal`, `ReportIsComplete`; `WorkersExit`, `AcceptedIsHandled`; `ImplementsContract` |
| `queue_drain` | 1 job, 1 worker | violation | `DrainLeavesNothing` is violated (finding 1) |
| `gateway` | 1 job, 3 streams, legacy streams of up to 2 events | 206 thousand | `WaitersAreReachable`, `EachEventOnce`, `StreamsKeepOrder`, `ParseOrder`; `StreamsEnd` |
| `client` | 2 runs of the hook, 2 streams, 1 broken connection each | 656 thousand | `SettledIsClosed`, `ShowsOwnOutcome`, `NotFoundOnlyAfterLoss`; `ClientSettles` |
| `pipeline` | 2 requests, 2 texts that share a phrase, 1 kept document, queue of 1, 1 rejected entry | 695 thousand | `ReportedIsStored`, `SecondCategoryIsExplained`, `NothingUnaccounted`, `DocsAreReleased`; `QueuedIsHandled` |
| `pipeline_doc` | the same | violation | `SecondPassReadsOwnText` is violated (finding 2) |
| `stages` | 2 requests, overlapping or not, 3 texts of which one is cut off, 2 contents of the lexicon under either of 2 versions, breaker threshold 2, 1 cached embedding of 2 forms | 2.7 million | `OkMissesNothing`, `AloneIsSound` |
| `analysis` | 21 texts, 3 expression indexes, 16 LLM answers, 2 parses | 1.3 million | `SeparatedIsFound`, `UnresolvedIsInseparable`, `ResolvedShowsItsSense`, `ShownIsStored`, `NoSilentLoss` |
| `llama` | 2 callers, 3 calls, 3 processes | 246 thousand | `OrphanNeedsOverlap`, `OneServerAtATime`; `CallsEnd` |
| `mwe_index` | 2 readers, 3 index requests, 1 expression and its sense | 1.7 million | `CurrentVersionMeansCurrentRows`, `AcknowledgedIsVisible` |
| `units` | 4 requests, 2 stored units, 5 ids, up to 2 subunits | 1.0 million | `UnitsAreWhole`, `ReplyIsOwnWrite`, `TornListIsARace`, `DeletedStaysDeleted`, `ConflictMeansARival` |
| `lexicon` | 3 requests, 1 word in 2 categories, 2 stored entries, 4 ids, up to 2 items | 1.2 million | `VersionCountsChanges`, `OrphansAreARace`, `DeadlocksNeedABulkOrATrade` |

Why the bounds are enough. `queue`: two workers and three jobs reach a full
queue with both hands busy, a refused job, and a job accepted during every phase
of the shutdown. `gateway`: three streams are one that is served, one that waits
and one that comes late; jobs share nothing, so one is enough. `client`: two
runs suffice for one run to disturb the next, and a reconnect takes the second
stream; what happens after the streams have run out is excepted from
`ClientSettles` (`OutOfStreams`). Forwarded streams are in `gateway` only: to
the browser they look like the others. `pipeline`: one phrase that is a phrasal
verb to the tokens, an idiom to the second pass and the LLM, and a word of the
user's to the other request is added by every pass and by both requests at once;
with one kept document each request evicts the other's; one rejected entry is
enough to make the phrase new to whoever loads an index. `stages`: an inflected
word, one WordNet has, two near another (one of them past the forms that are
encoded), and two nested phrases meet every stage; a fourth word is cut off; one
word is near in both ways, two in one way only; two requests overlap at every
step or the second meets what the first one left; two failures open the breaker,
the second embedding overflows the cache or meets the other content under its
version. `analysis`: verbs with a regular head, an irregular one and one that
changes twice, with and without a word or a comma between, four taggings of the
particle, one of them a child of the verb, and a second particle; separable and
inseparable seeds, an idiom across the gap, an empty index; each of the `Shapes`
in content or reasoning, idioms with a comma and with a particle at the end, and
of each upsert neither, one or both of its halves; the second parse reads what the
first one taught. `llama`: two
calls overlap in every way, a third one meets what they left, and each can start
a process. `mwe_index`: a stale answer needs a reader that is overtaken by
another, and a third request that meets what they left. `units`: every conflict
is between two requests, the third and fourth meet what they leave; two subunits
distinguish an order and a count. `lexicon`: two keys give opposite lock orders,
three requests a circle of three and a witness of a race between two; `MaxId` is
the bound of the sequence, so interleavings that need more than four inserts are
cut off.

`stages`, `analysis`, `mwe_index`, `units` and `lexicon` check what must never
happen and assume no fairness.

Deadlock is checked where the model says what a proper end is (`queue` has a
`Terminated` step, `mwe_index` an `AllAtRest` step); in the other runs a state
in which every request is answered, every run over, the queue empty, has no
successor by design.

Symmetry is used for readers and requests in runs without liveness properties;
nothing in those modules orders them.

Fairness. Weak fairness of each thread, callback chain or backend call: Python
threads and the Node event loop schedule every runnable one, and each HTTP call
and each wait of the code has a timeout, so it ends one way or the other. In
ParsePipeline only the worker of the queue is fair: what it promises must not
depend on the requests going on. The TTL timer is fair because `setTimeout`
fires. In LlamaRuntime the threads are fair, each wait of them ends by its
deadline, and no child process has to do anything (that a killed one is gone, and
that only one at a time holds the port, is the operating system's part). No
fairness is assumed of what nobody promises: that a request is made, a connection
breaks or a user starts another run. `ClientSettles` is checked with at most
`MaxDrops` broken connections: a network that breaks every connection for ever is
not covered.

## 4. Findings

1. `queue_drain` (a bug in the code). `_worker_loop` takes its idle snapshot at
   line 125 and tests the stop event at 126. A job accepted between the two,
   with the event set right after, is left in the queue by the exiting worker:
   `shutdown(drain=True)` ends with no worker alive, `remaining_depth` 1, and is
   logged as complete. `test_shutdown_race.py:83-85` asserts the depth is 0.
   `ReportIsComplete` still holds: the report tells how much is left.
2. `pipeline_doc` (a bug in the code). `TokenizerStage` keeps its document in
   `_last_doc` (tokenizer.py:103) until `pop_last_doc` (161); FastAPI runs the
   parse route in a thread pool. A second request that tokenizes in between
   leaves its document there, which the first keeps under its own id and text,
   and its second pass reports, and adds, expressions of the other text. The
   check of the text in `pop_cached_request_doc` compares the text kept beside
   the document, not the document.

Smaller observations made while modelling:

- The waiter of a dead connection swallows the next event; the reconnected
  stream is told "Job not found" and the result is lost to the user
  (`NotFoundOnlyAfterLoss`: nobody else sees that message, but for a job that
  outlived its TTL).
- Section 9.3 of `docs/LLM_PROJECT_MAP.md` lists a `stage_progress` event of
  stage `nlp` with status `error`; a failed NLP pass sends a bare `error` event
  instead.
- The document lists `done` last, but streams stop at `error`.
- A parse whose entries could not be added raises and leaves its document in the
  cache until 32 newer ones push it out (`DocsAreReleased` allows just these).
- The upsert of the third pass overwrites `is_separable` with FALSE. An
  expression that was separable is then looked up as inseparable, where the
  phrasal verb that WordNet adds for the text stands before it and has no senses
  (`UnresolvedIsInseparable`).
- What is stored is canonicalized once more than what is shown, and without its
  type (`partition_sync_candidates`, parse_sync_candidate_resolver.py:195). The
  idiom "heads up" is shown as such and stored as "head up"; the phrasal verb
  "dress up" of the second or third pass is shown as "dres up" and stored as "dre
  up", since `normalize_verb_head` is not idempotent. The next parse shows either
  as unknown again. `ShownIsStored` says in which form each row is stored.
- A phrase with a comma or another character outside of a-z, - and ' is shown but
  never stored (`allow_auto_add`, text_processor.py:334-350).
- A separable expression is missed if its particle has none of the four relations
  or three tags of mwe_detector.py:196-197 and either is no child of the verb or
  gets no score from WordNet or the vectors (219); or if the particle comes twice
  in reach and `_find_particle_index` takes the other one (`SeparatedIsFound`
  says when it is found).
- A third pass ends with status `ok` and without occurrences although the answer
  has usable ones if they are under a key nobody reads, alone in a list that is
  cut off or in prose, or cut off next to reasoning with an empty fenced object
  or a blank item (`NoSilentLoss` lists these cases and shows that there are no
  others).
- The index leaves out rejected entries, so a parse takes a rejected word for new:
  it reports it as added where the insert finds it in the same category, and adds
  it again where the candidate has another (`SecondCategoryIsExplained`).
- A WordNet lookup that raises is cached as "not there" for the life of the
  process (`OkMissesNothing` excepts such words).
- With an embedding model loaded, only the first `bert_top_k` forms of the
  lexicon in sorted order (400 by default) are encoded: in a larger lexicon an
  unknown word is compared with the beginning of the alphabet, while the string
  similarity behind it compares with all. And an encoding that fails is made good
  by that similarity of letters, which finds other words, under the same status
  `ok` (semantic_matcher.py:254-274). `OkMissesNothing` therefore speaks, with a
  model, only of words that both ways would match.
- A text is cut off at `max_input_tokens` with status `ok` (tokenizer.py:99-102);
  the answer says `truncated` only in the stage's metadata.
- The embedding cache is keyed by the version of a snapshot, whose rows are
  fetched apart (semantic_matcher.py:183-186): a snapshot with newer rows under
  an older version leaves its embeddings to the requests of that version.
- The circuit breaker never opens for requests that come one after another: the
  fallback that follows a failed encoding records a success (`AloneIsSound`).
- A llama-server that is slow for a moment is stopped and started again by the
  next call, because its probes wait one second (`OneServerAtATime` says what
  holds all the same).
- Overlapping calls of `ensure_started` can leave a llama-server that nobody
  stops (`OrphanNeedsOverlap`).
- `reset` of the hook is used nowhere; the hook has no cleanup on unmount.
- `LLM_SERVICE_ENABLED`, which the document names, is read nowhere.
- `importSnapshot` of both stores is called nowhere; `LexiconIndexProvider` is
  bound nowhere.
- The number of a unit (not its id) is reused after the newest unit is deleted;
  an update of a unit that is deleted meanwhile fails on the foreign key instead
  of answering "not found"; of two creates at a time one fails on the unique
  number; of two `syncRow` of one word one fails on the unique key.
- `deleteCategory` and `updateEntry` check in one statement and write in
  another; either race leaves an entry in a category that is not in the table
  (which the listing shows all the same, because it unites both).
- `bulkUpdateStatus` and `addEntries` lock in the order of the request and can
  deadlock each other. `updateEntry` holds its entry's row while its `UPDATE`
  waits for the key, so two users who swap the names of two entries deadlock
  with a request each; one of them fails. `DeadlocksNeedABulkOrATrade` says that
  requests about one entry deadlock among themselves in no other way.

## 5. What is proved

Each theorem is `Spec => []P` (or the refinement) for every value of the
constants that the named ASSUMEs of its module allow: bounds are naturals, the
special values are not ordinary ones, workers and processes are finitely many.
TLC evaluates the assumptions in every run. In each module an inductive
invariant is proved first, because what is worth saying is seldom inductive;
there is one lemma per action or group of actions, with a step per part of the
invariant it can disturb.

**AsyncSyncQueueProofs.** `SpecCounts`: the types and `CountersMatch`. A worker
that releases its slot must be known to hold a job and the clear to have
something in hand: the invariant adds `HandsFull`, which ties the program
counters to the jobs in hand. Cardinalities of `Busy` and `Handling` change by
one when one worker moves in or out, by the finite-set theorems of the library.
On it rest `SpecIdleIsFinal`, `SpecReportIsComplete` and
`SpecImplementsContract`, the refinement of JobQueueContract. `JobInv` adds to
the counts that a job is queued at most once (`QueuedOnce`) and in one hand
(`InOneHand`), that the job being enqueued is new (`EnqueuingNew`), and what
each point of the closing thread implies (`Closing`). Every action is then shown
to be a step of the contract or a stutter.

**GatewayProofs**, the gateway alone. `SpecTypeOK` and
`SpecWaitersAreReachable`. `JobInv` adds that a job holds each waiter once and
the waiter waits for that job (`WaitersWait`), that a waiting stream is held by
the job it waits for (`WaitingIsHeld`), that a job outside the map holds nothing
and no job holds both waiters and events (`NothingLeft`), and that an opened
stream has a job (`Opened`). `SpecEachEventOnce`, `SpecStreamsKeepOrder` and
`SpecParseOrder` follow from `DeliveryInv`: the queue of a job holds the newest
numbers without a gap, so what the streams have taken is older than what is
buffered; nothing is taken twice while it is on its way; and what a producer has
pushed has the shape that its point in the code implies (`ParseShape`). That an
event is in one place is a statement about cardinalities, proved from "two
holders are one".

**GatewayProofs**, the browser and the gateway. `ClientSpecImplementsGateway`: a
step of the browser and the gateway together is a step of the gateway or leaves
it alone, so what is proved of GatewayJobs holds of the composition.
`SpecSettledIsClosed`, `SpecShowsOwnOutcome` and `SpecNotFoundOnlyAfterLoss`
follow from `ClientInv`, which is `DeliveryInv` and: the hook is at one thing at
a time (`OneAtATime`); an open EventSource reads a response of its own job and
has read nothing that closes it (`ReadsItsJob`); a job whose connection was
never broken has one stream (`OneStream`) and, unless its timer fired, stays
until that stream has ended (`KeptForItsStream`): so "Job not found" needs a
loss.

**NlpServiceProofs**, the index. `SpecTypeOK`, `SpecCurrentVersionMeansCurrentRows`,
`SpecAcknowledgedIsVisible`. The idea is one predicate, `Sound(s)`: an answer of
the service that is not torn has every acknowledged row, and with the current
version the current rows, unless a bump is yet to come. It holds of the cached
answer (`CacheSound`), of answers in flight (`HeldSound`) and of the index
(`IndexSound`), beside the types (`Typed`), what has been written (`Written`),
the lock (`LockHeld`) and what the history marks (`Untorn`).

**NlpServiceProofs**, the LLM server. `SpecOrphanNeedsOverlap`. While no calls have
overlapped, one caller at most is inside (`OneCaller`), nothing alive is named
when a new process is about to take its place (`Replaceable`), and every living
process is accounted for. `SpecOneServerAtATime` adds that the process the
manager names has been ready once, or has ended, when no call waits for it
(`KeptWasReady`); that two processes are not alive at a time then follows from
who accounts for them.

**LexiconStoreProofs.** `SpecTypeOK` (no two entries have one key, no two
transactions have written one row), `SpecVersionCountsChanges`,
`SpecOrphansAreARace`, `SpecDeadlocksNeedABulkOrATrade`. `StoreInv` says of the
tables what holds of all of them (`Stored`), of each request the types and what
its point in the code implies (`Working`, `Categorized`, `Holding`), and of two
requests that they have not written one row (`Apart`); an `UPDATE` that looks for
its key holds the row of its entry, which is not deleted meanwhile (`Locked`).
The deadlock theorem follows from `PacedInv`: any other request of one item holds
nothing that comes, in the order of its statements, after what it waits for, so
the rows somebody waits for in a circle of such requests are those of updates,
and these wait for one another's keys.

**ParsePipelineProofs.** `SpecReportedIsStored`: `ParseInv` says that the words a
request believes to be there (`Told`) are stored or are those of the insert it
makes next, at every point of the three passes. `SpecSecondCategoryIsExplained`,
`SpecNothingUnaccounted` and `SpecDocsAreReleased` have one invariant together,
`PassInv`, because all need the types of what a pass hands on (`Shape`). What was
seen and is not accounted for is in the insert that comes next (`Accounted`). A
request knows all words it has added, and those it is about to add are not among
them (`OwnEntries`); while syncs are asynchronous only the worker adds, so the
index it loaded has all that is not rejected (`QueueOK`). `Accepted`, `Detected`
and `OthersDocs` select from a sequence with `Only`, a recursive function;
`OnlySelects` says by induction what it selects.

**MatcherStagesProofs.** `SpecOkMissesNothing` and `SpecAloneIsSound`. What each
stage does to the tokens comes first, for texts of any length: no stage forgets
a match (`Grows`), and each finds what `ShouldBeKnown` says it is there to find
(`ExactGrows`, `PhraseGrows`, which needs that `Max` of a set of ends is its
largest element, `LemmaGrows`, `SemanticGrows`). `MissInv` then says of every
point of a request that a stage with status `ok` has found its words (`Done`),
that the semantic stage says `ok` only at its end, after the last change of what
it compares with,
that between the lookups everything WordNet has is matched or still to be looked
up (`Probing`), and that a cached "no" is true or its word is in `raised`
(`LookupsOK`), which is all that other requests can disturb. `AloneInv` says
what the shared state is while requests come one after another: the check is
made before its result is used (`CheckedFirst`), a failure is on the breaker's
account only until the fallback behind it has gone well (`OneFailure`), and
there is room for the lexicon that is being encoded (`RoomForOne`).

**TextAnalysisProofs.** All five properties of TextAnalysis, for texts, indexes
and answers of any size. Most of it is about operators. A recursive function over
a list is tied to its law by induction over a set of numbers
(`NumberInduction`): what `Only` selects and in which order, that no pair
`NewPairs` adds is one of the index (`NewPairsLaw`), that `LearnedAll` leaves an
index, that the reading of bullet lines yields items, that `FlattenSeq` keeps the
elements of its parts. `Merit` is shown to be a strict order on the
candidates, and `SelectionExists` shows by induction on finite sets that what
`Taken` chooses exists; every candidate is thus taken or overlaps one that is
taken, and the taken ones do not overlap.

The invariants are few. `Inputs`: the text is one of the texts and the index is
an index, whatever the third pass has taught it. `SecondIsKept` and
`ThirdIsKept`: what a pass has reported still follows from the text, the index
and the answer it was made from. `Gathered`: what the passes have found is in the
lexicon, and each entry with a form that is looked up as it is has a category of
its own. From these:

- `SpecSeparatedIsFound`: the particle is the least of the children or of the
  tagged ones (`OnlyParticle`), passes one of the branches of `Separated` by its
  tag or by the score of WordNet (`LinkedIsFound`), and so is a candidate that is
  taken or overlapped.
- `SpecUnresolvedIsInseparable` and `SpecResolvedShowsItsSense`: the ids WordNet's
  expressions get are below those of the index, so an occurrence with an id of
  the index is that expression; an expression that is added has a pair that no
  separable one has. `IsIndex` makes an expression the only one for its words.
- `SpecNoSilentLoss`: by the shapes of an answer (`ContentLaw`) and of the three
  places in the reasoning (`ReasoningLaw`); a usable item is normalized to
  something, and a limit above zero leaves some of it.
- `SpecShownIsStored`: each row of the table goes back to the pass that found it,
  whose entries are in the lexicon (`Gathered`). Rows of a pass show the candidate
  that `Accepted` canonicalized again; rows of the heuristic are canonicalized
  again themselves, so they show what is stored. The category is found under the
  stored form unless that would change once more (`NamedCategory`).

**UnitStoreProofs.** `UnitInvariant` proves an inductive invariant `UnitInv` for
any set of requests and any bounds; `SpecTypeOK`, `SpecUnitsAreWhole`,
`SpecReplyIsOwnWrite`, `SpecDeletedStaysDeleted`, `SpecConflictMeansARival`
follow. The checked invariants are not inductive: whether a commit leaves a
whole unit depends on what the transaction's earlier statements met. `UnitInv`
says, in named parts, that committed units are whole (`StoreInv`), that every
transaction has the types and the lock its next statement needs (`TxTypes`,
`LockOK`), that a draft holds only the own rows, as many as have been inserted,
with the number of the unit (`DraftOK`, `UpdateOK`), that what a bulk delete has
found was there (`BulkOK`), that an id from the sequence is unknown to everybody
else (`FreshOK`), that the number a create has chosen was free of the units it
had seen (`ChoiceOK`), and that answers are final (`ReplyOK`). There is one
lemma per action and, under it, a step per part that the action can disturb.

`SpecTornListIsARace` has an invariant of its own, `ListInv`: what a list has
seen in its first statement is still stored as it was, or the request is marked
in `raced`. It needs no locks and no types, so it is proved beside `UnitInv`.

Each inductive invariant was checked by TLC on a small instance before it was
proved. All safety invariants and action properties of the runs are proved. Only
model-checked is everything under fairness (`WorkersExit`, `AcceptedIsHandled`,
`StreamsEnd`, `ClientSettles`, `QueuedIsHandled`, `CallsEnd`): liveness and
ENABLED are out of the prover's reach. Inductions over data are done as
inductions over a set of numbers or of finite sets, since the provers cannot
instantiate an induction theorem with a predicate; the recursion itself is in
recursive functions. No module declares a RECURSIVE operator.

## 6. What could follow

1. Quick-add of the assignments service: search, then add, against the cap of
   1000 rows a page and other writers.
2. Migrations: two services, one database, advisory locks, a crash between two
   migrations.
3. A restart of the gateway as one more action of SseJobClient.
4. Abstract specifications beside JobQueueContract: an event channel that
   GatewayJobs implements per job, and a map from id to unit with atomic
   operations that UnitStore implements.

## 7. Not modelled, and why

- Stateless code: the proxy routes, the scanner, the export service, validation
  and configuration, logging, and the other views of the page (single requests
  over a query library). No order of steps matters in them.
- Developer tooling and the retired SQLite repository: not part of the running
  system.
- The migrations, quick-add and scan, `sync_single_row` (the gateway sends rows
  to the lexicon service instead), the polling of the warm-up by the page, the
  search, statistics and import of the stores: left out in favour of what runs
  concurrently on every parse.
- The framing of server-sent events and `awaitLegacyJobResult`.
- What a model decides: spaCy's tags, WordNet's content, embeddings and what an
  LLM writes are constants or arbitrary; the code around them is modelled.
- ParsePipeline leaves out entries that a user deletes or edits during a parse
  (an answer may then name what is gone), rejections that are taken back, and
  more than one worker of the queue (`async_sync_worker_count` is 1 by default).
  MatcherStages leaves out the lemma cache, which holds what a pure function
  returns.
- Of Postgres the models have the behaviour of READ COMMITTED that the
  statements rely on, not its serialization failures at stronger levels. Of the
  browser they have the reconnecting EventSource, not the back-off between
  attempts.

--------------------------- MODULE ParsePipeline ---------------------------
(***************************************************************************)
(* POST /internal/v1/nlp/parse: ParseAndSyncInteractor.execute and what it *)
(* calls.  Each request is a thread of the NLP service.  It tokenizes its  *)
(* text, keeps the parsed document for the second pass, and then has up to *)
(* three passes whose candidates go to the lexicon: tokens, multi-word     *)
(* expressions, and expressions named by an LLM.  They are added at once,  *)
(* or given to a queue whose worker adds them later (async_sync_enabled).  *)
(*                                                                         *)
(* Threads share the tokenizer and its _last_doc, the documents kept per   *)
(* request, the queue, and the lexicon service.  A document is named by    *)
(* the text it was parsed from.  What the matchers find in a text is given *)
(* by constants; what the LLM finds, and the confidence of the transformer *)
(* that the second pass reports, are arbitrary.  The lexicon's own         *)
(* transactions are in LexiconStore, the queue's threads in AsyncSyncQueue *)
(* and the index of expressions in MweIndexCache: here each is one step.   *)
(* The queue has one worker, as by default.  Users may reject entries at   *)
(* any time; nobody deletes an entry or takes a rejection back.            *)
(***************************************************************************)
EXTENDS Integers, Sequences, FiniteSets

CONSTANTS
    Requests,     \* calls of execute
    Texts,
    TextOf,       \* the text of each request
    Tokens,       \* for each text, the candidates of its tokens
    Expressions,  \* for each text, the multi-word expressions in it
    LlmFinds,     \* candidates an LLM may name
    Blocked,      \* words that allow_auto_add refuses
    Existing,     \* entries that may be in the lexicon at the start
    KnownMwes,    \* words of the expression index at the start
    AutoCreate,   \* categories that a sync may create
    AutoAdded,    \* the fallback category
    MaxDocs,      \* _request_doc_cache_limit
    QueueSize,    \* async_sync_queue_size
    MaxRejected,  \* bound on the entries that users reject
    None          \* no document, no owner

Candidates ==
    LlmFinds \union
    UNION {{Tokens[t][n] : n \in DOMAIN Tokens[t]} \union
           {Expressions[t][n] : n \in DOMAIN Expressions[t]} : t \in Texts}

Words == {c.word : c \in Candidates \union Existing}

Categories == {c.category : c \in Candidates \union Existing} \union {AutoAdded}

WordsOf(S) == {c.word : c \in S}

CategoriesOf(S) == {c.category : c \in S}

Elements(s) == {s[n] : n \in DOMAIN s}

(* The elements of s whose place is in I, in their order. *)
Only(s, I) ==
    LET Upto[n \in 0..Len(s)] ==
            IF n = 0 THEN <<>>
            ELSE IF n \in I THEN Append(Upto[n - 1], s[n]) ELSE Upto[n - 1]
    IN  Upto[Len(s)]

ASSUME TextAssumption == TextOf \in [Requests -> Texts]
ASSUME CandidatesAreUnique ==
    \A t \in Texts : \A s \in {Tokens[t], Expressions[t]} :
        /\ s \in Seq(Candidates)
        /\ \A m, n \in DOMAIN s : s[m].word = s[n].word => m = n
ASSUME BoundsAssumption ==
    MaxDocs \in Nat \ {0} /\ QueueSize \in Nat \ {0} /\ MaxRejected \in Nat
ASSUME NoneAssumption == None \notin Texts \union Requests

VARIABLES
    settings,    \* async_sync_enabled and enable_second_pass_wsd
    lexicon,     \* entries, with the request that added them
    rejected,    \* those of them that a user has rejected
    categories,  \* rows of lexicon_categories
    mwes,        \* words of the expression index
    lastDoc,     \* TokenizerStage._last_doc
    docs,        \* _request_doc_cache, oldest first
    queue,       \* jobs of the AsyncSyncQueue, oldest first
    job,         \* the job its worker has, with the index it loaded
    dropped,     \* history: queued words the worker gave up
    req          \* the requests

store == <<lexicon, rejected, categories, mwes>>
async == <<queue, job, dropped>>
vars == <<settings, store, lastDoc, docs, async, req>>

Stored == WordsOf(lexicon)

NoIndex == [words |-> {}, categories |-> {}]

(* buildIndex leaves rejected entries out, but not their categories, which *)
(* listCategories has.                                                     *)
Visible == lexicon \ rejected

(* What load_sync_index_state returns; an unreachable service is an empty  *)
(* lexicon to it.                                                          *)
Index == [words |-> WordsOf(Visible), categories |-> categories]

NewRequest ==
    [pc |-> "new", sync |-> FALSE, pass |-> 1, doc |-> None, cacheable |-> FALSE,
     found |-> <<>>, known |-> NoIndex, plan |-> {}, allowed |-> FALSE,
     seen |-> {}, added |-> {}, existed |-> {}, queued |-> {}, troubles |-> {}]

Init ==
    /\ settings \in [async : BOOLEAN, wsd : BOOLEAN]
    /\ \E S \in SUBSET Existing :
         lexicon = {[word |-> e.word, category |-> e.category, by |-> None] : e \in S}
    /\ rejected = {}
    /\ categories = CategoriesOf(Existing)
    /\ mwes = KnownMwes
    /\ lastDoc = None
    /\ docs = <<>>
    /\ queue = <<>>
    /\ job = None
    /\ dropped = {}
    /\ req = [r \in Requests |-> NewRequest]

At(r, label) == req[r].pc = label

Goto(r, label) == req' = [req EXCEPT ![r].pc = label]

(* A request is over, and everything about it forgotten. *)
Over(r, how) == req' = [req EXCEPT ![r] = [NewRequest EXCEPT !.pc = how]]

(* Mutation: the document is not forgotten. *)
AllDocs(r) == docs

OthersDocs(r) == Only(docs, {n \in DOMAIN docs : docs[n].by # r})

-----------------------------------------------------------------------------
(* LexiconEngine.parse_text                                                *)

(* Empty, not English, or too long. *)
Refused(r) ==
    /\ At(r, "new")
    /\ docs' = OthersDocs(r)
    /\ Over(r, "answered")
    /\ UNCHANGED <<settings, store, lastDoc, async>>

(* The lexicon service does not answer: the exception leaves execute. *)
IntakeFails(r) ==
    /\ At(r, "new")
    /\ Over(r, "raised")
    /\ UNCHANGED <<settings, store, lastDoc, docs, async>>

(* The snapshot is there; a document somebody left is thrown away. *)
Intake(r) ==
    /\ At(r, "new")
    /\ lastDoc' = None
    /\ Goto(r, "tokenize")
    /\ UNCHANGED <<settings, store, docs, async>>

(* The tokenize stage: its document is left in the tokenizer, which has    *)
(* none when a regular expression did the work.  The stage may be cut      *)
(* short by its time limit, or the document by max_input_tokens.           *)
Tokenize(r) ==
    /\ At(r, "tokenize")
    /\ \E bySpacy, whole \in BOOLEAN :
         /\ lastDoc' = IF bySpacy THEN TextOf[r] ELSE None
         /\ req' = [req EXCEPT ![r].pc = "pop", ![r].found = Tokens[TextOf[r]],
                               ![r].cacheable = whole]
    /\ UNCHANGED <<settings, store, docs, async>>

(* It raises, or the deadline is over: no tokens. *)
TokenizeFails(r) ==
    /\ At(r, "tokenize")
    /\ Goto(r, "pop")
    /\ UNCHANGED <<settings, store, lastDoc, docs, async>>

PopLastDoc(r) ==
    /\ At(r, "pop")
    /\ lastDoc' = None
    /\ req' = [req EXCEPT ![r].pc = "stages", ![r].doc = lastDoc]
    /\ UNCHANGED <<settings, store, docs, async>>

(* _cache_request_doc: the new document, less the oldest beyond the limit. *)
Kept(r, s) ==
    LET all == Append(OthersDocs(r), [by |-> r, text |-> TextOf[r], doc |-> s])
    IN  SubSeq(all, 1 + Len(all) - (IF Len(all) > MaxDocs THEN MaxDocs ELSE Len(all)),
               Len(all))

(* The matchers write on the request's own tokens; then the document is    *)
(* kept for the second pass.                                               *)
CacheDoc(r) ==
    /\ At(r, "stages")
    /\ docs' = IF req[r].doc # None /\ req[r].cacheable THEN Kept(r, req[r].doc) ELSE docs
    /\ req' = [req EXCEPT ![r].pc = "index", ![r].doc = None, ![r].cacheable = FALSE]
    /\ UNCHANGED <<settings, store, lastDoc, async>>

-----------------------------------------------------------------------------
(* Candidates into the lexicon, once per pass                              *)

AfterSync(pass) == CASE pass = 1 -> "second" [] pass = 2 -> "policy" [] pass = 3 -> "upsert"

(* The request may ask for no sync at all. *)
LoadIndex(r) ==
    /\ At(r, "index")
    /\ \E sync \in BOOLEAN, index \in {Index, NoIndex} :
         req' = [req EXCEPT
             ![r].pc = IF sync THEN "sync" ELSE "second",
             ![r].sync = sync,
             ![r].known = IF sync /\ ~settings.async THEN index ELSE NoIndex]
    /\ UNCHANGED <<settings, store, lastDoc, docs, async>>

(* partition_sync_candidates *)
Accepted(s) == Only(s, {n \in DOMAIN s : s[n].word \notin Blocked})

(* resolve_sync_category: as suggested when it exists or may be created. *)
Resolved(c, known) ==
    [word |-> c.word,
     category |-> IF c.category \in known \union AutoCreate THEN c.category ELSE AutoAdded]

Fresh(cs, known) == {Resolved(c, known.categories) : c \in {d \in cs : d.word \notin known.words}}

(* Mutation: each pass goes back to the index of the first. *)
LearnedNothing(known, new) == known

(* The words a pass has decided on are known to the next pass. *)
Learned(known, new) ==
    [words |-> known.words \union WordsOf(new),
     categories |-> known.categories \union CategoriesOf(new)]

(* ensure_category_exists; the POST may fail, which is only logged. *)
CreatesCategories(new, known) ==
    \/ categories' = categories \union
                     ((CategoriesOf(new) \intersect AutoCreate) \ known.categories)
    \/ UNCHANGED categories

(* Mutation: the status of a pass is "ok" whatever the clock says. *)
NeverTimedOut(n, cs) == {}

TimedOut(n, cs) == IF n < Len(cs) THEN {"timed_out"} ELSE {}

(* The loop of sync_candidates, which ends early when time is up. *)
Choose(r) ==
    LET cs == Accepted(req[r].found) IN
    /\ At(r, "sync") /\ ~settings.async
    /\ \E n \in 0..Len(cs) :
         LET reached == Elements(SubSeq(cs, 1, n))
             new == Fresh(reached, req[r].known)
         IN  /\ CreatesCategories(new, req[r].known)
             /\ req' = [req EXCEPT
                  ![r].pc = IF new = {} THEN AfterSync(req[r].pass) ELSE "insert",
                  ![r].plan = new,
                  ![r].known = Learned(req[r].known, new),
                  ![r].existed = @ \union (WordsOf(reached) \ WordsOf(new)),
                  ![r].seen = @ \union WordsOf(Elements(cs)),
                  ![r].troubles = @ \union TimedOut(n, cs)]
    /\ UNCHANGED <<settings, lexicon, rejected, mwes, lastDoc, docs, async>>

(* addEntries: ON CONFLICT (category, normalized) DO NOTHING. *)
Adds(new, by) ==
    /\ lexicon' = lexicon \union
         {[word |-> e.word, category |-> e.category, by |-> by] :
             e \in {x \in new : \A y \in lexicon :
                        y.word # x.word \/ y.category # x.category}}
    /\ categories' = categories \union CategoriesOf(new)

Insert(r) ==
    /\ At(r, "insert")
    /\ Adds(req[r].plan, r)
    /\ req' = [req EXCEPT ![r].pc = AfterSync(req[r].pass), ![r].plan = {},
                          ![r].added = @ \union WordsOf(req[r].plan)]
    /\ UNCHANGED <<settings, rejected, mwes, lastDoc, docs, async>>

(* Mutation: the exception is caught where the entries are added. *)
InsertFailsSilently(r) ==
    /\ At(r, "insert")
    /\ req' = [req EXCEPT ![r].pc = AfterSync(req[r].pass), ![r].plan = {},
                          ![r].added = @ \union WordsOf(req[r].plan)]
    /\ UNCHANGED <<settings, store, lastDoc, docs, async>>

(* The service does not answer, and may have added the entries all the     *)
(* same.  The exception leaves execute, which releases nothing.            *)
InsertFails(r) ==
    /\ At(r, "insert")
    /\ Adds(req[r].plan, r) \/ UNCHANGED <<lexicon, categories>>
    /\ Over(r, "raised")
    /\ UNCHANGED <<settings, rejected, mwes, lastDoc, docs, async>>

HasRoom == Len(queue) < QueueSize

(* enqueue_async_sync *)
Enqueue(r) ==
    LET cs == Accepted(req[r].found) IN
    /\ At(r, "sync") /\ settings.async
    /\ queue' = IF cs # <<>> /\ HasRoom
                THEN Append(queue, [by |-> r, items |-> cs]) ELSE queue
    /\ req' = [req EXCEPT
         ![r].pc = AfterSync(req[r].pass),
         ![r].seen = @ \union WordsOf(Elements(cs)),
         ![r].queued = IF HasRoom THEN @ \union WordsOf(Elements(cs)) ELSE @,
         ![r].troubles = IF cs = <<>> \/ HasRoom THEN @ ELSE @ \union {"rejected"}]
    /\ UNCHANGED <<settings, store, lastDoc, docs, job, dropped>>

-----------------------------------------------------------------------------
(* Second and third pass                                                   *)

(* pop_cached_request_doc; without a document the text is parsed again. *)
DocFor(r) ==
    LET own == {d \in Elements(docs) : d.by = r /\ d.text = TextOf[r]}
    IN  IF own = {} THEN TextOf[r] ELSE (CHOOSE d \in own : TRUE).doc

Detected(doc) ==
    LET s == Expressions[doc] IN Only(s, {n \in DOMAIN s : s[n].word \in mwes})

Reading == [confident : BOOLEAN, uncertain : BOOLEAN]

(* evaluate_validation_policy, on what the transformer says of the         *)
(* occurrences of the second pass.                                         *)
ValidationAllows(occurrences, readings) ==
    \/ occurrences = <<>>
    \/ /\ \A x \in readings : ~x.confident
       /\ readings = {} \/ \E x \in readings : x.uncertain

(* parse_mwe_text: whatever becomes of it, the document is released.  The  *)
(* third pass runs when the request asks for it and the policy agrees.     *)
SecondPass(r) ==
    /\ At(r, "second") /\ settings.wsd
    /\ docs' = OthersDocs(r)
    /\ \E occurrences \in {Detected(DocFor(r)), <<>>},
          readings \in SUBSET Reading, llm \in BOOLEAN :
         req' = [req EXCEPT
             ![r].pc = IF req[r].sync /\ Accepted(occurrences) # <<>> THEN "sync" ELSE "policy",
             ![r].pass = 2,
             ![r].found = occurrences,
             ![r].allowed = llm /\ ValidationAllows(occurrences, readings)]
    /\ UNCHANGED <<settings, store, lastDoc, async>>

NoSecondPass(r) ==
    /\ At(r, "second") /\ ~settings.wsd
    /\ req' = [req EXCEPT ![r].pc = "policy", ![r].found = <<>>]
    /\ UNCHANGED <<settings, store, lastDoc, docs, async>>

(* ThirdPassOrchestrator.run: a failure is an answer without occurrences. *)
ThirdPass(r) ==
    /\ At(r, "policy") /\ req[r].allowed
    /\ \E occurrences \in {<<>>} \union {<<c>> : c \in LlmFinds} :
         req' = [req EXCEPT
             ![r].pc = IF ~req[r].sync THEN "release"
                       ELSE IF Accepted(occurrences) # <<>> THEN "sync" ELSE "upsert",
             ![r].pass = 3,
             ![r].found = occurrences]
    /\ UNCHANGED <<settings, store, lastDoc, docs, async>>

NoThirdPass(r) ==
    /\ At(r, "policy") /\ ~req[r].allowed
    /\ Goto(r, "release")
    /\ UNCHANGED <<settings, store, lastDoc, docs, async>>

(* upsert_mwe_records_from_occurrences: each may fail by itself. *)
UpsertMwes(r) ==
    /\ At(r, "upsert")
    /\ \E S \in SUBSET WordsOf(Elements(req[r].found)) : mwes' = mwes \union S
    /\ Goto(r, "release")
    /\ UNCHANGED <<settings, lexicon, rejected, categories, lastDoc, docs, async>>

Release(r) ==
    /\ At(r, "release")
    /\ docs' = OthersDocs(r)
    /\ Over(r, "answered")
    /\ UNCHANGED <<settings, store, lastDoc, async>>

-----------------------------------------------------------------------------
(* The worker of the queue: process_async_sync_job                         *)

(* Mutation: a job is taken while another is being handled. *)
WorkerTakesAnyTime ==
    /\ queue # <<>>
    /\ queue' = Tail(queue)
    /\ job' = [by |-> Head(queue).by, items |-> Head(queue).items, known |-> Index]
    /\ UNCHANGED <<settings, store, lastDoc, docs, dropped, req>>

WorkerTakes ==
    /\ job = None /\ queue # <<>>
    /\ queue' = Tail(queue)
    /\ job' = [by |-> Head(queue).by, items |-> Head(queue).items, known |-> Index]
    /\ UNCHANGED <<settings, store, lastDoc, docs, dropped, req>>

(* What sync_candidates adds of a job, when it reaches n candidates. *)
WorkerReaches(n) == Adds(Fresh(Elements(SubSeq(job.items, 1, n)), job.known), job.by)

(* The service does not answer, now or when entries are added: the job is  *)
(* lost, with a line in the log.  Categories may have been created, and    *)
(* the entries may have been added all the same.                           *)
WorkerFails ==
    /\ job # None
    /\ job' = None
    /\ \/ \E n \in 0..Len(job.items) : WorkerReaches(n)
       \/ /\ \E S \in SUBSET (CategoriesOf(Elements(job.items)) \intersect AutoCreate) :
               categories' = categories \union S
          /\ UNCHANGED lexicon
    /\ dropped' = dropped \union WordsOf(Elements(job.items))
    /\ UNCHANGED <<settings, rejected, mwes, lastDoc, docs, queue, req>>

(* The time limit may leave candidates over, of which nobody will hear. *)
WorkerAdds ==
    /\ job # None
    /\ \E n \in 0..Len(job.items) :
         /\ WorkerReaches(n)
         /\ dropped' = dropped \union
                       WordsOf(Elements(SubSeq(job.items, n + 1, Len(job.items))))
    /\ job' = None
    /\ UNCHANGED <<settings, rejected, mwes, lastDoc, docs, queue, req>>

-----------------------------------------------------------------------------
(* A user rejects an entry in the lexicon's page: bulkUpdateStatus. *)
Reject ==
    /\ Cardinality(rejected) < MaxRejected
    /\ \E e \in Visible : rejected' = rejected \union {e}
    /\ UNCHANGED <<settings, lexicon, categories, mwes, lastDoc, docs, async, req>>

Parse(r) ==
    \/ Refused(r) \/ IntakeFails(r) \/ Intake(r)
    \/ Tokenize(r) \/ TokenizeFails(r) \/ PopLastDoc(r) \/ CacheDoc(r)
    \/ LoadIndex(r) \/ Choose(r) \/ Insert(r) \/ InsertFails(r) \/ Enqueue(r)
    \/ SecondPass(r) \/ NoSecondPass(r) \/ ThirdPass(r) \/ NoThirdPass(r)
    \/ UpsertMwes(r) \/ Release(r)

Worker == WorkerTakes \/ WorkerFails \/ WorkerAdds

Next == Worker \/ Reject \/ \E r \in Requests : Parse(r)

(* The worker thread runs as long as the process does. *)
Spec == Init /\ [][Next]_vars /\ WF_vars(Worker)

-----------------------------------------------------------------------------
(* Properties                                                              *)

InExecute == {"tokenize", "pop", "stages", "index", "sync", "insert",
              "second", "policy", "upsert", "release"}

(* What a parse reports as added or as already there is in the lexicon,    *)
(* for all three passes, whatever index it had and whichever call failed.  *)
(* A word the user rejected may be reported as added: it is there, and     *)
(* stays rejected.                                                         *)
ReportedIsStored ==
    \A r \in Requests : req[r].added \union req[r].existed \subseteq Stored

(* A word gets a second category from a parse for two reasons only.  When  *)
(* it adds directly, the other entry is not its own: the passes of one     *)
(* parse know of each other, even without an index.  When the worker of    *)
(* the queue adds, a user has rejected one of the two: it looks at the     *)
(* lexicon before each job, and the index hides what is rejected.          *)
SecondCategoryIsExplained ==
    \A e, f \in lexicon :
        e.by # None /\ e.word = f.word /\ e # f =>
            IF settings.async THEN {e, f} \intersect rejected # {} ELSE e.by # f.by

(* No accepted candidate disappears from an answer that says nothing of    *)
(* it: it was added, there, or queued, or a pass reports that it ran out   *)
(* of time or that the queue was full.                                     *)
NothingUnaccounted ==
    \A r \in Requests :
        req[r].pc = "release" =>
            \/ req[r].seen \subseteq req[r].added \union req[r].existed \union req[r].queued
            \/ req[r].troubles # {}

(* Documents are kept within the limit, one for a request, for requests    *)
(* that will come for them, and for those an exception ended.              *)
DocsAreReleased ==
    /\ Len(docs) <= MaxDocs
    /\ \A m, n \in DOMAIN docs : docs[m].by = docs[n].by => m = n
    /\ \A d \in Elements(docs) : req[d.by].pc \in InExecute \union {"raised"}

(* What a parse reports as queued gets into the lexicon, unless the worker *)
(* lost the job or its time.                                               *)
QueuedIsHandled ==
    \A w \in Words :
        (\E r \in Requests : w \in req[r].queued) ~> w \in Stored \union dropped

(* The document a request has for its second pass was parsed from its own  *)
(* text.                                                                   *)
SecondPassReadsOwnText ==
    \A r \in Requests : At(r, "second") => DocFor(r) = TextOf[r]
=============================================================================

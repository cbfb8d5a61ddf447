------------------------------ MODULE MatcherStages ------------------------------
(***************************************************************************)
(* LexiconEngine.parse_text: the five stages a text goes through, and what *)
(* the stage objects share between the threads of concurrent requests: the *)
(* WordNet availability check and its cache of lookups, the circuit        *)
(* breaker and the embedding cache of the semantic stage.                  *)
(*                                                                         *)
(* A step is the code between two accesses of shared state.  A token keeps *)
(* whether it is known, by which stage, and its set of categories; their   *)
(* order, the forms and scores are left out.  The lemma cache holds what a *)
(* pure function returns and is left out too.                              *)
(***************************************************************************)
EXTENDS Integers, Sequences, FiniteSets, FiniteSetsExt, SequencesExt

CONSTANTS
    Requests, Texts, Words, Versions,
    Single,        \* snapshot.single_word: [Versions -> [Words -> set of categories]]
    Phrases,       \* its phrases: [Versions -> set of [words, cats]]
    Lemma,         \* the lemma the tokenizer gives a word
    Inflections,   \* what lemminflect makes of a word: lemmas and inflected forms
    Wordnet,       \* the words with a synset
    Near,          \* [Words -> set of forms]: what embeds above bert_threshold with a word
    Alike,         \* the same for _cheap_similarity, which compares the letters
    Rank,          \* [Words -> Nat]: the place of a word in sorted order
    BertTopK,      \* bert_top_k: so many forms are encoded
    Hint,          \* the category its part of speech hints at, or NoHint
    NoHint,
    Skipped,       \* short words, digits and the like: LEMMA_SKIP_WORDS, WORDNET_SKIP_WORDS
    MaxTokens,     \* max_input_tokens
    MaxUnknown,    \* max_unknown_tokens_for_*: [{"lemma", "wordnet", "bert"} -> Nat]
    Failures,      \* bert_circuit_breaker_failures
    MaxEmbeddings, \* embedding_cache_max_entries
    MaxRuns        \* bound on the requests

ASSUME StagesAssumption ==
    /\ Failures \in Nat \ {0} /\ MaxEmbeddings \in Nat \ {0} /\ MaxRuns \in Nat
    /\ BertTopK \in Nat /\ MaxTokens \in Nat
    /\ Versions # {} /\ Texts \subseteq Seq(Words) /\ Lemma \in [Words -> Words]

VARIABLES
    cfg,        \* [corpus, lemminflect, bert, sbert]: installed, enabled, loaded
    at,         \* where each request is
    text, tokens, st, todo,
    rows, version,    \* of the request's snapshot: the content it was built of, its version
    basis,            \* the content whose embeddings the request compares with
    checked, available, lookups,    \* _available_checked, _available, _cache
    breaker,
    embeddings, encoded,    \* _embedding_cache: its keys, oldest first, and of each
                            \* version the content that was encoded
    runs, overlap, raised           \* bound; history: requests met; lookups that raised

vars == <<cfg, at, text, tokens, st, todo, rows, version, basis, checked, available, lookups,
          breaker, embeddings, encoded, runs, overlap, raised>>
wordnetVars == <<checked, available, lookups, raised>>
cacheVars == <<embeddings, encoded>>
semanticVars == <<breaker, cacheVars>>
snapshotVars == <<rows, version>>
requestVars == <<cfg, text, snapshotVars, runs, overlap>>

Stages == {"tokenize", "exact", "lemma", "wordnet", "bert"}
\* "unavailable" is a skip whose reason is the state of WordNet.
Statuses == {"ok", "skipped", "unavailable", "timed_out", "failed"}
SomeVersion == CHOOSE v \in Versions : TRUE
AllSkipped == [s \in Stages |-> "skipped"]
Points == Stages \cup {"idle", "checkStage", "checkStatus", "gate", "probe", "embed", "encode",
                       "query", "fallback", "compare", "hints", "done"}

---------------------------------------------------------------------------
(* The stages as functions of the tokens                                   *)

\* The tokenizer takes the first max_input_tokens and says "ok".
Kept(words) == SubSeq(words, 1, IF Len(words) <= MaxTokens THEN Len(words) ELSE MaxTokens)
Fresh(words) == [i \in DOMAIN words |->
    [word |-> words[i], known |-> FALSE, source |-> "none", cats |-> {}]]
Unknown(t) == {i \in DOMAIN t : ~t[i].known}
Matched(token, source, cats) == [token EXCEPT !.known = TRUE, !.source = source, !.cats = cats]

\* apply_token_matching
ExactTokens(v, t) == [i \in DOMAIN t |->
    LET cats == Single[v][t[i].word]
    IN  IF cats = {} THEN t[i] ELSE Matched(t[i], "exact", cats)]

\* longest_matches: from every token the longest phrase of the trie.
PhraseAt(v, words, i, k) == {p \in Phrases[v] : p.words = SubSeq(words, i, k)}
Ends(v, words, i) == {k \in i + 1 .. Len(words) : PhraseAt(v, words, i, k) # {}}

\* Mutant: the walk stops at the first phrase.
ShortestMatches(v, words) ==
    {<<i, Min(Ends(v, words, i))>> : i \in {j \in DOMAIN words : Ends(v, words, j) # {}}}
LongestMatches(v, words) ==
    {<<i, Max(Ends(v, words, i))>> : i \in {j \in DOMAIN words : Ends(v, words, j) # {}}}

InPhrase(token, cats) ==
    Matched(token, IF token.known THEN token.source ELSE "exact_phrase", token.cats \cup cats)

\* apply_phrase_matching
PhraseTokens(v, t) ==
    LET words == [i \in DOMAIN t |-> t[i].word]
        covering(i) == {m \in LongestMatches(v, words) : i \in m[1] .. m[2]}
        cats(m) == UNION {p.cats : p \in PhraseAt(v, words, m[1], m[2])}
    IN  [i \in DOMAIN t |-> IF covering(i) = {} THEN t[i]
                            ELSE InPhrase(t[i], UNION {cats(m) : m \in covering(i)})]

\* _lemma_inflect_candidates, and what they match among the first n tokens.
LemmaCandidates(word) == {word, Lemma[word]} \cup Inflections[word]
LemmaTokens(v, t, n) == [i \in DOMAIN t |->
    LET cats == UNION {Single[v][form] : form \in LemmaCandidates(t[i].word)}
    IN  IF i > n \/ t[i].known \/ t[i].word \in Skipped \/ cats = {} THEN t[i]
        ELSE Matched(t[i], "lemma_inflect", cats)]

\* What the semantic stage compares a token with: every form of the lexicon by its
\* letters, the first bert_top_k in sorted order by embeddings.
Forms(v) == {form \in Words : Single[v][form] # {}}
Encoded(v) ==
    {form \in Forms(v) : Cardinality({f \in Forms(v) : Rank[f] < Rank[form]}) < BertTopK}

\* It takes the best of them above the threshold, with the categories the form has in
\* the snapshot: none, when the embeddings are those of another content.
SemanticTokens(v, t, similar, candidates) == [i \in DOMAIN t |->
    LET forms == similar[t[i].word] \cap candidates
    IN  IF t[i].known \/ forms = {} THEN t[i]
        ELSE Matched(t[i], "bert", Single[v][CHOOSE form \in forms : TRUE])]

\* _apply_pos_category_hints: a hint is no match.
HintedTokens(t) == [i \in DOMAIN t |->
    IF t[i].cats # {} \/ Hint[t[i].word] = NoHint THEN t[i]
    ELSE [t[i] EXCEPT !.cats = {Hint[t[i].word]},
                      !.source = IF @ = "none" THEN "spacy_pos_hint" ELSE @]]

\* _derive_pipeline_status
PipelineStatus(r) ==
    LET statuses == {st[r][s] : s \in Stages}
    IN  CASE "failed" \in statuses -> "failed"
          [] statuses \cap {"timed_out", "skipped", "unavailable"} # {} -> "partial"
          [] OTHER -> "ok"

---------------------------------------------------------------------------
(* The circuit breaker.  "elapsed": the reset time is over, nobody asked yet. *)

Closed == [count |-> 0, state |-> "closed"]
Allows == breaker.state # "open"
\* Asking closes a circuit whose time is over.
Asked == IF breaker.state = "elapsed" THEN Closed ELSE breaker

\* Mutant: opens one failure early.
FailureRecordedEarly ==
    [count |-> breaker.count + 1,
     state |-> IF breaker.count + 1 >= Failures - 1 THEN "open" ELSE breaker.state]
FailureRecorded ==
    [count |-> breaker.count + 1,
     state |-> IF breaker.count + 1 >= Failures THEN "open" ELSE breaker.state]

CoolDown ==
    /\ breaker.state = "open"
    /\ breaker' = [breaker EXCEPT !.state = "elapsed"]
    /\ UNCHANGED <<at, tokens, st, todo, basis, requestVars, cacheVars, wordnetVars>>

---------------------------------------------------------------------------
(* A request                                                               *)

Goto(r, where) == at' = [at EXCEPT ![r] = where]

\* _run_stage: a stage that took too long is timed out, with what it did; after a
\* stage that timed out or failed the rest stays skipped.
StageEnds(r, stage, t, status, next) ==
    \E s \in {status, "timed_out"} :
        /\ st' = [st EXCEPT ![r][stage] = s]
        /\ tokens' = [tokens EXCEPT ![r] = t]
        /\ Goto(r, IF s \in {"failed", "timed_out"} THEN "hints" ELSE next)
        /\ UNCHANGED requestVars

StageFails(r, stage, t) ==
    /\ st' = [st EXCEPT ![r][stage] = "failed"]
    /\ tokens' = [tokens EXCEPT ![r] = t]
    /\ Goto(r, "hints")
    /\ UNCHANGED requestVars

\* A text that is refused (script, size) still reports the pipeline's state.
Begin(r) ==
    /\ at[r] = "idle" /\ runs < MaxRuns
    /\ runs' = runs + 1
    /\ overlap' = (overlap \/ \E other \in Requests : at[other] # "idle")
    /\ text' = [text EXCEPT ![r] = <<>>] /\ tokens' = [tokens EXCEPT ![r] = <<>>]
    /\ st' = [st EXCEPT ![r] = AllSkipped]
    /\ Goto(r, "hints")
    /\ UNCHANGED <<cfg, todo, snapshotVars, basis, wordnetVars, semanticVars>>

\* The rows of the snapshot and its version are fetched one after the other, and a
\* change of the lexicon and the bump of its version are two statements: any
\* content may come with any version.
BeginText(r) ==
    /\ at[r] = "idle" /\ runs < MaxRuns
    /\ runs' = runs + 1
    /\ overlap' = (overlap \/ \E other \in Requests : at[other] # "idle")
    /\ \E words \in Texts : text' = [text EXCEPT ![r] = words]
    /\ \E v, content \in Versions :
          /\ version' = [version EXCEPT ![r] = v]
          /\ rows' = [rows EXCEPT ![r] = content]
    /\ tokens' = [tokens EXCEPT ![r] = <<>>]
    /\ st' = [st EXCEPT ![r] = AllSkipped]
    /\ Goto(r, "tokenize")
    /\ UNCHANGED <<cfg, todo, basis, wordnetVars, semanticVars>>

\* The request's deadline has passed: this stage and all later ones are skipped.
DeadlinePassed(r) ==
    /\ at[r] \in Stages
    /\ Goto(r, "hints")
    /\ UNCHANGED <<tokens, st, todo, basis, requestVars, wordnetVars, semanticVars>>

Tokenize(r) ==
    /\ at[r] = "tokenize"
    /\ \/ StageEnds(r, "tokenize", Fresh(Kept(text[r])), "ok", "exact")
       \/ StageFails(r, "tokenize", <<>>)
    /\ UNCHANGED <<todo, basis, wordnetVars, semanticVars>>

Exact(r) ==
    /\ at[r] = "exact"
    /\ StageEnds(r, "exact", PhraseTokens(rows[r], ExactTokens(rows[r], tokens[r])), "ok", "lemma")
    /\ UNCHANGED <<todo, basis, wordnetVars, semanticVars>>

\* lemminflect may raise at any token; the tokens before it keep their matches.
LemmaInflect(r) ==
    /\ at[r] = "lemma"
    /\ IF Cardinality(Unknown(tokens[r])) > MaxUnknown["lemma"] \/ ~cfg.lemminflect
       THEN StageEnds(r, "lemma", tokens[r], "skipped", "wordnet")
       ELSE \/ StageEnds(r, "lemma", LemmaTokens(rows[r], tokens[r], Len(tokens[r])), "ok", "wordnet")
            \/ \E n \in 0 .. Len(tokens[r]) - 1 :
                  StageFails(r, "lemma", LemmaTokens(rows[r], tokens[r], n))
    /\ UNCHANGED <<todo, basis, wordnetVars, semanticVars>>

---------------------------------------------------------------------------
(* The WordNet stage                                                       *)

\* _ensure_available: whoever comes first marks the check as made, then makes it.
EnsureAvailable(r, checking, next) ==
    /\ checked' = TRUE
    /\ Goto(r, IF checked THEN next ELSE checking)

WordnetBegins(r) ==
    /\ at[r] = "wordnet"
    /\ EnsureAvailable(r, "checkStage", "gate")
    /\ UNCHANGED <<tokens, st, todo, basis, requestVars, available, lookups, raised, semanticVars>>

CheckEnds(r) ==
    /\ at[r] \in {"checkStage", "checkStatus"}
    /\ available' = cfg.corpus
    /\ Goto(r, IF at[r] = "checkStage" THEN "gate" ELSE "done")
    /\ UNCHANGED <<tokens, st, todo, basis, requestVars, checked, lookups, raised, semanticVars>>

\* The forms to look up, of each unknown token its lemma and itself, in this order.
ProbeForms(t) == UNION {{<<i, Lemma[t[i].word]>>, <<i, t[i].word>>} :
                            i \in {n \in Unknown(t) : t[n].word \notin Skipped}}
Precedes(t, x, y) == x[1] < y[1] \/ (x[1] = y[1] /\ x[2] = Lemma[t[x[1]].word])

WordnetGate(r) ==
    /\ at[r] = "gate"
    /\ IF Cardinality(Unknown(tokens[r])) > MaxUnknown["wordnet"]
       THEN StageEnds(r, "wordnet", tokens[r], "skipped", "bert") /\ UNCHANGED todo
       ELSE IF ~available
       THEN StageEnds(r, "wordnet", tokens[r], "unavailable", "bert") /\ UNCHANGED todo
       ELSE /\ todo' = [todo EXCEPT ![r] = ProbeForms(tokens[r])]
            /\ Goto(r, "probe")
            /\ UNCHANGED <<tokens, st, requestVars>>
    /\ UNCHANGED <<basis, wordnetVars, semanticVars>>

\* _has_wordnet_entry: the cached answer, or a lookup; a lookup that raises counts
\* as "no" and is cached as such.
WordnetLooksUp(r) ==
    /\ at[r] = "probe"
    /\ \E probe \in todo[r] :
         LET i == probe[1]
             form == probe[2]
             answers == IF lookups[form] # "unset" THEN {lookups[form]}
                        ELSE {"no"} \cup (IF form \in Wordnet THEN {"yes"} ELSE {})
         IN  /\ \A other \in todo[r] \ {probe} : Precedes(tokens[r], probe, other)
             /\ todo' = [todo EXCEPT ![r] = @ \ {probe}]
             /\ IF tokens[r][i].known THEN UNCHANGED <<tokens, lookups, raised>>
                ELSE \E answer \in answers :
                  /\ lookups' = [lookups EXCEPT ![form] = answer]
                  /\ raised' = IF answer = "no" /\ form \in Wordnet THEN raised \cup {form} ELSE raised
                  /\ tokens' = IF answer = "no" THEN tokens
                               ELSE [tokens EXCEPT ![r][i] = Matched(@, "wordnet", @.cats)]
    /\ UNCHANGED <<at, st, basis, requestVars, checked, available, semanticVars>>

WordnetEnds(r) ==
    /\ at[r] = "probe" /\ todo[r] = {}
    /\ StageEnds(r, "wordnet", tokens[r], "ok", "bert")
    /\ UNCHANGED <<todo, basis, wordnetVars, semanticVars>>

---------------------------------------------------------------------------
(* The semantic stage                                                      *)

\* Nothing to do, too much to do, or switched off.
SemanticIdle(r) ==
    LET n == Cardinality(Unknown(tokens[r]))
    IN  n = 0 \/ n > MaxUnknown["bert"] \/ ~cfg.bert

NoForms(v) == Forms(v) = {}

\* The checks _apply_sbert and _apply_string_similarity both begin with.
SemanticBegins(r) ==
    /\ at[r] \in {"bert", "fallback"}
    /\ IF SemanticIdle(r)
       THEN /\ StageEnds(r, "bert", tokens[r], IF Unknown(tokens[r]) = {} THEN "ok" ELSE "skipped", "hints")
            /\ UNCHANGED breaker
       ELSE /\ breaker' = Asked
            /\ IF ~Allows \/ NoForms(rows[r])
               THEN StageEnds(r, "bert", tokens[r], "skipped", "hints")
               ELSE /\ Goto(r, IF at[r] = "bert" /\ cfg.sbert THEN "embed" ELSE "compare")
                    /\ UNCHANGED <<tokens, st, requestVars>>
    /\ UNCHANGED <<todo, basis, cacheVars, wordnetVars>>

\* Evicts the oldest until there is room for one.
RoomMade(s) == IF Len(s) < MaxEmbeddings THEN s ELSE SubSeq(s, Len(s) - MaxEmbeddings + 2, Len(s))
MovedToEnd(s, v) ==
    IF v \in Range(s) THEN Append(RemoveAt(s, CHOOSE i \in DOMAIN s : s[i] = v), v)
    ELSE Append(s, v)

\* _get_candidate_embeddings, first section under _cache_lock.
Embed(r) ==
    /\ at[r] = "embed"
    /\ IF version[r] \in Range(embeddings)
       THEN /\ embeddings' = MovedToEnd(embeddings, version[r])
            /\ basis' = [basis EXCEPT ![r] = encoded[version[r]]]
            /\ Goto(r, "query")
       ELSE /\ embeddings' = RoomMade(embeddings)
            /\ Goto(r, IF BertTopK = 0 THEN "fallback" ELSE "encode")
            /\ UNCHANGED basis
    /\ UNCHANGED <<tokens, st, todo, encoded, requestVars, wordnetVars, breaker>>

\* The lexicon is encoded outside the lock and stored under it.
Encode(r) ==
    /\ at[r] = "encode"
    /\ embeddings' = MovedToEnd(embeddings, version[r])
    /\ encoded' = [encoded EXCEPT ![version[r]] = rows[r]]
    /\ basis' = [basis EXCEPT ![r] = rows[r]]
    /\ Goto(r, "query")
    /\ UNCHANGED <<tokens, st, todo, requestVars, wordnetVars, breaker>>

\* encode raises, of the lexicon or of the query.
EncodeFails(r) ==
    /\ at[r] \in {"encode", "query"}
    /\ breaker' = FailureRecorded
    /\ Goto(r, "fallback")
    /\ UNCHANGED <<tokens, st, todo, basis, requestVars, wordnetVars, cacheVars>>

\* The tokens are matched by embeddings or, without a model and when it failed, by
\* their letters: a success either way.
Compare(r) ==
    /\ at[r] \in {"query", "compare"}
    /\ breaker' = Closed
    /\ LET matched == IF at[r] = "query"
                      THEN SemanticTokens(rows[r], tokens[r], Near, Encoded(basis[r]))
                      ELSE SemanticTokens(rows[r], tokens[r], Alike, Forms(rows[r]))
       IN  StageEnds(r, "bert", matched, "ok", "hints")
    /\ UNCHANGED <<todo, basis, cacheVars, wordnetVars>>

---------------------------------------------------------------------------
\* The hints, and pipeline_status, which asks for WordNet again.
Finish(r) ==
    /\ at[r] = "hints"
    /\ tokens' = [tokens EXCEPT ![r] = HintedTokens(@)]
    /\ EnsureAvailable(r, "checkStatus", "done")
    /\ UNCHANGED <<st, todo, basis, requestVars, available, lookups, raised, semanticVars>>

\* The answer is returned, and what the request kept to itself is gone.
Answer(r) ==
    /\ at[r] = "done"
    /\ Goto(r, "idle")
    /\ text' = [text EXCEPT ![r] = <<>>] /\ tokens' = [tokens EXCEPT ![r] = <<>>]
    /\ rows' = [rows EXCEPT ![r] = SomeVersion]
    /\ version' = [version EXCEPT ![r] = SomeVersion]
    /\ basis' = [basis EXCEPT ![r] = SomeVersion]
    /\ st' = [st EXCEPT ![r] = AllSkipped]
    /\ UNCHANGED <<cfg, todo, wordnetVars, semanticVars, runs, overlap>>

Init ==
    /\ cfg \in [corpus : BOOLEAN, lemminflect : BOOLEAN, bert : BOOLEAN, sbert : BOOLEAN]
    /\ cfg.sbert => cfg.bert    \* a model that is loaded and switched off is never asked
    /\ at = [r \in Requests |-> "idle"]
    /\ text = [r \in Requests |-> <<>>] /\ tokens = text
    /\ todo = [r \in Requests |-> {}]
    /\ rows = [r \in Requests |-> SomeVersion] /\ version = rows /\ basis = rows
    /\ st = [r \in Requests |-> AllSkipped]
    /\ checked = FALSE /\ available = FALSE /\ lookups = [w \in Words |-> "unset"]
    /\ breaker = Closed
    /\ embeddings = <<>> /\ encoded = [v \in Versions |-> SomeVersion]
    /\ runs = 0 /\ overlap = FALSE /\ raised = {}

Step(r) ==
    \/ Begin(r) \/ BeginText(r) \/ DeadlinePassed(r)
    \/ Tokenize(r) \/ Exact(r) \/ LemmaInflect(r)
    \/ WordnetBegins(r) \/ CheckEnds(r) \/ WordnetGate(r) \/ WordnetLooksUp(r) \/ WordnetEnds(r)
    \/ SemanticBegins(r) \/ Embed(r) \/ Encode(r) \/ EncodeFails(r) \/ Compare(r)
    \/ Finish(r) \/ Answer(r)

Next == CoolDown \/ \E r \in Requests : Step(r)

Spec == Init /\ [][Next]_vars

---------------------------------------------------------------------------
(* Properties                                                              *)

\* Why a token of request r should be known, said without the stages: the lexicon
\* has it or a phrase around it, one of its forms, or WordNet has it, or the
\* semantic stage finds it whichever way it compares.
InAPhrase(r, words, i) == \E j \in 1 .. i : \E k \in i .. Len(words) :
    j < k /\ PhraseAt(rows[r], words, j, k) # {}
ShouldBeKnown(r, words, i) ==
    LET word == words[i]
        forms == Forms(rows[r])
    IN  \/ word \in forms \/ InAPhrase(r, words, i)
        \/ word \notin Skipped /\ LemmaCandidates(word) \cap forms # {}
        \/ word \notin Skipped /\ {Lemma[word], word} \cap (Wordnet \ raised) # {}
        \/ /\ cfg.bert /\ Alike[word] \cap forms # {}
           /\ cfg.sbert => Near[word] \cap Encoded(basis[r]) # {}

\* An answer with pipeline status "ok" has missed none of the first max_input_tokens
\* words that any stage could have matched, whatever other requests did to the
\* shared caches, but for what "ok" does not speak of: words past them, words whose
\* WordNet lookup has raised once, in this request or an earlier one, and, with an
\* embedding model, words that only the embeddings or only the letters are close in
\* (an encoding that fails is made good by the letters), or close only to forms past
\* bert_top_k or to forms the cached embeddings of the version do not have.
OkMissesNothing ==
    \A r \in Requests : at[r] = "done" /\ PipelineStatus(r) = "ok" =>
        \A i \in DOMAIN Kept(text[r]) : ShouldBeKnown(r, Kept(text[r]), i) => tokens[r][i].known

\* The circuit opens: the fallback of a failed encoding records a success, so one
\* request after another never adds up failures (but for a threshold of one).
CircuitOpens == breaker.state # "closed" /\ Failures > 1
\* The embedding cache outgrows its bound.
CacheOverflows == Len(embeddings) > MaxEmbeddings
\* A request takes an installed WordNet for unavailable: the first check is marked
\* as made before it is.
WordnetIsMissed == \E r \in Requests : st[r]["wordnet"] = "unavailable" /\ cfg.corpus

\* None of the three happens to requests that come one after another, however many
\* and whatever fails in them: each needs two requests that overlap.
AloneIsSound == CircuitOpens \/ CacheOverflows \/ WordnetIsMissed => overlap
=============================================================================

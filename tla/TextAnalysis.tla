------------------------------ MODULE TextAnalysis ------------------------------
(***************************************************************************)
(* One text parsed again and again: what the tokens, the second pass and   *)
(* the third pass of ParseAndSyncInteractor.execute find in it, add to the *)
(* lexicon, teach the expression index, and show in the table.             *)
(*                                                                         *)
(* Here a parse adds its candidates at once and no call to the lexicon     *)
(* fails; requests side by side, the queue and failures are in             *)
(* ParsePipeline, the stages before the second pass in MatcherStages.      *)
(***************************************************************************)
EXTENDS MweDetection, LlmThirdPass

CONSTANTS
    Texts,      \* [tokens, kids]
    Stores,     \* what the expression index may hold at the start
    Responses,  \* what the language model may answer
    MaxParses   \* bound on the parses of the text

ASSUME AnalysisAssumption ==
    /\ \A t \in Texts : t.tokens \in Seq(Token) /\ t.kids \in [DOMAIN t.tokens -> SUBSET Nat]
    /\ \A s \in Stores : IsIndex(s)
    /\ Responses \subseteq Response
    /\ MaxParses \in Nat \ {0}

VARIABLES
    text,
    store,     \* the expression index: id -> expression
    lexicon,   \* entries [phrase, category]
    model,     \* MweCandidateDetector._nlp: "unset", "loaded" or "failed"
    syn,       \* _wordnet_synset_cache: phrase -> "unset", "found" or "none"
    phase,     \* how far the parse is
    known,     \* the phrases of the lexicon when the parse began
    second,    \* the second pass: [status, occurrences]
    third,     \* the third pass: [status, occurrences, response]
    table,     \* the rows of the answer
    parses     \* bound

vars == <<text, store, lexicon, model, syn, phase, known, second, third, table, parses>>

TrfConfidence == 80     \* trf_confidence_threshold
NoResponse == [call |-> "none", content |-> [shape |-> "text", items |-> <<>>],
               reasoning |-> [blocks |-> <<>>, loose |-> <<>>, lines |-> <<>>]]
NotRun == [status |-> "skipped", occurrences |-> <<>>]
NotAsked == [status |-> "skipped", occurrences |-> <<>>, response |-> NoResponse]

Phrases == {e.phrase : e \in lexicon}

Init ==
    /\ text \in Texts /\ store \in Stores
    /\ lexicon = {} /\ known = {}
    /\ model = "unset" /\ syn = [p \in DOMAIN Synonyms |-> "unset"]
    /\ phase = "tokens" /\ second = NotRun /\ third = NotAsked /\ table = <<>>
    /\ parses = 0

---------------------------------------------------------------------------
\* The tokens' own candidates.
ParseTokens ==
    /\ phase = "tokens" /\ parses < MaxParses
    /\ known' = Phrases
    /\ lexicon' = Synced(lexicon, TokenCandidates(text.tokens),
                         Recanonical(TokenCategories(text.tokens, PhrasalVerbs(text.tokens))))
    /\ phase' = "second" /\ parses' = parses + 1
    /\ UNCHANGED <<text, store, model, syn, second, third, table>>

SyncedOccurrences(occurrences) ==
    Synced(lexicon, OccurrenceCandidates(occurrences), Recanonical(OccurrenceCategories(occurrences)))

\* What the second pass looks up in WordNet: verbs, the pairs in their reach, and
\* what the index has for these verbs.
LookedUp ==
    LET lemmas == {text.tokens[i].lemma : i \in DOMAIN text.tokens}
    IN  {<<w>> : w \in lemmas}
        \cup UNION {{<<text.tokens[i].lemma, text.tokens[j].word>> : j \in Reach(text, i)} :
                        i \in DOMAIN text.tokens}
        \cup {store[id].words : id \in {n \in DOMAIN store : store[n].base \in lemmas}}

\* _ensure_model: tried once.
Loaded == IF model = "unset" THEN {"loaded", "failed"} ELSE {model}

\* _wordnet_synsets: a lookup that raises finds nothing, and that is cached.
AfterLookups(raising) ==
    [p \in DOMAIN syn |->
        IF syn[p] # "unset" \/ p \notin LookedUp THEN syn[p]
        ELSE IF p \in raising THEN "none" ELSE "found"]

\* MweCandidateDetector.detect and MweSecondPassEngine.parse.  Without the model it
\* takes the document of the first parse, if that is at hand; vectors are there only
\* with the model.
SecondPass ==
    /\ phase = "second"
    /\ \E loaded \in Loaded :
        /\ model' = loaded
        /\ \/ loaded = "failed" /\ second' = NotRun /\ UNCHANGED <<syn, lexicon>>
           \/ \E raising \in SUBSET {p \in LookedUp \cap DOMAIN syn : syn[p] = "unset"}, vectors \in BOOLEAN :
                /\ vectors => loaded = "loaded"
                /\ syn' = AfterLookups(raising)
                /\ LET all == Augmented(syn', text, store)
                       selected == Selected(Found(syn', vectors, text, all))
                   IN  second' = [status |-> "ok", occurrences |-> Disambiguated(store, all, selected)]
                /\ lexicon' = SyncedOccurrences(second'.occurrences)
    /\ phase' = "third"
    /\ UNCHANGED <<text, store, known, third, table, parses>>

---------------------------------------------------------------------------
\* evaluate_validation_policy
PolicyAllows ==
    LET trf == {n \in DOMAIN second.occurrences : second.occurrences[n].source = "spacy_trf_semantic"}
    IN  \/ trf = {}
        \/ /\ \A n \in trf : second.occurrences[n].score <= TrfConfidence
           /\ \E n \in trf : second.occurrences[n].status = "uncertain"

\* upsert_mwe_expression of an occurrence of the third pass, which never says that
\* an expression is separable, and upsert_mwe_sense, unless it fails.
Learned(index, occurrence, upsert) ==
    LET form == FormOf(occurrence)
        old == {id \in DOMAIN index : index[id].words = form}
        id == IF old # {} THEN MinOf(old) ELSE MaxOf({0} \cup DOMAIN index) + 1
        verbal == occurrence.type = "phrasal_verb" /\ Len(form) >= 2
        senses == IF old = {} THEN <<>> ELSE index[id].senses
        sense == [key |-> [origin |-> "llm", of |-> form], priority |-> 10]
        entry == [words |-> form, type |-> occurrence.type, separable |-> FALSE, gap |-> MaxGap,
                  base |-> IF verbal THEN form[1] ELSE "", particle |-> IF verbal THEN Last(form) ELSE "",
                  senses |-> IF upsert = "expression" \/ sense \in Range(senses) THEN senses
                             ELSE Append(senses, sense)]
    IN  [n \in DOMAIN index \cup {id} |-> IF n = id THEN entry ELSE index[n]]

\* One after the other.
LearnedAll(index, occurrences, upserts) ==
    LET upto[n \in 0 .. Len(occurrences)] ==
            IF n = 0 THEN index
            ELSE IF upserts[n] = "nothing" THEN upto[n - 1]
            ELSE Learned(upto[n - 1], occurrences[n], upserts[n])
    IN  upto[Len(occurrences)]

\* The LLM's occurrences go to the lexicon and to the index.
ThirdPass ==
    /\ phase = "third" /\ PolicyAllows
    /\ \E response \in Responses :
        LET pass == Extracted(response)
        IN  /\ third' = [status |-> pass.status, occurrences |-> pass.occurrences, response |-> response]
            /\ lexicon' = SyncedOccurrences(pass.occurrences)
            /\ \E upserts \in [DOMAIN pass.occurrences -> {"nothing", "expression", "both"}] :
                 store' = LearnedAll(store, pass.occurrences, upserts)
    /\ phase' = "table"
    /\ UNCHANGED <<text, model, syn, known, second, table, parses>>

\* Not asked for, or not allowed.
NoThirdPass ==
    /\ phase = "third"
    /\ phase' = "table"
    /\ UNCHANGED <<text, store, lexicon, model, syn, known, second, third, table, parses>>

\* The rows are all that is left of the passes.
BuildTable ==
    /\ phase = "table"
    /\ LET lemmas == {<<Lexeme(p[1])>> : p \in {q \in known : Len(q) = 1}}
           rows == TokenRows(text.tokens, lemmas)
                   \o OccurrenceRows(second.occurrences, "second", known)
                   \o OccurrenceRows(third.occurrences, "third", known)
       IN  table' = rows \o HeuristicRows(rows, PhrasalVerbs(text.tokens), known)
    /\ phase' = "answer" /\ known' = {} /\ second' = NotRun /\ third' = NotAsked
    /\ UNCHANGED <<text, store, lexicon, model, syn, parses>>

\* The answer goes out; the text may come again.
Answered ==
    /\ phase = "answer"
    /\ phase' = "tokens" /\ table' = <<>>
    /\ UNCHANGED <<text, store, lexicon, model, syn, known, second, third, parses>>

Next == ParseTokens \/ SecondPass \/ ThirdPass \/ NoThirdPass \/ BuildTable \/ Answered

Spec == Init /\ [][Next]_vars

---------------------------------------------------------------------------
(* Properties                                                              *)

\* The particle is tagged as one, as a preposition or as an adverb, or it depends on
\* the verb and WordNet finds verb and phrase alike.
Linked(i, j, e) ==
    \/ text.tokens[j].dep \in {"prt", "compound:prt", "prep", "advmod"}
    \/ text.tokens[j].pos \in {"PART", "ADP", "ADV"}
    \/ j \in text.kids[i] /\ WordnetScore(syn, text.tokens[i], text.tokens[j], e) > 0

\* Every separable expression of the index whose verb and particle stand in the
\* text, within its gap and linked, is reported, or something that overlaps it is:
\* no other phrase, score or length makes the second pass miss it, and the particle
\* may come again in reach of the verb if that one comes later and does not depend
\* on the verb.  The code may miss a particle in any other role, and one with the
\* same particle before it or with a later one that depends on the verb.
SeparatedIsFound ==
    phase = "third" /\ second.status = "ok" =>
        \A id \in DOMAIN store : \A i, j \in DOMAIN text.tokens :
            LET e == store[id]
            IN  /\ e.separable /\ e.base = text.tokens[i].lemma /\ e.particle = text.tokens[j].word
                /\ i < j /\ j - i - 1 <= e.gap /\ j - i - 1 <= MaxGap
                /\ Linked(i, j, e)
                /\ \A k \in Window(text, i, MaxGap) \ {j} :
                      text.tokens[k].word = e.particle => k > j /\ k \notin text.kids[i]
                => \E n \in DOMAIN second.occurrences :
                      second.occurrences[n].from <= j /\ i <= second.occurrences[n].to

\* An occurrence is left without a sense the index has for its words only if the
\* index calls the expression inseparable, as the third pass always does: then the
\* phrasal verb that WordNet adds for the text stands before it.
UnresolvedIsInseparable ==
    phase = "third" =>
        \A n \in DOMAIN second.occurrences : \A id \in DOMAIN store :
            /\ second.occurrences[n].status = "uncertain"
            /\ store[id].words = second.occurrences[n].form /\ store[id].senses # <<>>
            => ~store[id].separable

\* A sense that is shown is one of the expression that is shown, and none comes
\* before it, through all the expressions and ids the passes add.
ResolvedShowsItsSense ==
    phase = "third" =>
        \A n \in DOMAIN second.occurrences :
            second.occurrences[n].status = "resolved" =>
                \E id \in DOMAIN store :
                    /\ store[id].words = second.occurrences[n].form
                    /\ \E m \in DOMAIN store[id].senses :
                        /\ store[id].senses[m].key = second.occurrences[n].sense
                        /\ \A k \in DOMAIN store[id].senses :
                              store[id].senses[m].priority <= store[id].senses[k].priority

\* Each phrase of plain words that the table shows is in the lexicon.  A phrasal verb
\* of the heuristic is there in that very form, an occurrence of the second or third
\* pass in the form the rules make of it without its type: "heads up" as "head up",
\* "dress up" as "dre up", and as itself only if they leave it alone.  What is stored
\* has a category of its own unless the rules would change even that form again.  A
\* phrase with a word that is not plainly spelled is shown but never stored.
ShownIsStored ==
    phase = "answer" =>
        \A n \in DOMAIN table :
            LET form == table[n].form
                stored == IF table[n].source = "heuristic" THEN form ELSE Canonical(form, "")
            IN  Len(form) > 1 /\ Spelled(stored) =>
                    \E e \in lexicon :
                        e.phrase = stored /\ (e.category = AutoAdded => Canonical(stored, "") # stored)

\* JSON without a usable item, or with all of its items where nobody looks for them:
\* bare, under another key, or a single one in a list that is cut off or in prose.
Barren(content) ==
    \/ content.shape \in WellFormed /\ NormalizedItems(content.items) = <<>>
    \/ content.shape \in {"elsewhere", "item"}
    \/ content.shape \in {"list_in_prose", "cut_list"} /\ Len(content.items) = 1

\* A third pass is a success without occurrences only if the content is barren, or if
\* it is no JSON and something barren in the reasoning stands for it: a fenced object,
\* or an item whose phrase is blank.  So the usable items of an answer that is cut
\* off get lost in silence only next to such reasoning; else the pass has failed.
NoSilentLoss ==
    LET content == third.response.content
        blocks == third.response.reasoning.blocks
        loose == third.response.reasoning.loose
    IN  third.status = "ok" /\ third.occurrences = <<>> =>
            \/ Barren(content)
            \/ /\ content.shape \notin WellFormed
               /\ \/ \E n \in DOMAIN blocks : Fenced(blocks[n]) /\ Barren(blocks[n])
                  \/ \E n \in DOMAIN loose : loose[n].full /\ loose[n].form = <<>>
=============================================================================

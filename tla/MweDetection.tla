------------------------------ MODULE MweDetection ------------------------------
(***************************************************************************)
(* The second pass over one text: MweCandidateDetector adds the phrasal    *)
(* verbs WordNet knows to the expressions of the index, MweDetector finds  *)
(* candidates and drops the overlapping ones, MweDisambiguator gives each  *)
(* a sense.  Pure operators; TextAnalysis runs them.                       *)
(*                                                                         *)
(* A text is [tokens, kids]: tokens without spaces and punctuation, each   *)
(* [word, lemma, pos, dep], and for each position the later positions of   *)
(* its syntactic children.  A store is the index snapshot: a function from *)
(* ids to [words, type, separable, gap, base, particle, senses].  A phrase *)
(* is a sequence of words; scores are hundredths.                          *)
(***************************************************************************)
EXTENDS TextRules

CONSTANTS
    MaxGap,        \* second_pass_max_gap_tokens
    Synonyms,      \* for each phrase in WordNet the lemmas of its synsets
    Similarity,    \* wup similarity of a verb and a phrase
    TrfScore       \* cosine of a phrase as found and its reference vector

ASSUME DetectionAssumption ==
    /\ MaxGap \in Nat \ {0}
    /\ \A x \in DOMAIN Similarity : x[2] \in DOMAIN Synonyms /\ Similarity[x] \in Nat
    /\ \A x \in DOMAIN TrfScore : TrfScore[x] \in Int

SenseKey == [origin : {"seed", "llm"}, of : Phrase]
Expression == [words : Phrase, type : {"phrasal_verb", "idiom"}, separable : BOOLEAN, gap : Nat \ {0},
               base : Word \cup {""}, particle : Word \cup {""},
               senses : Seq([key : SenseKey, priority : Int])]

\* What the lexicon service keeps in its tables: ids from a sequence, an expression
\* once.  A separable pair of verb and particle is a phrasal verb, known by its words.
IsIndex(store) ==
    /\ IsFiniteSet(DOMAIN store) /\ DOMAIN store \subseteq Nat \ {0}
    /\ store \in [DOMAIN store -> Expression]
    /\ \A id \in DOMAIN store :
        LET e == store[id]
        IN  /\ \A n \in DOMAIN store : store[n].words = e.words => n = id
            /\ e.separable /\ Len(e.words) = 2 /\ e.words[2] \in Particles =>
                  /\ e.type = "phrasal_verb"
                  /\ e.base \in {"", e.words[1]} /\ e.particle \in {"", e.words[2]}

WordnetThreshold == 52
TrfThreshold == 40
AugmentThreshold == 24
SimilarityThreshold == 52    \* second_pass_similarity_threshold
MarginThreshold == 8         \* second_pass_margin_threshold

---------------------------------------------------------------------------
(* WordNet, as far as it is known: "syn" maps a phrase to what the first   *)
(* lookup of it brought, which is cached, an exception as "none".          *)

Sees(syn, phrase) == phrase \in DOMAIN syn /\ syn[phrase] = "found"

Alike(syn, verb, phrase) ==
    IF Sees(syn, <<verb>>) /\ <<verb, phrase>> \in DOMAIN Similarity
    THEN Similarity[<<verb, phrase>>] ELSE 0

\* _wordnet_supports_augmented_pair, _wordnet_lemma_names
Supported(syn, verb, phrase) ==
    /\ Sees(syn, phrase) /\ Synonyms[phrase] # {}
    /\ verb \in Synonyms[phrase] \/ Alike(syn, verb, phrase) >= AugmentThreshold

\* _wordnet_semantic_score
WordnetScore(syn, verb, particle, e) ==
    LET alike == Alike(syn, verb.lemma, e.words)
        near == IF e.particle = particle.word THEN MinOf({99, alike + 4}) ELSE alike
    IN  IF e.type # "phrasal_verb" \/ ~Sees(syn, e.words) \/ alike = 0 THEN 0
        ELSE IF "complete" \in Synonyms[e.words] THEN MaxOf({near, MinOf({99, alike + 6})})
        ELSE near

\* _trf_semantic_score: without the model there is no reference vector.
SemanticTrfScore(model, verb, e) ==
    IF e.type = "phrasal_verb" /\ model /\ <<verb.lemma, e.words>> \in DOMAIN TrfScore
    THEN TrfScore[<<verb.lemma, e.words>>] ELSE 0

---------------------------------------------------------------------------
(* The expressions                                                         *)

\* _build_snapshot: the verb and particle a separable expression is found by.
PairOf(e) ==
    CASE e.separable /\ e.base # "" /\ e.particle # "" -> {<<e.base, e.particle>>}
      [] e.separable /\ (e.base = "" \/ e.particle = "") /\ e.type = "phrasal_verb" /\ Len(e.words) >= 2
         -> {<<e.words[1], Last(e.words)>>}
      [] OTHER -> {}

\* Mutant: a pair of the index is as good as new.
NewlySeen(store, new) == Range(new)
\* seen_pairs
SeenPairs(store, new) == UNION {PairOf(store[id]) : id \in DOMAIN store} \cup Range(new)

\* The positions after i that a particle of the verb at i may have.
Window(text, i, gap) == i + 1 .. MinOf({Len(text.tokens), i + gap + 1})

\* _is_viable_phrasal_particle
Viable(token, gap) ==
    /\ token.pos \in ParticlePos \cup {""}
    /\ token.word \in WeakParticles => token.pos = "PART" \/ token.dep \in ParticleDep
    /\ ~(token.word = "on" /\ gap > 0 /\ token.dep = "prep")

\* The particles in the reach of the verb at i, up to the next verb.
Reach(text, i) ==
    {j \in Window(text, i, MaxGap) :
        /\ \A k \in i + 1 .. j : text.tokens[k].pos \notin VerbPos
        /\ text.tokens[j].word \in Particles
        /\ Viable(text.tokens[j], j - i - 1)}

Virtual(pair) ==
    [words |-> pair, type |-> "phrasal_verb", separable |-> TRUE, gap |-> MaxGap,
     base |-> pair[1], particle |-> pair[2], senses |-> <<>>]

\* _augment_wordnet_expressions: of each verb the first pair that is new and in
\* WordNet, in the order of the text.
NewPairs(syn, text, store) ==
    LET new(i, j) == <<text.tokens[i].lemma, text.tokens[j].word>>
        fits(i, pairs) == {j \in Reach(text, i) :
                              /\ new(i, j) \notin SeenPairs(store, pairs)
                              /\ Supported(syn, text.tokens[i].lemma, new(i, j))}
        grown(i, pairs) ==
            IF text.tokens[i].pos \notin VerbPos \/ fits(i, pairs) = {} THEN pairs
            ELSE Append(pairs, new(i, MinOf(fits(i, pairs))))
        upto[i \in 0 .. Len(text.tokens)] == IF i = 0 THEN <<>> ELSE grown(i, upto[i - 1])
    IN  upto[Len(text.tokens)]

\* Mutant: numbered from 1.
VirtualIdFromOne(store, n) == n
\* Below every id of the index.
VirtualId(store, n) == MinOf({0} \cup DOMAIN store) - n

Augmented(syn, text, store) ==
    LET new == NewPairs(syn, text, store)
        ids == {VirtualId(store, n) : n \in DOMAIN new}
    IN  [id \in DOMAIN store \cup ids |->
            IF id \in ids THEN Virtual(new[CHOOSE n \in DOMAIN new : VirtualId(store, n) = id])
            ELSE store[id]]

---------------------------------------------------------------------------
(* The candidates                                                          *)

Candidate(e, id, i, j, score, source) ==
    [id |-> id, from |-> i, to |-> j, score |-> score, source |-> source,
     boosted |-> source \notin {"contiguous", "separable"},
     idiom |-> e.type = "idiom", separable |-> e.separable, separated |-> source # "contiguous"]

\* _detect_contiguous: the words of an expression, as they stand or as lemmas.
Contiguous(text, all) ==
    LET reads(id, i, field(_)) == [k \in DOMAIN all[id].words |-> field(text.tokens[i + k - 1])]
        fits(id, i) ==
            /\ i + Len(all[id].words) - 1 <= Len(text.tokens)
            /\ \/ reads(id, i, LAMBDA t : t.word) = all[id].words
               \/ reads(id, i, LAMBDA t : t.lemma) = all[id].words
    IN  {Candidate(all[x[1]], x[1], x[2], x[2] + Len(all[x[1]].words) - 1, 0, "contiguous") :
            x \in {y \in (DOMAIN all) \X (DOMAIN text.tokens) : fits(y[1], y[2])}}

Loose(token) == token.dep \in {"prep", "advmod"} \/ token.pos \in {"ADP", "ADV"}
Tight(token) == token.dep \in ParticleDep \/ token.pos = "PART"

\* Mutant: only what is tagged as a particle or depends on the verb.
ParticleTight(text, i, particle) ==
    LET near == {j \in Window(text, i, MaxGap) : text.tokens[j].word = particle}
        fits == {j \in near : j \in text.kids[i] \/ Tight(text.tokens[j])}
    IN  IF fits = {} THEN {} ELSE {MinOf(fits)}
\* _find_particle_index: a child of the verb, else whatever is tagged as a particle.
ParticleOf(text, i, particle) ==
    LET near == {j \in Window(text, i, MaxGap) : text.tokens[j].word = particle}
        children == near \cap text.kids[i]
        tagged == {j \in near : Tight(text.tokens[j]) \/ Loose(text.tokens[j])}
    IN  IF children # {} THEN {MinOf(children)} ELSE IF tagged # {} THEN {MinOf(tagged)} ELSE {}

\* _detect_separable, of an expression at a verb and a particle
Separated(syn, model, text, all, id, i, j) ==
    LET e == all[id]
        verb == text.tokens[i]
        particle == text.tokens[j]
        wordnet == WordnetScore(syn, verb, particle, e)
        trf == SemanticTrfScore(model, verb, e)
        score == MaxOf({0, wordnet, trf})
    IN  CASE Loose(particle) /\ trf >= TrfThreshold
             -> {Candidate(e, id, i, j, score, "spacy_trf_semantic")}
          [] Loose(particle) /\ trf < TrfThreshold /\ wordnet >= WordnetThreshold
             -> {Candidate(e, id, i, j, score, "second_pass_spacy_semantic")}
          [] ~Loose(particle) /\ ~Tight(particle) /\ score = 0 -> {}
          [] OTHER -> {Candidate(e, id, i, j, score, "separable")}

Separable(syn, model, text, all) ==
    UNION {UNION {UNION {
        IF j - i - 1 > all[id].gap THEN {} ELSE Separated(syn, model, text, all, id, i, j)
            : j \in UNION {ParticleOf(text, i, pair[2]) : pair \in
                            {p \in PairOf(all[id]) : p[1] = text.tokens[i].lemma}}}
            : i \in DOMAIN text.tokens}
            : id \in DOMAIN all}

Found(syn, model, text, all) == Contiguous(text, all) \cup Separable(syn, model, text, all)

---------------------------------------------------------------------------
(* Overlaps                                                                *)

Bit(b) == IF b THEN 1 ELSE 0
\* Equals stay in the order they were found.
Merit(c) ==
    <<c.to - c.from, Bit(c.boosted), c.score, Bit(c.idiom), Bit(c.separable),
      -Bit(c.separated), -c.from, -c.id>>

Exceeds(s, t) == \E k \in DOMAIN s : s[k] > t[k] /\ \A m \in 1 .. k - 1 : s[m] = t[m]
Overlap(c, d) == c.from <= d.to /\ d.from <= c.to

\* _dedupe_overlaps: the best first, each unless it overlaps one taken before.
Taken(found) ==
    CHOOSE taken \in SUBSET found :
        \A c \in found :
            c \in taken <=> \A d \in taken : Exceeds(Merit(d), Merit(c)) => ~Overlap(c, d)
\* In the order of the text.
Selected(found) ==
    LET taken == Taken(found)
        starts == Ascending({c.from : c \in taken})
    IN  [n \in DOMAIN starts |-> CHOOSE c \in taken : c.from = starts[n]]

---------------------------------------------------------------------------
(* Senses                                                                  *)

\* _score_for_rank, of the first two senses
FirstScore(n) == IF n = 1 THEN 90 ELSE 85
SecondScore(n) == IF n = 1 THEN 0 ELSE 65

\* disambiguate: senses by priority, the first of equals.
BestSense(senses) ==
    LET least == MinOf({senses[n].priority : n \in DOMAIN senses})
    IN  senses[MinOf({n \in DOMAIN senses : senses[n].priority = least})]

\* The virtual expressions are not in the store and have no senses.
Occurrence(store, all, c) ==
    LET senses == IF c.id \in DOMAIN store THEN store[c.id].senses ELSE <<>>
        n == Len(senses)
        resolved == /\ n > 0
                    /\ FirstScore(n) >= SimilarityThreshold
                    /\ FirstScore(n) - SecondScore(n) >= MarginThreshold
    IN  [form |-> all[c.id].words, type |-> all[c.id].type, from |-> c.from, to |-> c.to,
         status |-> IF resolved THEN "resolved" ELSE "uncertain",
         sense |-> IF resolved THEN BestSense(senses).key ELSE <<>>,
         source |-> c.source,
         score |-> IF (c.boosted \/ senses = <<>>) /\ c.score > 0 THEN c.score
                   ELSE IF senses = <<>> THEN 0 ELSE FirstScore(n)]

Disambiguated(store, all, selected) ==
    [n \in DOMAIN selected |-> Occurrence(store, all, selected[n])]
=============================================================================

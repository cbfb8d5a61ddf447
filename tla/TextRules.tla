-------------------------------- MODULE TextRules --------------------------------
(***************************************************************************)
(* TextProcessor and ParseTableBuilder: the rules by which a parse turns   *)
(* tokens and occurrences into candidates for the lexicon, their           *)
(* categories, and the rows of its table.  Pure operators.                 *)
(*                                                                         *)
(* A token is [word, lemma, pos, dep, cats]; a phrase is a sequence of     *)
(* words, a single word a phrase of length 1.  What the spelling rules     *)
(* make of a word is given by functions on the words they change; forms in *)
(* -ied and -ies count as irregular.                                       *)
(***************************************************************************)
EXTENDS Integers, Sequences, FiniteSets, SequencesExt

CONSTANTS
    Particles,     \* PHRASAL_PARTICLES
    WeakParticles, \* WEAK_PHRASAL_PARTICLES
    Irregular,     \* IRREGULAR_VERB_HEADS
    Cut,           \* the other words that normalize_verb_head changes: -ing, -ed, -es, -s
    Singular,      \* the words that normalize_lexeme changes: -s, but not -ss
    Blocklist,     \* _AUTO_ADD_BLOCKLIST, and the words of one letter
    Unsafe         \* the words WORD_RE does not match: digits, punctuation, other alphabets

Phrase == Seq(STRING) \ {<<>>}
Word == STRING \ {""}
Token == [word : Word, lemma : Word, pos : STRING, dep : STRING, cats : Seq(STRING)]

ASSUME RulesAssumption ==
    /\ WeakParticles \subseteq Particles
    /\ DOMAIN Irregular \cap DOMAIN Cut = {}
    /\ Unsafe \cap (DOMAIN Irregular \cup DOMAIN Cut) = {}
    /\ \A f \in {Irregular, Cut, Singular} : f \in [DOMAIN f -> STRING]

HeuristicGap == 4      \* PHRASAL_MAX_GAP_TOKENS
AutoAdded == "Auto Added"

VerbPos == {"VERB", "AUX"}
ParticlePos == {"ADP", "PART", "ADV"}
ParticleDep == {"prt", "compound:prt"}
PosHint == [NOUN |-> "Noun", PROPN |-> "Noun", VERB |-> "Verb", AUX |-> "Verb", ADJ |-> "Adjective",
            ADV |-> "Adverb", PRON |-> "Pronoun", ADP |-> "Preposition", PART |-> "Particle",
            DET |-> "Determiner", NUM |-> "Numeral", INTJ |-> "Interjection",
            CCONJ |-> "Coordinating conjunction", SCONJ |-> "Subordinating conjunction"]
PosCategories == Range(PosHint)

MinOf(S) == CHOOSE n \in S : \A m \in S : n <= m
MaxOf(S) == CHOOSE n \in S : \A m \in S : n >= m

\* The elements of s whose place is in I, in their order.
Only(s, I) ==
    LET upto[n \in 0 .. Len(s)] ==
            IF n = 0 THEN <<>>
            ELSE IF n \in I THEN Append(upto[n - 1], s[n]) ELSE upto[n - 1]
    IN  upto[Len(s)]
\* A set of positions, from the first to the last.
Ascending(I) == Only([n \in 1 .. MaxOf({0} \cup I) |-> n], I)

\* unique: the first of equals stays.
Unique(s) == Only(s, {n \in DOMAIN s : \A m \in 1 .. n - 1 : s[m] # s[n]})

---------------------------------------------------------------------------
(* Words and phrases                                                       *)

Lexeme(w) == IF w \in DOMAIN Singular THEN Singular[w] ELSE w

\* SAFE_TERM_RE
Spelled(phrase) == \A i \in DOMAIN phrase : phrase[i] \notin Unsafe

\* normalize_verb_head.  It changes some base forms too, and what it returns may
\* change again: "dress" gives "dres", and that "dre".
VerbHead(w) ==
    CASE w \in DOMAIN Irregular -> Irregular[w]
      [] w \in DOMAIN Cut -> Cut[w]
      [] OTHER -> w

LooksLikeVerbForm(w) == w \in DOMAIN Irregular

\* canonicalize_expression
Canonical(phrase, type) ==
    IF /\ Len(phrase) > 1
       /\ \/ type = "phrasal_verb"
          \/ type = "idiom" /\ LooksLikeVerbForm(phrase[1])
          \/ type \notin {"phrasal_verb", "idiom"} /\ Last(phrase) \in Particles
    THEN [phrase EXCEPT ![1] = VerbHead(@)]
    ELSE phrase

---------------------------------------------------------------------------
(* Candidates of the tokens                                                *)

Lexemes(tokens) ==
    LET plain == Ascending({i \in DOMAIN tokens : Lexeme(tokens[i].lemma) \notin Unsafe})
    IN  Unique([n \in DOMAIN plain |-> <<Lexeme(tokens[plain[n]].lemma)>>])

\* _is_valid_phrasal_particle_token
ValidParticle(token, gap) ==
    /\ token.word \in Particles
    /\ token.pos \in ParticlePos \cup {""}
    /\ token.word \in WeakParticles => token.pos = "PART" \/ token.dep \in ParticleDep
    /\ token.word = "on" /\ gap > 0 => token.dep # "prep" /\ (token.dep # "" \/ token.pos # "ADP")

\* The positions up to "gap" tokens behind i, before the next verb.
Behind(tokens, i, gap) ==
    {j \in i + 1 .. MinOf({Len(tokens), i + gap + 1}) :
        \A k \in i + 1 .. j : tokens[k].pos \notin VerbPos}

\* extract_phrasal_verbs: of each verb its first particle, with a second one when
\* it follows closely.
FirstParticles(tokens, i) ==
    {j \in Behind(tokens, i, HeuristicGap) : ValidParticle(tokens[j], j - i - 1)}
PhrasalAt(tokens, i) ==
    LET j == MinOf(FirstParticles(tokens, i))
        second == {k \in Behind(tokens, j, 1) :
                      tokens[k].word # tokens[j].word /\ ValidParticle(tokens[k], k - j - 1)}
    IN  Canonical(<<Lexeme(tokens[i].lemma), tokens[j].word>> \o
                  IF second = {} THEN <<>> ELSE <<tokens[MinOf(second)].word>>, "phrasal_verb")
PhrasalVerbs(tokens) ==
    LET verbs == Ascending({i \in 1 .. Len(tokens) - 1 :
                    /\ Lexeme(tokens[i].lemma) \notin Unsafe
                    /\ tokens[i].pos \in VerbPos \cup {""} /\ FirstParticles(tokens, i) # {}})
    IN  Unique([n \in DOMAIN verbs |-> PhrasalAt(tokens, verbs[n])])

TokenCandidates(tokens) == Unique(Lexemes(tokens) \o PhrasalVerbs(tokens))

---------------------------------------------------------------------------
(* Categories.  A dictionary filled with setdefault is the sequence of the  *)
(* pairs [phrase, category] in the order they came; the first one counts.   *)

CategoryIn(dictionary, phrase) ==
    LET at == {n \in DOMAIN dictionary : dictionary[n].phrase = phrase}
    IN  IF at = {} THEN AutoAdded ELSE dictionary[MinOf(at)].category

\* category_from_token: what the part of speech hints at, if the lexicon agrees;
\* "" when there is neither.
CategoryOfToken(token) ==
    LET hint == IF token.pos \in DOMAIN PosHint THEN PosHint[token.pos] ELSE ""
    IN  IF token.cats = <<>> \/ hint \in Range(token.cats) THEN hint ELSE token.cats[1]

LexemeCategories(tokens) ==
    LET named == Ascending({i \in DOMAIN tokens : CategoryOfToken(tokens[i]) # ""})
    IN  [n \in DOMAIN named |-> [phrase |-> <<Lexeme(tokens[named[n]].lemma)>>,
                                 category |-> CategoryOfToken(tokens[named[n]])]]
\* Mutant: the phrasal verbs are left out.
TokenCategoriesOnly(tokens, phrasals) == LexemeCategories(tokens)
\* build_candidate_categories
TokenCategories(tokens, phrasals) ==
    LexemeCategories(tokens)
    \o [n \in DOMAIN phrasals |->
        [phrase |-> Canonical(phrasals[n], "phrasal_verb"), category |-> "Phrasal Verb"]]

\* canonicalize_candidate_categories
Recanonical(dictionary) ==
    [n \in DOMAIN dictionary |->
        [phrase |-> Canonical(dictionary[n].phrase, ""), category |-> dictionary[n].category]]

\* extract_occurrence_sync_candidates
FormOf(occurrence) == Canonical(occurrence.form, occurrence.type)
KindOf(type) == IF type = "phrasal_verb" THEN "Phrasal Verb" ELSE "Idiom"
OccurrenceCandidates(occurrences) == Unique([n \in DOMAIN occurrences |-> FormOf(occurrences[n])])
OccurrenceCategories(occurrences) ==
    [n \in DOMAIN occurrences |->
        [phrase |-> FormOf(occurrences[n]), category |-> KindOf(occurrences[n].type)]]

\* allow_auto_add
Allowed(phrase, category) ==
    /\ Spelled(phrase)
    /\ \/ Len(phrase) > 1 \/ phrase[1] \notin Blocklist
       \/ phrase[1] \in Particles /\ category \in {"Preposition", "Particle", "Phrasal Verb"}

\* partition_sync_candidates knows no types: whatever the candidate was, its form
\* without one is the one that goes on.
Accepted(candidates, dictionary) ==
    {p \in {Canonical(c, "") : c \in Range(candidates)} : Allowed(p, CategoryIn(dictionary, p))}

\* What sync_candidates adds to a lexicon of [phrase, category]: a suggested
\* category is one the lexicon has or one that is created.
Synced(lexicon, candidates, dictionary) ==
    LET new == Accepted(candidates, dictionary) \ {e.phrase : e \in lexicon}
    IN  lexicon \cup {[phrase |-> p, category |-> CategoryIn(dictionary, p)] : p \in new}

---------------------------------------------------------------------------
(* The table: rows [form, category, source, known]                         *)

\* should_split_homonym_rows
Splits(cats) == Cardinality(Range(cats) \cap PosCategories) >= 2

\* build_table: a row for a token, or one for each category of a homonym.
TokenRows(tokens, known) ==
    FlattenSeq([i \in DOMAIN tokens |->
        LET row(category) == [form |-> <<tokens[i].word>>, category |-> category,
                              source |-> "token", known |-> <<Lexeme(tokens[i].lemma)>> \in known]
            cats == Unique(tokens[i].cats)
        IN  CASE cats = <<>> -> <<row("-")>>
              [] Splits(cats) -> [n \in DOMAIN cats |-> row(cats[n])]
              [] Len(cats) = 1 -> <<row(cats[1])>>
              [] Len(cats) > 1 /\ ~Splits(cats) -> <<row(ToString(cats))>>])

RowForm(occurrence) == Canonical(occurrence.form, occurrence.type)

\* append_occurrence_rows: one row for each form and type.
OccurrenceRows(occurrences, source, known) ==
    LET forms == Unique([n \in DOMAIN occurrences |-> <<RowForm(occurrences[n]), occurrences[n].type>>])
    IN  [n \in DOMAIN forms |->
            [form |-> forms[n][1], category |-> KindOf(forms[n][2]),
             source |-> source, known |-> forms[n][1] \in known]]

\* append_heuristic_phrasal_rows: those the table does not have.
HeuristicRows(table, phrasals, known) ==
    LET shown == {table[n].form : n \in {m \in DOMAIN table : table[m].category = "Phrasal Verb"}}
        forms == Unique([n \in DOMAIN phrasals |-> Canonical(phrasals[n], "phrasal_verb")])
        new == Only(forms, {n \in DOMAIN forms : forms[n] \notin shown})
    IN  [n \in DOMAIN new |-> [form |-> new[n], category |-> "Phrasal Verb",
                               source |-> "heuristic", known |-> new[n] \in known]]
=============================================================================

---------------------------- MODULE MCTextAnalysis ----------------------------
(* A verb, a word between or not, a particle tagged in several ways and    *)
(* sometimes a second one; a particle tagged as an object is a child.      *)
EXTENDS TextAnalysis

Reads(word, lemma, pos, dep, cats) == [word |-> word, lemma |-> lemma, pos |-> pos, dep |-> dep, cats |-> cats]
Verbs == {Reads("looked", "look", "VERB", "root", <<"Verb">>),
          Reads("came", "come", "VERB", "root", <<"Verb", "Noun">>)}
Dress == Reads("dress", "dress", "VERB", "root", <<>>)
It == Reads("it", "it", "PRON", "obj", <<>>)
Comma == Reads(",", ",", "PUNCT", "punct", <<>>)
First == {Reads("up", "up", "ADP", "prt", <<>>), Reads("up", "up", "ADV", "advmod", <<>>),
          Reads("up", "up", "NOUN", "obj", <<>>), Reads("across", "across", "ADP", "prep", <<>>)}

Then == {<<Reads("to", "to", "PART", "aux", <<>>)>>, <<Reads("up", "up", "ADP", "prt", <<>>)>>}

\* The parts of a text: verb, what is between, particle, what follows.
Parts == {x \in Verbs \X {<<>>, <<It>>} \X First \X {<<>>} :
             x[1].lemma = "come" /\ x[2] # <<>> => x[3].dep = "prt"}
         \cup ({v \in Verbs : v.lemma = "look"} \X {<<>>} \X {p \in First : p.dep # "advmod"} \X Then)
         \cup ({Dress} \X {<<>>, <<Comma>>} \X {p \in First : p.dep = "prt"} \X {<<>>})
MCTexts ==
    {[tokens |-> <<x[1]>> \o x[2] \o <<x[3]>> \o x[4],
      kids |-> [i \in 1 .. Len(x[2]) + Len(x[4]) + 2 |->
                  IF x[3].dep = "obj" /\ i = 1 THEN {Len(x[2]) + 2} ELSE {}]] : x \in Parts}

Seed(words, type, separable, gap, senses) ==
    [words |-> words, type |-> type, separable |-> separable, gap |-> gap,
     base |-> IF type = "idiom" THEN "" ELSE words[1],
     particle |-> IF type = "idiom" THEN "" ELSE words[2],
     senses |-> [n \in 1 .. Len(senses) |-> [key |-> [origin |-> "seed", of |-> <<ToString(n)>>], priority |-> senses[n]]]]
MCStores ==
    {[n \in {} |-> n],
     (1 :> Seed(<<"look", "up">>, "phrasal_verb", TRUE, 1, <<2, 1>>))
       @@ (2 :> Seed(<<"come", "across">>, "phrasal_verb", FALSE, 2, <<5>>))
       @@ (3 :> Seed(<<"dress", "up">>, "phrasal_verb", TRUE, 2, <<>>)),
     (1 :> Seed(<<"come", "up">>, "phrasal_verb", TRUE, 2, <<1>>))
       @@ (2 :> Seed(<<"look", "it", "up">>, "idiom", FALSE, 2, <<1>>))
       @@ (3 :> Seed(<<"come", "it">>, "idiom", TRUE, 2, <<1>>))}

MCIrregular == ("came" :> "come")
MCCut == ("looked" :> "look") @@ ("heads" :> "head") @@ ("dress" :> "dres") @@ ("dres" :> "dre")
MCSingular == ("ups" :> "up")
MCSynonyms ==
    (<<"look">> :> {"look", "search"}) @@ (<<"come">> :> {"come"})
    @@ (<<"look", "up">> :> {"search"}) @@ (<<"come", "across">> :> {"find", "complete"})
    @@ (<<"come", "up">> :> {"come"})
MCSimilarity == (<<"look", <<"look", "up">>>> :> 60) @@ (<<"come", <<"come", "across">>>> :> 30)
MCTrfScore == (<<"come", <<"come", "across">>>> :> 85) @@ (<<"look", <<"look", "up">>>> :> 50)

Names(form, type, full) == [form |-> form, type |-> type, full |-> full]
LookUp == Names(<<"looked", "up">>, "phrasal", FALSE)
LookedUpIdiom == Names(<<"looked", "up">>, "idiom", FALSE)
ComeAcross == Names(<<"came", "across">>, "idiom", FALSE)
DressUp == Names(<<"dress", "up">>, "phrasal_verb", TRUE)
Vague == Names(<<"look">>, "word", FALSE)
HeadsUp == Names(<<"heads", "up">>, "idiom", TRUE)
EasyCome == Names(<<"easy", "come,", "easy", "go">>, "idiom", TRUE)
NoReasoning == [blocks |-> <<>>, loose |-> <<>>, lines |-> <<>>]
Says(shape, items) == [shape |-> shape, items |-> items]
Heard(kind, form, type) == [kind |-> kind, form |-> form, type |-> type]
Answer(content, reasoning) == [call |-> "answered", content |-> content, reasoning |-> reasoning]
MCResponses ==
    {Answer(Says(shape, <<ComeAcross>>), NoReasoning) :
        shape \in {"two_lists", "item", "elsewhere", "list_in_prose", "broken"}}
    \cup {Answer(Says(shape, <<LookUp, LookUp, Vague, DressUp>>), NoReasoning) :
            shape \in {"object", "cut_list"}}
    \cup {Answer(Says("list", <<LookedUpIdiom>>), NoReasoning),
          Answer(Says("object", <<HeadsUp>>), NoReasoning),
          Answer(Says("object", <<EasyCome>>), NoReasoning)}
    \cup {Answer(Says("broken", <<ComeAcross>>), reasoning) : reasoning \in
            {[NoReasoning EXCEPT !.blocks = <<Says("object", <<>>), Says("object", <<LookedUpIdiom>>)>>],
             [NoReasoning EXCEPT !.loose = <<Names(<<>>, "idiom", TRUE)>>]}}
    \cup {Answer(Says("text", <<>>), reasoning) : reasoning \in
            {[NoReasoning EXCEPT !.blocks = <<Says("list", <<LookUp>>), Says("broken", <<LookUp>>),
                                              Says("object", <<DressUp>>)>>],
             [NoReasoning EXCEPT !.loose = <<ComeAcross, DressUp>>],
             [NoReasoning EXCEPT !.lines =
                 <<Heard("header", <<"come", "up">>, ""), Heard("type", <<>>, "idiom"),
                   Heard("header", <<"look", "up">>, ""), Heard("number", <<>>, ""),
                   Heard("type", <<>>, "idiom")>>]}}
    \cup {[NoResponse EXCEPT !.call = "http_error"]}
=============================================================================

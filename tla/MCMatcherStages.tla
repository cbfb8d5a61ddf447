---------------------------- MODULE MCMatcherStages ----------------------------
(* Two requests, of two threads or one.  The lexicon grows from version 1  *)
(* to version 2; "slow" embeds near "fast", "ran" is a form of "run" and   *)
(* like it in its letters, "jog" is in WordNet and embeds near "run", which*)
(* comes after the first two forms of the second lexicon; "give up" is a   *)
(* phrase and "give up hope" a longer one; the fourth word is cut off.     *)
EXTENDS MatcherStages

MCWords == {"run", "ran", "give", "up", "hope", "jog", "slow", "fast"}
MCTexts == {<<"ran", "jog">>, <<"give", "up", "hope", "fast">>, <<"slow">>}
MCVersions == {1, 2}
MCSingle == [v \in MCVersions |-> [w \in MCWords |->
    IF w \in {"run", "give"} THEN {"Verb"} ELSE IF w = "fast" /\ v = 2 THEN {"Adjective"} ELSE {}]]
MCPhrases == [v \in MCVersions |->
    {[words |-> <<"give", "up">>, cats |-> {"Phrasal Verb"}],
     [words |-> <<"give", "up", "hope">>, cats |-> {"Idiom"}]}]
MCLemma == [w \in MCWords |-> IF w = "ran" THEN "run" ELSE w]
MCInflections == [w \in MCWords |-> IF w = "ran" THEN {"run"} ELSE {}]
MCNear == [w \in MCWords |-> CASE w = "slow" -> {"fast"} [] w = "jog" -> {"run"} [] OTHER -> {}]
Sorted == <<"fast", "give", "hope", "jog", "ran", "run", "slow", "up">>
MCRank == [w \in MCWords |-> CHOOSE i \in DOMAIN Sorted : Sorted[i] = w]
MCAlike == [w \in MCWords |-> CASE w = "slow" -> {"fast"} [] w = "ran" -> {"run"} [] OTHER -> {}]
MCHint == [w \in MCWords |-> IF w = "jog" THEN "Noun" ELSE "none"]
MCMaxUnknown == [lemma |-> 2, wordnet |-> 2, bert |-> 2]

Symmetric == Permutations(Requests)
=============================================================================

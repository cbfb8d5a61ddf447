-------------------------- MODULE MCParsePipeline --------------------------
(* ParsePipeline on two requests with different texts that share a phrase  *)
(* p.  To the first it is a phrasal verb among the tokens and an idiom     *)
(* among the expressions, once the index has it; to the second a word of a *)
(* category that the user made and a sync does not.  The LLM may name it   *)
(* an idiom in either.  The second text has a blocked word and another.    *)
EXTENDS ParsePipeline, TLC

Is(w, c) == [word |-> w, category |-> c]

MCTextOf == ("r1" :> "t1") @@ ("r2" :> "t2")

MCTokens == ("t1" :> <<Is("p", "Phrasal Verb")>>)
         @@ ("t2" :> <<Is("b", "Noun"), Is("w", "Noun"), Is("p", "Custom")>>)

MCExpressions == ("t1" :> <<Is("p", "Idiom")>>) @@ ("t2" :> <<>>)

MCLlmFinds == {Is("p", "Idiom")}

MCExisting == {Is("p", "Custom")}
=============================================================================

------------------------------ MODULE LlmThirdPass ------------------------------
(***************************************************************************)
(* LlmThirdPassExtractor.detect: what the third pass makes of the stream   *)
(* of a language model.  Pure operators; TextAnalysis runs them.           *)
(*                                                                         *)
(* A response is [call, content, reasoning]; content is [shape, items],    *)
(* where items are the complete ones and shape says how they are wrapped.  *)
(* An item is [form, type, full]: the phrase, the type as written, and     *)
(* whether it has every field in the order the reasoning parser looks for. *)
(* A string in the place of an object is an item without a type.           *)
(* reasoning is [blocks, loose, lines]: what stands between its JSON       *)
(* fences (contents), its items in running text, and its lines.            *)
(***************************************************************************)
EXTENDS TextRules

CONSTANT MaxItems    \* third_pass_llm_max_items; 0 is no limit

ASSUME MaxItemsAssumption == MaxItems \in Nat

WellFormed == {"object",        \* {"occurrences": [..]}, alone or in prose
               "two_lists",     \* {"phrasal_verbs": [..], "idioms": [..]}
               "list"}          \* [..], alone
Shapes == WellFormed \cup
          {"elsewhere",         \* an object, with the items under another key or in no list
           "item",              \* one bare {..}
           "list_in_prose", "cut_list",
           "broken",            \* an object cut off, or with other braces around it
           "text"}              \* no JSON object at all

KnownTypes == {"phrasal_verb", "idiom"}
Item == {i \in [form : Seq(STRING), type : STRING, full : BOOLEAN] : i.full => i.type \in KnownTypes}
Content == {c \in [shape : Shapes, items : Seq(Item)] :
              /\ c.shape = "item" => Len(c.items) = 1
              /\ c.shape = "text" => c.items = <<>>}
Line == {l \in [kind : {"header", "type", "number", "text"}, form : Seq(STRING), type : STRING] :
           l.kind = "header" => l.type \in KnownTypes \cup {""}}
Response == [call : STRING, content : Content,
             reasoning : [blocks : Seq(Content), loose : Seq(Item), lines : Seq(Line)]]

\* _normalize_expression_type
TypeOf(raw) ==
    CASE raw \in {"phrasal_verb", "phrasal"} -> "phrasal_verb"
      [] raw \in {"idiom", "idiomatic"} -> "idiom"
      [] OTHER -> ""

\* Mutant: what cannot be parsed counts as an object without occurrences.
ParsedLeniently(content) ==
    IF content.shape \in WellFormed THEN {content.items} ELSE {<<>>}
\* _parse_content_payload: the text as JSON, or else what is between its first and
\* its last brace.  Of a list that is not the whole text this is its only item, an
\* object without occurrences, or several with commas between, which is no JSON.
\* The result is the set of the payload's items, empty when nothing was parsed.
ParsedContent(content) ==
    CASE content.shape \in WellFormed -> {content.items}
      [] content.shape \in {"elsewhere", "item"} -> {<<>>}
      [] content.shape \in {"list_in_prose", "cut_list"} /\ Len(content.items) = 1 -> {<<>>}
      [] OTHER -> {}

---------------------------------------------------------------------------
(* The reasoning, when the content brought nothing                         *)

\* _parse_reasoning_candidate_blocks: a header line opens an item, a type line
\* changes it, the next header, a numbered line or the end closes it.
BulletItems(lines) ==
    LET closed(s) == IF s.form = <<>> \/ s.type = "" THEN s.items
                     ELSE Append(s.items, [form |-> s.form, type |-> s.type, full |-> FALSE])
        read(s, line) ==
            CASE line.kind = "header" -> [items |-> closed(s), form |-> line.form, type |-> line.type]
              [] line.kind = "number" -> [items |-> closed(s), form |-> <<>>, type |-> ""]
              [] line.kind = "type" /\ s.form # <<>> -> [s EXCEPT !.type = TypeOf(line.type)]
              [] OTHER -> s
        upto[n \in 0 .. Len(lines)] ==
            IF n = 0 THEN [items |-> <<>>, form |-> <<>>, type |-> ""] ELSE read(upto[n - 1], lines[n])
    IN  closed(upto[Len(lines)])

\* _JSON_CODE_BLOCK_RE: only what begins and ends with a brace.
Fenced(block) == block.shape \in {"object", "two_lists", "elsewhere", "item", "broken"}

\* _parse_reasoning_payload
ParsedReasoning(reasoning) ==
    LET parsed == {n \in DOMAIN reasoning.blocks :
                      Fenced(reasoning.blocks[n]) /\ ParsedContent(reasoning.blocks[n]) # {}}
        loose == Only(reasoning.loose, {n \in DOMAIN reasoning.loose : reasoning.loose[n].full})
        bullets == BulletItems(reasoning.lines)
    IN  CASE parsed # {} -> ParsedContent(reasoning.blocks[MinOf(parsed)])
          [] parsed = {} /\ loose # <<>> -> {loose}
          [] parsed = {} /\ loose = <<>> /\ bullets # <<>> -> {bullets}
          [] OTHER -> {}

---------------------------------------------------------------------------
\* _normalize_occurrences: items of a known type, each form and type once.
Normalized(items) ==
    Unique([n \in DOMAIN items |->
        [form |-> Canonical(items[n].form, TypeOf(items[n].type)), type |-> TypeOf(items[n].type)]])
NormalizedItems(items) ==
    Normalized(Only(items, {n \in DOMAIN items : TypeOf(items[n].type) # "" /\ items[n].form # <<>>}))

Limited(s) == IF MaxItems > 0 /\ Len(s) > MaxItems THEN SubSeq(s, 1, MaxItems) ELSE s

Failed == [status |-> "failed", occurrences |-> <<>>]

\* detect and _request_llm: a call that fails, or an answer nothing can be parsed
\* from, is a failed pass without occurrences.
Extracted(response) ==
    LET content == ParsedContent(response.content)
        parsed == IF content # {} THEN content ELSE ParsedReasoning(response.reasoning)
    IN  IF response.call # "answered" \/ parsed = {} THEN Failed
        ELSE [status |-> "ok",
              occurrences |-> Limited(NormalizedItems(CHOOSE items \in parsed : TRUE))]
=============================================================================

--------------------------- MODULE MatcherStagesProofs ---------------------------
(***************************************************************************)
(* Proofs about MatcherStages, for any requests, texts, lexicons and       *)
(* dictionaries.                                                           *)
(*                                                                         *)
(* AloneIsSound is said of requests that do not overlap: AloneInv says what*)
(* the shared state is while there is one request at a time.               *)
(*                                                                         *)
(* OkMissesNothing is said of the end of a request: MissInv says of every  *)
(* point of it that a stage with status "ok" has found what it is there to *)
(* find, and that no later stage loses it.  The stages are functions of    *)
(* the tokens, so first what each of them adds to a text is proved.        *)
(***************************************************************************)
EXTENDS MatcherStages, FunctionTheorems, WellFoundedInduction, TLAPS

-----------------------------------------------------------------------------
(* The five stages and what they share, for requests that do not overlap   *)

Active(r) == at[r] # "idle"
InSemantics == {"embed", "encode", "query", "fallback", "compare"}
Failing == {"fallback", "compare"}

SharedTypes ==
    /\ at \in [Requests -> Points]
    /\ st \in [Requests -> [Stages -> Statuses]]
    /\ checked \in BOOLEAN /\ available \in BOOLEAN /\ overlap \in BOOLEAN
    /\ cfg.corpus \in BOOLEAN
    /\ breaker \in [count : Nat, state : {"closed", "open", "elapsed"}]
    /\ embeddings \in Seq(Versions)
    /\ rows \in [Requests -> Versions] /\ version \in [Requests -> Versions]

(* One request at a time. *)
OneRequest == \A r, q \in Requests : Active(r) /\ Active(q) => r = q

(* The availability check is made before its result is used. *)
CheckedFirst ==
    /\ checked => available = cfg.corpus
                    \/ \E r \in Requests : at[r] \in {"checkStage", "checkStatus"}
    /\ \A r \in Requests : at[r] \in {"checkStage", "checkStatus", "gate"} => checked
    /\ ~WordnetIsMissed

(* A failure is on the breaker's account until the fallback has gone well, *)
(* and the fallback has as much to do as the stage that failed.            *)
OneFailure ==
    /\ breaker.state = "closed"
    /\ breaker.count = 0 \/ (breaker.count = 1 /\ \E r \in Requests : at[r] \in Failing)
    /\ \A r \in Requests : at[r] \in InSemantics => ~SemanticIdle(r) /\ ~NoForms(rows[r])

(* There is room for the lexicon that is being encoded. *)
RoomForOne ==
    /\ Len(embeddings) <= MaxEmbeddings
    /\ \A r \in Requests : at[r] = "encode" => Len(embeddings) < MaxEmbeddings

AloneInv ==
    /\ SharedTypes
    /\ ~overlap => OneRequest /\ CheckedFirst /\ RoomForOne
    /\ ~overlap /\ Failures > 1 => OneFailure

LEMMA AloneInvImplies == AloneInv => AloneIsSound
BY StagesAssumption
   DEF AloneInv, AloneIsSound, CheckedFirst, RoomForOne, OneFailure, CircuitOpens, CacheOverflows,
       SharedTypes

LEMMA AloneInit == Init => AloneInv
<1> SUFFICES ASSUME Init PROVE AloneInv
    OBVIOUS
<1>1. SharedTypes
    <2>1. /\ at \in [Requests -> Points]
          /\ rows \in [Requests -> Versions] /\ version \in [Requests -> Versions]
        BY StagesAssumption DEF Init, Points, SomeVersion
    <2>2. AllSkipped \in [Stages -> Statuses]
        BY DEF AllSkipped, Statuses
    <2>3. st \in [Requests -> [Stages -> Statuses]]
        BY <2>2 DEF Init
    <2>4. /\ breaker \in [count : Nat, state : {"closed", "open", "elapsed"}]
        BY DEF Init, Closed
    <2>5. cfg.corpus \in BOOLEAN
        BY DEF Init
    <2>6. /\ embeddings = <<>>
          /\ checked \in BOOLEAN /\ available \in BOOLEAN /\ overlap \in BOOLEAN
        BY DEF Init
    <2> QED
        BY <2>1, <2>3, <2>4, <2>5, <2>6 DEF SharedTypes
<1>2. \A r \in Requests : at[r] = "idle" /\ st[r]["wordnet"] = "skipped"
    BY DEF Init, AllSkipped, Stages
<1>3. OneRequest /\ CheckedFirst
    BY <1>2 DEF Init, OneRequest, Active, CheckedFirst, WordnetIsMissed
<1>4. RoomForOne /\ OneFailure
    BY <1>2, StagesAssumption DEF Init, RoomForOne, OneFailure, Closed, InSemantics, Failing
<1> QED
    BY <1>1, <1>3, <1>4 DEF AloneInv

(* While requests come one after another, all but the active one are idle. *)
LEMMA OthersAreIdle ==
    ASSUME AloneInv, ~overlap, NEW r \in Requests, Active(r)
    PROVE  \A q \in Requests : q # r => at[q] = "idle"
BY DEF AloneInv, OneRequest, Active

(* What a step of an active request has to keep. *)
LEMMA ActiveStep ==
    ASSUME AloneInv, SharedTypes', NEW r \in Requests, Active(r),
           NEW p \in Points, at' = [at EXCEPT ![r] = p],
           \A q \in Requests : q # r => st'[q] = st[q],
           UNCHANGED <<cfg, overlap>>,
           ~overlap =>
             /\ checked' => available' = cfg.corpus \/ p \in {"checkStage", "checkStatus"}
             /\ p \in {"checkStage", "checkStatus", "gate"} => checked'
             /\ cfg.corpus => st'[r]["wordnet"] # "unavailable"
             /\ Len(embeddings') <= MaxEmbeddings
             /\ p = "encode" => Len(embeddings') < MaxEmbeddings,
           ~overlap /\ Failures > 1 =>
             /\ breaker'.state = "closed"
             /\ breaker'.count = 0 \/ (breaker'.count = 1 /\ p \in Failing)
             /\ p \in InSemantics => ~SemanticIdle(r)' /\ ~NoForms(rows'[r])
    PROVE  AloneInv'
<1> SUFFICES ASSUME ~overlap
             PROVE  /\ OneRequest' /\ CheckedFirst' /\ RoomForOne'
                    /\ Failures > 1 => OneFailure'
    BY DEF AloneInv
<1>1. /\ at'[r] = p
      /\ \A q \in Requests : q # r => at[q] = "idle" /\ at'[q] = "idle"
    BY OthersAreIdle DEF AloneInv, SharedTypes
<1>2. OneRequest'
    BY <1>1 DEF OneRequest, Active
<1>3. CheckedFirst'
    <2>1. checked' => available' = cfg'.corpus
                      \/ \E q \in Requests : at'[q] \in {"checkStage", "checkStatus"}
        BY <1>1
    <2>2. \A q \in Requests : at'[q] \in {"checkStage", "checkStatus", "gate"} => checked'
        BY <1>1
    <2>3. \A q \in Requests : st'[q]["wordnet"] = "unavailable" => ~cfg'.corpus
        BY <1>1 DEF AloneInv, CheckedFirst, WordnetIsMissed
    <2> QED
        BY <2>1, <2>2, <2>3 DEF CheckedFirst, WordnetIsMissed
<1>4. RoomForOne'
    BY <1>1 DEF RoomForOne
<1>5. ASSUME Failures > 1
      PROVE  OneFailure'
    <2>1. \A q \in Requests : at'[q] \in InSemantics => q = r /\ p \in InSemantics
        BY <1>1 DEF InSemantics
    <2>2. \A q \in Requests : at'[q] \in InSemantics => ~SemanticIdle(q)' /\ ~NoForms(rows[q])'
        BY <1>5, <2>1
    <2>3. breaker'.count = 0 \/ (breaker'.count = 1 /\ \E q \in Requests : at'[q] \in Failing)
        BY <1>1, <1>5
    <2> QED
        BY <1>5, <2>2, <2>3 DEF OneFailure
<1> QED
    BY <1>2, <1>3, <1>4, <1>5

(* A stage ends, fails or is skipped: the request goes on to one of the    *)
(* next points and only its own status changes.                            *)
LEMMA StatusTypes ==
    ASSUME SharedTypes, NEW r \in Requests, NEW stage \in Stages, NEW s \in Statuses,
           st' = [st EXCEPT ![r][stage] = s]
    PROVE  /\ st' \in [Requests -> [Stages -> Statuses]]
           /\ \A q \in Requests : q # r => st'[q] = st[q]
           /\ \A other \in Stages : st'[r][other] = IF other = stage THEN s ELSE st[r][other]
BY DEF SharedTypes

LEMMA NoPointLeft ==
    ASSUME SharedTypes, NEW r \in Requests, NEW p \in Points, at' = [at EXCEPT ![r] = p]
    PROVE  at' \in [Requests -> Points]
BY DEF SharedTypes

(* A request begins: all others are idle, or the requests overlap. *)
LEMMA BeginKeepsAlone ==
    ASSUME AloneInv, NEW r \in Requests, Begin(r) \/ BeginText(r)
    PROVE  AloneInv'
<1>1. PICK p \in {"hints", "tokenize"} : at' = [at EXCEPT ![r] = p]
    BY DEF Begin, BeginText, Goto
<1>2. /\ at[r] = "idle" /\ st' = [st EXCEPT ![r] = AllSkipped]
      /\ overlap' = (overlap \/ \E other \in Requests : at[other] # "idle")
      /\ version' = version \/ \E v \in Versions : version' = [version EXCEPT ![r] = v]
      /\ rows' = rows \/ \E v \in Versions : rows' = [rows EXCEPT ![r] = v]
      /\ UNCHANGED <<cfg, checked, available, breaker, embeddings>>
    BY DEF Begin, BeginText, wordnetVars, semanticVars, cacheVars, snapshotVars
<1>3. AllSkipped \in [Stages -> Statuses] /\ AllSkipped["wordnet"] = "skipped"
    BY DEF AllSkipped, Stages, Statuses
<1>4. SharedTypes'
    <2>1. at' \in [Requests -> Points]
        BY <1>1 DEF AloneInv, SharedTypes, Points, Stages
    <2>2. st' \in [Requests -> [Stages -> Statuses]]
        BY <1>2, <1>3 DEF AloneInv, SharedTypes
    <2>3. /\ rows' \in [Requests -> Versions] /\ version' \in [Requests -> Versions]
          /\ overlap' \in BOOLEAN
        <3>1. version' \in [Requests -> Versions]
            BY <1>2 DEF AloneInv, SharedTypes
        <3>2. rows' \in [Requests -> Versions]
            BY <1>2 DEF AloneInv, SharedTypes
        <3>3. overlap' \in BOOLEAN
            BY <1>2 DEF AloneInv, SharedTypes
        <3> QED
            BY <3>1, <3>2, <3>3
    <2> QED
        BY <1>2, <2>1, <2>2, <2>3 DEF AloneInv, SharedTypes
<1> SUFFICES ASSUME ~overlap'
             PROVE  /\ OneRequest' /\ CheckedFirst' /\ RoomForOne'
                    /\ Failures > 1 => OneFailure'
    BY <1>4 DEF AloneInv
<1>5. ~overlap /\ \A q \in Requests : at[q] = "idle"
    BY <1>2
<1>6. \A q \in Requests : at'[q] = IF q = r THEN p ELSE "idle"
    BY <1>1, <1>5 DEF AloneInv, SharedTypes
<1>7. OneRequest' /\ RoomForOne'
    BY <1>1, <1>2, <1>5, <1>6 DEF AloneInv, OneRequest, Active, RoomForOne
<1>8. CheckedFirst'
    <2>1. \A q \in Requests : st'[q]["wordnet"] = "unavailable" => ~cfg'.corpus
        BY <1>2, <1>3, <1>5 DEF AloneInv, CheckedFirst, WordnetIsMissed, SharedTypes
    <2>2. checked' => available' = cfg'.corpus
        BY <1>2, <1>5 DEF AloneInv, CheckedFirst
    <2> QED
        BY <1>1, <1>6, <2>1, <2>2 DEF CheckedFirst, WordnetIsMissed
<1>9. Failures > 1 => OneFailure'
    BY <1>1, <1>2, <1>5, <1>6 DEF AloneInv, OneFailure, Failing, InSemantics
<1> QED
    BY <1>7, <1>8, <1>9

(* The tokenizer, the lexicon and the lemmas touch nothing that is shared. *)
LEMMA PrivateStageKeepsAlone ==
    ASSUME AloneInv, NEW r \in Requests,
           DeadlinePassed(r) \/ Tokenize(r) \/ Exact(r) \/ LemmaInflect(r)
           \/ WordnetEnds(r) \/ Answer(r)
    PROVE  AloneInv'
<1>1. PICK p \in {"hints", "exact", "lemma", "wordnet", "bert", "idle"} :
          at' = [at EXCEPT ![r] = p]
    BY DEF DeadlinePassed, Tokenize, Exact, LemmaInflect, WordnetEnds, Answer, StageEnds, StageFails,
           Goto
<1>2. /\ Active(r) /\ UNCHANGED <<cfg, overlap, checked, available, breaker, embeddings>>
      /\ at[r] \in Stages \union {"probe", "done"}
    BY DEF DeadlinePassed, Tokenize, Exact, LemmaInflect, WordnetEnds, Answer, StageEnds, StageFails,
           Active, requestVars, snapshotVars, wordnetVars, semanticVars, cacheVars, Stages
<1>3. \/ st' = st
      \/ st' = [st EXCEPT ![r] = AllSkipped]
      \/ \E stage \in Stages, s \in Statuses \ {"unavailable"} : st' = [st EXCEPT ![r][stage] = s]
    BY DEF DeadlinePassed, Tokenize, Exact, LemmaInflect, WordnetEnds, Answer, StageEnds, StageFails,
           Stages, Statuses
<1>4. /\ st' \in [Requests -> [Stages -> Statuses]]
      /\ \A q \in Requests : q # r => st'[q] = st[q]
      /\ st'[r]["wordnet"] = "unavailable" => st[r]["wordnet"] = "unavailable"
    <2>1. CASE st' = st
        BY <2>1 DEF AloneInv, SharedTypes
    <2>2. CASE st' = [st EXCEPT ![r] = AllSkipped]
        <3>1. AllSkipped \in [Stages -> Statuses] /\ AllSkipped["wordnet"] = "skipped"
            BY DEF AllSkipped, Stages, Statuses
        <3> QED
            BY <2>2, <3>1 DEF AloneInv, SharedTypes
    <2>3. ASSUME NEW stage \in Stages, NEW s \in Statuses \ {"unavailable"},
                 st' = [st EXCEPT ![r][stage] = s]
          PROVE  /\ st' \in [Requests -> [Stages -> Statuses]]
                 /\ \A q \in Requests : q # r => st'[q] = st[q]
                 /\ st'[r]["wordnet"] = "unavailable" => st[r]["wordnet"] = "unavailable"
        <3>1. SharedTypes /\ s \in Statuses /\ "wordnet" \in Stages
            BY DEF AloneInv, Stages
        <3>2. /\ st' \in [Requests -> [Stages -> Statuses]]
              /\ \A q \in Requests : q # r => st'[q] = st[q]
              /\ \A other \in Stages : st'[r][other] = IF other = stage THEN s ELSE st[r][other]
            BY <2>3, <3>1, StatusTypes
        <3> QED
            BY <3>1, <3>2
    <2> QED
        BY <1>3, <2>1, <2>2, <2>3
<1>5. rows' \in [Requests -> Versions] /\ version' \in [Requests -> Versions]
    <2>1. /\ version' = version \/ version' = [version EXCEPT ![r] = SomeVersion]
          /\ rows' = rows \/ rows' = [rows EXCEPT ![r] = SomeVersion]
        BY DEF DeadlinePassed, Tokenize, Exact, LemmaInflect, WordnetEnds, Answer, StageEnds,
               StageFails, requestVars, snapshotVars
    <2>2. SomeVersion \in Versions
        BY StagesAssumption DEF SomeVersion
    <2> QED
        BY <2>1, <2>2 DEF AloneInv, SharedTypes
<1>6. SharedTypes'
    <2>1. at' \in [Requests -> Points]
        BY <1>1 DEF AloneInv, SharedTypes, Points, Stages
    <2> QED
        BY <1>2, <1>4, <1>5, <2>1 DEF AloneInv, SharedTypes
<1>7. p \in Points /\ p \notin InSemantics /\ p # "encode"
      /\ p \notin {"checkStage", "checkStatus", "gate"}
    BY <1>1 DEF Points, Stages, InSemantics
<1>8. ~overlap =>
          /\ checked' => available' = cfg.corpus
          /\ cfg.corpus => st'[r]["wordnet"] # "unavailable"
          /\ Len(embeddings') <= MaxEmbeddings
    <2> SUFFICES ASSUME ~overlap
                 PROVE  /\ checked => available = cfg.corpus
                        /\ cfg.corpus => st'[r]["wordnet"] # "unavailable"
                        /\ Len(embeddings) <= MaxEmbeddings
        BY <1>2
    <2>1. \A q \in Requests : at[q] \notin {"checkStage", "checkStatus"}
        BY <1>2, OthersAreIdle DEF Stages
    <2> QED
        BY <1>4, <2>1 DEF AloneInv, CheckedFirst, WordnetIsMissed, RoomForOne
<1>9. ~overlap /\ Failures > 1 => breaker'.state = "closed" /\ breaker'.count = 0
    <2> SUFFICES ASSUME ~overlap, Failures > 1
                 PROVE  breaker.state = "closed" /\ breaker.count = 0
        BY <1>2
    <2>1. \A q \in Requests : at[q] \notin Failing
        BY <1>2, OthersAreIdle DEF Stages, Failing
    <2> QED
        BY <2>1 DEF AloneInv, OneFailure
<1> QED
    BY <1>1, <1>2, <1>4, <1>6, <1>7, <1>8, <1>9, ActiveStep

(* The WordNet check, by the stage or for the status. *)
LEMMA CheckKeepsAlone ==
    ASSUME AloneInv, NEW r \in Requests, WordnetBegins(r) \/ CheckEnds(r) \/ Finish(r)
    PROVE  AloneInv'
<1>1. /\ Active(r)
      /\ UNCHANGED <<cfg, overlap, st, rows, version, breaker, embeddings>>
    BY DEF WordnetBegins, CheckEnds, Finish, Active, requestVars, snapshotVars, semanticVars,
           cacheVars
<1>2. CASE WordnetBegins(r) \/ Finish(r)
    <2>1. PICK p \in {"checkStage", "checkStatus", "gate", "done"} :
              /\ at' = [at EXCEPT ![r] = p]
              /\ p \in {"checkStage", "checkStatus"} \/ checked
        BY <1>2 DEF WordnetBegins, Finish, EnsureAvailable, Goto
    <2>2. /\ checked' = TRUE /\ available' = available /\ at[r] \in {"wordnet", "hints"}
        BY <1>2 DEF WordnetBegins, Finish, EnsureAvailable
    <2>3. SharedTypes' /\ p \in Points
        BY <1>1, <2>1, <2>2, NoPointLeft DEF AloneInv, SharedTypes, Points
    <2>4. ~overlap => \A q \in Requests : at[q] \notin {"checkStage", "checkStatus"} \union Failing
        BY <1>1, <2>2, OthersAreIdle DEF Failing
    <2>5. ~overlap =>
             /\ checked' => available' = cfg.corpus \/ p \in {"checkStage", "checkStatus"}
             /\ cfg.corpus => st'[r]["wordnet"] # "unavailable"
             /\ Len(embeddings') <= MaxEmbeddings
        BY <1>1, <2>1, <2>2, <2>4 DEF AloneInv, CheckedFirst, WordnetIsMissed, RoomForOne
    <2>6. ~overlap /\ Failures > 1 => breaker'.state = "closed" /\ breaker'.count = 0
        BY <1>1, <2>4 DEF AloneInv, OneFailure
    <2>7. p # "encode" /\ p \notin InSemantics
        BY DEF InSemantics
    <2> QED
        BY <1>1, <2>1, <2>2, <2>3, <2>5, <2>6, <2>7, ActiveStep
<1>3. CASE CheckEnds(r)
    <2>1. PICK p \in {"gate", "done"} : at' = [at EXCEPT ![r] = p]
        BY <1>3 DEF CheckEnds, Goto
    <2>2. /\ checked' = checked /\ available' = cfg.corpus
          /\ at[r] \in {"checkStage", "checkStatus"}
        BY <1>3 DEF CheckEnds
    <2>3. SharedTypes' /\ p \in Points
        BY <1>1, <2>1, <2>2, NoPointLeft DEF AloneInv, SharedTypes, Points
    <2>4. ~overlap => \A q \in Requests : at[q] \notin Failing
        BY <1>1, <2>2, OthersAreIdle DEF Failing
    <2>5. ~overlap =>
             /\ checked'
             /\ cfg.corpus => st'[r]["wordnet"] # "unavailable"
             /\ Len(embeddings') <= MaxEmbeddings
        BY <1>1, <2>2 DEF AloneInv, CheckedFirst, WordnetIsMissed, RoomForOne
    <2>6. ~overlap /\ Failures > 1 => breaker'.state = "closed" /\ breaker'.count = 0
        BY <1>1, <2>4 DEF AloneInv, OneFailure
    <2>7. p # "encode" /\ p \notin InSemantics
        BY DEF InSemantics
    <2> QED
        BY <1>1, <2>1, <2>2, <2>3, <2>5, <2>6, <2>7, ActiveStep
<1> QED
    BY <1>2, <1>3

(* The gate of the WordNet stage: the check is made when one comes here.   *)
LEMMA GateKeepsAlone ==
    ASSUME AloneInv, NEW r \in Requests, WordnetGate(r) \/ WordnetLooksUp(r)
    PROVE  AloneInv'
<1>1. /\ at[r] \in {"gate", "probe"} /\ Active(r)
      /\ UNCHANGED <<cfg, overlap, rows, version, checked, available, breaker, embeddings>>
    BY DEF WordnetGate, WordnetLooksUp, StageEnds, Active, requestVars, snapshotVars, wordnetVars,
           semanticVars, cacheVars
<1>2. ~overlap => \A q \in Requests : at[q] \notin {"checkStage", "checkStatus"} \union Failing
    BY <1>1, OthersAreIdle DEF Failing
<1>3. PICK p \in {"probe", "bert", "hints"} : at' = [at EXCEPT ![r] = p]
    <2>1. CASE WordnetGate(r)
        BY <2>1 DEF WordnetGate, StageEnds, Goto
    <2>2. CASE WordnetLooksUp(r)
        <3>1. at' = [at EXCEPT ![r] = "probe"]
            BY <2>2 DEF WordnetLooksUp, AloneInv, SharedTypes
        <3> QED
            BY <3>1
    <2> QED
        BY <2>1, <2>2
<1>4. \/ st' = st
      \/ \E s \in Statuses : /\ st' = [st EXCEPT ![r]["wordnet"] = s]
                             /\ s = "unavailable" => at[r] = "gate" /\ ~available
    BY DEF WordnetGate, WordnetLooksUp, StageEnds, Statuses
<1>5. /\ st' \in [Requests -> [Stages -> Statuses]]
      /\ \A q \in Requests : q # r => st'[q] = st[q]
      /\ st'[r]["wordnet"] = "unavailable" =>
           st[r]["wordnet"] = "unavailable" \/ (at[r] = "gate" /\ ~available)
    <2>1. CASE st' = st
        BY <2>1 DEF AloneInv, SharedTypes
    <2>2. ASSUME NEW s \in Statuses, st' = [st EXCEPT ![r]["wordnet"] = s],
                 s = "unavailable" => at[r] = "gate" /\ ~available
          PROVE  /\ st' \in [Requests -> [Stages -> Statuses]]
                 /\ \A q \in Requests : q # r => st'[q] = st[q]
                 /\ st'[r]["wordnet"] = "unavailable" => at[r] = "gate" /\ ~available
        <3>1. SharedTypes /\ "wordnet" \in Stages
            BY DEF AloneInv, Stages
        <3>2. /\ st' \in [Requests -> [Stages -> Statuses]]
              /\ \A q \in Requests : q # r => st'[q] = st[q]
              /\ \A other \in Stages :
                    st'[r][other] = IF other = "wordnet" THEN s ELSE st[r][other]
            BY <2>2, <3>1, StatusTypes
        <3> QED
            BY <2>2, <3>1, <3>2
    <2> QED
        BY <1>4, <2>1, <2>2
<1>6. SharedTypes' /\ p \in Points
    BY <1>1, <1>3, <1>5, NoPointLeft DEF AloneInv, SharedTypes, Points, Stages
<1>7. ~overlap =>
          /\ checked' => available' = cfg.corpus
          /\ cfg.corpus => st'[r]["wordnet"] # "unavailable"
          /\ Len(embeddings') <= MaxEmbeddings
    BY <1>1, <1>2, <1>5 DEF AloneInv, CheckedFirst, WordnetIsMissed, RoomForOne
<1>8. ~overlap /\ Failures > 1 => breaker'.state = "closed" /\ breaker'.count = 0
    BY <1>1, <1>2 DEF AloneInv, OneFailure
<1>9. /\ p # "encode" /\ p \notin InSemantics
      /\ p \notin {"checkStage", "checkStatus", "gate"}
    BY DEF InSemantics
<1> QED
    BY <1>1, <1>3, <1>5, <1>6, <1>7, <1>8, <1>9, ActiveStep

-----------------------------------------------------------------------------
(* The embedding cache *)

LEMMA MovedToEndSize ==
    ASSUME NEW S, NEW s \in Seq(S), NEW v \in S
    PROVE  /\ MovedToEnd(s, v) \in Seq(S)
           /\ Len(MovedToEnd(s, v)) = IF v \in Range(s) THEN Len(s) ELSE Len(s) + 1
<1>1. Len(s) \in Nat /\ DOMAIN s = 1..Len(s)
    OBVIOUS
<1>2. CASE v \in Range(s)
    <2> DEFINE i == CHOOSE n \in DOMAIN s : s[n] = v
    <2>1. i \in 1..Len(s)
        BY <1>1, <1>2 DEF Range
    <2>2. MovedToEnd(s, v) = Append(SubSeq(s, 1, i - 1) \o SubSeq(s, i + 1, Len(s)), v)
        BY <1>2 DEF MovedToEnd, RemoveAt
    <2> HIDE DEF i
    <2>3. PICK before \in Seq(S) : before = SubSeq(s, 1, i - 1) /\ Len(before) = i - 1
        <3>1. PICK n \in 0..Len(s) : n = i - 1
            BY <1>1, <2>1
        <3>2. SubSeq(s, 1, n) \in Seq(S) /\ Len(SubSeq(s, 1, n)) = n
            BY <1>1, <3>1
        <3> QED
            BY <3>1, <3>2
    <2>4. PICK after \in Seq(S) : after = SubSeq(s, i + 1, Len(s)) /\ Len(after) = Len(s) - i
        <3>1. PICK m \in 1..Len(s) + 1 : m = i + 1
            BY <1>1, <2>1
        <3>2. SubSeq(s, m, Len(s)) \in Seq(S) /\ Len(SubSeq(s, m, Len(s))) = Len(s) - m + 1
            BY <1>1, <3>1
        <3>3. Len(s) - m + 1 = Len(s) - i
            BY <1>1, <2>1, <3>1
        <3> QED
            BY <3>1, <3>2, <3>3
    <2>5. /\ Append(before \o after, v) \in Seq(S)
          /\ Len(Append(before \o after, v)) = Len(before) + Len(after) + 1
        OBVIOUS
    <2>6. Len(before) + Len(after) + 1 = Len(s)
        <3>1. Len(before) = i - 1 /\ Len(after) = Len(s) - i
            BY <2>3, <2>4
        <3> QED
            BY <1>1, <2>1, <3>1
    <2>7. MovedToEnd(s, v) = Append(before \o after, v)
        BY <2>2, <2>3, <2>4
    <2> QED
        BY <1>2, <2>5, <2>6, <2>7
<1>3. CASE v \notin Range(s)
    BY <1>3 DEF MovedToEnd
<1> QED
    BY <1>2, <1>3

LEMMA RoomMadeSize ==
    ASSUME NEW S, NEW s \in Seq(S)
    PROVE  RoomMade(s) \in Seq(S) /\ Len(RoomMade(s)) < MaxEmbeddings
<1>1. MaxEmbeddings \in Nat \ {0} /\ Len(s) \in Nat
    BY StagesAssumption
<1>2. CASE Len(s) < MaxEmbeddings
    BY <1>2 DEF RoomMade
<1>3. CASE ~(Len(s) < MaxEmbeddings)
    <2>1. RoomMade(s) = SubSeq(s, Len(s) - MaxEmbeddings + 2, Len(s))
        BY <1>3 DEF RoomMade
    <2>2. Len(s) - MaxEmbeddings + 2 \in 2..Len(s) + 1
        BY <1>1, <1>3
    <2>3. PICK m \in 2..Len(s) + 1 : m = Len(s) - MaxEmbeddings + 2
        BY <2>2
    <2>4. SubSeq(s, m, Len(s)) \in Seq(S) /\ Len(SubSeq(s, m, Len(s))) = Len(s) - m + 1
        BY <1>1, <2>3
    <2> QED
        BY <1>1, <2>1, <2>3, <2>4
<1> QED
    BY <1>2, <1>3

(* What the semantic stage has to do depends on the tokens only. *)
LEMMA SemanticsStays ==
    ASSUME NEW r \in Requests, UNCHANGED <<cfg, rows, tokens>>
    PROVE  /\ SemanticIdle(r)' <=> SemanticIdle(r)
           /\ NoForms(rows[r])' <=> NoForms(rows[r])
BY DEF SemanticIdle, Unknown, NoForms, Forms

(* The semantic stage in the embedding cache: room is made for one entry   *)
(* before it is encoded.                                                   *)
LEMMA CacheKeepsAlone ==
    ASSUME AloneInv, NEW r \in Requests, Embed(r) \/ Encode(r)
    PROVE  AloneInv'
<1>1. PICK p \in {"query", "encode", "fallback"} : at' = [at EXCEPT ![r] = p]
    BY DEF Embed, Encode, Goto
<1>2. /\ at[r] \in {"embed", "encode"} /\ Active(r)
      /\ UNCHANGED <<cfg, overlap, rows, version, checked, available, breaker, st, tokens>>
    BY DEF Embed, Encode, Active, requestVars, snapshotVars, wordnetVars
<1>3. embeddings \in Seq(Versions) /\ version[r] \in Versions
    BY DEF AloneInv, SharedTypes
<1>4. /\ embeddings' \in Seq(Versions)
      /\ Len(embeddings) <= MaxEmbeddings => Len(embeddings') <= MaxEmbeddings \/ at[r] = "encode"
      /\ p = "encode" => Len(embeddings') < MaxEmbeddings
      /\ Len(embeddings) < MaxEmbeddings => Len(embeddings') <= MaxEmbeddings
    <2>1. CASE Embed(r) /\ version[r] \in Range(embeddings)
        <3>1. embeddings' = MovedToEnd(embeddings, version[r]) /\ at' = [at EXCEPT ![r] = "query"]
            BY <2>1 DEF Embed, Goto
        <3>2. p = "query"
            BY <1>1, <3>1 DEF AloneInv, SharedTypes
        <3> QED
            <4>1. embeddings' \in Seq(Versions) /\ Len(embeddings') = Len(embeddings)
                BY <1>3, <2>1, <3>1, MovedToEndSize
            <4>2. Len(embeddings) \in Nat /\ MaxEmbeddings \in Nat
                BY <1>3, StagesAssumption
            <4> QED
                BY <3>2, <4>1, <4>2
    <2>2. CASE Embed(r) /\ version[r] \notin Range(embeddings)
        <3>1. embeddings' = RoomMade(embeddings)
            BY <2>2 DEF Embed
        <3>2. embeddings' \in Seq(Versions) /\ Len(embeddings') < MaxEmbeddings
            BY <1>3, <3>1, RoomMadeSize
        <3>3. Len(embeddings') \in Nat /\ MaxEmbeddings \in Nat
            BY <3>2, StagesAssumption
        <3> QED
            BY <3>2, <3>3
    <2>3. CASE Encode(r)
        <3>1. /\ embeddings' = MovedToEnd(embeddings, version[r]) /\ at[r] = "encode"
              /\ at' = [at EXCEPT ![r] = "query"]
            BY <2>3 DEF Encode, Goto
        <3>2. p = "query"
            BY <1>1, <3>1 DEF AloneInv, SharedTypes
        <3>3. Len(embeddings) \in Nat /\ MaxEmbeddings \in Nat
            BY <1>3, StagesAssumption
        <3> QED
            BY <1>3, <3>1, <3>2, <3>3, MovedToEndSize
    <2> QED
        BY <2>1, <2>2, <2>3
<1>5. SharedTypes' /\ p \in Points
    BY <1>1, <1>2, <1>4, NoPointLeft DEF AloneInv, SharedTypes, Points
<1>6. ~overlap =>
          /\ checked' => available' = cfg.corpus
          /\ cfg.corpus => st'[r]["wordnet"] # "unavailable"
    <2> SUFFICES ASSUME ~overlap
                 PROVE  /\ checked => available = cfg.corpus
                        /\ cfg.corpus => st[r]["wordnet"] # "unavailable"
        BY <1>2
    <2>1. \A q \in Requests : at[q] \notin {"checkStage", "checkStatus"}
        BY <1>2, OthersAreIdle
    <2> QED
        BY <2>1 DEF AloneInv, CheckedFirst, WordnetIsMissed
<1>7. ~overlap => /\ Len(embeddings') <= MaxEmbeddings
                  /\ p = "encode" => Len(embeddings') < MaxEmbeddings
    BY <1>4 DEF AloneInv, RoomForOne
<1>8. ~overlap /\ Failures > 1 => /\ breaker'.state = "closed" /\ breaker'.count = 0
                                  /\ ~SemanticIdle(r)' /\ ~NoForms(rows'[r])
    <2> SUFFICES ASSUME ~overlap, Failures > 1
                 PROVE  /\ breaker.state = "closed" /\ breaker.count = 0
                        /\ ~SemanticIdle(r)' /\ ~NoForms(rows[r])
        BY <1>2
    <2>1. \A q \in Requests : at[q] \notin Failing
        BY <1>2, OthersAreIdle DEF Failing
    <2>2. ~SemanticIdle(r) /\ ~NoForms(rows[r])
        BY <1>2 DEF AloneInv, OneFailure, InSemantics
    <2>3. ~SemanticIdle(r)'
        BY <1>2, <2>2, SemanticsStays
    <2> QED
        BY <2>1, <2>2, <2>3 DEF AloneInv, OneFailure
<1>9. p \notin {"checkStage", "checkStatus", "gate"}
    OBVIOUS
<1> QED
    BY <1>1, <1>2, <1>5, <1>6, <1>7, <1>8, <1>9, ActiveStep

(* However the semantic stage ends, the hints are next. *)
LEMMA SemanticEnds ==
    ASSUME SharedTypes, NEW r \in Requests, NEW t, NEW status \in {"ok", "skipped"},
           StageEnds(r, "bert", t, status, "hints")
    PROVE  /\ at' = [at EXCEPT ![r] = "hints"]
           /\ st' \in [Requests -> [Stages -> Statuses]]
           /\ \A q \in Requests : q # r => st'[q] = st[q]
           /\ st'[r]["wordnet"] = st[r]["wordnet"]
           /\ UNCHANGED requestVars
<1>1. PICK s \in {"ok", "skipped", "timed_out"} : st' = [st EXCEPT ![r]["bert"] = s]
    BY DEF StageEnds
<1>2. s \in Statuses /\ "bert" \in Stages /\ "wordnet" \in Stages
    BY DEF Statuses, Stages
<1>3. at' = [at EXCEPT ![r] = "hints"] /\ UNCHANGED requestVars
    BY DEF StageEnds, Goto
<1>4. /\ st' \in [Requests -> [Stages -> Statuses]]
      /\ \A q \in Requests : q # r => st'[q] = st[q]
      /\ \A other \in Stages : st'[r][other] = IF other = "bert" THEN s ELSE st[r][other]
    BY <1>1, <1>2, StatusTypes
<1> QED
    BY <1>2, <1>3, <1>4

(* The semantic stage moves on, keeping what it shares apart from the      *)
(* breaker: the part of the invariant that is the same for its steps.      *)
LEMMA SemanticStep ==
    ASSUME AloneInv, NEW r \in Requests, at[r] \in {"bert"} \union InSemantics,
           NEW p \in {"hints"} \union (InSemantics \ {"encode"}),
           at' = [at EXCEPT ![r] = p],
           st' \in [Requests -> [Stages -> Statuses]],
           \A q \in Requests : q # r => st'[q] = st[q],
           st'[r]["wordnet"] = st[r]["wordnet"],
           UNCHANGED <<cfg, overlap, rows, version, checked, available, embeddings>>,
           breaker' \in [count : Nat, state : {"closed", "open", "elapsed"}],
           ~overlap /\ Failures > 1 =>
             /\ breaker'.state = "closed"
             /\ breaker'.count = 0 \/ (breaker'.count = 1 /\ p \in Failing)
             /\ p \in InSemantics => ~SemanticIdle(r)' /\ ~NoForms(rows'[r])
    PROVE  AloneInv'
<1>1. Active(r) /\ at[r] \notin {"checkStage", "checkStatus"}
    BY DEF Active, InSemantics
<1>2. p \in Points
    BY DEF Points, InSemantics
<1>3. SharedTypes'
    BY <1>2, NoPointLeft DEF AloneInv, SharedTypes
<1>4. ~overlap =>
          /\ checked' => available' = cfg.corpus
          /\ cfg.corpus => st'[r]["wordnet"] # "unavailable"
          /\ Len(embeddings') <= MaxEmbeddings
    <2> SUFFICES ASSUME ~overlap
                 PROVE  /\ checked => available = cfg.corpus
                        /\ cfg.corpus => st[r]["wordnet"] # "unavailable"
                        /\ Len(embeddings) <= MaxEmbeddings
        OBVIOUS
    <2>1. \A q \in Requests : at[q] \notin {"checkStage", "checkStatus"}
        BY <1>1, OthersAreIdle
    <2> QED
        BY <2>1 DEF AloneInv, CheckedFirst, WordnetIsMissed, RoomForOne
<1>5. p # "encode" /\ p \notin {"checkStage", "checkStatus", "gate"}
    BY DEF InSemantics
<1> QED
    BY <1>1, <1>2, <1>3, <1>4, <1>5, ActiveStep

(* The breaker is asked by a stage that has work to do. *)
LEMMA SemanticBeginsKeepsAlone ==
    ASSUME AloneInv, NEW r \in Requests, SemanticBegins(r)
    PROVE  AloneInv'
<1>1. /\ at[r] \in {"bert", "fallback"}
      /\ UNCHANGED <<checked, available, embeddings>>
    BY DEF SemanticBegins, wordnetVars, cacheVars
<1>2. /\ breaker \in [count : Nat, state : {"closed", "open", "elapsed"}]
      /\ Asked \in [count : Nat, state : {"closed", "open", "elapsed"}]
      /\ SharedTypes
    BY DEF AloneInv, SharedTypes, Asked, Closed
<1>3. ~overlap /\ Failures > 1 =>
          /\ breaker.state = "closed" /\ Asked = breaker /\ Allows
          /\ breaker.count = 0 \/ (breaker.count = 1 /\ at[r] = "fallback")
          /\ at[r] = "fallback" => ~SemanticIdle(r) /\ ~NoForms(rows[r])
    <2> SUFFICES ASSUME ~overlap, Failures > 1
                 PROVE  /\ breaker.state = "closed" /\ Asked = breaker /\ Allows
                        /\ breaker.count = 0 \/ (breaker.count = 1 /\ at[r] = "fallback")
                        /\ at[r] = "fallback" => ~SemanticIdle(r) /\ ~NoForms(rows[r])
        OBVIOUS
    <2>1. \A q \in Requests : q # r => at[q] = "idle"
        BY <1>1, OthersAreIdle DEF Active
    <2>2. \A q \in Requests : at[q] \in Failing => q = r /\ at[r] = "fallback"
        BY <1>1, <2>1 DEF Failing
    <2>3. OneFailure
        BY DEF AloneInv
    <2> QED
        BY <2>2, <2>3 DEF OneFailure, Asked, Allows, InSemantics
<1>4. CASE SemanticIdle(r)
    <2>1. PICK status \in {"ok", "skipped"} : StageEnds(r, "bert", tokens[r], status, "hints")
        BY <1>4 DEF SemanticBegins
    <2>2. breaker' = breaker
        BY <1>4 DEF SemanticBegins
    <2>3. /\ at' = [at EXCEPT ![r] = "hints"]
          /\ st' \in [Requests -> [Stages -> Statuses]]
          /\ \A q \in Requests : q # r => st'[q] = st[q]
          /\ st'[r]["wordnet"] = st[r]["wordnet"]
          /\ UNCHANGED <<cfg, overlap, rows, version>>
        BY <1>2, <2>1, SemanticEnds DEF requestVars, snapshotVars
    <2>4. ~overlap /\ Failures > 1 => breaker'.state = "closed" /\ breaker'.count = 0
        BY <1>3, <1>4, <2>2
    <2> QED
        BY <1>1, <1>2, <2>2, <2>3, <2>4, SemanticStep DEF InSemantics
<1>5. CASE ~SemanticIdle(r) /\ (~Allows \/ NoForms(rows[r]))
    <2>1. StageEnds(r, "bert", tokens[r], "skipped", "hints") /\ breaker' = Asked
        BY <1>5 DEF SemanticBegins
    <2>2. /\ at' = [at EXCEPT ![r] = "hints"]
          /\ st' \in [Requests -> [Stages -> Statuses]]
          /\ \A q \in Requests : q # r => st'[q] = st[q]
          /\ st'[r]["wordnet"] = st[r]["wordnet"]
          /\ UNCHANGED <<cfg, overlap, rows, version>>
        BY <1>2, <2>1, SemanticEnds DEF requestVars, snapshotVars
    <2>3. ~overlap /\ Failures > 1 => breaker'.state = "closed" /\ breaker'.count = 0
        BY <1>3, <1>5, <2>1
    <2> QED
        BY <1>1, <1>2, <2>1, <2>2, <2>3, SemanticStep DEF InSemantics
<1>6. CASE ~SemanticIdle(r) /\ Allows /\ ~NoForms(rows[r])
    <2>1. /\ breaker' = Asked /\ UNCHANGED <<tokens, st, cfg, overlap, rows, version>>
          /\ Goto(r, IF at[r] = "bert" /\ cfg.sbert THEN "embed" ELSE "compare")
        BY <1>6 DEF SemanticBegins, requestVars, snapshotVars
    <2>2. PICK p \in {"embed", "compare"} : /\ at' = [at EXCEPT ![r] = p]
                                            /\ at[r] = "fallback" => p = "compare"
        BY <1>1, <2>1 DEF Goto
    <2>3. ~overlap /\ Failures > 1 =>
             /\ breaker'.state = "closed"
             /\ breaker'.count = 0 \/ (breaker'.count = 1 /\ p \in Failing)
        BY <1>3, <2>1, <2>2 DEF Failing
    <2>4. ~SemanticIdle(r)' /\ ~NoForms(rows'[r])
        BY <1>6, <2>1, SemanticsStays
    <2>5. st' \in [Requests -> [Stages -> Statuses]]
        BY <1>2, <2>1 DEF SharedTypes
    <2> QED
        BY <1>1, <1>2, <2>1, <2>2, <2>3, <2>4, <2>5, SemanticStep DEF InSemantics
<1> QED
    BY <1>4, <1>5, <1>6

(* Encoding fails: the fallback has as much to do. *)
LEMMA EncodeFailsKeepsAlone ==
    ASSUME AloneInv, NEW r \in Requests, EncodeFails(r)
    PROVE  AloneInv'
<1>1. /\ at[r] \in {"encode", "query"} /\ at' = [at EXCEPT ![r] = "fallback"]
      /\ breaker' = FailureRecorded
      /\ UNCHANGED <<tokens, st, cfg, overlap, rows, version, checked, available, embeddings>>
    BY DEF EncodeFails, Goto, requestVars, snapshotVars, wordnetVars, cacheVars
<1>2. /\ breaker \in [count : Nat, state : {"closed", "open", "elapsed"}]
      /\ st \in [Requests -> [Stages -> Statuses]]
    BY DEF AloneInv, SharedTypes
<1>3. /\ breaker' \in [count : Nat, state : {"closed", "open", "elapsed"}]
      /\ breaker'.count = breaker.count + 1
      /\ breaker.count + 1 < Failures => breaker'.state = breaker.state
    BY <1>1, <1>2, StagesAssumption DEF FailureRecorded
<1>4. ~overlap /\ Failures > 1 =>
          /\ breaker'.state = "closed" /\ breaker'.count = 1
          /\ ~SemanticIdle(r)' /\ ~NoForms(rows'[r])
    <2> SUFFICES ASSUME ~overlap, Failures > 1
                 PROVE  /\ breaker'.state = "closed" /\ breaker'.count = 1
                        /\ ~SemanticIdle(r)' /\ ~NoForms(rows'[r])
        OBVIOUS
    <2>1. \A q \in Requests : q # r => at[q] = "idle"
        BY <1>1, OthersAreIdle DEF Active
    <2>2. \A q \in Requests : at[q] \notin Failing
        BY <1>1, <2>1 DEF Failing
    <2>3. breaker.state = "closed" /\ breaker.count = 0
        BY <2>2 DEF AloneInv, OneFailure
    <2>4. ~SemanticIdle(r) /\ ~NoForms(rows[r])
        BY <1>1 DEF AloneInv, OneFailure, InSemantics
    <2>5. ~SemanticIdle(r)' /\ ~NoForms(rows'[r])
        BY <1>1, <2>4, SemanticsStays
    <2> QED
        BY <1>3, <2>3, <2>5
<1>5. "fallback" \in {"hints"} \union (InSemantics \ {"encode"}) /\ "fallback" \in Failing
    BY DEF InSemantics, Failing
<1> QED
    BY <1>1, <1>2, <1>3, <1>4, <1>5, SemanticStep DEF InSemantics

(* The comparison is a success: it closes the breaker. *)
LEMMA CompareKeepsAlone ==
    ASSUME AloneInv, NEW r \in Requests, Compare(r)
    PROVE  AloneInv'
<1>1. /\ at[r] \in {"query", "compare"} /\ breaker' = Closed
      /\ \E t : StageEnds(r, "bert", t, "ok", "hints")
      /\ UNCHANGED <<checked, available, embeddings>>
    BY DEF Compare, wordnetVars, cacheVars
<1>2. /\ at' = [at EXCEPT ![r] = "hints"]
      /\ st' \in [Requests -> [Stages -> Statuses]]
      /\ \A q \in Requests : q # r => st'[q] = st[q]
      /\ st'[r]["wordnet"] = st[r]["wordnet"]
      /\ UNCHANGED <<cfg, overlap, rows, version>>
    <2>1. SharedTypes
        BY DEF AloneInv
    <2> QED
        BY <1>1, <2>1, SemanticEnds DEF requestVars, snapshotVars
<1>3. /\ breaker' \in [count : Nat, state : {"closed", "open", "elapsed"}]
      /\ breaker'.state = "closed" /\ breaker'.count = 0
    BY <1>1 DEF Closed
<1> QED
    BY <1>1, <1>2, <1>3, SemanticStep DEF InSemantics

(* A circuit that nobody opened does not cool down. *)
LEMMA CoolDownKeepsAlone ==
    ASSUME AloneInv, CoolDown
    PROVE  AloneInv'
<1>1. /\ breaker.state = "open" /\ breaker' = [breaker EXCEPT !.state = "elapsed"]
      /\ UNCHANGED <<cfg, at, rows, version, tokens, st, embeddings, checked, available, overlap>>
    BY DEF CoolDown, requestVars, snapshotVars, wordnetVars, cacheVars
<1>2. SharedTypes'
    BY <1>1 DEF AloneInv, SharedTypes
<1>3. OneFailure => FALSE
    BY <1>1 DEF OneFailure
<1>4. ~overlap' => OneRequest' /\ CheckedFirst' /\ RoomForOne'
    BY <1>1 DEF AloneInv, OneRequest, Active, CheckedFirst, WordnetIsMissed, RoomForOne
<1> QED
    BY <1>1, <1>2, <1>3, <1>4 DEF AloneInv

(* One step of the program. *)
LEMMA StepKeepsAlone ==
    ASSUME AloneInv, [Next]_vars
    PROVE  AloneInv'
<1>1. ASSUME NEW r \in Requests, Step(r)
      PROVE  AloneInv'
    <2>1. CASE Begin(r) \/ BeginText(r)
        BY <2>1, BeginKeepsAlone
    <2>2. CASE DeadlinePassed(r) \/ Tokenize(r) \/ Exact(r) \/ LemmaInflect(r)
               \/ WordnetEnds(r) \/ Answer(r)
        BY <2>2, PrivateStageKeepsAlone
    <2>3. CASE WordnetBegins(r) \/ CheckEnds(r) \/ Finish(r)
        BY <2>3, CheckKeepsAlone
    <2>4. CASE WordnetGate(r) \/ WordnetLooksUp(r)
        BY <2>4, GateKeepsAlone
    <2>5. CASE SemanticBegins(r)
        BY <2>5, SemanticBeginsKeepsAlone
    <2>6. CASE Embed(r) \/ Encode(r)
        BY <2>6, CacheKeepsAlone
    <2>7. CASE EncodeFails(r)
        BY <2>7, EncodeFailsKeepsAlone
    <2>8. CASE Compare(r)
        BY <2>8, CompareKeepsAlone
    <2> QED
        BY <1>1, <2>1, <2>2, <2>3, <2>4, <2>5, <2>6, <2>7, <2>8 DEF Step
<1>2. CASE UNCHANGED vars
    <2>1. UNCHANGED <<cfg, at, rows, version, tokens, st, checked, available, breaker, embeddings,
                      overlap>>
        BY <1>2 DEF vars
    <2>2. SharedTypes'
        BY <2>1 DEF AloneInv, SharedTypes
    <2>3. ~overlap' => OneRequest' /\ CheckedFirst' /\ RoomForOne'
        BY <2>1 DEF AloneInv, OneRequest, Active, CheckedFirst, WordnetIsMissed, RoomForOne
    <2>4. OneFailure => OneFailure'
        BY <2>1, SemanticsStays DEF OneFailure
    <2> QED
        BY <2>1, <2>2, <2>3, <2>4 DEF AloneInv
<1> QED
    BY <1>1, <1>2, CoolDownKeepsAlone DEF Next

LEMMA AlwaysAlone == Spec => []AloneInv
BY AloneInit, StepKeepsAlone, PTL DEF Spec

(* Whatever happens to requests that come one after another, the circuit   *)
(* stays closed, the embedding cache within its bound and an installed     *)
(* WordNet is not missed.                                                  *)
THEOREM SpecAloneIsSound == Spec => []AloneIsSound
BY AlwaysAlone, AloneInvImplies, PTL

-----------------------------------------------------------------------------
(* The stages as functions of the tokens: no stage forgets a match, and    *)
(* each finds what it is there to find                                     *)

IsToken(x) ==
    /\ x = [word |-> x.word, known |-> x.known, source |-> x.source, cats |-> x.cats]
    /\ x.known \in BOOLEAN

(* t is the text, token by token. *)
Reads(t, words) ==
    /\ t = [i \in 1..Len(words) |-> t[i]]
    /\ \A i \in 1..Len(words) : IsToken(t[i]) /\ t[i].word = words[i]

(* u is the same text with at least the matches of t. *)
Grows(t, u, words) ==
    /\ Reads(u, words)
    /\ \A i \in 1..Len(words) : t[i].known => u[i].known

LEMMA MatchedIsToken ==
    ASSUME NEW x, IsToken(x), NEW source, NEW cats
    PROVE  /\ IsToken(Matched(x, source, cats))
           /\ Matched(x, source, cats).known
           /\ Matched(x, source, cats).word = x.word
<1>1. x = [word |-> x.word, known |-> x.known, source |-> x.source, cats |-> x.cats]
    BY DEF IsToken
<1>2. PICK y : y = [x EXCEPT !.known = TRUE, !.source = source, !.cats = cats]
    OBVIOUS
<1>3. /\ y.known = TRUE /\ y.word = x.word
      /\ y = [word |-> y.word, known |-> y.known, source |-> y.source, cats |-> y.cats]
    BY <1>1, <1>2
<1> QED
    BY <1>2, <1>3 DEF IsToken, Matched

LEMMA GrowsWith ==
    ASSUME NEW words \in Seq(Words), NEW t, Reads(t, words),
           NEW u, u = [i \in DOMAIN t |-> u[i]],
           \A i \in 1..Len(words) :
              u[i] = t[i] \/ \E source, cats : u[i] = Matched(t[i], source, cats)
    PROVE  Grows(t, u, words)
<1>1. DOMAIN t = 1..Len(words)
    BY DEF Reads
<1>2. ASSUME NEW i \in 1..Len(words)
      PROVE  IsToken(u[i]) /\ u[i].word = words[i] /\ (t[i].known => u[i].known)
    <2>1. IsToken(t[i]) /\ t[i].word = words[i]
        BY DEF Reads
    <2>2. CASE u[i] = t[i]
        BY <2>1, <2>2
    <2>3. ASSUME NEW source, NEW cats, u[i] = Matched(t[i], source, cats)
          PROVE  IsToken(u[i]) /\ u[i].word = words[i] /\ u[i].known
        <3>1. /\ IsToken(Matched(t[i], source, cats)) /\ Matched(t[i], source, cats).known
              /\ Matched(t[i], source, cats).word = t[i].word
            BY <2>1, MatchedIsToken
        <3> QED
            BY <2>1, <2>3, <3>1
    <2> QED
        BY <2>2, <2>3
<1> QED
    BY <1>1, <1>2 DEF Grows, Reads

LEMMA ExactGrows ==
    ASSUME NEW v \in Versions, NEW words \in Seq(Words), NEW t, Reads(t, words)
    PROVE  /\ Grows(t, ExactTokens(v, t), words)
           /\ \A i \in 1..Len(words) : words[i] \in Forms(v) => ExactTokens(v, t)[i].known
<1> DEFINE u == ExactTokens(v, t)
<1>1. DOMAIN t = 1..Len(words)
    BY DEF Reads
<1>2. u = [i \in DOMAIN t |-> u[i]]
    BY DEF ExactTokens
<1>3. ASSUME NEW i \in 1..Len(words)
      PROVE  /\ u[i] = t[i] \/ \E source, cats : u[i] = Matched(t[i], source, cats)
             /\ words[i] \in Forms(v) => u[i] = Matched(t[i], "exact", Single[v][words[i]])
    <2>1. t[i].word = words[i]
        BY DEF Reads
    <2>2. u[i] = IF Single[v][words[i]] = {} THEN t[i]
                 ELSE Matched(t[i], "exact", Single[v][words[i]])
        BY <1>1, <2>1 DEF ExactTokens
    <2> QED
        BY <2>2 DEF Forms
<1> HIDE DEF u
<1>4. Grows(t, u, words)
    BY <1>2, <1>3, GrowsWith
<1>5. ASSUME NEW i \in 1..Len(words), words[i] \in Forms(v)
      PROVE  u[i].known
    <2>1. IsToken(t[i])
        BY DEF Reads
    <2>2. Matched(t[i], "exact", Single[v][words[i]]).known
        BY <2>1, MatchedIsToken
    <2> QED
        BY <1>3, <1>5, <2>2
<1> QED
    BY <1>4, <1>5 DEF u

(* The largest element of a set of numbers up to n. *)
LEMMA MaxIsLargest ==
    ASSUME NEW n \in Nat, NEW S \in SUBSET (1..n), S # {}
    PROVE  Max(S) \in S /\ \A y \in S : Max(S) >= y
<1> DEFINE T == {n - x : x \in S}
           R == OpToRel(<, Nat)
<1>1. IsWellFoundedOn(R, Nat)
    BY NatLessThanWellFounded
<1>2. T \subseteq Nat /\ T # {}
    <2>1. \A x \in S : x \in Nat /\ x <= n
        OBVIOUS
    <2>2. \A x \in S : n - x \in Nat
        BY <2>1
    <2> QED
        BY <2>2
<1> HIDE DEF T, R
<1>3. PICK d \in T : \A e \in T : ~ (<<e, d>> \in R)
    BY <1>1, <1>2, WFMin
<1>4. \A e \in T : ~(e < d)
    BY <1>2, <1>3 DEF R, OpToRel
<1>5. PICK x \in S : d = n - x
    BY DEF T
<1>6. \A y \in S : x >= y
    <2>1. ASSUME NEW y \in S
          PROVE  ~(n - y < n - x)
        BY <1>4, <1>5 DEF T
    <2> QED
        BY <2>1
<1> QED
    BY <1>6 DEF Max

(* A token between the ends of a phrase is inside the longest match from   *)
(* where the phrase begins.                                                *)
LEMMA PhraseGrows ==
    ASSUME NEW v \in Versions, NEW words \in Seq(Words), NEW t, Reads(t, words)
    PROVE  /\ Grows(t, PhraseTokens(v, t), words)
           /\ \A i \in 1..Len(words) :
                (\E j \in 1..i : \E k \in i..Len(words) : j < k /\ PhraseAt(v, words, j, k) # {})
                => PhraseTokens(v, t)[i].known
<1> DEFINE covering(i) == {m \in LongestMatches(v, words) : i \in m[1] .. m[2]}
           cats(m) == UNION {p.cats : p \in PhraseAt(v, words, m[1], m[2])}
           u == PhraseTokens(v, t)
<1>1. DOMAIN t = 1..Len(words) /\ Len(words) \in Nat
    BY DEF Reads
<1>2. [i \in DOMAIN t |-> t[i].word] = words
    BY <1>1 DEF Reads
<1>3. u = [i \in DOMAIN t |-> IF covering(i) = {} THEN t[i]
                              ELSE InPhrase(t[i], UNION {cats(m) : m \in covering(i)})]
    BY <1>2 DEF PhraseTokens
<1>4. ASSUME NEW i \in 1..Len(words)
      PROVE  /\ u[i] = t[i] \/ \E source, all : u[i] = Matched(t[i], source, all)
             /\ covering(i) # {} => \E source, all : u[i] = Matched(t[i], source, all)
    BY <1>1, <1>3 DEF InPhrase
<1>5. u = [i \in DOMAIN t |-> u[i]]
    BY <1>3
<1> HIDE DEF u
<1>6. Grows(t, u, words)
    BY <1>4, <1>5, GrowsWith
<1>7. ASSUME NEW i \in 1..Len(words), NEW j \in 1..i, NEW k \in i..Len(words), j < k,
             PhraseAt(v, words, j, k) # {}
      PROVE  u[i].known
    <2>0. /\ j \in Nat \ {0} /\ k \in Nat /\ k \in j + 1 .. Len(words)
          /\ \A n \in j + 1 .. Len(words) : n \in 1..Len(words)
        BY <1>1, <1>7
    <2>1. Ends(v, words, j) \in SUBSET (1..Len(words)) /\ k \in Ends(v, words, j)
        BY <1>7, <2>0 DEF Ends
    <2>2. Max(Ends(v, words, j)) \in Int /\ Max(Ends(v, words, j)) >= k
        <3>1. PICK E \in SUBSET (1..Len(words)) : E = Ends(v, words, j)
            BY <2>1
        <3>2. E # {} /\ k \in E
            BY <2>1, <3>1
        <3>3. Max(E) \in E /\ Max(E) >= k
            BY <1>1, <3>2, MaxIsLargest
        <3> QED
            BY <3>1, <3>3
    <2> DEFINE m == <<j, Max(Ends(v, words, j))>>
    <2>3. m \in LongestMatches(v, words)
        <3>1. j \in DOMAIN words
            BY <1>1
        <3> QED
            BY <2>1, <3>1 DEF LongestMatches
    <2>4. m[1] = j /\ m[2] = Max(Ends(v, words, j))
        OBVIOUS
    <2>5. i \in m[1] .. m[2]
        BY <1>1, <2>2, <2>4
    <2>6. covering(i) # {}
        BY <2>3, <2>5
    <2>7. PICK source, all : u[i] = Matched(t[i], source, all)
        BY <1>4, <2>6
    <2>8. IsToken(t[i])
        BY DEF Reads
    <2>9. Matched(t[i], source, all).known
        BY <2>8, MatchedIsToken
    <2> QED
        BY <2>7, <2>9
<1> QED
    BY <1>6, <1>7 DEF u

(* A part of the tokens: those before the one at which lemminflect raised, *)
(* or all of them.                                                         *)
LEMMA LemmaGrows ==
    ASSUME NEW v \in Versions, NEW words \in Seq(Words), NEW t, Reads(t, words), NEW n
    PROVE  /\ Grows(t, LemmaTokens(v, t, n), words)
           /\ \A i \in 1..Len(words) :
                ~(i > n) /\ words[i] \notin Skipped
                /\ LemmaCandidates(words[i]) \intersect Forms(v) # {}
                => LemmaTokens(v, t, n)[i].known
<1> DEFINE u == LemmaTokens(v, t, n)
           cats(i) == UNION {Single[v][form] : form \in LemmaCandidates(words[i])}
<1>1. DOMAIN t = 1..Len(words)
    BY DEF Reads
<1>2. u = [i \in DOMAIN t |-> u[i]]
    BY DEF LemmaTokens
<1>3. ASSUME NEW i \in 1..Len(words)
      PROVE  u[i] = IF i > n \/ t[i].known \/ words[i] \in Skipped \/ cats(i) = {} THEN t[i]
                    ELSE Matched(t[i], "lemma_inflect", cats(i))
    <2>1. t[i].word = words[i]
        BY DEF Reads
    <2> QED
        BY <1>1, <2>1 DEF LemmaTokens
<1> HIDE DEF u
<1>4. \A i \in 1..Len(words) :
          u[i] = t[i] \/ \E source, all : u[i] = Matched(t[i], source, all)
    BY <1>3
<1>5. Grows(t, u, words)
    BY <1>2, <1>4, GrowsWith
<1>6. ASSUME NEW i \in 1..Len(words), ~(i > n), words[i] \notin Skipped,
             LemmaCandidates(words[i]) \intersect Forms(v) # {}
      PROVE  u[i].known
    <2>1. cats(i) # {}
        BY <1>6 DEF Forms
    <2>2. IsToken(t[i])
        BY DEF Reads
    <2>3. Matched(t[i], "lemma_inflect", cats(i)).known
        BY <2>2, MatchedIsToken
    <2> HIDE DEF cats
    <2>4. CASE t[i].known
        BY <1>3, <2>4
    <2>5. CASE ~t[i].known
        BY <1>3, <1>6, <2>1, <2>3, <2>5
    <2> QED
        BY <2>4, <2>5
<1> QED
    BY <1>5, <1>6 DEF u

LEMMA SemanticGrows ==
    ASSUME NEW v \in Versions, NEW words \in Seq(Words), NEW t, Reads(t, words),
           NEW similar, NEW candidates
    PROVE  /\ Grows(t, SemanticTokens(v, t, similar, candidates), words)
           /\ \A i \in 1..Len(words) :
                similar[words[i]] \intersect candidates # {}
                => SemanticTokens(v, t, similar, candidates)[i].known
<1> DEFINE u == SemanticTokens(v, t, similar, candidates)
           forms(i) == similar[t[i].word] \intersect candidates
           cats(i) == Single[v][CHOOSE form \in forms(i) : TRUE]
<1>1. DOMAIN t = 1..Len(words)
    BY DEF Reads
<1>2. u = [i \in DOMAIN t |-> u[i]]
    BY DEF SemanticTokens
<1>3. ASSUME NEW i \in 1..Len(words)
      PROVE  u[i] = IF t[i].known \/ forms(i) = {} THEN t[i] ELSE Matched(t[i], "bert", cats(i))
    BY <1>1 DEF SemanticTokens
<1> HIDE DEF u, cats
<1>4. \A i \in 1..Len(words) :
          u[i] = t[i] \/ \E source, all : u[i] = Matched(t[i], source, all)
    BY <1>3
<1>5. Grows(t, u, words)
    BY <1>2, <1>4, GrowsWith
<1>6. ASSUME NEW i \in 1..Len(words), similar[words[i]] \intersect candidates # {}
      PROVE  u[i].known
    <2>1. forms(i) # {}
        <3>1. t[i].word = words[i]
            BY DEF Reads
        <3> QED
            BY <1>6, <3>1
    <2>2. IsToken(t[i])
        BY DEF Reads
    <2>3. Matched(t[i], "bert", cats(i)).known
        BY <2>2, MatchedIsToken
    <2> HIDE DEF forms
    <2>4. CASE t[i].known
        BY <1>3, <2>4
    <2>5. CASE ~t[i].known
        BY <1>3, <2>1, <2>3, <2>5
    <2> QED
        BY <2>4, <2>5
<1> QED
    BY <1>5, <1>6 DEF u

(* A hint changes what a token is thought to be, not whether it is known. *)
LEMMA HintedGrows ==
    ASSUME NEW words \in Seq(Words), NEW t, Reads(t, words)
    PROVE  Grows(t, HintedTokens(t), words)
<1> DEFINE u == HintedTokens(t)
<1>1. DOMAIN t = 1..Len(words)
    BY DEF Reads
<1>2. u = [i \in 1..Len(words) |-> u[i]]
    BY <1>1 DEF HintedTokens
<1>3. ASSUME NEW i \in 1..Len(words)
      PROVE  IsToken(u[i]) /\ u[i].word = words[i] /\ (t[i].known => u[i].known)
    <2>1. IsToken(t[i]) /\ t[i].word = words[i]
        BY DEF Reads
    <2>4. \/ u[i] = t[i]
          \/ u[i] = [t[i] EXCEPT !.cats = {Hint[t[i].word]},
                                 !.source = IF @ = "none" THEN "spacy_pos_hint" ELSE @]
        BY <1>1 DEF HintedTokens
    <2>5. CASE u[i] = t[i]
        BY <2>1, <2>5
    <2>6. CASE u[i] = [t[i] EXCEPT !.cats = {Hint[t[i].word]},
                                   !.source = IF @ = "none" THEN "spacy_pos_hint" ELSE @]
        <3>1. PICK x, y : x = t[i] /\ y = u[i]
            OBVIOUS
        <3>2. PICK e, f : y = [x EXCEPT !.cats = e, !.source = f]
            BY <2>6, <3>1
        <3>3. x = [word |-> x.word, known |-> x.known, source |-> x.source, cats |-> x.cats]
            BY <2>1, <3>1 DEF IsToken
        <3>4. /\ y.known = x.known /\ y.word = x.word
              /\ y = [word |-> y.word, known |-> y.known, source |-> y.source, cats |-> y.cats]
            BY <3>2, <3>3
        <3> QED
            BY <2>1, <3>1, <3>4 DEF IsToken
    <2> QED
        BY <2>4, <2>5, <2>6
<1> QED
    BY <1>2, <1>3 DEF Grows, Reads

-----------------------------------------------------------------------------
(* What an answer with status "ok" has found                               *)

\* The points of a request whose text has been tokenized in time.
Later == {"exact", "lemma", "wordnet", "checkStage", "gate", "probe", "bert"} \union InSemantics

\* Those at which the embedding model is used.
Embedding == {"embed", "encode", "query"}

\* ShouldBeKnown, by the stage that finds the token.
Finds(r, i, stage) ==
    \/ stage = "exact" /\ (Kept(text[r])[i] \in Forms(rows[r]) \/ InAPhrase(r, Kept(text[r]), i))
    \/ /\ stage = "lemma" /\ Kept(text[r])[i] \notin Skipped
       /\ LemmaCandidates(Kept(text[r])[i]) \intersect Forms(rows[r]) # {}
    \/ /\ stage = "wordnet" /\ Kept(text[r])[i] \notin Skipped
       /\ {Lemma[Kept(text[r])[i]], Kept(text[r])[i]} \intersect (Wordnet \ raised) # {}
    \/ /\ stage = "bert" /\ cfg.bert
       /\ Alike[Kept(text[r])[i]] \intersect Forms(rows[r]) # {}
       /\ cfg.sbert => Near[Kept(text[r])[i]] \intersect Encoded(basis[r]) # {}

Done(r, stage) == \A i \in 1..Len(Kept(text[r])) : Finds(r, i, stage) => tokens[r][i].known

(* What WordNet has and is not matched yet is still to be looked up. *)
Probing(r) ==
    /\ todo[r] \subseteq (1..Len(Kept(text[r]))) \X Words
    /\ \A i \in 1..Len(Kept(text[r])) : \A form \in {Lemma[Kept(text[r])[i]], Kept(text[r])[i]} :
          Kept(text[r])[i] \notin Skipped /\ form \in Wordnet \ raised /\ ~tokens[r][i].known
          => <<i, form>> \in todo[r]

RequestOK(r) ==
    /\ at[r] = "tokenize" => st[r] = AllSkipped
    /\ at[r] \in Later => st[r]["tokenize"] = "ok" /\ st[r]["bert"] # "ok"
    /\ at[r] = "probe" => Probing(r)
    /\ at[r] \in Embedding => cfg.sbert
    /\ st[r]["tokenize"] = "ok" =>
         /\ Reads(tokens[r], Kept(text[r]))
         /\ \A stage \in Stages : st[r][stage] = "ok" => Done(r, stage)

FlowTypes ==
    /\ text \in [Requests -> Seq(Words)]
    /\ DOMAIN tokens = Requests /\ DOMAIN todo = Requests /\ DOMAIN basis = Requests
    /\ lookups \in [Words -> {"unset", "yes", "no"}]

LookupsOK == \A form \in Words : lookups[form] = "no" => form \notin Wordnet \/ form \in raised

MissInv == FlowTypes /\ LookupsOK /\ \A r \in Requests : RequestOK(r)

(* What the tokenizer keeps of a text is a text. *)
LEMMA KeptIsText ==
    ASSUME NEW words \in Seq(Words)
    PROVE  Kept(words) \in Seq(Words)
<1>1. PICK n \in 0..Len(words) : n = IF Len(words) <= MaxTokens THEN Len(words) ELSE MaxTokens
    BY StagesAssumption
<1>2. SubSeq(words, 1, n) \in Seq(Words)
    BY <1>1
<1> QED
    BY <1>1, <1>2 DEF Kept

LEMMA MissInvImplies ==
    ASSUME SharedTypes, MissInv
    PROVE  OkMissesNothing
<1> SUFFICES ASSUME NEW r \in Requests, PipelineStatus(r) = "ok",
                    NEW i \in DOMAIN Kept(text[r]), ShouldBeKnown(r, Kept(text[r]), i)
             PROVE  tokens[r][i].known
    BY DEF OkMissesNothing
<1>1. \A stage \in Stages : st[r][stage] = "ok"
    <2> DEFINE statuses == {st[r][stage] : stage \in Stages}
    <2>1. /\ "failed" \notin statuses
          /\ statuses \cap {"timed_out", "skipped", "unavailable"} = {}
        BY DEF PipelineStatus
    <2>2. \A stage \in Stages : st[r][stage] \in Statuses
        BY DEF SharedTypes
    <2> QED
        BY <2>1, <2>2 DEF Statuses
<1>2. Kept(text[r]) \in Seq(Words)
    BY KeptIsText DEF MissInv, FlowTypes
<1>3. i \in 1..Len(Kept(text[r])) /\ DOMAIN Kept(text[r]) = 1..Len(Kept(text[r]))
    BY <1>2
<1>4. \E stage \in {"exact", "lemma", "wordnet", "bert"} : Finds(r, i, stage)
    BY DEF ShouldBeKnown, Finds, Forms
<1>5. PICK stage \in Stages : Finds(r, i, stage)
    BY <1>4 DEF Stages
<1>6. Done(r, stage)
    BY <1>1 DEF MissInv, RequestOK, Stages
<1> QED
    BY <1>3, <1>5, <1>6 DEF Done

LEMMA MissInit == Init => MissInv
<1> SUFFICES ASSUME Init PROVE MissInv
    OBVIOUS
<1>1. FlowTypes /\ LookupsOK
    BY DEF Init, FlowTypes, LookupsOK
<1>2. ASSUME NEW r \in Requests
      PROVE  RequestOK(r)
    <2>1. at[r] = "idle" /\ st[r]["tokenize"] = "skipped"
        BY DEF Init, AllSkipped, Stages
    <2> QED
        BY <2>1 DEF RequestOK, Later, InSemantics, Embedding
<1> QED
    BY <1>1, <1>2 DEF MissInv

(* The requests share only what is said of WordNet, and a lookup that      *)
(* raises can only excuse more.                                            *)
LEMMA OthersStayOK ==
    ASSUME NEW q \in Requests, RequestOK(q), raised \subseteq raised', cfg' = cfg,
           at'[q] = at[q], st'[q] = st[q], text'[q] = text[q], tokens'[q] = tokens[q],
           rows'[q] = rows[q], basis'[q] = basis[q], todo'[q] = todo[q]
    PROVE  RequestOK(q)'
<1>1. \A i \in 1..Len(Kept(text[q])), stage \in Stages : Finds(q, i, stage)' => Finds(q, i, stage)
    BY DEF Finds, InAPhrase
<1>2. \A stage \in Stages : Done(q, stage) => Done(q, stage)'
    BY <1>1 DEF Done
<1>3. Probing(q) => Probing(q)'
    BY DEF Probing
<1> QED
    BY <1>2, <1>3 DEF RequestOK

LEMMA RequestStep ==
    ASSUME MissInv, FlowTypes', LookupsOK', NEW r \in Requests, RequestOK(r)',
           raised \subseteq raised', cfg' = cfg,
           \A q \in Requests : q # r =>
              /\ at'[q] = at[q] /\ st'[q] = st[q] /\ text'[q] = text[q] /\ tokens'[q] = tokens[q]
              /\ rows'[q] = rows[q] /\ basis'[q] = basis[q] /\ todo'[q] = todo[q]
    PROVE  MissInv'
<1>1. ASSUME NEW q \in Requests, q # r PROVE RequestOK(q)'
    BY <1>1, OthersStayOK DEF MissInv
<1> QED
    BY <1>1 DEF MissInv

(* A request that goes on with its text keeps what it has found. *)
LEMMA GoesOn ==
    ASSUME NEW r \in Requests, RequestOK(r), text'[r] = text[r], rows'[r] = rows[r],
           cfg' = cfg, raised \subseteq raised',
           basis'[r] = basis[r] \/ st'[r]["bert"] # "ok",
           at'[r] # "tokenize", at'[r] \in Later => at[r] \in Later /\ st'[r]["bert"] # "ok",
           at'[r] = "probe" => Probing(r)', at'[r] \in Embedding => cfg.sbert,
           st'[r]["tokenize"] = st[r]["tokenize"],
           st[r]["tokenize"] = "ok" =>
             /\ Grows(tokens[r], tokens'[r], Kept(text[r]))
             /\ \A stage \in Stages : st'[r][stage] = "ok" => st[r][stage] = "ok" \/ Done(r, stage)'
    PROVE  RequestOK(r)'
<1>1. ASSUME st[r]["tokenize"] = "ok", NEW stage \in Stages, st'[r][stage] = "ok"
      PROVE  Done(r, stage)'
    <2>1. CASE Done(r, stage)
        <3>1. \A i \in 1..Len(Kept(text[r])) : Finds(r, i, stage)' => Finds(r, i, stage)
            BY <1>1 DEF Finds, InAPhrase
        <3> QED
            BY <1>1, <2>1, <3>1 DEF Done, Grows
    <2>2. CASE ~Done(r, stage)
        BY <1>1, <2>2 DEF RequestOK
    <2> QED
        BY <2>1, <2>2
<1>2. st[r]["tokenize"] = "ok" => Reads(tokens'[r], Kept(text'[r]))
    BY DEF Grows
<1> QED
    BY <1>1, <1>2 DEF RequestOK

(* A request that goes on is the only one the step changes. *)
LEMMA GoingOn ==
    ASSUME MissInv, LookupsOK', lookups' \in [Words -> {"unset", "yes", "no"}],
           DOMAIN tokens' = Requests, DOMAIN todo' = Requests, DOMAIN basis' = Requests,
           UNCHANGED <<cfg, text, rows>>, raised \subseteq raised',
           NEW r \in Requests,
           \A q \in Requests : q # r =>
              /\ at'[q] = at[q] /\ st'[q] = st[q] /\ tokens'[q] = tokens[q]
              /\ todo'[q] = todo[q] /\ basis'[q] = basis[q],
           basis'[r] = basis[r] \/ st'[r]["bert"] # "ok",
           at'[r] # "tokenize", at'[r] \in Later => at[r] \in Later /\ st'[r]["bert"] # "ok",
           at'[r] = "probe" => Probing(r)', at'[r] \in Embedding => cfg.sbert,
           st'[r]["tokenize"] = st[r]["tokenize"],
           st[r]["tokenize"] = "ok" =>
             /\ Grows(tokens[r], tokens'[r], Kept(text[r]))
             /\ \A stage \in Stages : st'[r][stage] = "ok" => st[r][stage] = "ok" \/ Done(r, stage)'
    PROVE  MissInv'
<1>1. FlowTypes'
    BY DEF MissInv, FlowTypes
<1>2. RequestOK(r)
    BY DEF MissInv
<1>3. RequestOK(r)'
    BY <1>2, GoesOn
<1> QED
    BY <1>1, <1>3, RequestStep

(* Tokens that stay as they are. *)
LEMMA SameGrows ==
    ASSUME NEW words \in Seq(Words), NEW t, Reads(t, words)
    PROVE  Grows(t, t, words)
BY DEF Grows

\* Where a stage may send a request.
Onward == (Later \ ({"probe"} \union Embedding)) \union {"hints"}

(* A stage ends or fails with at least the tokens it was given, and if it  *)
(* says "ok" it has found what it finds.                                   *)
LEMMA StageKeepsMiss ==
    ASSUME SharedTypes, MissInv, NEW r \in Requests, at[r] \in Later,
           NEW stage \in Stages \ {"tokenize"}, NEW t,
           NEW status \in {"ok", "skipped", "unavailable", "failed"},
           NEW next \in Onward, stage = "bert" => next = "hints",
           StageEnds(r, stage, t, status, next), UNCHANGED <<todo, basis, lookups, raised>>,
           Grows(tokens[r], t, Kept(text[r])),
           status = "ok" => \A i \in 1..Len(Kept(text[r])) : Finds(r, i, stage) => t[i].known
    PROVE  MissInv'
<1>1. PICK s \in {status, "timed_out"} :
          /\ st' = [st EXCEPT ![r][stage] = s]
          /\ tokens' = [tokens EXCEPT ![r] = t]
          /\ at' = [at EXCEPT ![r] = IF s \in {"failed", "timed_out"} THEN "hints" ELSE next]
    BY DEF StageEnds, Goto
<1>2. UNCHANGED <<cfg, text, rows>>
    BY DEF StageEnds, requestVars, snapshotVars
<1>3. s \in Statuses /\ "tokenize" \in Stages
    BY DEF Statuses, Stages
<1>4. /\ \A q \in Requests : q # r => st'[q] = st[q]
      /\ \A other \in Stages : st'[r][other] = IF other = stage THEN s ELSE st[r][other]
    <2>1. st' = [st EXCEPT ![r][stage] = s]
        BY <1>1
    <2>2. st \in [Requests -> [Stages -> Statuses]]
        BY DEF SharedTypes
    <2> QED
        BY <2>1, <2>2
<1>5. /\ tokens'[r] = t /\ DOMAIN tokens' = Requests
      /\ \A q \in Requests : q # r => tokens'[q] = tokens[q]
    BY <1>1 DEF MissInv, FlowTypes
<1>6. /\ at'[r] \in Onward
      /\ \A q \in Requests : q # r => at'[q] = at[q]
    <2>1. PICK p \in Onward : at' = [at EXCEPT ![r] = p]
        BY <1>1 DEF Onward
    <2>2. at \in [Requests -> Points]
        BY DEF SharedTypes
    <2> QED
        BY <2>1, <2>2
<1>7. /\ at'[r] # "tokenize" /\ at'[r] # "probe" /\ at'[r] \notin Embedding
      /\ at'[r] \in Later => at[r] \in Later /\ st'[r]["bert"] # "ok"
    <2>1. at'[r] # "tokenize" /\ at'[r] # "probe" /\ at'[r] \notin Embedding
        BY <1>6 DEF Onward, Later, InSemantics, Embedding
    <2>2. stage = "bert" => at'[r] \notin Later
        <3>1. stage = "bert" => at'[r] = "hints"
            BY <1>1 DEF SharedTypes
        <3> QED
            BY <3>1 DEF Later, InSemantics
    <2>3. stage # "bert" => st'[r]["bert"] = st[r]["bert"]
        BY <1>4 DEF Stages
    <2>4. st[r]["bert"] # "ok"
        BY DEF MissInv, RequestOK
    <2> QED
        BY <2>1, <2>2, <2>3, <2>4
<1>8. /\ LookupsOK' /\ lookups' \in [Words -> {"unset", "yes", "no"}]
      /\ DOMAIN todo' = Requests /\ DOMAIN basis' = Requests
    BY DEF MissInv, LookupsOK, FlowTypes
<1>9. ASSUME NEW other \in Stages, st'[r][other] = "ok"
      PROVE  st[r][other] = "ok" \/ Done(r, other)'
    <2>1. CASE other = stage
        <3>1. status = "ok"
            BY <1>4, <1>9, <2>1
        <3>2. \A i \in 1..Len(Kept(text[r])) : Finds(r, i, stage)' => Finds(r, i, stage)
            BY <1>2 DEF Finds, InAPhrase
        <3> QED
            BY <1>2, <1>5, <2>1, <3>1, <3>2 DEF Done
    <2>2. CASE other # stage
        BY <1>4, <1>9, <2>2
    <2> QED
        BY <2>1, <2>2
<1>10. st'[r]["tokenize"] = st[r]["tokenize"]
    BY <1>3, <1>4
<1> QED
    BY <1>2, <1>4, <1>5, <1>6, <1>7, <1>8, <1>9, <1>10, GoingOn

(* A request leaves for a point with the tokens and statuses it has. *)
LEMMA MoveKeepsMiss ==
    ASSUME SharedTypes, MissInv, NEW r \in Requests,
           NEW p \in Points \ {"tokenize", "probe"}, at' = [at EXCEPT ![r] = p],
           p \in Later => at[r] \in Later, p \in Embedding => cfg.sbert,
           UNCHANGED <<cfg, text, rows, tokens, st, todo, lookups, raised>>,
           basis' = basis \/ (p \in Later /\ \E v : basis' = [basis EXCEPT ![r] = v])
    PROVE  MissInv'
<1>1. at'[r] = p /\ \A q \in Requests : q # r => at'[q] = at[q]
    BY DEF SharedTypes
<1>2. /\ LookupsOK' /\ lookups' \in [Words -> {"unset", "yes", "no"}]
      /\ DOMAIN tokens' = Requests /\ DOMAIN todo' = Requests
    BY DEF MissInv, LookupsOK, FlowTypes
<1>3. st[r]["tokenize"] = "ok" => Grows(tokens[r], tokens'[r], Kept(text[r]))
    <2>1. Kept(text[r]) \in Seq(Words)
        BY KeptIsText DEF MissInv, FlowTypes
    <2> QED
        BY <2>1, SameGrows DEF MissInv, RequestOK
<1>4. p \in Later => st'[r]["bert"] # "ok"
    BY DEF MissInv, RequestOK
<1>5. DOMAIN basis' = Requests /\ \A q \in Requests : q # r => basis'[q] = basis[q]
    <2>1. DOMAIN basis = Requests
        BY DEF MissInv, FlowTypes
    <2>2. CASE basis' = basis
        BY <2>1, <2>2
    <2>3. ASSUME NEW v, basis' = [basis EXCEPT ![r] = v]
          PROVE  DOMAIN basis' = Requests /\ \A q \in Requests : q # r => basis'[q] = basis[q]
        BY <2>1, <2>3
    <2> QED
        BY <2>2, <2>3
<1>6. basis'[r] = basis[r] \/ st'[r]["bert"] # "ok"
    BY <1>4
<1> QED
    BY <1>1, <1>2, <1>3, <1>4, <1>5, <1>6, GoingOn

(* What a request past the tokenizer has. *)
LEMMA LaterReads ==
    ASSUME MissInv, NEW r \in Requests, at[r] \in Later
    PROVE  /\ Kept(text[r]) \in Seq(Words) /\ Reads(tokens[r], Kept(text[r]))
           /\ DOMAIN tokens[r] = 1..Len(Kept(text[r]))
<1>1. RequestOK(r) /\ Kept(text[r]) \in Seq(Words)
    BY KeptIsText DEF MissInv, FlowTypes
<1>2. Reads(tokens[r], Kept(text[r]))
    BY <1>1 DEF RequestOK
<1>3. DOMAIN tokens[r] = 1..Len(Kept(text[r]))
    BY <1>2 DEF Reads
<1> QED
    BY <1>1, <1>2, <1>3

LEMMA BeginKeepsMiss ==
    ASSUME SharedTypes, MissInv, NEW r \in Requests, Begin(r) \/ BeginText(r) \/ Answer(r)
    PROVE  MissInv'
<1>1. PICK p \in {"hints", "tokenize", "idle"} : at' = [at EXCEPT ![r] = p]
    BY DEF Begin, BeginText, Answer, Goto
<1>2. /\ st' = [st EXCEPT ![r] = AllSkipped] /\ tokens' = [tokens EXCEPT ![r] = <<>>]
      /\ \E words \in Seq(Words) : text' = [text EXCEPT ![r] = words]
      /\ rows' = rows \/ \E v : rows' = [rows EXCEPT ![r] = v]
      /\ basis' = basis \/ \E v : basis' = [basis EXCEPT ![r] = v]
      /\ UNCHANGED <<cfg, todo, lookups, raised>>
    <2>1. CASE Begin(r)
        <3>1. <<>> \in Seq(Words)
            OBVIOUS
        <3> QED
            BY <2>1, <3>1 DEF Begin, snapshotVars, wordnetVars
    <2>2. CASE BeginText(r)
        BY <2>2, StagesAssumption DEF BeginText, wordnetVars
    <2>3. CASE Answer(r)
        <3>1. <<>> \in Seq(Words)
            OBVIOUS
        <3> QED
            BY <2>3, <3>1 DEF Answer, wordnetVars
    <2> QED
        BY <2>1, <2>2, <2>3
<1>3. FlowTypes' /\ LookupsOK'
    BY <1>2 DEF MissInv, FlowTypes, LookupsOK
<1>4. \A q \in Requests : q # r =>
          /\ at'[q] = at[q] /\ st'[q] = st[q] /\ text'[q] = text[q] /\ tokens'[q] = tokens[q]
          /\ rows'[q] = rows[q] /\ basis'[q] = basis[q] /\ todo'[q] = todo[q]
    BY <1>1, <1>2 DEF MissInv, FlowTypes, SharedTypes
<1>5. at'[r] = p /\ st'[r] = AllSkipped
    BY <1>1, <1>2 DEF SharedTypes
<1>6. AllSkipped["tokenize"] = "skipped"
    BY DEF AllSkipped, Stages
<1>7. RequestOK(r)'
    BY <1>5, <1>6 DEF RequestOK, Later, InSemantics, Embedding
<1> QED
    BY <1>2, <1>3, <1>4, <1>7, RequestStep

LEMMA TokenizeKeepsMiss ==
    ASSUME SharedTypes, MissInv, NEW r \in Requests, Tokenize(r)
    PROVE  MissInv'
<1>1. PICK s \in {"ok", "timed_out", "failed"} :
          /\ st' = [st EXCEPT ![r]["tokenize"] = s]
          /\ \E t : /\ tokens' = [tokens EXCEPT ![r] = t]
                    /\ s = "ok" => t = Fresh(Kept(text[r]))
          /\ at' = [at EXCEPT ![r] = IF s = "ok" THEN "exact" ELSE "hints"]
    BY DEF Tokenize, StageEnds, StageFails, Goto
<1>2. PICK t : /\ tokens' = [tokens EXCEPT ![r] = t]
               /\ s = "ok" => t = Fresh(Kept(text[r]))
    BY <1>1
<1>3. at[r] = "tokenize" /\ UNCHANGED <<cfg, text, rows, basis, todo, lookups, raised>>
    BY DEF Tokenize, StageEnds, StageFails, requestVars, snapshotVars, wordnetVars
<1>4. FlowTypes' /\ LookupsOK'
    BY <1>2, <1>3 DEF MissInv, FlowTypes, LookupsOK
<1>5. s \in Statuses /\ "tokenize" \in Stages
    BY DEF Statuses, Stages
<1>6. /\ \A q \in Requests : q # r => st'[q] = st[q]
      /\ \A other \in Stages : st'[r][other] = IF other = "tokenize" THEN s ELSE st[r][other]
    BY <1>1, <1>5, StatusTypes
<1>7. /\ at'[r] = IF s = "ok" THEN "exact" ELSE "hints"
      /\ \A q \in Requests : q # r => at'[q] = at[q]
    BY <1>1 DEF SharedTypes
<1>8. tokens'[r] = t /\ \A q \in Requests : q # r => tokens'[q] = tokens[q]
    BY <1>2 DEF MissInv, FlowTypes
<1>9. \A stage \in Stages : st'[r][stage] = "ok" => stage = "tokenize"
    <2>1. st[r] = AllSkipped
        BY <1>3 DEF MissInv, RequestOK
    <2> QED
        BY <1>6, <2>1 DEF AllSkipped
<1>10. s = "ok" => Reads(t, Kept(text[r]))
    <2> SUFFICES ASSUME s = "ok" PROVE Reads(Fresh(Kept(text[r])), Kept(text[r]))
        BY <1>2
    <2> DEFINE words == Kept(text[r])
               u == Fresh(words)
    <2>1. words \in Seq(Words) /\ DOMAIN words = 1..Len(words)
        BY KeptIsText DEF MissInv, FlowTypes
    <2>2. u = [i \in 1..Len(words) |-> u[i]]
        BY <2>1 DEF Fresh
    <2>3. ASSUME NEW i \in 1..Len(words)
          PROVE  IsToken(u[i]) /\ u[i].word = words[i]
        <3>1. u[i] = [word |-> words[i], known |-> FALSE, source |-> "none", cats |-> {}]
            BY <2>1 DEF Fresh
        <3> HIDE DEF u
        <3> QED
            BY <3>1 DEF IsToken
    <2> HIDE DEF u, words
    <2>4. Reads(u, words)
        BY <2>2, <2>3 DEF Reads
    <2> QED
        BY <2>4 DEF u, words
<1>11. \A i : ~Finds(r, i, "tokenize")'
    BY DEF Finds
<1>12. Done(r, "tokenize")'
    BY <1>11 DEF Done
<1>13. st'[r]["tokenize"] = s
    BY <1>5, <1>6
<1>14. /\ at'[r] # "tokenize" /\ at'[r] # "probe" /\ at'[r] \notin Embedding
       /\ at'[r] \in Later => s = "ok" /\ st'[r]["bert"] # "ok"
    BY <1>7, <1>9 DEF Later, InSemantics, Embedding, Stages
<1>15. ASSUME s = "ok" PROVE Reads(tokens'[r], Kept(text'[r]))
    BY <1>3, <1>8, <1>10, <1>15
<1>16. ASSUME NEW stage \in Stages, st'[r][stage] = "ok" PROVE Done(r, stage)'
    BY <1>9, <1>12, <1>16
<1>17. RequestOK(r)'
    BY <1>13, <1>14, <1>15, <1>16 DEF RequestOK
<1> QED
    BY <1>3, <1>4, <1>6, <1>7, <1>8, <1>17, RequestStep

LEMMA GrowsTrans ==
    ASSUME NEW words, NEW t, NEW u, NEW w, Grows(t, u, words), Grows(u, w, words)
    PROVE  Grows(t, w, words)
BY DEF Grows

LEMMA ExactKeepsMiss ==
    ASSUME SharedTypes, MissInv, NEW r \in Requests, Exact(r)
    PROVE  MissInv'
<1> DEFINE v == rows[r]
           words == Kept(text[r])
           e == ExactTokens(v, tokens[r])
           t == PhraseTokens(v, e)
<1>1. /\ at[r] = "exact" /\ StageEnds(r, "exact", t, "ok", "lemma")
      /\ UNCHANGED <<todo, basis, lookups, raised>>
    BY DEF Exact, wordnetVars
<1>2. at[r] \in Later
    BY <1>1 DEF Later
<1>3. words \in Seq(Words) /\ Reads(tokens[r], words) /\ v \in Versions
    BY <1>2, LaterReads DEF SharedTypes
<1>4. /\ Grows(tokens[r], e, words)
      /\ \A i \in 1..Len(words) : words[i] \in Forms(v) => e[i].known
    <2> HIDE DEF v, words
    <2> QED
        BY <1>3, ExactGrows DEF e
<1>5. /\ Grows(e, t, words)
      /\ \A i \in 1..Len(words) :
           (\E j \in 1..i : \E k \in i..Len(words) : j < k /\ PhraseAt(v, words, j, k) # {})
           => t[i].known
    <2> HIDE DEF v, words, e
    <2>1. Reads(e, words)
        BY <1>4 DEF Grows
    <2> QED
        BY <1>3, <2>1, PhraseGrows DEF t
<1>6. Grows(tokens[r], t, words)
    <2> HIDE DEF words, e, t
    <2> QED
        BY <1>4, <1>5, GrowsTrans
<1>7. ASSUME NEW i \in 1..Len(words), Finds(r, i, "exact")
      PROVE  t[i].known
    <2>1. words[i] \in Forms(v) \/ InAPhrase(r, words, i)
        BY <1>7 DEF Finds
    <2>2. CASE words[i] \in Forms(v)
        <3>1. e[i].known
            BY <1>4, <2>2
        <3> HIDE DEF e, t
        <3> QED
            BY <1>5, <3>1 DEF Grows
    <2>3. CASE InAPhrase(r, words, i)
        <3> HIDE DEF t
        <3> QED
            BY <1>5, <2>3 DEF InAPhrase
    <2> QED
        BY <2>1, <2>2, <2>3
<1>8. "exact" \in Stages \ {"tokenize"} /\ "lemma" \in Onward
    BY DEF Stages, Later, Onward, Embedding, InSemantics
<1> HIDE DEF t
<1> QED
    BY <1>1, <1>2, <1>6, <1>7, <1>8, StageKeepsMiss

(* A stage that is skipped, or finds nothing to do, leaves the tokens. *)
LEMMA SkippedKeepsMiss ==
    ASSUME SharedTypes, MissInv, NEW r \in Requests, at[r] \in Later,
           NEW stage \in Stages \ {"tokenize"},
           NEW status \in {"ok", "skipped", "unavailable"},
           NEW next \in Onward, stage = "bert" => next = "hints",
           StageEnds(r, stage, tokens[r], status, next), UNCHANGED <<todo, basis, lookups, raised>>,
           status = "ok" => Done(r, stage)
    PROVE  MissInv'
<1>1. Grows(tokens[r], tokens[r], Kept(text[r]))
    BY LaterReads, SameGrows
<1> QED
    BY <1>1, StageKeepsMiss DEF Done

LEMMA LemmaInflectKeepsMiss ==
    ASSUME SharedTypes, MissInv, NEW r \in Requests, LemmaInflect(r)
    PROVE  MissInv'
<1>1. at[r] = "lemma" /\ UNCHANGED <<todo, basis, lookups, raised>>
    BY DEF LemmaInflect, wordnetVars
<1>2. at[r] \in Later
    BY <1>1 DEF Later
<1>3. /\ "lemma" \in Stages \ {"tokenize"}
      /\ "wordnet" \in Onward
      /\ "hints" \in Onward
    BY DEF Stages, Later, Onward, Embedding
<1>4. /\ Kept(text[r]) \in Seq(Words) /\ Reads(tokens[r], Kept(text[r])) /\ rows[r] \in Versions
      /\ Len(tokens[r]) = Len(Kept(text[r])) /\ Len(Kept(text[r])) \in Nat
    <2>1. Kept(text[r]) \in Seq(Words) /\ Reads(tokens[r], Kept(text[r])) /\ rows[r] \in Versions
        BY <1>2, LaterReads DEF SharedTypes
    <2>2. tokens[r] = [i \in 1..Len(Kept(text[r])) |-> tokens[r][i]] /\ Len(Kept(text[r])) \in Nat
        BY <2>1 DEF Reads
    <2> QED
        BY <2>1, <2>2
<1> DEFINE t(n) == LemmaTokens(rows[r], tokens[r], n)
<1>5. \A n : /\ Grows(tokens[r], t(n), Kept(text[r]))
             /\ \A i \in 1..Len(Kept(text[r])) :
                  ~(i > n) /\ Kept(text[r])[i] \notin Skipped
                  /\ LemmaCandidates(Kept(text[r])[i]) \intersect Forms(rows[r]) # {}
                  => t(n)[i].known
    BY <1>4, LemmaGrows
<1>6. \/ StageEnds(r, "lemma", tokens[r], "skipped", "wordnet")
      \/ StageEnds(r, "lemma", t(Len(tokens[r])), "ok", "wordnet")
      \/ \E n : StageFails(r, "lemma", t(n))
    BY DEF LemmaInflect
<1> HIDE DEF t
<1>7. CASE StageEnds(r, "lemma", tokens[r], "skipped", "wordnet")
    BY <1>1, <1>2, <1>3, <1>7, SkippedKeepsMiss
<1>8. CASE StageEnds(r, "lemma", t(Len(tokens[r])), "ok", "wordnet")
    <2>1. PICK u : u = t(Len(tokens[r]))
        OBVIOUS
    <2>2. \A i \in 1..Len(Kept(text[r])) : Finds(r, i, "lemma") => u[i].known
        BY <1>4, <1>5, <2>1 DEF Finds
    <2>3. Grows(tokens[r], u, Kept(text[r])) /\ StageEnds(r, "lemma", u, "ok", "wordnet")
        BY <1>5, <1>8, <2>1
    <2> QED
        BY <1>1, <1>2, <1>3, <2>2, <2>3, StageKeepsMiss
<1>9. ASSUME NEW n, StageFails(r, "lemma", t(n))
      PROVE  MissInv'
    <2>1. PICK u : u = t(n)
        OBVIOUS
    <2>2. Grows(tokens[r], u, Kept(text[r]))
        BY <1>5, <2>1
    <2>3. StageEnds(r, "lemma", u, "failed", "hints")
        BY <1>9, <2>1 DEF StageFails, StageEnds
    <2> QED
        BY <1>1, <1>2, <1>3, <2>2, <2>3, StageKeepsMiss
<1> QED
    BY <1>6, <1>7, <1>8, <1>9

(* Steps between two points of a request, which find nothing. *)
LEMMA MovesKeepMiss ==
    ASSUME SharedTypes, MissInv, NEW r \in Requests,
           \/ DeadlinePassed(r) \/ WordnetBegins(r) \/ CheckEnds(r)
           \/ Embed(r) \/ Encode(r) \/ EncodeFails(r)
    PROVE  MissInv'
<1>1. UNCHANGED <<cfg, text, rows, tokens, st, todo, lookups, raised>>
    BY DEF DeadlinePassed, WordnetBegins, CheckEnds, Embed, Encode, EncodeFails, requestVars,
           snapshotVars, wordnetVars
<1>2. PICK p \in {"hints", "checkStage", "gate", "done", "query", "encode", "fallback"} :
          /\ at' = [at EXCEPT ![r] = p]
          /\ p \in Later => at[r] \in Later
          /\ p \in Embedding => at[r] \in Embedding
          /\ basis' = basis \/ (p \in Later /\ \E v : basis' = [basis EXCEPT ![r] = v])
    <2>1. CASE DeadlinePassed(r)
        BY <2>1 DEF DeadlinePassed, Goto, Later, InSemantics, Embedding
    <2>2. CASE WordnetBegins(r)
        BY <2>2 DEF WordnetBegins, EnsureAvailable, Goto, Later, Embedding
    <2>3. CASE CheckEnds(r)
        BY <2>3 DEF CheckEnds, Goto, Later, InSemantics, Embedding
    <2>4. CASE Embed(r) \/ Encode(r) \/ EncodeFails(r)
        <3>1. at[r] \in Later
            BY <2>4 DEF Embed, Encode, EncodeFails, Later, InSemantics
        <3> QED
            BY <2>4, <3>1 DEF Embed, Encode, EncodeFails, Goto, Embedding, Later, InSemantics
    <2> QED
        BY <2>1, <2>2, <2>3, <2>4
<1>3. p \in Points \ {"tokenize", "probe"}
    BY DEF Points
<1>4. p \in Embedding => cfg.sbert
    BY <1>2 DEF MissInv, RequestOK
<1> QED
    BY <1>1, <1>2, <1>3, <1>4, MoveKeepsMiss

(* The gate lists everything that is to be looked up. *)
LEMMA GateKeepsMiss ==
    ASSUME SharedTypes, MissInv, NEW r \in Requests, WordnetGate(r)
    PROVE  MissInv'
<1>1. at[r] = "gate" /\ UNCHANGED <<basis, lookups, raised>>
    BY DEF WordnetGate, wordnetVars
<1>2. at[r] \in Later
    BY <1>1 DEF Later
<1>3. /\ "wordnet" \in Stages \ {"tokenize"} /\ "bert" \in Onward
      /\ "probe" # "tokenize" /\ "probe" \notin Embedding
    BY DEF Stages, Later, Onward, Embedding
<1>4. \/ /\ \E status \in {"skipped", "unavailable"} : StageEnds(r, "wordnet", tokens[r], status, "bert")
         /\ UNCHANGED todo
      \/ /\ todo' = [todo EXCEPT ![r] = ProbeForms(tokens[r])]
         /\ at' = [at EXCEPT ![r] = "probe"]
         /\ UNCHANGED <<cfg, text, rows, tokens, st>>
    BY DEF WordnetGate, Goto, requestVars, snapshotVars
<1>5. ASSUME NEW status \in {"skipped", "unavailable"},
             StageEnds(r, "wordnet", tokens[r], status, "bert"), UNCHANGED todo
      PROVE  MissInv'
    BY <1>1, <1>2, <1>3, <1>5, SkippedKeepsMiss
<1>6. ASSUME todo' = [todo EXCEPT ![r] = ProbeForms(tokens[r])],
             at' = [at EXCEPT ![r] = "probe"],
             UNCHANGED <<cfg, text, rows, tokens, st>>
      PROVE  MissInv'
    <2>1. /\ at'[r] = "probe" /\ \A q \in Requests : q # r => at'[q] = at[q]
          /\ todo'[r] = ProbeForms(tokens[r]) /\ DOMAIN todo' = Requests
          /\ \A q \in Requests : q # r => todo'[q] = todo[q]
          /\ DOMAIN tokens' = Requests
        BY <1>6 DEF SharedTypes, MissInv, FlowTypes
    <2>2. Kept(text[r]) \in Seq(Words) /\ Reads(tokens[r], Kept(text[r]))
        BY <1>2, LaterReads
    <2>3. Probing(r)'
        <3> DEFINE t == tokens[r]
                   words == Kept(text[r])
        <3>1. /\ DOMAIN t = 1..Len(words)
              /\ \A i \in 1..Len(words) : t[i].word = words[i] /\ words[i] \in Words
                                          /\ Lemma[words[i]] \in Words
            <4>1. DOMAIN t = 1..Len(words) /\ \A i \in 1..Len(words) : t[i].word = words[i]
                BY <2>2 DEF Reads
            <4>2. \A i \in 1..Len(words) : words[i] \in Words
                BY <2>2
            <4>3. \A w \in Words : Lemma[w] \in Words
                BY StagesAssumption
            <4> QED
                BY <4>1, <4>2, <4>3
        <3> HIDE DEF t, words
        <3>2. ProbeForms(t) \subseteq (1..Len(words)) \X Words
            BY <3>1 DEF ProbeForms, Unknown
        <3>3. ASSUME NEW i \in 1..Len(words), words[i] \notin Skipped, ~t[i].known,
                     NEW form \in {Lemma[words[i]], words[i]}
              PROVE  <<i, form>> \in ProbeForms(t)
            <4>1. i \in {n \in Unknown(t) : t[n].word \notin Skipped}
                BY <3>1, <3>3 DEF Unknown
            <4>2. <<i, form>> \in {<<i, Lemma[t[i].word]>>, <<i, t[i].word>>}
                BY <3>1, <3>3
            <4> QED
                BY <4>1, <4>2 DEF ProbeForms
        <3>4. \A i \in 1..Len(words) : \A form \in {Lemma[words[i]], words[i]} :
                 words[i] \notin Skipped /\ ~t[i].known => <<i, form>> \in ProbeForms(t)
            BY <3>3
        <3> QED
            BY <1>6, <2>1, <3>2, <3>4 DEF Probing, t, words
    <2>4. LookupsOK' /\ lookups' \in [Words -> {"unset", "yes", "no"}]
        BY <1>1 DEF MissInv, LookupsOK, FlowTypes
    <2>5. Grows(tokens[r], tokens'[r], Kept(text[r]))
        BY <1>6, <2>2, SameGrows
    <2>6. DOMAIN basis' = Requests /\ st'[r]["bert"] # "ok"
        BY <1>1, <1>2, <1>6 DEF MissInv, FlowTypes, RequestOK
    <2> QED
        BY <1>1, <1>2, <1>3, <1>6, <2>1, <2>3, <2>4, <2>5, <2>6, GoingOn
<1> QED
    BY <1>4, <1>5, <1>6

(* A lookup answers as the cache does or as WordNet does, unless it raises. *)
LEMMA LooksUpKeepsMiss ==
    ASSUME SharedTypes, MissInv, NEW r \in Requests, WordnetLooksUp(r)
    PROVE  MissInv'
<1>1. /\ at[r] = "probe" /\ UNCHANGED <<cfg, text, rows, basis, at, st>>
    BY DEF WordnetLooksUp, requestVars, snapshotVars
<1>2. at[r] \in Later /\ at[r] # "tokenize" /\ at[r] \notin Embedding
    BY <1>1 DEF Later, Embedding
<1> DEFINE t == tokens[r]
           words == Kept(text[r])
<1>3. /\ words \in Seq(Words) /\ Reads(t, words) /\ DOMAIN t = 1..Len(words)
      /\ Probing(r) /\ DOMAIN tokens = Requests /\ DOMAIN todo = Requests
      /\ lookups \in [Words -> {"unset", "yes", "no"}]
      /\ DOMAIN basis' = Requests /\ st'[r]["bert"] # "ok"
    BY <1>1, <1>2, LaterReads DEF MissInv, RequestOK, FlowTypes
<1>4. PICK probe \in todo[r] :
         /\ todo' = [todo EXCEPT ![r] = @ \ {probe}]
         /\ \/ tokens[r][probe[1]].known /\ UNCHANGED <<tokens, lookups, raised>>
            \/ /\ ~tokens[r][probe[1]].known
               /\ \E answer \in (IF lookups[probe[2]] # "unset" THEN {lookups[probe[2]]}
                                 ELSE {"no"} \union (IF probe[2] \in Wordnet THEN {"yes"} ELSE {})) :
                   /\ lookups' = [lookups EXCEPT ![probe[2]] = answer]
                   /\ raised' = IF answer = "no" /\ probe[2] \in Wordnet
                                THEN raised \union {probe[2]} ELSE raised
                   /\ tokens' = IF answer = "no" THEN tokens
                                ELSE [tokens EXCEPT ![r][probe[1]] = Matched(@, "wordnet", @.cats)]
    BY DEF WordnetLooksUp
<1>5. PICK i \in 1..Len(words), form \in Words : probe = <<i, form>>
    BY <1>3 DEF Probing
<1>6. todo'[r] = todo[r] \ {<<i, form>>} /\ DOMAIN todo' = Requests
      /\ \A q \in Requests : q # r => todo'[q] = todo[q]
    BY <1>3, <1>4, <1>5
<1>7. CASE tokens[r][i].known /\ UNCHANGED <<tokens, lookups, raised>>
    <2>1. Probing(r)'
        BY <1>1, <1>3, <1>6, <1>7 DEF Probing
    <2>2. LookupsOK'
        BY <1>7 DEF MissInv, LookupsOK
    <2>3. Grows(tokens[r], tokens'[r], Kept(text[r]))
        BY <1>3, <1>7, SameGrows
    <2> QED
        BY <1>1, <1>2, <1>3, <1>6, <1>7, <2>1, <2>2, <2>3, GoingOn
<1>8. ASSUME ~tokens[r][i].known,
             NEW answer, lookups[form] # "unset" => answer = lookups[form],
             answer = "no" \/ answer = "yes",
             lookups' = [lookups EXCEPT ![form] = answer],
             raised' = IF answer = "no" /\ form \in Wordnet THEN raised \union {form} ELSE raised,
             tokens' = IF answer = "no" THEN tokens
                       ELSE [tokens EXCEPT ![r][i] = Matched(@, "wordnet", @.cats)]
      PROVE  MissInv'
    <2>1. raised \subseteq raised' /\ (answer = "no" => form \notin Wordnet \/ form \in raised')
        BY <1>8
    <2>2. lookups' \in [Words -> {"unset", "yes", "no"}]
        BY <1>3, <1>8
    <2>3. LookupsOK'
        <3> SUFFICES ASSUME NEW w \in Words, lookups'[w] = "no"
                     PROVE  w \notin Wordnet \/ w \in raised'
            BY DEF LookupsOK
        <3>1. CASE w = form
            BY <1>3, <1>8, <2>1, <3>1
        <3>2. CASE w # form
            <4>1. lookups[w] = "no"
                BY <1>3, <1>8, <3>2
            <4> QED
                BY <2>1, <4>1 DEF MissInv, LookupsOK
        <3> QED
            BY <3>1, <3>2
    <2>4. /\ Grows(t, tokens'[r], words) /\ DOMAIN tokens' = Requests
          /\ \A q \in Requests : q # r => tokens'[q] = tokens[q]
          /\ answer = "yes" => tokens'[r][i].known
        <3>1. CASE answer = "no"
            <4>1. tokens' = tokens
                BY <1>8, <3>1
            <4> QED
                BY <1>3, <3>1, <4>1, SameGrows
        <3>2. CASE answer = "yes"
            <4>1. PICK m : m = Matched(t[i], "wordnet", t[i].cats)
                OBVIOUS
            <4>2. PICK u : u = [t EXCEPT ![i] = m]
                OBVIOUS
            <4>3. tokens' = [tokens EXCEPT ![r] = u]
                BY <1>8, <3>2, <4>1, <4>2
            <4>4. /\ tokens'[r] = u /\ DOMAIN tokens' = Requests
                  /\ \A q \in Requests : q # r => tokens'[q] = tokens[q]
                BY <1>3, <4>3
            <4>5. u = [j \in DOMAIN t |-> u[j]]
                BY <4>2
            <4>6. \A j \in 1..Len(words) :
                     u[j] = t[j] \/ \E source, cats : u[j] = Matched(t[j], source, cats)
                BY <1>3, <4>1, <4>2
            <4>7. Grows(t, u, words)
                <5> HIDE DEF t, words
                <5> QED
                    BY <1>3, <4>5, <4>6, GrowsWith
            <4>8. u[i].known
                <5>1. IsToken(t[i])
                    BY <1>3 DEF Reads
                <5>2. m.known
                    BY <4>1, <5>1, MatchedIsToken
                <5> QED
                    BY <1>3, <4>2, <5>2
            <4> QED
                BY <4>4, <4>7, <4>8
        <3> QED
            BY <1>8, <3>1, <3>2
    <2>5. Probing(r)'
        <3>1. ASSUME NEW j \in 1..Len(words), NEW other \in {Lemma[words[j]], words[j]},
                     words[j] \notin Skipped, other \in Wordnet \ raised', ~tokens'[r][j].known
              PROVE  <<j, other>> \in todo'[r]
            <4>1. ~t[j].known /\ other \in Wordnet \ raised
                BY <2>1, <2>4, <3>1 DEF Grows
            <4>2. <<j, other>> \in todo[r]
                BY <1>3, <3>1, <4>1 DEF Probing
            <4>3. <<j, other>> # <<i, form>>
                <5>1. CASE answer = "yes"
                    BY <2>4, <3>1, <5>1
                <5>2. CASE answer = "no"
                    BY <2>1, <3>1, <5>2
                <5> QED
                    BY <1>8, <5>1, <5>2
            <4> QED
                BY <1>6, <4>2, <4>3
        <3>2. todo'[r] \subseteq (1..Len(words)) \X Words
            BY <1>3, <1>6 DEF Probing
        <3> QED
            BY <1>1, <3>1, <3>2 DEF Probing
    <2> QED
        BY <1>1, <1>2, <1>3, <1>6, <2>1, <2>2, <2>3, <2>4, <2>5, GoingOn
<1>9. probe[1] = i /\ probe[2] = form
    BY <1>5
<1>10. CASE ~tokens[r][i].known
    <2>1. PICK answer \in (IF lookups[form] # "unset" THEN {lookups[form]}
                           ELSE {"no"} \union (IF form \in Wordnet THEN {"yes"} ELSE {})) :
              /\ lookups' = [lookups EXCEPT ![form] = answer]
              /\ raised' = IF answer = "no" /\ form \in Wordnet
                           THEN raised \union {form} ELSE raised
              /\ tokens' = IF answer = "no" THEN tokens
                           ELSE [tokens EXCEPT ![r][i] = Matched(@, "wordnet", @.cats)]
        BY <1>4, <1>9, <1>10
    <2>2. /\ lookups[form] # "unset" => answer = lookups[form]
          /\ answer = "no" \/ answer = "yes"
        BY <1>3, <2>1
    <2> QED
        BY <1>8, <1>10, <2>1, <2>2
<1> QED
    BY <1>4, <1>7, <1>9, <1>10

(* Nothing is left to look up: the stage has found what it finds. *)
LEMMA WordnetEndsKeepsMiss ==
    ASSUME SharedTypes, MissInv, NEW r \in Requests, WordnetEnds(r)
    PROVE  MissInv'
<1>1. /\ at[r] = "probe" /\ todo[r] = {} /\ StageEnds(r, "wordnet", tokens[r], "ok", "bert")
      /\ UNCHANGED <<todo, basis, lookups, raised>>
    BY DEF WordnetEnds, wordnetVars
<1>2. at[r] \in Later /\ Probing(r)
    BY <1>1 DEF Later, MissInv, RequestOK
<1>3. Done(r, "wordnet")
    BY <1>1, <1>2 DEF Done, Finds, Probing
<1>4. "wordnet" \in Stages \ {"tokenize"} /\ "bert" \in Onward
    BY DEF Stages, Later, Onward, Embedding, InSemantics
<1> QED
    BY <1>1, <1>2, <1>3, <1>4, SkippedKeepsMiss

LEMMA SemanticBeginsKeepsMiss ==
    ASSUME SharedTypes, MissInv, NEW r \in Requests, SemanticBegins(r)
    PROVE  MissInv'
<1>1. at[r] \in {"bert", "fallback"} /\ UNCHANGED <<todo, basis, lookups, raised>>
    BY DEF SemanticBegins, wordnetVars
<1>2. at[r] \in Later
    BY <1>1 DEF Later, InSemantics
<1>3. "bert" \in Stages \ {"tokenize"} /\ "hints" \in Onward
    BY DEF Stages, Onward
<1>4. \/ Unknown(tokens[r]) = {} /\ StageEnds(r, "bert", tokens[r], "ok", "hints")
      \/ StageEnds(r, "bert", tokens[r], "skipped", "hints")
      \/ /\ \E p \in {"embed", "compare"} :
               at' = [at EXCEPT ![r] = p] /\ (p = "embed" => cfg.sbert)
         /\ UNCHANGED <<cfg, text, rows, tokens, st>>
    BY DEF SemanticBegins, Goto, requestVars, snapshotVars
<1>5. CASE Unknown(tokens[r]) = {} /\ StageEnds(r, "bert", tokens[r], "ok", "hints")
    <2>1. DOMAIN tokens[r] = 1..Len(Kept(text[r]))
        BY <1>2, LaterReads
    <2>2. Done(r, "bert")
        BY <1>5, <2>1 DEF Done, Unknown
    <2> QED
        BY <1>1, <1>2, <1>3, <1>5, <2>2, SkippedKeepsMiss
<1>6. CASE StageEnds(r, "bert", tokens[r], "skipped", "hints")
    BY <1>1, <1>2, <1>3, <1>6, SkippedKeepsMiss
<1>7. ASSUME NEW p \in {"embed", "compare"}, at' = [at EXCEPT ![r] = p], p = "embed" => cfg.sbert,
             UNCHANGED <<cfg, text, rows, tokens, st>>
      PROVE  MissInv'
    <2>1. p \in Points \ {"tokenize", "probe"} /\ (p \in Embedding => cfg.sbert)
        BY <1>7 DEF Points, Embedding
    <2> QED
        BY <1>1, <1>2, <1>7, <2>1, MoveKeepsMiss
<1> QED
    BY <1>4, <1>5, <1>6, <1>7

LEMMA CompareKeepsMiss ==
    ASSUME SharedTypes, MissInv, NEW r \in Requests, Compare(r)
    PROVE  MissInv'
<1>1. /\ at[r] \in {"query", "compare"} /\ UNCHANGED <<todo, basis, lookups, raised>>
      /\ StageEnds(r, "bert", IF at[r] = "query"
                              THEN SemanticTokens(rows[r], tokens[r], Near, Encoded(basis[r]))
                              ELSE SemanticTokens(rows[r], tokens[r], Alike, Forms(rows[r])),
                   "ok", "hints")
    BY DEF Compare, wordnetVars
<1>2. at[r] \in Later
    BY <1>1 DEF Later, InSemantics
<1>3. "bert" \in Stages \ {"tokenize"} /\ "hints" \in Onward
    BY DEF Stages, Onward
<1>4. PICK t : t = IF at[r] = "query"
                   THEN SemanticTokens(rows[r], tokens[r], Near, Encoded(basis[r]))
                   ELSE SemanticTokens(rows[r], tokens[r], Alike, Forms(rows[r]))
    OBVIOUS
<1>5. Kept(text[r]) \in Seq(Words) /\ Reads(tokens[r], Kept(text[r])) /\ rows[r] \in Versions
    BY <1>2, LaterReads DEF SharedTypes
<1>6. CASE at[r] = "query"
    <2>1. PICK candidates : candidates = Encoded(basis[r])
        OBVIOUS
    <2>2. t = SemanticTokens(rows[r], tokens[r], Near, candidates)
        BY <1>4, <1>6, <2>1
    <2>3. /\ Grows(tokens[r], t, Kept(text[r]))
          /\ \A i \in 1..Len(Kept(text[r])) :
               Near[Kept(text[r])[i]] \intersect candidates # {} => t[i].known
        BY <1>5, <2>2, SemanticGrows
    <2>4. cfg.sbert
        BY <1>6 DEF MissInv, RequestOK, Embedding
    <2>5. \A i \in 1..Len(Kept(text[r])) : Finds(r, i, "bert") => t[i].known
        BY <2>1, <2>3, <2>4 DEF Finds
    <2> QED
        BY <1>1, <1>2, <1>3, <1>4, <2>3, <2>5, StageKeepsMiss
<1>7. CASE at[r] # "query"
    <2>1. PICK candidates : candidates = Forms(rows[r])
        OBVIOUS
    <2>2. t = SemanticTokens(rows[r], tokens[r], Alike, candidates)
        BY <1>4, <1>7, <2>1
    <2>3. /\ Grows(tokens[r], t, Kept(text[r]))
          /\ \A i \in 1..Len(Kept(text[r])) :
               Alike[Kept(text[r])[i]] \intersect candidates # {} => t[i].known
        BY <1>5, <2>2, SemanticGrows
    <2>4. \A i \in 1..Len(Kept(text[r])) : Finds(r, i, "bert") => t[i].known
        BY <2>1, <2>3 DEF Finds
    <2> QED
        BY <1>1, <1>2, <1>3, <1>4, <2>3, <2>4, StageKeepsMiss
<1> QED
    BY <1>6, <1>7

LEMMA FinishKeepsMiss ==
    ASSUME SharedTypes, MissInv, NEW r \in Requests, Finish(r)
    PROVE  MissInv'
<1>1. /\ tokens' = [tokens EXCEPT ![r] = HintedTokens(@)]
      /\ at[r] = "hints" /\ UNCHANGED <<cfg, text, rows, basis, st, todo, lookups, raised>>
    BY DEF Finish, requestVars, snapshotVars
<1>2. PICK p \in {"checkStatus", "done"} : at' = [at EXCEPT ![r] = p]
    BY DEF Finish, EnsureAvailable, Goto
<1>3. /\ at'[r] = p /\ \A q \in Requests : q # r => at'[q] = at[q]
      /\ p \notin Later /\ p # "tokenize" /\ p # "probe" /\ p \notin Embedding
    BY <1>2 DEF SharedTypes, Later, InSemantics, Embedding
<1>4. PICK t : t = HintedTokens(tokens[r])
    OBVIOUS
<1>5. /\ tokens'[r] = t /\ DOMAIN tokens' = Requests
      /\ \A q \in Requests : q # r => tokens'[q] = tokens[q]
    BY <1>1, <1>4 DEF MissInv, FlowTypes
<1>6. st[r]["tokenize"] = "ok" => Grows(tokens[r], t, Kept(text[r]))
    BY <1>4, HintedGrows, KeptIsText DEF MissInv, FlowTypes, RequestOK
<1>7. /\ LookupsOK' /\ lookups' \in [Words -> {"unset", "yes", "no"}]
      /\ DOMAIN todo' = Requests /\ DOMAIN basis' = Requests
    BY <1>1 DEF MissInv, LookupsOK, FlowTypes
<1> QED
    BY <1>1, <1>3, <1>5, <1>6, <1>7, GoingOn

(* One step of the program. *)
LEMMA StepKeepsMiss ==
    ASSUME SharedTypes, MissInv, [Next]_vars
    PROVE  MissInv'
<1>1. ASSUME NEW r \in Requests, Step(r)
      PROVE  MissInv'
    <2>1. CASE Begin(r) \/ BeginText(r) \/ Answer(r)
        BY <2>1, BeginKeepsMiss
    <2>2. CASE Tokenize(r)
        BY <2>2, TokenizeKeepsMiss
    <2>3. CASE Exact(r)
        BY <2>3, ExactKeepsMiss
    <2>4. CASE LemmaInflect(r)
        BY <2>4, LemmaInflectKeepsMiss
    <2>5. CASE WordnetGate(r)
        BY <2>5, GateKeepsMiss
    <2>6. CASE WordnetLooksUp(r)
        BY <2>6, LooksUpKeepsMiss
    <2>7. CASE WordnetEnds(r)
        BY <2>7, WordnetEndsKeepsMiss
    <2>8. CASE SemanticBegins(r)
        BY <2>8, SemanticBeginsKeepsMiss
    <2>9. CASE Compare(r)
        BY <2>9, CompareKeepsMiss
    <2>10. CASE Finish(r)
        BY <2>10, FinishKeepsMiss
    <2>11. CASE \/ DeadlinePassed(r) \/ WordnetBegins(r) \/ CheckEnds(r)
                \/ Embed(r) \/ Encode(r) \/ EncodeFails(r)
        BY <2>11, MovesKeepMiss
    <2> QED
        BY <1>1, <2>1, <2>2, <2>3, <2>4, <2>5, <2>6, <2>7, <2>8, <2>9, <2>10, <2>11 DEF Step
<1>2. ASSUME UNCHANGED <<cfg, at, text, rows, basis, tokens, st, todo, lookups, raised>>
      PROVE  MissInv'
    <2>1. FlowTypes' /\ LookupsOK'
        BY <1>2 DEF MissInv, FlowTypes, LookupsOK
    <2>2. \A q \in Requests : RequestOK(q)'
        BY <1>2, OthersStayOK DEF MissInv
    <2> QED
        BY <2>1, <2>2 DEF MissInv
<1>3. CASE CoolDown
    BY <1>2, <1>3 DEF CoolDown, requestVars, snapshotVars, wordnetVars
<1>4. CASE UNCHANGED vars
    BY <1>2, <1>4 DEF vars
<1> QED
    BY <1>1, <1>3, <1>4 DEF Next

(* An answer whose five stages all say "ok" has missed no word within the  *)
(* token limit that one of them could have matched (the semantic stage:    *)
(* whichever way it compares): not for another request in the caches, nor  *)
(* for a stage that gave way to a later one.                               *)
THEOREM SpecOkMissesNothing == Spec => []OkMissesNothing
<1>1. Init => MissInv
    BY MissInit
<1>2. SharedTypes /\ MissInv /\ [Next]_vars => MissInv'
    BY StepKeepsMiss
<1>3. AloneInv => SharedTypes
    BY DEF AloneInv
<1>4. SharedTypes /\ MissInv => OkMissesNothing
    BY MissInvImplies
<1> QED
    BY <1>1, <1>2, <1>3, <1>4, AlwaysAlone, PTL DEF Spec
=============================================================================

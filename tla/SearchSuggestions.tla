------------------------- MODULE SearchSuggestions -------------------------
(***************************************************************************)
(* useSearchState (hooks/use-search-state.ts): the suggestions under the   *)
(* search box. A change of question (text, mode, readiness of the engine)  *)
(* is asked after 200 ms and cancels the asking before it; a move of the   *)
(* map is asked again after 500 ms, and its answer compares itself with    *)
(* what is asked by then. A user's action is a browser task with the       *)
(* effects React runs after it.                                            *)
(***************************************************************************)
CONSTANTS
    Texts,      \* non-blank texts of the search box
    Buckets     \* buckets of the map's centre (suggestOriginBucket)

Blank == "blank"
Modes == {"work", "domain"}
ASSUME TextsAssumption == Blank \notin Texts

VARIABLES
    query, mode, ready,   \* the options of the hook; ready: engineReady
    bucket,    \* originBucket
    debounce,  \* the 200 ms timer of the question runs
    asks,      \* invocations of its callback in flight
    far,       \* the 500 ms timer of the last move, if it runs: what it will ask
    probes,    \* the requests of those timers in flight
    suggestions   \* suggestions

suggestVars == <<query, mode, ready, bucket, debounce, asks, far, probes, suggestions>>

Question == [text : Texts, mode : Modes]
Present == [text |-> query, mode |-> mode]
Empty == [about |-> [text |-> Blank, mode |-> "work"], from |-> Blank, source |-> "none"]

(* Suggestions for question about, with distances to a centre of bucket from. *)
Answer(about, from, source) == [about |-> about, from |-> from, source |-> source]

(* refreshSuggestionDistances *)
Refreshed(s, b) == IF s = Empty THEN s ELSE [s EXCEPT !.from = b]

InitSuggestions ==
    /\ query = Blank /\ mode = "work" /\ ready = FALSE /\ bucket \in Buckets
    /\ debounce = FALSE /\ asks = {} /\ far = {} /\ probes = {} /\ suggestions = Empty

Cancelled == {[a EXCEPT !.live = FALSE] : a \in asks}

(* The effect of [query, mode, searchReadyKey]: its clean-up cancels, and a *)
(* blank text clears what is left of the suggestions.                       *)
QuestionEffect(text, left) ==
    /\ asks' = Cancelled
    /\ debounce' = (text # Blank)
    /\ suggestions' = IF text = Blank THEN Empty ELSE left

(* onQueryChange *)
Type(t) ==
    /\ t # query
    /\ query' = t
    /\ QuestionEffect(t, suggestions)
    /\ UNCHANGED <<mode, ready, bucket, far, probes>>

(* handleSelectSuggestion: a suggestion may have the very text that was typed, *)
(* and then no effect runs.                                                    *)
SelectSuggestion(t) ==
    /\ suggestions # Empty
    /\ query' = t
    /\ \/ t = query /\ suggestions' = Empty /\ UNCHANGED <<debounce, asks>>
       \/ t # query /\ QuestionEffect(t, Empty)
    /\ UNCHANGED <<mode, ready, bucket, far, probes>>

(* handleModeChange: the other mode's text comes from its cache, or is blank *)
ChangeMode(t) ==
    /\ mode' \in Modes \ {mode}
    /\ query' = t
    /\ QuestionEffect(t, Empty)
    /\ UNCHANGED <<ready, bucket, far, probes>>

(* A view has been made, or lost in a switch: searchReadyKey follows in domain *)
(* mode only.                                                                  *)
EngineChanges ==
    /\ ready' = ~ready
    /\ IF mode = "domain" THEN QuestionEffect(query, suggestions)
                          ELSE UNCHANGED <<debounce, asks, suggestions>>
    /\ UNCHANGED <<query, mode, bucket, far, probes>>

(* The centre of the map changes: the effect of [originBucket] *)
Move(b) ==
    /\ bucket' = b
    /\ far' = IF b = bucket THEN far
              ELSE {p \in {[text |-> query, mode |-> mode, at |-> b]} : query # Blank}
    /\ UNCHANGED <<query, mode, ready, debounce, asks, probes, suggestions>>
-----------------------------------------------------------------------------
(* The timer of the question: fetchSearchSuggest *)
Ask ==
    /\ debounce
    /\ debounce' = FALSE
    /\ asks' = asks \cup {[about |-> Present, at |-> bucket, engine |-> ready,
                           stage |-> "server", live |-> TRUE]}
    /\ UNCHANGED <<query, mode, ready, bucket, far, probes, suggestions>>

FaultyLanding(a, outcome) ==   \* what was cancelled is not looked at after the await
    IF a.about.mode = "work" \/ outcome = "some"
    THEN {Answer(a.about, bucket, "server")}
    ELSE {suggestions}

(* What the answer of the server, or its failure, makes of the suggestions. In   *)
(* work mode the loaded catalogue stands in, which may have nothing either.       *)
Landing(a, outcome) ==
    IF ~a.live THEN {suggestions}
    ELSE IF outcome = "some" THEN {Answer(a.about, bucket, "server")}
    ELSE IF a.about.mode = "work" THEN {Empty, Answer(a.about, bucket, "catalog")}
    ELSE {suggestions}

(* In domain mode the engine is asked when the server has nothing, if there is one. *)
AsksEngine(a, outcome) ==
    a.live /\ outcome = "nothing" /\ a.about.mode = "domain" /\ a.engine

ServerAnswers(a) ==
    /\ a \in asks /\ a.stage = "server"
    /\ \E outcome \in {"some", "nothing"} :
         /\ suggestions' \in Landing(a, outcome)
         /\ asks' = (asks \ {a}) \cup (IF AsksEngine(a, outcome) THEN {[a EXCEPT !.stage = "engine"]}
                                                             ELSE {})
    /\ UNCHANGED <<query, mode, ready, bucket, debounce, far, probes>>

(* engine.search.fetchSuggestions answers, with distances to where the map was *)
(* when the server was asked, or fails.                                        *)
EngineAnswers(a) ==
    /\ a \in asks /\ a.stage = "engine"
    /\ asks' = asks \ {a}
    /\ suggestions' \in IF a.live THEN {Empty, Answer(a.about, a.at, "engine")} ELSE {suggestions}
    /\ UNCHANGED <<query, mode, ready, bucket, debounce, far, probes>>

IsPresent(p) == p = [text |-> query, mode |-> mode, at |-> bucket]

(* The timer of a move *)
Probe ==
    /\ far # {}
    /\ far' = {}
    /\ probes' = probes \cup {p \in far : IsPresent(p)}
    /\ UNCHANGED <<query, mode, ready, bucket, debounce, asks, suggestions>>

(* Its answer: new suggestions, or new distances on the old ones *)
ProbeAnswers(p) ==
    /\ p \in probes
    /\ probes' = probes \ {p}
    /\ suggestions' \in IF IsPresent(p) THEN {Answer(Present, bucket, "server"), Refreshed(suggestions, bucket)}
                  ELSE {suggestions}
    /\ UNCHANGED <<query, mode, ready, bucket, debounce, asks, far>>

SuggestionStep ==
    \/ Ask \/ Probe
    \/ \E a \in asks : ServerAnswers(a) \/ EngineAnswers(a)
    \/ \E p \in probes : ProbeAnswers(p)

(* What the user does at the search box, and the engine that comes and goes. *)
UserStep ==
    \/ \E t \in Texts \cup {Blank} : Type(t) \/ SelectSuggestion(t) \/ ChangeMode(t)
    \/ EngineChanges

SuggestionsSpec ==
    InitSuggestions
    /\ [][SuggestionStep \/ UserStep \/ \E b \in Buckets : Move(b)]_suggestVars
-----------------------------------------------------------------------------
Asking == debounce \/ \E a \in asks : a.live

(* In domain mode a question the server has nothing for is left until there is *)
(* an engine to ask.                                                           *)
Waits == mode = "domain" /\ ~ready

AtRest == ~Asking /\ ~Waits /\ far = {} /\ probes = {}

(* Suggestions of another question are shown only while the present one is   *)
(* being asked or waits: no late answer comes back over a newer one, and an  *)
(* engine that becomes ready is asked.                                       *)
SuggestionsBelong == suggestions # Empty /\ suggestions.about # Present => Asking \/ Waits

(* When nothing is under way the distances are those to where the map is.    *)
(* The engine's own suggestions are the exception, see DistancesAreCurrent.   *)
DistancesFollow ==
    AtRest /\ suggestions # Empty /\ suggestions.source # "engine" => suggestions.from = bucket

(* The suggestions answer the present question from the present place, or an *)
(* answer is on its way: two timers, two kinds of requests and the user's    *)
(* own clearing all write one list (hooks/use-search-state.ts, both effects). *)
SuggestionsAreCurrent == SuggestionsBelong /\ DistancesFollow

(* What lines 12-13 of the hook say of every suggestion shown: its distance is *)
(* recomputed when the centre's bucket has changed.                            *)
DistancesAreCurrent == AtRest /\ suggestions # Empty => suggestions.from = bucket
=============================================================================

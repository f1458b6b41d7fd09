---------------------------- MODULE MapPage_proofs ----------------------------
(***************************************************************************)
(* Theorems about what follows the moves and the renders of the map page:  *)
(* the viewport loader forgets nobody and implements the coalescing        *)
(* contract of CoalescedLoads; the suggestions under the search box stay   *)
(* current; the markers on the map are those the page asks for, their      *)
(* records what is drawn, and their logos stay.                            *)
(* None of them bounds the number of moves, loads, texts, requests, POIs,  *)
(* views or renders.                                                       *)
(***************************************************************************)
EXTENDS ViewportLoader, SearchSuggestions, PoiMap,
        SequenceTheorems, FiniteSetTheorems, WellFoundedInduction, TLAPS

-----------------------------------------------------------------------------
(* The viewport loader *)

(* The invariant the proofs are by induction over. *)
LoaderInv == LoaderTypeOK /\ NobodyForgotten

(* runPending() leaves no event waiting unless a load that runs will see it. *)
LEMMA RunPendingType ==
    ASSUME LoaderTypeOK, NEW busy \in BOOLEAN, RunPending(busy)
    PROVE  /\ pending' \in BOOLEAN /\ inFlight' \in BOOLEAN
           /\ pending' => inFlight' \/ disposed
           /\ pending' => pending
  BY Zenon DEF RunPending, LoaderTypeOK

LEMMA LoaderInit == Init => LoaderInv
  BY DEF Init, InitLoader, LoaderInv, LoaderTypeOK, NobodyForgotten

(* Every step of the loader keeps the invariant. *)
LEMMA LoaderStep == LoaderInv /\ [LoaderNext]_loaderVars => LoaderInv'
<1>1. SUFFICES ASSUME LoaderInv, [LoaderNext]_loaderVars PROVE LoaderInv'
  OBVIOUS
<1>. USE DEF LoaderInv, LoaderTypeOK, NobodyForgotten
<1>2. CASE Schedule
  <2>1. timer' \in {"off", "fresh", "ripe"} /\ inFlight' = inFlight /\ disposed' = disposed
    BY <1>1, <1>2 DEF Schedule
  <2>2. pending' \in BOOLEAN
    BY Zenon, <1>1, <1>2 DEF Schedule
  <2>3. /\ pending' => timer' # "off" \/ inFlight
        /\ disposed => timer' = "off" /\ ~pending'
    BY <1>1, <1>2 DEF Schedule
  <2>. QED BY Zenon, <1>1, <2>1, <2>2, <2>3
<1>3. CASE DelayPasses
  BY <1>1, <1>3 DEF DelayPasses
<1>4. CASE TimerFires
  <2>1. /\ pending' \in BOOLEAN /\ inFlight' \in BOOLEAN
        /\ pending' => inFlight' \/ disposed
        /\ pending' => pending
    BY <1>1, <1>4, RunPendingType DEF TimerFires
  <2>2. timer' = "off" /\ disposed' = disposed
    BY <1>4 DEF TimerFires
  <2>. QED BY <1>1, <2>1, <2>2
<1>5. CASE LoadEnds
  <2>1. /\ pending' \in BOOLEAN /\ inFlight' \in BOOLEAN
        /\ pending' => inFlight' \/ disposed
        /\ pending' => pending
    BY <1>1, <1>5, RunPendingType DEF LoadEnds
  <2>2. timer' = timer /\ disposed' = disposed
    BY <1>5 DEF LoadEnds
  <2>. QED BY <1>1, <2>1, <2>2
<1>6. CASE Dispose
  BY <1>1, <1>6 DEF Dispose
<1>7. CASE UNCHANGED loaderVars
  BY <1>1, <1>7 DEF loaderVars
<1>. QED BY <1>1, <1>2, <1>3, <1>4, <1>5, <1>6, <1>7 DEF LoaderNext

LEMMA LoaderInvariant == Spec => []LoaderInv
  BY LoaderInit, LoaderStep, PTL DEF Spec

(* An event that no load has answered yet has a timer or a running load, and *)
(* a disposed loader holds neither timer nor event, whatever the order of    *)
(* schedule(), dispose(), the timer and the ends of loads.                   *)
THEOREM NobodyForgottenAlways == Spec => []NobodyForgotten
<1>1. LoaderInv => NobodyForgotten
  BY DEF LoaderInv
<1>. QED BY LoaderInvariant, <1>1, PTL

(* Every step of the loader is a step of the contract or changes nothing it *)
(* speaks of.                                                               *)
LEMMA StepContract == LoaderInv /\ [LoaderNext]_loaderVars => [Contract!Next]_(Contract!vars)
<1>1. SUFFICES ASSUME LoaderInv, [LoaderNext]_loaderVars
               PROVE  Contract!Next \/ UNCHANGED Contract!vars
  OBVIOUS
<1>. USE DEF Contract!Next, Contract!vars
<1>2. CASE Schedule
  BY <1>1, <1>2 DEF Schedule, Contract!Event
<1>3. CASE DelayPasses
  BY <1>3 DEF DelayPasses
<1>4. CASE TimerFires
  <2>1. CASE ~disposed /\ ~inFlight /\ pending
    <3>1. pending' = FALSE
      BY Zenon, <1>4, <2>1 DEF TimerFires, RunPending
    <3>2. inFlight' = TRUE
      BY Zenon, <1>4, <2>1 DEF TimerFires, RunPending
    <3>3. disposed' = disposed
      BY <1>4 DEF TimerFires
    <3>. QED BY <2>1, <3>1, <3>2, <3>3 DEF Contract!Begin
  <2>2. CASE ~(~disposed /\ ~inFlight /\ pending)
    <3>1. pending' = pending
      BY Zenon, <1>1, <1>4, <2>2 DEF TimerFires, RunPending, LoaderInv, LoaderTypeOK
    <3>2. inFlight' = inFlight
      BY Zenon, <1>1, <1>4, <2>2 DEF TimerFires, RunPending, LoaderInv, LoaderTypeOK
    <3>3. disposed' = disposed
      BY <1>4 DEF TimerFires
    <3>. QED BY <3>1, <3>2, <3>3
  <2>. QED BY <2>1, <2>2
<1>5. CASE LoadEnds
  <2>0. inFlight /\ disposed' = disposed
    BY <1>5 DEF LoadEnds
  <2>t. inFlight = TRUE
    BY Zenon, <1>1, <2>0 DEF LoaderInv, LoaderTypeOK
  <2>1. CASE ~disposed /\ pending
    <3>1. pending' = FALSE
      BY Zenon, <1>5, <2>1 DEF LoadEnds, RunPending
    <3>2. inFlight' = TRUE
      BY Zenon, <1>5, <2>1 DEF LoadEnds, RunPending
    <3>. QED BY <2>0, <2>t, <2>1, <3>1, <3>2 DEF Contract!EndAndBegin
  <2>2. CASE ~(~disposed /\ pending)
    <3>1. pending' = pending
      BY Zenon, <1>1, <1>5, <2>2 DEF LoadEnds, RunPending, LoaderInv, LoaderTypeOK
    <3>2. inFlight' = FALSE
      BY Zenon, <1>5, <2>2 DEF LoadEnds, RunPending
    <3>. QED BY <2>0, <3>1, <3>2 DEF Contract!End
  <2>. QED BY <2>1, <2>2
<1>6. CASE Dispose
  BY <1>6 DEF Dispose, Contract!Close
<1>7. CASE UNCHANGED loaderVars
  BY <1>7 DEF loaderVars
<1>. QED BY <1>1, <1>2, <1>3, <1>4, <1>5, <1>6, <1>7 DEF LoaderNext

(* createViewportLoader implements the contract: loads run one at a time, a  *)
(* load answers every event before it, events during a load lead to one      *)
(* follow-up load, and dispose() starts nothing more.                        *)
THEOREM LoaderCoalesces == Spec => CoalescesLoads
<1>1. Init => Contract!Init
  BY DEF Init, InitLoader, Contract!Init
<1>. QED BY <1>1, LoaderInvariant, StepContract, PTL DEF Spec, CoalescesLoads, Contract!Spec

-----------------------------------------------------------------------------
(* The suggestions of the search box *)

Sources == {"none", "server", "catalog", "engine"}
Texted == [text : Texts \cup {Blank}, mode : Modes]
Suggestions == [about : Texted, from : Buckets \cup {Blank}, source : Sources]
Askings == [about : Texted, at : Buckets, engine : BOOLEAN, stage : {"server", "engine"},
          live : BOOLEAN]

SuggestTypeOK ==
    /\ query \in Texts \cup {Blank} /\ mode \in Modes /\ bucket \in Buckets
    /\ ready \in BOOLEAN /\ debounce \in BOOLEAN
    /\ asks \in SUBSET Askings
    /\ suggestions \in Suggestions

(* An asking that has not been cancelled asks the present question, and in    *)
(* domain mode it knows of the engine there is: every change cancels it       *)
(* (the clean-up of the effect of [query, mode, searchReadyKey]).             *)
AsksArePresent ==
    \A a \in asks : a.live => /\ a.about = Present /\ query # Blank
                              /\ mode = "domain" => a.engine = ready

(* Nothing is asked about a blank text, and nothing is shown for it.          *)
BlankIsSilent ==
    /\ debounce => query # Blank
    /\ \A p \in far \cup probes : p.text # Blank
    /\ query = Blank => suggestions = Empty

(* Distances to where the map no longer is are on their way to be replaced.   *)
DistancesDue ==
    suggestions # Empty /\ suggestions.source # "engine" /\ suggestions.from # bucket
        => Asking \/ Waits \/ \E p \in far \cup probes : IsPresent(p)

SuggestInv == SuggestTypeOK /\ AsksArePresent /\ BlankIsSilent /\ SuggestionsBelong /\ DistancesDue

LEMMA EmptyIsSuggestions == Empty \in Suggestions
BY DEF Empty, Suggestions, Texted, Modes, Sources

LEMMA SuggestInit == InitSuggestions => SuggestInv
<1> SUFFICES ASSUME InitSuggestions
             PROVE  SuggestInv
  OBVIOUS
<1>1. SuggestTypeOK
  BY EmptyIsSuggestions DEF InitSuggestions, SuggestTypeOK, Modes
<1> QED
  BY <1>1 DEF InitSuggestions, SuggestInv, AsksArePresent, BlankIsSilent, SuggestionsBelong,
     DistancesDue

(* A change of question leaves no live asking; a text is asked again, and a   *)
(* blank one shows nothing.                                                   *)
LEMMA QuestionEffectKeeps ==
    ASSUME SuggestInv, NEW t \in Texts \cup {Blank}, NEW left \in Suggestions,
           QuestionEffect(t, left), query' = t, mode' \in Modes, ready' \in BOOLEAN,
           UNCHANGED <<bucket, far, probes>>
    PROVE  SuggestInv'
<1>1. asks' \in SUBSET Askings /\ \A a \in asks' : ~a.live
  BY DEF QuestionEffect, Cancelled, SuggestInv, SuggestTypeOK, Askings
<1>2. debounce' \in BOOLEAN /\ (debounce' => t # Blank) /\ (t # Blank => debounce')
  BY Zenon DEF QuestionEffect
<1>3. suggestions' \in Suggestions /\ (t = Blank => suggestions' = Empty)
  BY EmptyIsSuggestions DEF QuestionEffect
<1>4. SuggestTypeOK'
  BY <1>1, <1>2, <1>3 DEF SuggestInv, SuggestTypeOK
<1>5. AsksArePresent'
  BY <1>1 DEF AsksArePresent
<1>6. BlankIsSilent'
  BY <1>2, <1>3 DEF SuggestInv, BlankIsSilent
<1>7. SuggestionsBelong' /\ DistancesDue'
  BY <1>2, <1>3 DEF SuggestionsBelong, DistancesDue, Asking, Empty
<1> QED
  BY <1>4, <1>5, <1>6, <1>7 DEF SuggestInv

LEMMA UserStepKeeps == SuggestInv /\ UserStep => SuggestInv'
<1> SUFFICES ASSUME SuggestInv, UserStep
             PROVE  SuggestInv'
  OBVIOUS
<1>0. /\ query \in Texts \cup {Blank} /\ mode \in Modes /\ ready \in BOOLEAN
      /\ suggestions \in Suggestions /\ Empty \in Suggestions
  BY EmptyIsSuggestions DEF SuggestInv, SuggestTypeOK
<1>1. ASSUME NEW t \in Texts \cup {Blank}, Type(t)
      PROVE  SuggestInv'
  BY <1>0, <1>1, QuestionEffectKeeps DEF Type
<1>2. ASSUME NEW t \in Texts \cup {Blank}, SelectSuggestion(t)
      PROVE  SuggestInv'
  <2>1. CASE t # query
    BY <1>0, <1>2, <2>1, QuestionEffectKeeps DEF SelectSuggestion
  <2>2. CASE t = query
    <3>1. suggestions' = Empty
          /\ UNCHANGED <<query, mode, ready, bucket, debounce, asks, far, probes>>
      BY <1>2, <2>2 DEF SelectSuggestion
    <3> QED
      BY <1>0, <3>1 DEF SuggestInv, SuggestTypeOK, AsksArePresent, BlankIsSilent,
         SuggestionsBelong, DistancesDue, Present, Empty
  <2> QED
    BY <2>1, <2>2
<1>3. ASSUME NEW t \in Texts \cup {Blank}, ChangeMode(t)
      PROVE  SuggestInv'
  BY <1>0, <1>3, QuestionEffectKeeps DEF ChangeMode
<1>4. CASE EngineChanges
  <2>1. ready' \in BOOLEAN /\ UNCHANGED <<query, mode, bucket, far, probes>>
    BY <1>0, <1>4 DEF EngineChanges
  <2>2. CASE mode = "domain"
    BY <1>0, <1>4, <2>1, <2>2, QuestionEffectKeeps DEF EngineChanges
  <2>3. CASE mode # "domain"
    <3>1. UNCHANGED <<debounce, asks, suggestions>>
      BY <1>4, <2>3 DEF EngineChanges
    <3> QED
      BY <2>1, <2>3, <3>1 DEF SuggestInv, SuggestTypeOK, AsksArePresent, BlankIsSilent,
         SuggestionsBelong, DistancesDue, Present, Asking, Waits, IsPresent
  <2> QED
    BY <2>2, <2>3
<1> QED
  BY <1>1, <1>2, <1>3, <1>4 DEF UserStep

LEMMA MoveKeeps ==
    ASSUME SuggestInv, NEW b \in Buckets, Move(b)
    PROVE  SuggestInv'
<1>1. bucket' = b /\ UNCHANGED <<query, mode, ready, debounce, asks, probes, suggestions>>
  BY DEF Move
<1>2. CASE b = bucket
  BY <1>1, <1>2 DEF Move, SuggestInv, SuggestTypeOK, AsksArePresent, BlankIsSilent,
     SuggestionsBelong, DistancesDue, Present, Asking, Waits, IsPresent
<1>3. CASE b # bucket
  <2> DEFINE p == [text |-> query, mode |-> mode, at |-> b]
  <2>1. far' = {q \in {p} : query # Blank}
    BY <1>3 DEF Move
  <2>2. (query # Blank => far' = {p}) /\ (query = Blank => far' = {})
    BY <2>1
  <2>3. SuggestTypeOK' /\ AsksArePresent' /\ SuggestionsBelong'
    BY <1>1 DEF SuggestInv, SuggestTypeOK, AsksArePresent, SuggestionsBelong, Present, Asking,
       Waits
  <2>4. BlankIsSilent'
    BY <1>1, <2>2 DEF SuggestInv, BlankIsSilent
  <2>5. DistancesDue'
    <3>1. query # Blank => p \in far' /\ IsPresent(p)'
      BY <1>1, <2>2 DEF IsPresent
    <3> QED
      BY <1>1, <3>1 DEF SuggestInv, BlankIsSilent, DistancesDue, Empty
  <2> QED
    BY <2>3, <2>4, <2>5 DEF SuggestInv
<1> QED
  BY <1>2, <1>3

(* What answers write.                                                       *)
LEMMA AnswerIsSuggestions ==
    ASSUME NEW q \in Texted, NEW b \in Buckets, NEW s \in Sources
    PROVE  /\ Answer(q, b, s) \in Suggestions
           /\ Answer(q, b, s).about = q /\ Answer(q, b, s).from = b
           /\ Answer(q, b, s).source = s
BY DEF Answer, Suggestions

LEMMA ServerAnswersKeeps ==
    ASSUME SuggestInv, NEW a \in asks, ServerAnswers(a)
    PROVE  SuggestInv'
<1> USE DEF SuggestInv
<1>0. a \in Askings /\ bucket \in Buckets /\ UNCHANGED <<query, mode, ready, bucket, debounce,
                                                     far, probes>>
  BY DEF SuggestTypeOK, ServerAnswers
<1>1. PICK outcome \in {"some", "nothing"} :
        /\ suggestions' \in Landing(a, outcome)
        /\ asks' = (asks \ {a}) \cup (IF AsksEngine(a, outcome)
                                      THEN {[a EXCEPT !.stage = "engine"]} ELSE {})
  BY DEF ServerAnswers
<1> DEFINE d == [a EXCEPT !.stage = "engine"]
<1>2. d \in Askings /\ d.about = a.about /\ d.live = a.live /\ d.engine = a.engine
  BY <1>0 DEF Askings
<1>3. \A c \in asks' : c \in asks \/ (c = d /\ AsksEngine(a, outcome))
  BY <1>1
<1>4. AsksArePresent'
  <2> HIDE DEF d
  <2> QED
    BY <1>0, <1>2, <1>3 DEF AsksArePresent, Present, AsksEngine
<1>5. asks' \in SUBSET Askings
  BY <1>2, <1>3 DEF SuggestTypeOK
<1>6. a.live => a.about = Present /\ query # Blank /\ a.about \in Texted
                /\ a.about.mode = mode /\ (mode = "domain" => a.engine = ready)
  BY <1>0 DEF AsksArePresent, Present, Askings
<1>7. \/ a.live /\ (suggestions' = Empty \/ \E s \in {"server", "catalog"} :
                       suggestions' = Answer(Present, bucket, s))
      \/ suggestions' = suggestions /\ ~a.live
      \/ /\ suggestions' = suggestions /\ a.live /\ mode = "domain"
         /\ outcome = "nothing"
  BY <1>1, <1>6 DEF Landing, SuggestTypeOK, Modes
<1>8. CASE a.live /\ (suggestions' = Empty \/ \E s \in {"server", "catalog"} :
                         suggestions' = Answer(Present, bucket, s))
  <2>1. suggestions' = Empty \/ (/\ suggestions' \in Suggestions
                                 /\ suggestions'.about = Present /\ suggestions'.from = bucket)
    BY <1>0, <1>6, <1>8, AnswerIsSuggestions DEF Sources
  <2>2. SuggestTypeOK'
    BY <1>0, <1>5, <2>1, EmptyIsSuggestions DEF SuggestTypeOK
  <2>3. BlankIsSilent'
    BY <1>0, <1>6, <1>8 DEF BlankIsSilent
  <2>4. SuggestionsBelong' /\ DistancesDue'
    BY <1>0, <2>1 DEF SuggestionsBelong, DistancesDue, Present, Empty
  <2> QED
    BY <1>4, <2>2, <2>3, <2>4
<1>9. CASE suggestions' = suggestions /\ ~a.live
  <2>1. asks \ {a} \subseteq asks'
    BY <1>1
  <2>2. Asking => Asking'
    BY <1>0, <1>9, <2>1 DEF Asking
  <2> QED
    BY <1>0, <1>4, <1>5, <1>9, <2>2 DEF SuggestTypeOK, BlankIsSilent, SuggestionsBelong,
       DistancesDue, Present, Waits, IsPresent
<1>10. CASE suggestions' = suggestions /\ a.live /\ mode = "domain" /\ outcome = "nothing"
  <2>1. CASE a.engine
    <3>1. d \in asks' /\ d.live
      BY <1>1, <1>2, <1>6, <1>10, <2>1 DEF AsksEngine
    <3>2. Asking'
      BY <3>1 DEF Asking
    <3> QED
      BY <1>0, <1>4, <1>5, <1>10, <3>2 DEF SuggestTypeOK, BlankIsSilent, SuggestionsBelong,
         DistancesDue
  <2>2. CASE ~a.engine
    <3>1. Waits'
      BY <1>0, <1>6, <1>10, <2>2 DEF Waits
    <3> QED
      BY <1>0, <1>4, <1>5, <1>10, <3>1 DEF SuggestTypeOK, BlankIsSilent, SuggestionsBelong,
         DistancesDue
  <2> QED
    BY <2>1, <2>2
<1> QED
  BY <1>7, <1>8, <1>9, <1>10

LEMMA EngineAnswersKeeps ==
    ASSUME SuggestInv, NEW a \in asks, EngineAnswers(a)
    PROVE  SuggestInv'
<1> USE DEF SuggestInv
<1>0. a \in Askings /\ asks' = asks \ {a}
      /\ UNCHANGED <<query, mode, ready, bucket, debounce, far, probes>>
  BY DEF SuggestTypeOK, EngineAnswers
<1>1. AsksArePresent' /\ asks' \in SUBSET Askings
  BY <1>0 DEF AsksArePresent, SuggestTypeOK, Present
<1>2. CASE ~a.live
  <2>1. suggestions' = suggestions
    BY <1>2 DEF EngineAnswers
  <2>2. Asking => Asking'
    BY <1>0, <1>2 DEF Asking
  <2> QED
    BY <1>0, <1>1, <2>1, <2>2 DEF SuggestTypeOK, BlankIsSilent, SuggestionsBelong,
       DistancesDue, Present, Waits, IsPresent
<1>3. CASE a.live
  <2>1. a.about = Present /\ query # Blank /\ Present \in Texted /\ a.at \in Buckets
    BY <1>0, <1>3 DEF AsksArePresent, Askings
  <2>2. suggestions' = Empty \/ suggestions' = Answer(Present, a.at, "engine")
    BY <1>3, <2>1 DEF EngineAnswers
  <2>3. suggestions' = Empty \/ (/\ suggestions' \in Suggestions
                                 /\ suggestions'.about = Present
                                 /\ suggestions'.source = "engine")
    BY <2>1, <2>2, AnswerIsSuggestions DEF Sources
  <2>4. SuggestTypeOK'
    BY <1>0, <1>1, <2>3, EmptyIsSuggestions DEF SuggestTypeOK
  <2>5. BlankIsSilent'
    BY <1>0, <2>1 DEF BlankIsSilent
  <2>6. SuggestionsBelong' /\ DistancesDue'
    BY <1>0, <2>3 DEF SuggestionsBelong, DistancesDue, Present, Empty
  <2> QED
    BY <1>1, <2>4, <2>5, <2>6
<1> QED
  BY <1>2, <1>3

LEMMA ProbeAnswersKeeps ==
    ASSUME SuggestInv, NEW p \in probes, ProbeAnswers(p)
    PROVE  SuggestInv'
<1> USE DEF SuggestInv
<1>0. probes' = probes \ {p} /\ UNCHANGED <<query, mode, ready, bucket, debounce, asks, far>>
  BY DEF ProbeAnswers
<1>1. AsksArePresent' /\ (Asking <=> Asking') /\ (Waits <=> Waits')
  BY <1>0 DEF AsksArePresent, Asking, Waits, Present
<1>2. CASE ~IsPresent(p)
  <2>1. suggestions' = suggestions
    BY <1>2 DEF ProbeAnswers
  <2> QED
    BY <1>0, <1>1, <1>2, <2>1 DEF SuggestTypeOK, BlankIsSilent, SuggestionsBelong,
       DistancesDue, Present, IsPresent
<1>3. CASE IsPresent(p)
  <2>1. suggestions' \in {Answer(Present, bucket, "server"), Refreshed(suggestions, bucket)}
    BY <1>3 DEF ProbeAnswers
  <2>2. query # Blank
    BY <1>3 DEF IsPresent, BlankIsSilent
  <2>3. Present \in Texted /\ bucket \in Buckets /\ suggestions \in Suggestions
    BY DEF SuggestTypeOK, Present, Texted
  <2>4. \/ suggestions' = Empty
        \/ /\ suggestions' \in Suggestions /\ suggestions'.from = bucket
           /\ suggestions'.about = Present
              \/ (suggestions # Empty /\ suggestions'.about = suggestions.about)
    <3>1. CASE suggestions' = Answer(Present, bucket, "server")
      BY <2>3, <3>1, AnswerIsSuggestions DEF Sources
    <3>2. CASE suggestions' = Refreshed(suggestions, bucket)
      BY <2>3, <3>2 DEF Refreshed, Suggestions
    <3> QED
      BY <2>1, <3>1, <3>2
  <2>5. SuggestTypeOK'
    BY <1>0, <2>4, EmptyIsSuggestions DEF SuggestTypeOK
  <2>6. BlankIsSilent'
    BY <1>0, <2>2 DEF BlankIsSilent
  <2>7. SuggestionsBelong' /\ DistancesDue'
    BY <1>0, <1>1, <2>4 DEF SuggestionsBelong, DistancesDue, Present
  <2> QED
    BY <1>1, <2>5, <2>6, <2>7
<1> QED
  BY <1>2, <1>3

LEMMA SuggestionStepKeeps == SuggestInv /\ SuggestionStep => SuggestInv'
<1> SUFFICES ASSUME SuggestInv, SuggestionStep
             PROVE  SuggestInv'
  OBVIOUS
<1>1. CASE Ask
  <2> DEFINE a == [about |-> Present, at |-> bucket, engine |-> ready,
                   stage |-> "server", live |-> TRUE]
  <2>1. debounce /\ debounce' = FALSE /\ asks' = asks \cup {a}
        /\ UNCHANGED <<query, mode, ready, bucket, far, probes, suggestions>>
    BY <1>1 DEF Ask
  <2>2. a \in Askings
    BY DEF SuggestInv, SuggestTypeOK, Askings, Present, Texted
  <2>3. a.live /\ a.about = Present /\ a.engine = ready
    OBVIOUS
  <2>4. query # Blank
    BY <2>1 DEF SuggestInv, BlankIsSilent
  <2> HIDE DEF a
  <2>5. Asking'
    BY <2>1, <2>3 DEF Asking
  <2>6. SuggestTypeOK'
    BY <2>1, <2>2 DEF SuggestInv, SuggestTypeOK
  <2>7. AsksArePresent'
    BY <2>1, <2>3, <2>4 DEF SuggestInv, AsksArePresent, Present
  <2> QED
    BY <2>1, <2>5, <2>6, <2>7 DEF SuggestInv, BlankIsSilent, SuggestionsBelong, DistancesDue
<1>2. CASE Probe
  <2>1. far' = {} /\ probes' = probes \cup {p \in far : IsPresent(p)}
        /\ UNCHANGED <<query, mode, ready, bucket, debounce, asks, suggestions>>
    BY <1>2 DEF Probe
  <2>2. \A p \in far \cup probes : IsPresent(p) => p \in probes' /\ IsPresent(p)'
    BY <2>1 DEF IsPresent
  <2> QED
    BY <2>1, <2>2 DEF SuggestInv, SuggestTypeOK, AsksArePresent, BlankIsSilent,
       SuggestionsBelong, DistancesDue, Present, Asking, Waits
<1> QED
  BY <1>1, <1>2, ServerAnswersKeeps, EngineAnswersKeeps, ProbeAnswersKeeps DEF SuggestionStep

(* The suggestions answer the present question from the present place, or an *)
(* answer is on its way, for every text, every number of moves and requests, *)
(* and whatever order their answers come in (both effects of useSearchState). *)
THEOREM SuggestionsStayCurrent == SuggestionsSpec => []SuggestionsAreCurrent
<1>1. SuggestInv /\ UNCHANGED suggestVars => SuggestInv'
  BY DEF suggestVars, SuggestInv, SuggestTypeOK, AsksArePresent, BlankIsSilent,
     SuggestionsBelong, DistancesDue, Present, Asking, Waits, IsPresent
<1>2. SuggestInv /\ [SuggestionStep \/ UserStep \/ \E b \in Buckets : Move(b)]_suggestVars
         => SuggestInv'
  BY <1>1, SuggestionStepKeeps, UserStepKeeps, MoveKeeps
<1>3. SuggestInv => SuggestionsAreCurrent
  BY DEF SuggestInv, SuggestionsAreCurrent, DistancesDue, DistancesFollow, AtRest
<1> QED
  BY <1>2, <1>3, SuggestInit, PTL DEF SuggestionsSpec



-----------------------------------------------------------------------------
(* The markers of the map page: PoiMap, with MarkerController and RemoteIcons.  *)
(* What an operator of theirs does to the marker of one POI comes first, then   *)
(* what it does along a list, then the effects of the page, then the steps.     *)

-----------------------------------------------------------------------------
\* Numbers, and what is done along a sequence

\* Induction, for a set of numbers: the least number outside it cannot exist.
LEMMA InductionOverNat ==
    ASSUME NEW S, 0 \in S, \A n \in Nat : n \in S => n + 1 \in S
    PROVE  Nat \subseteq S
<1>. DEFINE T == Nat \ S
            Less == OpToRel(<, Nat)
<1>1. \A m, n \in Nat : <<m, n>> \in Less <=> m < n
  BY Zenon DEF OpToRel
<1>2. IsWellFoundedOn(Less, Nat)
  BY NatLessThanWellFounded
<1>3. T # {} => \E n \in T : \A m \in T : ~(<<m, n>> \in Less)
  <2>1. T \subseteq Nat
    OBVIOUS
  <2>. HIDE DEF T, Less
  <2>. QED BY <1>2, <2>1, WFMin
<1>4. T \subseteq Nat
  OBVIOUS
<1>. SUFFICES ASSUME T # {} PROVE FALSE
  OBVIOUS
<1>. HIDE DEF Less
<1>5. PICK n \in T : \A m \in T : ~(m < n)
  BY <1>1, <1>3, <1>4
<1>6. n # 0 /\ n \in Nat /\ n - 1 \in Nat /\ n - 1 \notin S
  BY <1>5
<1>7. n - 1 \in T /\ n - 1 < n
  BY <1>6
<1>. QED BY <1>5, <1>7

\* One step along a sequence, of whichever kind: with e, x is next.
Act(k, e, acc, x) ==
    CASE k = "without" -> (IF x \in e THEN acc ELSE Append(acc, x))
      [] k = "considered" -> Considered(acc, x)
      [] k = "woken" -> ApplyLogoUpgrade(acc, x[1], x, e)
      [] k = "put" -> (IF x \in e THEN Put(acc, x) ELSE acc)
      [] k = "drop" -> (IF x \in e THEN Drop(acc, x) ELSE acc)
      [] k = "show" -> (IF x \in e THEN Show(acc, x) ELSE acc)
      [] k = "remade" -> (IF x \in e THEN Remade(acc, x) ELSE acc)

\* d is what there is after each of the first n members.
Runs(d, k, e, start, s, n) ==
    d = [i \in 0 .. n |-> IF i = 0 THEN start ELSE Act(k, e, d[i - 1], s[i])]

LEMMA RunsExist ==
    ASSUME NEW k, NEW e, NEW start, NEW s
    PROVE  \A n \in Nat : \E d : Runs(d, k, e, start, s, n)
<1>. DEFINE S == {n \in Nat : \E d : Runs(d, k, e, start, s, n)}
<1>1. 0 \in S
  <2>. DEFINE d == [i \in 0 .. 0 |-> start]
  <2>1. Runs(d, k, e, start, s, 0)
    BY DEF Runs
  <2>. QED BY <2>1
<1>2. \A n \in Nat : n \in S => n + 1 \in S
  <2>. TAKE n \in Nat
  <2>. HAVE n \in S
  <2>1. PICK d : Runs(d, k, e, start, s, n)
    OBVIOUS
  <2>. DEFINE g == [i \in 0 .. (n + 1) |-> IF i = 0 THEN start ELSE Act(k, e, d[i - 1], s[i])]
  <2>2. \A i \in 0 .. n : g[i] = d[i]
    <3>. TAKE i \in 0 .. n
    <3>1. d[i] = IF i = 0 THEN start ELSE Act(k, e, d[i - 1], s[i])
      BY Zenon, <2>1 DEF Runs
    <3>2. i \in 0 .. (n + 1)
      OBVIOUS
    <3>. QED BY Zenon, <3>1, <3>2
  <2>3. \A i \in 0 .. (n + 1) : i # 0 => i - 1 \in 0 .. n
    OBVIOUS
  <2>4. g = [i \in 0 .. (n + 1) |-> IF i = 0 THEN start ELSE Act(k, e, g[i - 1], s[i])]
    BY Zenon, <2>2, <2>3
  <2>5. Runs(g, k, e, start, s, n + 1)
    BY Zenon, <2>4 DEF Runs
  <2>. QED BY <2>5
<1>3. Nat \subseteq S
  <2>. HIDE DEF S
  <2>. QED BY <1>1, <1>2, InductionOverNat
<1>. QED BY <1>3

LEMMA RunsStep ==
    ASSUME NEW k, NEW e, NEW start, NEW s, NEW N \in Nat, NEW d, Runs(d, k, e, start, s, N)
    PROVE  /\ d[0] = start
           /\ \A n \in Nat : n + 1 <= N => d[n + 1] = Act(k, e, d[n], s[n + 1])
<1>1. \A i \in 0 .. N : d[i] = IF i = 0 THEN start ELSE Act(k, e, d[i - 1], s[i])
  BY Zenon DEF Runs
<1>2. 0 \in 0 .. N
  OBVIOUS
<1>3. ASSUME NEW n \in Nat, n + 1 <= N PROVE d[n + 1] = Act(k, e, d[n], s[n + 1])
  <2>1. n + 1 \in 0 .. N /\ n + 1 # 0 /\ n + 1 - 1 = n
    BY <1>3
  <2>2. \A i \in 0 .. N : i # 0 => d[i] = Act(k, e, d[i - 1], s[i])
    BY Zenon, <1>1
  <2>3. d[n + 1] = Act(k, e, d[n + 1 - 1], s[n + 1])
    BY <2>1, <2>2
  <2>. QED BY <2>1, <2>3
<1>. QED BY <1>1, <1>2, <1>3

LEMMA WithoutRuns ==
    ASSUME NEW s, Len(s) \in Nat, NEW gone
    PROVE  \E d : Runs(d, "without", gone, << >>, s, Len(s)) /\ Without(s, gone) = d[Len(s)]
<1>. DEFINE N == Len(s)
            Kept(g) == g = [n \in 0 .. N |-> IF n = 0 THEN << >>
                                ELSE IF s[n] \in gone THEN g[n - 1] ELSE Append(g[n - 1], s[n])]
            f == CHOOSE g : Kept(g)
<1>1. Without(s, gone) = f[N]
  BY DEF Without, Along
<1>2. PICK d : Runs(d, "without", gone, << >>, s, N)
  BY RunsExist
<1>3. Kept(d)
  BY <1>2 DEF Runs, Act
<1>4. Kept(f)
  BY Zenon, <1>3
<1>. HIDE DEF f
<1>5. Runs(f, "without", gone, << >>, s, N)
  BY <1>4 DEF Runs, Act
<1>. QED BY <1>1, <1>5

-----------------------------------------------------------------------------
\* What the tab knows of remote logos

Logos == Urls \cup {NoUrl}

Icons ==
    [results : Seq([url : Urls, status : {"ok", "fail"}]), trying : SUBSET Urls,
     failed : Seq(Urls), inlined : Seq(Urls), fetching : SUBSET Urls]

\* No cache outgrows its bound.
WithinBounds(i) ==
    /\ Len(i.results) <= MaxResults /\ Len(i.failed) <= MaxFailed /\ Len(i.inlined) <= MaxInlined
    /\ IsFiniteSet(i.trying) /\ Cardinality(i.trying) <= MaxTrying
    /\ IsFiniteSet(i.fetching) /\ Cardinality(i.fetching) <= MaxFetching

KnownIcons == {i \in Icons : WithinBounds(i)}

\* What a marker's need of a logo may do to them: no failure is forgotten, none
\* tried again, and no fetch is given up.
Later(i, j) ==
    /\ j.failed = i.failed
    /\ (j.trying \ i.trying) \cap ToSet(i.failed) = {}
    /\ i.fetching \subseteq j.fetching

LEMMA LaterOn ==
    /\ \A i : Later(i, i)
    /\ \A i, j, k : Later(i, j) /\ Later(j, k) => Later(i, k)
  BY DEF Later

LEMMA MembersOfSeq ==
    ASSUME NEW T, NEW s \in Seq(T), NEW x \in ToSet(s)
    PROVE  x \in T
  BY DEF ToSet

\* Without takes members away.
LEMMA WithoutIs ==
    ASSUME NEW T, NEW s \in Seq(T), NEW gone
    PROVE  Without(s, gone) \in Seq(T) /\ Len(Without(s, gone)) <= Len(s)
<1>. DEFINE N == Len(s)
<1>0. N \in Nat /\ \A n \in 1 .. N : s[n] \in T
  BY LenProperties, ElementOfSeq
<1>1. PICK d : Runs(d, "without", gone, << >>, s, N) /\ Without(s, gone) = d[N]
  BY <1>0, WithoutRuns
<1>2. /\ d[0] = << >>
      /\ \A n \in Nat : n + 1 <= N => d[n + 1] = Act("without", gone, d[n], s[n + 1])
  <2>1. N \in Nat /\ Runs(d, "without", gone, << >>, s, N)
    BY <1>0, <1>1
  <2>. HIDE DEF N
  <2>. QED BY <2>1, RunsStep
<1>3. \A acc, x : Act("without", gone, acc, x) = IF x \in gone THEN acc ELSE Append(acc, x)
  BY DEF Act
<1>. DEFINE S == {n \in Nat : n <= N => d[n] \in Seq(T) /\ Len(d[n]) <= n}
<1>4. 0 \in S
  <2>1. << >> \in Seq(T) /\ Len(<< >>) = 0
    BY EmptySeq
  <2>2. d[0] \in Seq(T) /\ Len(d[0]) = 0
    BY Zenon, <1>2, <2>1
  <2>. QED BY <2>2
<1>5. \A n \in Nat : n \in S => n + 1 \in S
  <2>. SUFFICES ASSUME NEW n \in Nat, n \in S, n + 1 <= N
                PROVE  d[n + 1] \in Seq(T) /\ Len(d[n + 1]) <= n + 1
    OBVIOUS
  <2>1. d[n + 1] = IF s[n + 1] \in gone THEN d[n] ELSE Append(d[n], s[n + 1])
    BY <1>2, <1>3
  <2>2. n <= N /\ s[n + 1] \in T
    BY <1>0
  <2>3. d[n] \in Seq(T) /\ Len(d[n]) <= n
    BY <2>2
  <2>. HIDE DEF N, S
  <2>4. CASE s[n + 1] \in gone
    BY <2>1, <2>3, <2>4
  <2>5. CASE s[n + 1] \notin gone
    BY <2>1, <2>2, <2>3, <2>5, AppendProperties
  <2>. QED BY <2>4, <2>5
<1>6. N \in S
  <2>. HIDE DEF S
  <2>. QED BY <1>0, <1>4, <1>5, InductionOverNat
<1>. QED BY <1>0, <1>1, <1>6

\* Newest keeps at most so many, all of them members.
LEMMA NewestIs ==
    ASSUME NEW T, NEW s \in Seq(T), NEW n \in Nat
    PROVE  Newest(s, n) \in Seq(T) /\ Len(Newest(s, n)) <= n
<1>. DEFINE a == IF Len(s) > n THEN Len(s) - n + 1 ELSE 1
<1>1. a \in 1 .. (Len(s) + 1) /\ a \in Nat /\ Len(s) \in Nat
  OBVIOUS
<1>2. SubSeq(s, a, Len(s)) \in Seq(T)
      /\ Len(SubSeq(s, a, Len(s))) = IF a <= Len(s) THEN Len(s) - a + 1 ELSE 0
  <2>. HIDE DEF a
  <2>. QED BY <1>1, SubSeqProperties
<1>. QED BY <1>1, <1>2 DEF Newest

LEMMA KnownIs ==
    ASSUME NEW i \in KnownIcons, NEW url
    PROVE  /\ Remembered(i, url) \in {"unknown", "ok", "fail"}
           /\ Known(i, url) \in {"unknown", "ok", "fail"}
<1>1. Remembered(i, url) \in {"unknown", "ok", "fail"}
  <2>1. i.results \in Seq([url : Urls, status : {"ok", "fail"}])
    BY DEF KnownIcons, Icons
  <2>2. ASSUME NEW r \in ToSet(i.results) PROVE r.status \in {"ok", "fail"}
    <3>1. r \in [url : Urls, status : {"ok", "fail"}]
      BY <2>1, MembersOfSeq
    <3>. QED BY <3>1
  <2>3. CASE Outcomes(i, url) = {}
    BY <2>3 DEF Remembered
  <2>4. CASE Outcomes(i, url) # {}
    <3>1. (CHOOSE r \in Outcomes(i, url) : TRUE) \in Outcomes(i, url)
      BY <2>4
    <3>. QED BY <2>2, <2>4, <3>1 DEF Remembered, Outcomes
  <2>. QED BY <2>3, <2>4
<1>. QED BY <1>1 DEF Known

LEMMA RememberIs ==
    ASSUME NEW i \in KnownIcons, NEW url \in Urls, NEW status \in {"ok", "fail"}
    PROVE  /\ Remember(i, url, status) \in KnownIcons
           /\ Remember(i, url, status) = [i EXCEPT !.results = Remember(i, url, status).results]
           /\ Later(i, Remember(i, url, status))
<1>. DEFINE T == [url : Urls, status : {"ok", "fail"}]
            rest == Without(i.results, Outcomes(i, url))
            new == Newest(rest, MaxResults - 1)
            r == Append(new, [url |-> url, status |-> status])
<1>1. i \in Icons /\ WithinBounds(i)
  BY DEF KnownIcons
<1>2. rest \in Seq(T)
  BY <1>1, WithoutIs DEF Icons
<1>3. MaxResults - 1 \in Nat /\ MaxResults \in Nat
  BY CacheBounds
<1>4. new \in Seq(T) /\ Len(new) <= MaxResults - 1
  <2>. HIDE DEF rest, T
  <2>. QED BY <1>2, <1>3, NewestIs
<1>5. r \in Seq(T) /\ Len(r) = Len(new) + 1 /\ Len(new) \in Nat
  <2>. HIDE DEF new
  <2>1. [url |-> url, status |-> status] \in T
    OBVIOUS
  <2>. QED BY <1>4, <2>1, AppendProperties
<1>6. Remember(i, url, status) = [i EXCEPT !.results = r]
  BY DEF Remember
<1>. HIDE DEF r, new, rest
<1>7. Len(r) <= MaxResults
  BY <1>3, <1>4, <1>5
<1>. QED BY <1>1, <1>5, <1>6, <1>7 DEF KnownIcons, Icons, WithinBounds, Later

LEMMA InlineIs ==
    ASSUME NEW i \in KnownIcons, NEW url \in Urls
    PROVE  /\ Inline(i, url) \in KnownIcons
           /\ Inline(i, url) = [i EXCEPT !.inlined = Inline(i, url).inlined]
<1>. DEFINE rest == Without(i.inlined, {url})
            new == Newest(rest, MaxInlined - 1)
            r == Append(new, url)
<1>1. i \in Icons /\ WithinBounds(i)
  BY DEF KnownIcons
<1>2. rest \in Seq(Urls)
  BY <1>1, WithoutIs DEF Icons
<1>3. MaxInlined - 1 \in Nat /\ MaxInlined \in Nat
  BY CacheBounds
<1>4. new \in Seq(Urls) /\ Len(new) <= MaxInlined - 1
  <2>. HIDE DEF rest
  <2>. QED BY <1>2, <1>3, NewestIs
<1>5. r \in Seq(Urls) /\ Len(r) = Len(new) + 1 /\ Len(new) \in Nat
  <2>. HIDE DEF new
  <2>. QED BY <1>4, AppendProperties
<1>6. Inline(i, url) = [i EXCEPT !.inlined = r]
  BY DEF Inline
<1>. HIDE DEF r, new, rest
<1>7. Len(r) <= MaxInlined
  BY <1>3, <1>4, <1>5
<1>. QED BY <1>1, <1>5, <1>6, <1>7 DEF KnownIcons, Icons, WithinBounds

LEMMA AskedIs ==
    ASSUME NEW i \in KnownIcons, NEW url \in Urls
    PROVE  Asked(i, url) \in KnownIcons /\ Later(i, Asked(i, url))
  BY KnownIs, RememberIs, LaterOn DEF Asked

LEMMA TryIs ==
    ASSUME NEW i \in KnownIcons, NEW url \in Urls
    PROVE  Try(i, url) \in KnownIcons /\ Later(i, Try(i, url))
<1>1. CASE \/ Remembered(i, url) # "unknown"
           \/ url \in i.trying
           \/ Cardinality(i.trying) >= MaxTrying
  BY <1>1, LaterOn DEF Try
<1>2. CASE ~(\/ Remembered(i, url) # "unknown"
             \/ url \in i.trying
             \/ Cardinality(i.trying) >= MaxTrying)
  <2>1. CASE url \in ToSet(i.failed)
    BY <1>2, <2>1, RememberIs DEF Try
  <2>2. CASE url \notin ToSet(i.failed)
    <3>. DEFINE t == i.trying \cup {url}
    <3>1. Try(i, url) = [i EXCEPT !.trying = t]
      BY <1>2, <2>2 DEF Try
    <3>2. i \in Icons /\ WithinBounds(i)
      BY DEF KnownIcons
    <3>3. IsFiniteSet(t) /\ Cardinality(t) = Cardinality(i.trying) + 1 /\ Cardinality(i.trying) \in Nat
      BY <1>2, <3>2, FS_AddElement, FS_CardinalityType DEF WithinBounds
    <3>4. Cardinality(t) <= MaxTrying /\ t \subseteq Urls
      BY <1>2, <3>2, <3>3, CacheBounds DEF Icons
    <3>5. [i EXCEPT !.trying = t] \in KnownIcons
      <4>. HIDE DEF t
      <4>. QED BY <3>2, <3>3, <3>4 DEF KnownIcons, Icons, WithinBounds
    <3>6. Later(i, [i EXCEPT !.trying = t])
      BY <2>2, <3>2 DEF Later, Icons
    <3>. QED BY <3>1, <3>5, <3>6
  <2>. QED BY <2>1, <2>2
<1>. QED BY <1>1, <1>2

\* The search for a logo, before the first URL is considered.
Afresh(i) == [icons |-> i, src |-> NoUrl, ask |-> NoUrl]

LEMMA ConsideredRuns ==
    ASSUME NEW i, NEW chain, Len(chain) \in Nat
    PROVE  \E d : /\ Runs(d, "considered", NoUrl, Afresh(i), chain, Len(chain))
                  /\ Resolve(i, chain) = AndTry(d[Len(chain)])
<1>. DEFINE N == Len(chain)
            Done(g) == g = [n \in 0 .. N |-> IF n = 0 THEN Afresh(i) ELSE Considered(g[n - 1], chain[n])]
            f == CHOOSE g : Done(g)
<1>1. Resolve(i, chain) = AndTry(f[N])
  BY DEF Resolve, Along, Afresh
<1>2. PICK d : Runs(d, "considered", NoUrl, Afresh(i), chain, N)
  BY RunsExist
<1>3. Done(d)
  BY <1>2 DEF Runs, Act
<1>4. Done(f)
  BY Zenon, <1>3
<1>. HIDE DEF f
<1>5. Runs(f, "considered", NoUrl, Afresh(i), chain, N)
  BY <1>4 DEF Runs, Act
<1>. QED BY <1>1, <1>5

\* Looking for a logo changes what is known, within its bounds.
LEMMA ResolveIs ==
    ASSUME NEW i \in KnownIcons, NEW chain \in Seq(Urls)
    PROVE  /\ Resolve(i, chain).icons \in KnownIcons
           /\ Resolve(i, chain).src \in Logos
           /\ Later(i, Resolve(i, chain).icons)
<1>. DEFINE N == Len(chain)
            Founds == [icons : KnownIcons, src : Logos, ask : Logos]
<1>0. N \in Nat /\ \A n \in 1 .. N : chain[n] \in Urls
  BY LenProperties, ElementOfSeq
<1>1. PICK d : Runs(d, "considered", NoUrl, Afresh(i), chain, N) /\ Resolve(i, chain) = AndTry(d[N])
  BY <1>0, ConsideredRuns
<1>2. /\ d[0] = Afresh(i)
      /\ \A n \in Nat : n + 1 <= N => d[n + 1] = Act("considered", NoUrl, d[n], chain[n + 1])
  <2>. HIDE DEF N
  <2>1. N \in Nat
    BY <1>0
  <2>2. Runs(d, "considered", NoUrl, Afresh(i), chain, N)
    BY <1>1
  <2>3. d[0] = Afresh(i)
    <3>1. 0 \in 0 .. N
      BY <2>1
    <3>. QED BY Zenon, <2>2, <3>1 DEF Runs
  <2>4. \A n \in Nat : n + 1 <= N => d[n + 1] = Act("considered", NoUrl, d[n], chain[n + 1])
    BY <2>1, <2>2, RunsStep
  <2>. QED BY <2>3, <2>4
<1>3. \A acc, x : Act("considered", NoUrl, acc, x) = Considered(acc, x)
  BY DEF Act
<1>. DEFINE S == {n \in Nat : n <= N => d[n] \in Founds /\ Later(i, d[n].icons)}
<1>4. 0 \in S
  BY <1>2, LaterOn DEF Logos, Afresh
<1>5. \A n \in Nat : n \in S => n + 1 \in S
  <2>. SUFFICES ASSUME NEW n \in Nat, n \in S, n + 1 <= N
                PROVE  d[n + 1] \in Founds /\ Later(i, d[n + 1].icons)
    OBVIOUS
  <2>1. d[n + 1] = Considered(d[n], chain[n + 1])
    BY <1>2, <1>3
  <2>2. n <= N /\ chain[n + 1] \in Urls
    BY <1>0
  <2>3. d[n] \in Founds /\ Later(i, d[n].icons)
    BY <2>2
  <2>4. Known(d[n].icons, chain[n + 1]) \in {"unknown", "ok", "fail"}
    BY <2>3, KnownIs
  <2>5. Asked(d[n].icons, chain[n + 1]) \in KnownIcons /\ Later(d[n].icons, Asked(d[n].icons, chain[n + 1]))
    BY <2>2, <2>3, AskedIs
  <2>6. Later(i, Asked(d[n].icons, chain[n + 1]))
    BY <2>3, <2>5, LaterOn
  <2>. HIDE DEF N, S
  <2>. QED BY <2>1, <2>2, <2>3, <2>4, <2>5, <2>6 DEF Considered, Logos
<1>6. N \in S
  <2>. HIDE DEF S
  <2>. QED BY <1>0, <1>4, <1>5, InductionOverNat
<1>7. d[N] \in Founds /\ Later(i, d[N].icons)
  BY <1>0, <1>6
<1>8. Resolve(i, chain) = AndTry(d[N])
  BY <1>1
<1>. HIDE DEF N
<1>9. d[N].ask # NoUrl =>
        /\ Try(d[N].icons, d[N].ask) \in KnownIcons
        /\ Later(d[N].icons, Try(d[N].icons, d[N].ask))
  BY <1>7, TryIs DEF Logos
<1>. QED BY <1>7, <1>8, <1>9, LaterOn DEF AndTry

-----------------------------------------------------------------------------
\* Types of the markers

Nums == 1 .. MaxWrappers
Styles == {"selected", "highlighted", "normal"}

Marks ==
    [view : Nat, known : BOOLEAN, want : BOOLEAN, onLayer : BOOLEAN, icon : Logos, style : Styles]

Awaited == [marker : Companies \X Nums, url : Urls]

Controllers ==
    [view : Nat \ {0}, markers : [POIs -> 0 .. MaxWrappers], placed : SUBSET Wrappers,
     style : [POIs -> Styles \cup {"none"}], kind : [POIs -> {"none", "emoji", "logo"}],
     logo : [POIs -> Logos], applied : [POIs -> {"none", "shown", "hidden"}],
     visible : (SUBSET POIs) \cup {Everything}, selected : POIs \cup {NoPoi},
     highlighted : POIs \cup {NoPoi}]

Worlds ==
    [icons : KnownIcons, layer : [Wrappers -> Marks \cup {NoMarker}], waiting : SUBSET Awaited,
     ctl : Controllers \cup {NoController}, fails : SUBSET POIs, dead : SUBSET Nat]

\* Who waits for a logo waits for a fetch under way.
NoneWaitsInVain(w) == \A u \in w.waiting : u.url \in w.icons.fetching

\* A world with a controller.
Attended == {w \in Worlds : w.ctl \in Controllers /\ NoneWaitsInVain(w)}

LEMMA Distinctions ==
    /\ NoMarker \notin Marks /\ NoController \notin Controllers
    /\ NoPoi \notin POIs /\ Everything \notin SUBSET POIs /\ NoUrl \notin Urls
    /\ \A p \in POIs : p \in Companies <=> p \notin Places
    /\ MaxWrappers \in Nat \ {0}
<1>1. NoMarker \notin Marks
  <2>. SUFFICES ASSUME NoMarker \in Marks PROVE FALSE
    OBVIOUS
  <2>1. "view" \in DOMAIN NoMarker
    BY DEF Marks
  <2>2. DOMAIN << >> = {}
    OBVIOUS
  <2>. QED BY Zenon, <2>1, <2>2 DEF NoMarker
<1>2. NoController \notin Controllers
  BY DEF NoController, Controllers, NoView
<1>3. NoUrl \notin Urls
  BY MarkerConstants DEF Urls
<1>. QED BY <1>1, <1>2, <1>3, MarkerConstants DEF NoPoi, Everything, POIs

LEMMA ChainsAreOfUrls ==
    ASSUME NEW c \in Companies PROVE Chain[c] \in Seq(Urls)
<1>1. Chain[c] \in Seq(ToSet(Chain[c])) /\ ToSet(Chain[c]) \subseteq Urls
  BY MarkerConstants DEF Urls
<1>. DEFINE U == ToSet(Chain[c])
<1>. HIDE DEF U
<1>2. Chain[c] \in Seq(U) /\ U \subseteq Urls
  BY <1>1 DEF U
<1>. QED BY <1>2

\* What concerns one POI is the same in both worlds.
Same(w, v, q) ==
    /\ v.ctl.markers[q] = w.ctl.markers[q]
    /\ v.ctl.style[q] = w.ctl.style[q] /\ v.ctl.kind[q] = w.ctl.kind[q]
    /\ v.ctl.logo[q] = w.ctl.logo[q] /\ v.ctl.applied[q] = w.ctl.applied[q]
    /\ \A i \in Nums : /\ v.layer[<<q, i>>] = w.layer[<<q, i>>]
                       /\ <<q, i>> \in v.ctl.placed <=> <<q, i>> \in w.ctl.placed
    /\ InUse(v, q) = InUse(w, q)

\* What concerns all of them is the same.
Around(w, v) ==
    /\ v.fails = w.fails /\ v.dead = w.dead
    /\ v.ctl.view = w.ctl.view /\ v.ctl.visible = w.ctl.visible
    /\ v.ctl.selected = w.ctl.selected /\ v.ctl.highlighted = w.ctl.highlighted

\* Only what concerns p may differ.
Local(w, v, p) ==
    /\ v \in Attended /\ Around(w, v) /\ Later(w.icons, v.icons)
    /\ \A q \in POIs \ {p} : Same(w, v, q)

LEMMA LocalOn ==
    /\ \A w \in Attended : \A p : Local(w, w, p)
    /\ \A w, v, z, p : Local(w, v, p) /\ Local(v, z, p) => Local(w, z, p)
<1>1. \A w \in Attended : \A p : Local(w, w, p)
  BY LaterOn DEF Local, Around, Same
<1>2. ASSUME NEW w, NEW v, NEW z, NEW p, Local(w, v, p), Local(v, z, p) PROVE Local(w, z, p)
  <2>1. z \in Attended /\ Around(w, z)
    BY <1>2 DEF Local, Around
  <2>2. Later(w.icons, z.icons)
    BY <1>2, LaterOn DEF Local
  <2>3. ASSUME NEW q \in POIs \ {p} PROVE Same(w, z, q)
    <3>1. Same(w, v, q) /\ Same(v, z, q)
      BY <1>2 DEF Local
    <3>. QED BY <3>1 DEF Same
  <2>. QED BY <2>1, <2>2, <2>3 DEF Local
<1>. QED BY <1>1, <1>2

\* A world may be changed field by field.
LEMMA WorldIs ==
    ASSUME NEW i \in KnownIcons, NEW l \in [Wrappers -> Marks \cup {NoMarker}],
           NEW t \in SUBSET Awaited, NEW c \in Controllers, NEW f \in SUBSET POIs, NEW d \in SUBSET Nat,
           \A u \in t : u.url \in i.fetching
    PROVE  [icons |-> i, layer |-> l, waiting |-> t, ctl |-> c, fails |-> f, dead |-> d] \in Attended
  BY DEF Attended, Worlds, NoneWaitsInVain

LEMMA WorldHas ==
    ASSUME NEW w \in Worlds
    PROVE  /\ w = [icons |-> w.icons, layer |-> w.layer, waiting |-> w.waiting, ctl |-> w.ctl,
                   fails |-> w.fails, dead |-> w.dead]
           /\ w.icons \in KnownIcons /\ w.layer \in [Wrappers -> Marks \cup {NoMarker}]
           /\ w.waiting \in SUBSET Awaited /\ w.fails \in SUBSET POIs /\ w.dead \in SUBSET Nat
  BY DEF Worlds

\* A change of what is known of logos, of the markers of p, of their upgrades and of
\* what the controller records of p is local.
LEMMA LocalChange ==
    ASSUME NEW w \in Attended, NEW v \in Attended, NEW p \in POIs,
           Around(w, v), Later(w.icons, v.icons),
           \A m \in Wrappers : m[1] # p => v.layer[m] = w.layer[m],
           w.waiting \subseteq v.waiting, \A u \in v.waiting : u \in w.waiting \/ u.marker[1] = p,
           \A q \in POIs \ {p} :
                /\ v.ctl.markers[q] = w.ctl.markers[q] /\ v.ctl.style[q] = w.ctl.style[q]
                /\ v.ctl.kind[q] = w.ctl.kind[q] /\ v.ctl.logo[q] = w.ctl.logo[q]
                /\ v.ctl.applied[q] = w.ctl.applied[q]
                /\ \A j \in Nums : <<q, j>> \in v.ctl.placed <=> <<q, j>> \in w.ctl.placed
    PROVE  Local(w, v, p)
<1>1. ASSUME NEW q \in POIs \ {p} PROVE Same(w, v, q)
  <2>1. \A j \in Nums : <<q, j>> \in Wrappers /\ v.layer[<<q, j>>] = w.layer[<<q, j>>]
    BY DEF Wrappers, Nums
  <2>2. \A j \in Nums : (\E u \in v.waiting : u.marker = <<q, j>>) <=> (\E u \in w.waiting : u.marker = <<q, j>>)
    OBVIOUS
  <2>3. InUse(v, q) = InUse(w, q)
    BY <2>1, <2>2 DEF InUse, Nums
  <2>. QED BY <2>1, <2>3 DEF Same
<1>. QED BY <1>1 DEF Local

-----------------------------------------------------------------------------
\* One marker and what is recorded of it

Mark(w, p) == w.layer[Wrapper(w, p)]

\* What is recorded of an icon.
KindOf(p, logo) == IF p \in Places THEN "none" ELSE IF logo = NoUrl THEN "emoji" ELSE "logo"

\* What the controller records of a marker is what is drawn.
RecordedAsDrawn(w, p) ==
    /\ w.ctl.style[p] = Mark(w, p).style /\ w.ctl.logo[p] = Mark(w, p).icon
    /\ w.ctl.kind[p] = KindOf(p, Mark(w, p).icon)
    /\ p \in Places => Mark(w, p).icon = NoUrl
    /\ w.ctl.applied[p] = IF Mark(w, p).want THEN "shown" ELSE "hidden"

\* Of the markers of a POI the layer has the controller's, if that; it is of the
\* controller's view, and unknown to the layer once that is destroyed.
Tidy(w, p) ==
    /\ \A i \in Nums : w.layer[<<p, i>>] # NoMarker <=> i = w.ctl.markers[p]
    /\ \A i \in Nums : <<p, i>> \in w.ctl.placed <=> i = w.ctl.markers[p]
    /\ w.ctl.markers[p] = 0 => w.ctl.applied[p] = "none"
    /\ w.ctl.markers[p] # 0 =>
            /\ RecordedAsDrawn(w, p)
            /\ Mark(w, p).view = w.ctl.view
            /\ Mark(w, p).known <=> w.ctl.view \notin w.dead

LEMMA MarkIs ==
    ASSUME NEW w \in Attended, NEW p \in POIs, w.ctl.markers[p] # 0
    PROVE  /\ w.ctl.markers[p] \in Nums /\ Wrapper(w, p) \in Wrappers
           /\ Tidy(w, p) => Mark(w, p) \in Marks
<1>1. w.ctl.markers[p] \in 0 .. MaxWrappers
  BY DEF Attended, Controllers
<1>2. w.ctl.markers[p] \in Nums
  BY <1>1, Distinctions DEF Nums
<1>3. Wrapper(w, p) \in Wrappers
  BY <1>2 DEF Wrapper, Wrappers, Nums
<1>4. Mark(w, p) \in Marks \cup {NoMarker}
  BY <1>3 DEF Mark, Attended, Worlds
<1>5. Tidy(w, p) => Mark(w, p) # NoMarker
  BY <1>2 DEF Tidy, Mark, Wrapper
<1>. QED BY <1>2, <1>3, <1>4, <1>5

\* Drawn again: with another style, another icon or an upgrade to wait for. A logo
\* is not given up.
Redrawn(w, v, p) ==
    /\ Local(w, v, p) /\ Tidy(v, p)
    /\ v.ctl.markers[p] = w.ctl.markers[p] /\ w.ctl.markers[p] # 0
    /\ Mark(v, p).want = Mark(w, p).want /\ Mark(v, p).onLayer = Mark(w, p).onLayer
    /\ Mark(v, p).known = Mark(w, p).known
    /\ Mark(w, p).icon # NoUrl => Mark(v, p).icon # NoUrl
    /\ InUse(v, p) = InUse(w, p)

LEMMA RedrawnOn ==
    /\ \A w \in Attended : \A p : Tidy(w, p) /\ w.ctl.markers[p] # 0 => Redrawn(w, w, p)
    /\ \A w, v, z, p : Redrawn(w, v, p) /\ Redrawn(v, z, p) => Redrawn(w, z, p)
  BY LocalOn DEF Redrawn

LEMMA StaysTidy ==
    ASSUME NEW w, NEW v, NEW p, Tidy(w, p), w.ctl.markers[p] \in Nums, w.ctl.markers[p] # 0,
           v.ctl.markers[p] = w.ctl.markers[p], v.ctl.placed = w.ctl.placed,
           v.ctl.view = w.ctl.view, v.dead = w.dead,
           \A j \in Nums : j # w.ctl.markers[p] => v.layer[<<p, j>>] = w.layer[<<p, j>>],
           v.layer[<<p, w.ctl.markers[p]>>] # NoMarker,
           Mark(v, p).view = Mark(w, p).view, Mark(v, p).known = Mark(w, p).known,
           RecordedAsDrawn(v, p)
    PROVE  Tidy(v, p)
<1>1. \A j \in Nums : (v.layer[<<p, j>>] # NoMarker) <=> (j = v.ctl.markers[p])
  BY DEF Tidy
<1>2. \A j \in Nums : <<p, j>> \in v.ctl.placed <=> j = v.ctl.markers[p]
  BY DEF Tidy
<1>3. Mark(v, p).view = v.ctl.view /\ (Mark(v, p).known <=> v.ctl.view \notin v.dead)
  BY DEF Tidy
<1>. QED BY <1>1, <1>2, <1>3 DEF Tidy

\* A new drawing of the marker of p, recorded.
LEMMA Redrawing ==
    ASSUME NEW w \in Attended, NEW v \in Attended, NEW p \in POIs,
           Tidy(w, p), w.ctl.markers[p] # 0,
           Around(w, v), Later(w.icons, v.icons), v.waiting = w.waiting,
           v.ctl.markers = w.ctl.markers, v.ctl.placed = w.ctl.placed, v.ctl.applied = w.ctl.applied,
           \A q \in POIs \ {p} : /\ v.ctl.style[q] = w.ctl.style[q] /\ v.ctl.logo[q] = w.ctl.logo[q]
                                 /\ v.ctl.kind[q] = w.ctl.kind[q],
           v.ctl.style[p] \in Styles, v.ctl.kind[p] = KindOf(p, v.ctl.logo[p]),
           p \in Places => v.ctl.logo[p] = NoUrl,
           Mark(w, p).icon # NoUrl => v.ctl.logo[p] # NoUrl,
           v.layer = [w.layer EXCEPT ![Wrapper(w, p)] =
                        [@ EXCEPT !.icon = v.ctl.logo[p], !.style = v.ctl.style[p]]]
    PROVE  Redrawn(w, v, p)
<1>. DEFINE n == w.ctl.markers[p]
            x == [Mark(w, p) EXCEPT !.icon = v.ctl.logo[p], !.style = v.ctl.style[p]]
<1>1. n \in Nums /\ Wrapper(w, p) = <<p, n>> /\ <<p, n>> \in Wrappers /\ Mark(w, p) \in Marks
  BY MarkIs DEF Wrapper
<1>2. /\ x.icon = v.ctl.logo[p] /\ x.style = v.ctl.style[p] /\ x.want = Mark(w, p).want
      /\ x.onLayer = Mark(w, p).onLayer /\ x.known = Mark(w, p).known /\ x.view = Mark(w, p).view
  BY <1>1 DEF Marks
<1>3. w.layer \in [Wrappers -> Marks \cup {NoMarker}] /\ v.layer \in [Wrappers -> Marks \cup {NoMarker}]
  BY DEF Attended, Worlds
<1>4. v.layer = [w.layer EXCEPT ![<<p, n>>] = x]
  BY <1>1 DEF Mark
<1>. HIDE DEF x
<1>5. Local(w, v, p)
  <2>1. \A q \in POIs \ {p} : \A j \in Nums : <<q, j>> \in v.ctl.placed <=> <<q, j>> \in w.ctl.placed
    OBVIOUS
  <2>2. \A m \in Wrappers : m[1] # p => v.layer[m] = w.layer[m]
    BY <1>3, <1>4
  <2>. QED BY <2>1, <2>2, LocalChange
<1>6. /\ Mark(v, p) = x /\ v.layer[<<p, n>>] = x
      /\ \A j \in Nums : j # n => v.layer[<<p, j>>] = w.layer[<<p, j>>]
  <2>1. \A j \in Nums : <<p, j>> \in Wrappers
    BY DEF Nums, Wrappers
  <2>. QED BY <1>1, <1>3, <1>4, <2>1 DEF Mark, Wrapper
<1>7. x # NoMarker /\ w.layer[<<p, n>>] # NoMarker
  <2>1. x \in Marks
    BY <1>1 DEF x, Marks, Attended, Controllers
  <2>2. w.layer[<<p, n>>] = Mark(w, p)
    BY <1>1 DEF Mark
  <2>. QED BY <1>1, <2>1, <2>2, Distinctions
<1>8. Tidy(v, p)
  <2>1. RecordedAsDrawn(v, p)
    <3>1. w.ctl.applied[p] = (IF Mark(w, p).want THEN "shown" ELSE "hidden")
      BY DEF Tidy, RecordedAsDrawn
    <3>2. v.ctl.applied[p] = (IF Mark(v, p).want THEN "shown" ELSE "hidden")
      BY Zenon, <1>2, <1>6, <3>1
    <3>3. v.ctl.style[p] = Mark(v, p).style /\ v.ctl.logo[p] = Mark(v, p).icon
      BY Zenon, <1>2, <1>6
    <3>. QED BY <3>2, <3>3 DEF RecordedAsDrawn
  <2>2. Mark(v, p).view = Mark(w, p).view /\ Mark(v, p).known = Mark(w, p).known
    BY Zenon, <1>2, <1>6
  <2>3. v.dead = w.dead /\ v.ctl.view = w.ctl.view /\ v.layer[<<p, w.ctl.markers[p]>>] # NoMarker
    BY Zenon, <1>6, <1>7 DEF Around
  <2>4. \A j \in Nums : j # w.ctl.markers[p] => v.layer[<<p, j>>] = w.layer[<<p, j>>]
    BY Zenon, <1>6
  <2>5. w.ctl.markers[p] \in Nums /\ v.ctl.markers[p] = w.ctl.markers[p]
    BY <1>1
  <2>. QED BY <2>1, <2>2, <2>3, <2>4, <2>5, StaysTidy
<1>9. InUse(v, p) = InUse(w, p)
  <2>1. \A j \in Nums : v.layer[<<p, j>>] # NoMarker <=> w.layer[<<p, j>>] # NoMarker
    BY <1>6, <1>7
  <2>. QED BY <2>1 DEF InUse, Nums
<1>10. Mark(w, p).icon # NoUrl => Mark(v, p).icon # NoUrl
  BY Zenon, <1>2, <1>6
<1>11. Mark(v, p).want = Mark(w, p).want /\ Mark(v, p).onLayer = Mark(w, p).onLayer
       /\ Mark(v, p).known = Mark(w, p).known
  BY Zenon, <1>2, <1>6
<1>. QED BY Zenon, <1>5, <1>8, <1>9, <1>10, <1>11 DEF Redrawn

LEMMA GlIconIs ==
    ASSUME NEW w \in Worlds, NEW p \in Companies
    PROVE  /\ GlIcon(w, p).icons \in KnownIcons /\ Later(w.icons, GlIcon(w, p).icons)
           /\ GlIcon(w, p).logo \in Logos /\ GlIcon(w, p).upgrade \in Logos
<1>. DEFINE r == Resolve(w.icons, Chain[p])
<1>1. r.icons \in KnownIcons /\ r.src \in Logos /\ Later(w.icons, r.icons)
  BY WorldHas, ChainsAreOfUrls, ResolveIs
<1>2. NoUrl \in Logos
  BY DEF Logos
<1>3. GlIcon(w, p) = GlIconFrom(r)
  BY DEF GlIcon
<1>. HIDE DEF r
<1>. QED BY <1>1, <1>2, <1>3 DEF GlIconFrom

\* The icon that is restored is recorded; a logo is restored as a logo.
LEMMA RestoreIconIs ==
    ASSUME NEW w \in Attended, NEW p \in POIs,
           p \in Places => w.ctl.logo[p] = NoUrl /\ w.ctl.kind[p] = "none"
    PROVE  \E i \in KnownIcons, l \in Logos :
              /\ Later(w.icons, i) /\ (p \in Places => l = NoUrl)
              /\ w.ctl.logo[p] # NoUrl => l = w.ctl.logo[p]
              /\ RestoreIcon(w, p).icon = l
              /\ RestoreIcon(w, p).w =
                    [icons |-> i, layer |-> w.layer, waiting |-> w.waiting,
                     ctl |-> [w.ctl EXCEPT !.logo = [@ EXCEPT ![p] = l],
                                           !.kind = [@ EXCEPT ![p] = KindOf(p, l)]],
                     fails |-> w.fails, dead |-> w.dead]
<1>1. w \in Worlds /\ w.ctl \in Controllers
  BY DEF Attended
<1>2. /\ w = [icons |-> w.icons, layer |-> w.layer, waiting |-> w.waiting, ctl |-> w.ctl,
              fails |-> w.fails, dead |-> w.dead]
      /\ w.icons \in KnownIcons
  BY <1>1, WorldHas
<1>3. w.ctl.logo \in [POIs -> Logos] /\ w.ctl.kind \in [POIs -> {"none", "emoji", "logo"}]
  BY <1>1 DEF Controllers
<1>4. [w.ctl EXCEPT !.logo = [@ EXCEPT ![p] = w.ctl.logo[p]],
                    !.kind = [@ EXCEPT ![p] = w.ctl.kind[p]]] = w.ctl
  <2>1. [w.ctl.logo EXCEPT ![p] = w.ctl.logo[p]] = w.ctl.logo
    BY <1>3
  <2>2. [w.ctl.kind EXCEPT ![p] = w.ctl.kind[p]] = w.ctl.kind
    BY <1>3
  <2>3. [w.ctl EXCEPT !.logo = w.ctl.logo, !.kind = w.ctl.kind] = w.ctl
    BY <1>1 DEF Controllers
  <2>. QED BY <2>1, <2>2, <2>3
<1>5. CASE p \in Places
  <2>1. RestoreIcon(w, p) = [w |-> w, icon |-> NoUrl]
    BY <1>5 DEF RestoreIcon
  <2>2. KindOf(p, NoUrl) = w.ctl.kind[p] /\ w.ctl.logo[p] = NoUrl /\ NoUrl \in Logos
    BY <1>5 DEF KindOf, Logos
  <2>3. RestoreIcon(w, p).icon = NoUrl
    BY <2>1
  <2>4. RestoreIcon(w, p).w =
            [icons |-> w.icons, layer |-> w.layer, waiting |-> w.waiting,
             ctl |-> [w.ctl EXCEPT !.logo = [@ EXCEPT ![p] = NoUrl],
                                   !.kind = [@ EXCEPT ![p] = KindOf(p, NoUrl)]],
             fails |-> w.fails, dead |-> w.dead]
    BY <1>2, <1>4, <2>1, <2>2
  <2>5. Later(w.icons, w.icons)
    BY LaterOn
  <2>6. w.icons \in KnownIcons /\ NoUrl \in Logos
    BY <1>2, <2>2
  <2>. USE <2>6
  <2>. WITNESS w.icons \in KnownIcons, NoUrl \in Logos
  <2>. QED BY Zenon, <2>2, <2>3, <2>4, <2>5
<1>6. CASE p \notin Places /\ w.ctl.logo[p] # NoUrl
  <2>1. RestoreIcon(w, p) = [w |-> [w EXCEPT !.ctl.kind[p] = "logo"], icon |-> w.ctl.logo[p]]
    BY <1>6 DEF RestoreIcon
  <2>2. KindOf(p, w.ctl.logo[p]) = "logo" /\ w.ctl.logo[p] \in Logos
    BY <1>3, <1>6 DEF KindOf
  <2>3. [w EXCEPT !.ctl.kind[p] = "logo"] =
            [icons |-> w.icons, layer |-> w.layer, waiting |-> w.waiting,
             ctl |-> [w.ctl EXCEPT !.logo = [@ EXCEPT ![p] = w.ctl.logo[p]],
                                   !.kind = [@ EXCEPT ![p] = "logo"]],
             fails |-> w.fails, dead |-> w.dead]
    <3>1. [w.ctl EXCEPT !.logo = w.ctl.logo, !.kind = [@ EXCEPT ![p] = "logo"]]
            = [w.ctl EXCEPT !.kind = [@ EXCEPT ![p] = "logo"]]
      BY <1>1 DEF Controllers
    <3>2. [w.ctl.logo EXCEPT ![p] = w.ctl.logo[p]] = w.ctl.logo
      BY <1>3
    <3>3. [w EXCEPT !.ctl.kind[p] = "logo"] =
            [icons |-> w.icons, layer |-> w.layer, waiting |-> w.waiting,
             ctl |-> [w.ctl EXCEPT !.kind = [@ EXCEPT ![p] = "logo"]],
             fails |-> w.fails, dead |-> w.dead]
      BY <1>1 DEF Worlds
    <3>. QED BY <3>1, <3>2, <3>3
  <2>4. RestoreIcon(w, p).icon = w.ctl.logo[p]
    BY <2>1
  <2>5. RestoreIcon(w, p).w =
            [icons |-> w.icons, layer |-> w.layer, waiting |-> w.waiting,
             ctl |-> [w.ctl EXCEPT !.logo = [@ EXCEPT ![p] = w.ctl.logo[p]],
                                   !.kind = [@ EXCEPT ![p] = KindOf(p, w.ctl.logo[p])]],
             fails |-> w.fails, dead |-> w.dead]
    BY <2>1, <2>2, <2>3
  <2>6. Later(w.icons, w.icons)
    BY LaterOn
  <2>7. w.icons \in KnownIcons /\ w.ctl.logo[p] \in Logos
    BY <1>2, <2>2
  <2>. USE <2>7
  <2>. WITNESS w.icons \in KnownIcons, w.ctl.logo[p] \in Logos
  <2>. QED BY Zenon, <1>6, <2>4, <2>5, <2>6
<1>7. CASE p \notin Places /\ w.ctl.logo[p] = NoUrl
  <2>. DEFINE gl == GlIcon(w, p)
  <2>1. gl.icons \in KnownIcons /\ Later(w.icons, gl.icons) /\ gl.logo \in Logos
    BY <1>1, <1>7, GlIconIs DEF POIs
  <2>2. RestoreIcon(w, p) = Recorded(w, p, gl)
    BY <1>7 DEF RestoreIcon
  <2>3. KindOf(p, gl.logo) = IF gl.logo = NoUrl THEN "emoji" ELSE "logo"
    BY <1>7 DEF KindOf
  <2>. HIDE DEF gl
  <2>4. RestoreIcon(w, p).icon = gl.logo
    BY <2>2 DEF Recorded
  <2>5. RestoreIcon(w, p).w =
            [icons |-> gl.icons, layer |-> w.layer, waiting |-> w.waiting,
             ctl |-> [w.ctl EXCEPT !.logo = [@ EXCEPT ![p] = gl.logo],
                                   !.kind = [@ EXCEPT ![p] = KindOf(p, gl.logo)]],
             fails |-> w.fails, dead |-> w.dead]
    <3>1. RestoreIcon(w, p).w =
            [w EXCEPT !.icons = gl.icons, !.ctl.logo[p] = gl.logo,
                      !.ctl.kind[p] = KindOf(p, gl.logo)]
      BY <2>2, <2>3 DEF Recorded
    <3>. QED BY <1>1, <3>1 DEF Worlds, Controllers
  <2>. QED BY <1>7, <2>1, <2>4, <2>5
<1>. QED BY <1>5, <1>6, <1>7

LEMMA ApplyStyleIs ==
    ASSUME NEW w \in Attended, NEW p \in POIs, Tidy(w, p), w.ctl.markers[p] # 0, NEW s \in Styles
    PROVE  /\ Redrawn(w, ApplyStyle(w, p, Wrapper(w, p), s), p)
           /\ ApplyStyle(w, p, Wrapper(w, p), s).ctl.style[p] = s
<1>1. CASE w.ctl.style[p] = s
  BY <1>1, RedrawnOn DEF ApplyStyle
<1>2. CASE w.ctl.style[p] # s
  <2>. DEFINE u == [w EXCEPT !.ctl.style[p] = s]
              m == Wrapper(w, p)
  <2>1. w \in Worlds /\ w.ctl \in Controllers
    BY DEF Attended
  <2>2. u = [icons |-> w.icons, layer |-> w.layer, waiting |-> w.waiting,
             ctl |-> [w.ctl EXCEPT !.style = [@ EXCEPT ![p] = s]],
             fails |-> w.fails, dead |-> w.dead]
    BY <2>1 DEF Worlds
  <2>3. [w.ctl EXCEPT !.style = [@ EXCEPT ![p] = s]] \in Controllers
    BY <2>1 DEF Controllers
  <2>. HIDE DEF u
  <2>4. u \in Attended
    BY <2>1, <2>2, <2>3, WorldIs, WorldHas DEF Attended, NoneWaitsInVain
  <2>5. u.ctl.logo = w.ctl.logo /\ u.ctl.kind = w.ctl.kind /\ u.icons = w.icons /\ u.layer = w.layer
        /\ u.ctl = [w.ctl EXCEPT !.style = [@ EXCEPT ![p] = s]]
        /\ u.waiting = w.waiting /\ u.fails = w.fails /\ u.dead = w.dead
    BY <2>1, <2>2 DEF Controllers
  <2>6. w.ctl.logo[p] = Mark(w, p).icon /\ w.ctl.kind[p] = KindOf(p, Mark(w, p).icon)
        /\ (p \in Places => Mark(w, p).icon = NoUrl)
    BY DEF Tidy, RecordedAsDrawn
  <2>7. PICK i \in KnownIcons, l \in Logos :
              /\ Later(u.icons, i) /\ (p \in Places => l = NoUrl)
              /\ u.ctl.logo[p] # NoUrl => l = u.ctl.logo[p]
              /\ RestoreIcon(u, p).icon = l
              /\ RestoreIcon(u, p).w =
                    [icons |-> i, layer |-> u.layer, waiting |-> u.waiting,
                     ctl |-> [u.ctl EXCEPT !.logo = [@ EXCEPT ![p] = l],
                                           !.kind = [@ EXCEPT ![p] = KindOf(p, l)]],
                     fails |-> u.fails, dead |-> u.dead]
    <3>1. p \in Places => u.ctl.logo[p] = NoUrl /\ u.ctl.kind[p] = "none"
      BY <2>5, <2>6 DEF KindOf
    <3>. QED BY Zenon, <2>4, <3>1, RestoreIconIs
  <2>. DEFINE c == [w.ctl EXCEPT !.style = [@ EXCEPT ![p] = s], !.logo = [@ EXCEPT ![p] = l],
                                 !.kind = [@ EXCEPT ![p] = KindOf(p, l)]]
              x == [w.layer[m] EXCEPT !.icon = l, !.style = s]
              v == ApplyStyle(w, p, m, s)
  <2>8. v = SetIcon(RestoreIcon(u, p).w, m, l, s)
    BY <1>2, <2>7 DEF ApplyStyle, SetDrawn, u
  <2>9. [u.ctl EXCEPT !.logo = [@ EXCEPT ![p] = l], !.kind = [@ EXCEPT ![p] = KindOf(p, l)]] = c
    BY <2>1, <2>5 DEF Controllers
  <2>. HIDE DEF c, v
  <2>10. RestoreIcon(u, p).w =
             [icons |-> i, layer |-> w.layer, waiting |-> w.waiting, ctl |-> c,
              fails |-> w.fails, dead |-> w.dead]
    BY Zenon, <2>5, <2>7, <2>9
  <2>11. v = [icons |-> i, layer |-> [w.layer EXCEPT ![m] = [@ EXCEPT !.icon = l, !.style = s]],
              waiting |-> w.waiting, ctl |-> c, fails |-> w.fails, dead |-> w.dead]
    BY <2>8, <2>10 DEF SetIcon
  <2>12. c \in Controllers /\ Later(w.icons, i)
    BY <2>1, <2>5, <2>7 DEF c, Controllers, KindOf
  <2>13. v \in Attended
    <3>1. Mark(w, p) \in Marks /\ m \in Wrappers
      BY MarkIs
    <3>2. [w.layer[m] EXCEPT !.icon = l, !.style = s] \in Marks
      BY <3>1 DEF Marks, Mark
    <3>3. [w.layer EXCEPT ![m] = [@ EXCEPT !.icon = l, !.style = s]] \in [Wrappers -> Marks \cup {NoMarker}]
      BY <2>1, <3>2, WorldHas
    <3>4. w.waiting \in SUBSET Awaited /\ w.fails \in SUBSET POIs /\ w.dead \in SUBSET Nat
          /\ \A t \in w.waiting : t.url \in i.fetching
      BY <2>1, <2>12, WorldHas DEF Attended, NoneWaitsInVain, Later
    <3>. HIDE DEF m
    <3>. QED BY <2>7, <2>11, <2>12, <3>3, <3>4, WorldIs
  <2>14. /\ c.style = [w.ctl.style EXCEPT ![p] = s] /\ c.logo = [w.ctl.logo EXCEPT ![p] = l]
         /\ c.kind = [w.ctl.kind EXCEPT ![p] = KindOf(p, l)] /\ c.markers = w.ctl.markers
         /\ c.placed = w.ctl.placed /\ c.applied = w.ctl.applied /\ c.view = w.ctl.view
         /\ c.visible = w.ctl.visible /\ c.selected = w.ctl.selected
         /\ c.highlighted = w.ctl.highlighted
    BY <2>1 DEF c, Controllers
  <2>15. /\ v.ctl = c /\ v.icons = i /\ v.waiting = w.waiting /\ v.fails = w.fails /\ v.dead = w.dead
         /\ v.layer = [w.layer EXCEPT ![m] = [@ EXCEPT !.icon = l, !.style = s]]
    BY Zenon, <2>11
  <2>16. /\ w.ctl.style \in [POIs -> Styles \cup {"none"}] /\ w.ctl.logo \in [POIs -> Logos]
         /\ w.ctl.kind \in [POIs -> {"none", "emoji", "logo"}]
    BY <2>1 DEF Controllers
  <2>17. /\ c.style[p] = s /\ c.logo[p] = l /\ c.kind[p] = KindOf(p, l)
         /\ \A q \in POIs \ {p} : c.style[q] = w.ctl.style[q] /\ c.logo[q] = w.ctl.logo[q]
                                  /\ c.kind[q] = w.ctl.kind[q]
    BY <2>14, <2>16
  <2>18. Around(w, v) /\ Later(w.icons, v.icons) /\ v.waiting = w.waiting
         /\ v.ctl.markers = w.ctl.markers /\ v.ctl.placed = w.ctl.placed /\ v.ctl.applied = w.ctl.applied
    BY Zenon, <2>12, <2>14, <2>15 DEF Around
  <2>19. /\ v.ctl.style[p] = s /\ v.ctl.logo[p] = l /\ v.ctl.kind[p] = KindOf(p, v.ctl.logo[p])
         /\ (p \in Places => v.ctl.logo[p] = NoUrl) /\ (Mark(w, p).icon # NoUrl => v.ctl.logo[p] # NoUrl)
    BY <2>5, <2>6, <2>7, <2>15, <2>17
  <2>20. \A q \in POIs \ {p} : v.ctl.style[q] = w.ctl.style[q] /\ v.ctl.logo[q] = w.ctl.logo[q]
                               /\ v.ctl.kind[q] = w.ctl.kind[q]
    BY Zenon, <2>15, <2>17
  <2>21. v.layer = [w.layer EXCEPT ![Wrapper(w, p)] =
                        [@ EXCEPT !.icon = v.ctl.logo[p], !.style = v.ctl.style[p]]]
    BY Zenon, <2>15, <2>19
  <2>22. Redrawn(w, v, p) /\ v.ctl.style[p] = s
    BY <2>13, <2>18, <2>19, <2>20, <2>21, Redrawing
  <2>. QED BY <2>22 DEF v
<1>. QED BY <1>1, <1>2

\* What is said of a POI depends on what concerns it, and nothing else.
LEMMA Alike ==
    ASSUME NEW w \in Attended, NEW v, NEW p \in POIs, Same(w, v, p), Around(w, v)
    PROVE  /\ w.ctl.markers[p] # 0 => Mark(v, p) = Mark(w, p)
           /\ Tidy(w, p) => Tidy(v, p)
           /\ Wrapper(v, p) = Wrapper(w, p)
<1>1. Wrapper(v, p) = Wrapper(w, p) /\ v.ctl.markers[p] = w.ctl.markers[p]
  BY DEF Same, Wrapper
<1>2. w.ctl.markers[p] # 0 => Mark(v, p) = Mark(w, p)
  <2>. SUFFICES ASSUME w.ctl.markers[p] # 0 PROVE Mark(v, p) = Mark(w, p)
    OBVIOUS
  <2>1. w.ctl.markers[p] \in Nums
    BY MarkIs
  <2>. QED BY <1>1, <2>1 DEF Same, Mark, Wrapper
<1>3. ASSUME Tidy(w, p) PROVE Tidy(v, p)
  <2>1. /\ \A i \in Nums : v.layer[<<p, i>>] # NoMarker <=> i = v.ctl.markers[p]
        /\ \A i \in Nums : <<p, i>> \in v.ctl.placed <=> i = v.ctl.markers[p]
        /\ v.ctl.markers[p] = 0 => v.ctl.applied[p] = "none"
    BY <1>1, <1>3 DEF Same, Tidy
  <2>2. ASSUME v.ctl.markers[p] # 0
        PROVE  /\ RecordedAsDrawn(v, p) /\ Mark(v, p).view = v.ctl.view
               /\ Mark(v, p).known <=> v.ctl.view \notin v.dead
    <3>1. RecordedAsDrawn(v, p)
      BY <1>1, <1>2, <1>3, <2>2 DEF Tidy, RecordedAsDrawn, Same
    <3>. QED BY <1>1, <1>2, <1>3, <2>2, <3>1 DEF Tidy, Around
  <2>. QED BY <2>1, <2>2 DEF Tidy
<1>. QED BY <1>1, <1>2, <1>3

\* What is known of logos concerns no POI.
LEMMA IconsAlone ==
    ASSUME NEW w \in Attended, NEW i \in KnownIcons, w.icons.fetching \subseteq i.fetching
    PROVE  /\ [w EXCEPT !.icons = i] \in Attended /\ Around(w, [w EXCEPT !.icons = i])
           /\ [w EXCEPT !.icons = i].icons = i
           /\ \A q : Same(w, [w EXCEPT !.icons = i], q)
<1>. DEFINE v == [w EXCEPT !.icons = i]
<1>1. w \in Worlds /\ w.ctl \in Controllers
  BY DEF Attended
<1>2. v = [icons |-> i, layer |-> w.layer, waiting |-> w.waiting, ctl |-> w.ctl,
           fails |-> w.fails, dead |-> w.dead]
  BY <1>1 DEF Worlds
<1>. HIDE DEF v
<1>3. v \in Attended
  <2>1. \A u \in w.waiting : u.url \in i.fetching
    BY DEF Attended, NoneWaitsInVain
  <2>. QED BY <1>1, <1>2, <2>1, WorldIs, WorldHas
<1>4. /\ v.icons = i /\ v.layer = w.layer /\ v.waiting = w.waiting /\ v.ctl = w.ctl
      /\ v.fails = w.fails /\ v.dead = w.dead
  BY Zenon, <1>2
<1>5. \A q : Same(w, v, q)
  BY <1>4 DEF Same, InUse
<1>6. Around(w, v)
  BY <1>4 DEF Around
<1>. QED BY <1>3, <1>4, <1>5, <1>6 DEF v

LEMMA IconsRedrawn ==
    ASSUME NEW w \in Attended, NEW p \in POIs, Tidy(w, p), w.ctl.markers[p] # 0,
           NEW i \in KnownIcons, Later(w.icons, i)
    PROVE  Redrawn(w, [w EXCEPT !.icons = i], p)
<1>. DEFINE v == [w EXCEPT !.icons = i]
<1>1. v \in Attended /\ Around(w, v) /\ v.icons = i /\ \A q : Same(w, v, q)
  BY IconsAlone DEF Later
<1>. HIDE DEF v
<1>2. Local(w, v, p)
  BY <1>1 DEF Local
<1>3. Mark(v, p) = Mark(w, p) /\ Tidy(v, p) /\ Same(w, v, p)
  BY <1>1, Alike
<1>4. v.ctl.markers[p] = w.ctl.markers[p] /\ InUse(v, p) = InUse(w, p)
  BY <1>3 DEF Same
<1>5. Redrawn(w, v, p)
  BY <1>2, <1>3, <1>4 DEF Redrawn
<1>. QED BY <1>5 DEF v

LEMMA FetchIs ==
    ASSUME NEW i \in KnownIcons, NEW url \in Urls, CanFetch(i, url)
    PROVE  Fetch(i, url) \in KnownIcons /\ Later(i, Fetch(i, url)) /\ url \in Fetch(i, url).fetching
<1>. DEFINE t == i.fetching \cup {url}
<1>1. Fetch(i, url) = [i EXCEPT !.fetching = t]
  BY DEF Fetch
<1>2. i \in Icons /\ WithinBounds(i)
  BY DEF KnownIcons
<1>3. IsFiniteSet(t) /\ Cardinality(t) <= MaxFetching
  <2>1. CASE url \in i.fetching
    <3>1. t = i.fetching
      BY <2>1
    <3>. QED BY <1>2, <3>1 DEF WithinBounds
  <2>2. CASE url \notin i.fetching
    <3>1. IsFiniteSet(t) /\ Cardinality(t) = Cardinality(i.fetching) + 1 /\ Cardinality(i.fetching) \in Nat
      BY <1>2, <2>2, FS_AddElement, FS_CardinalityType DEF WithinBounds
    <3>. QED BY <2>2, <3>1, CacheBounds DEF CanFetch
  <2>. QED BY <2>1, <2>2
<1>4. t \subseteq Urls /\ url \in t /\ i.fetching \subseteq t
  BY <1>2 DEF Icons
<1>5. [i EXCEPT !.fetching = t] \in KnownIcons
  <2>. HIDE DEF t
  <2>. QED BY <1>2, <1>3, <1>4 DEF KnownIcons, Icons, WithinBounds
<1>6. Later(i, [i EXCEPT !.fetching = t]) /\ url \in [i EXCEPT !.fetching = t].fetching
  BY <1>2, <1>4 DEF Later, Icons
<1>. QED BY <1>1, <1>5, <1>6

LEMMA AwaitLogoIs ==
    ASSUME NEW w \in Attended, NEW p \in Companies, Tidy(w, p), w.ctl.markers[p] # 0, NEW url \in Urls
    PROVE  /\ Redrawn(w, AwaitLogo(w, p, Wrapper(w, p), url), p)
           /\ AwaitLogo(w, p, Wrapper(w, p), url).ctl = w.ctl
           /\ AwaitLogo(w, p, Wrapper(w, p), url).layer = w.layer
<1>1. CASE ~CanFetch(w.icons, url)
  BY <1>1, RedrawnOn DEF AwaitLogo
<1>2. CASE CanFetch(w.icons, url)
  <2>. DEFINE v == AwaitLogo(w, p, Wrapper(w, p), url)
              i == Fetch(w.icons, url)
              a == [marker |-> Wrapper(w, p), url |-> url]
              t == w.waiting \cup {a}
  <2>1. w \in Worlds /\ w.ctl \in Controllers /\ p \in POIs
    BY DEF Attended, POIs
  <2>2. i \in KnownIcons /\ Later(w.icons, i) /\ url \in i.fetching
    BY <1>2, <2>1, FetchIs, WorldHas
  <2>3. v = [w EXCEPT !.icons = i, !.waiting = t]
    BY <1>2 DEF AwaitLogo
  <2>4. v = [icons |-> i, layer |-> w.layer, waiting |-> t, ctl |-> w.ctl,
             fails |-> w.fails, dead |-> w.dead]
    <3>. HIDE DEF i, t, v
    <3>. QED BY <2>1, <2>3 DEF Worlds
  <2>5. w.ctl.markers[p] \in Nums
    BY <2>1, MarkIs
  <2>6. a \in Awaited
    BY <2>5 DEF Awaited, Wrapper
  <2>7. t \in SUBSET Awaited /\ \A u \in t : u.url \in i.fetching
    BY <2>1, <2>2, <2>6, WorldHas DEF Attended, NoneWaitsInVain, Later
  <2>. HIDE DEF i, v
  <2>8. v \in Attended
    <3>. HIDE DEF t
    <3>. QED BY <2>1, <2>2, <2>4, <2>7, WorldIs, WorldHas
  <2>9. /\ v.icons = i /\ v.layer = w.layer /\ v.waiting = t /\ v.ctl = w.ctl
        /\ v.fails = w.fails /\ v.dead = w.dead
    BY Zenon, <2>4
  <2>10. Local(w, v, p)
    <3>1. Around(w, v) /\ Later(w.icons, v.icons)
      BY <2>2, <2>9 DEF Around
    <3>2. w.waiting \subseteq v.waiting /\ \A u \in v.waiting : u \in w.waiting \/ u.marker[1] = p
      BY <2>9 DEF Wrapper
    <3>. HIDE DEF t
    <3>. QED BY <2>1, <2>8, <2>9, <3>1, <3>2, LocalChange
  <2>11. InUse(v, p) = InUse(w, p)
    <3>1. w.layer[<<p, w.ctl.markers[p]>>] # NoMarker
      BY <2>5 DEF Tidy
    <3>2. \A n \in Nums : (\E u \in t : u.marker = <<p, n>>) <=>
                          (n = w.ctl.markers[p] \/ \E u \in w.waiting : u.marker = <<p, n>>)
      <4>1. \A n \in Nums : a.marker = <<p, n>> <=> n = w.ctl.markers[p]
        BY DEF Wrapper
      <4>. HIDE DEF a
      <4>. QED BY <4>1
    <3>3. \A n \in Nums : v.layer[<<p, n>>] = w.layer[<<p, n>>]
      BY <2>9
    <3>. QED BY <2>5, <2>9, <3>1, <3>2, <3>3 DEF InUse, Nums
  <2>12. Tidy(v, p) /\ Mark(v, p) = Mark(w, p)
    BY <2>9 DEF Tidy, Mark, Wrapper, RecordedAsDrawn
  <2>13. Redrawn(w, v, p)
    BY <2>9, <2>10, <2>11, <2>12 DEF Redrawn
  <2>. QED BY <2>9, <2>13 DEF v
<1>. QED BY <1>1, <1>2

\* The upgrade reaches the marker it was asked for, or none.
LEMMA ApplyLogoUpgradeIs ==
    ASSUME NEW w \in Attended, NEW p \in Companies, Tidy(w, p), NEW n \in Nums, NEW url \in Urls
    PROVE  LET v == ApplyLogoUpgrade(w, p, <<p, n>>, url)
           IN  (v = w \/ Redrawn(w, v, p)) /\ v.ctl.style[p] = w.ctl.style[p]
<1>. DEFINE m == <<p, n>>
            v == ApplyLogoUpgrade(w, p, m, url)
<1>0. w \in Worlds /\ w.ctl \in Controllers /\ p \in POIs /\ p \notin Places /\ url # NoUrl
  BY Distinctions DEF Attended, POIs
<1>1. CASE m # Wrapper(w, p)
  BY <1>1 DEF ApplyLogoUpgrade
<1>2. CASE m = Wrapper(w, p)
  <2>1. w.ctl.markers[p] = n /\ n # 0
    BY <1>2, Distinctions DEF Wrapper, Nums
  <2>2. w.ctl # NoController
    BY <1>0, Distinctions
  <2>3. Mark(w, p) \in Marks /\ w.ctl.style[p] = Mark(w, p).style /\ m \in Wrappers
    BY <1>0, <1>2, <2>1, MarkIs DEF Tidy, RecordedAsDrawn
  <2>. DEFINE s == w.ctl.style[p]
              known == [w EXCEPT !.ctl.logo[p] = url, !.ctl.kind[p] = "logo", !.ctl.style[p] = "none"]
              c == [w.ctl EXCEPT !.logo = [@ EXCEPT ![p] = url], !.kind = [@ EXCEPT ![p] = "logo"]]
              u == [known EXCEPT !.ctl.style[p] = s]
  <2>4. s \in Styles /\ s # "none"
    BY <2>3 DEF Marks, Styles
  <2>5. v = ApplyStyle(known, p, m, s)
    BY <1>2, <2>2 DEF ApplyLogoUpgrade
  <2>6. known = [icons |-> w.icons, layer |-> w.layer, waiting |-> w.waiting,
                 ctl |-> [c EXCEPT !.style = [@ EXCEPT ![p] = "none"]],
                 fails |-> w.fails, dead |-> w.dead]
    <3>1. known = [w EXCEPT !.ctl = [w.ctl EXCEPT !.logo = [@ EXCEPT ![p] = url],
                        !.kind = [@ EXCEPT ![p] = "logo"], !.style = [@ EXCEPT ![p] = "none"]]]
      BY <1>0 DEF Worlds, Controllers
    <3>2. [w.ctl EXCEPT !.logo = [@ EXCEPT ![p] = url], !.kind = [@ EXCEPT ![p] = "logo"],
                        !.style = [@ EXCEPT ![p] = "none"]]
            = [c EXCEPT !.style = [@ EXCEPT ![p] = "none"]]
      BY <1>0 DEF Controllers
    <3>. HIDE DEF known, c
    <3>. QED BY <1>0, <3>1, <3>2 DEF Worlds
  <2>7. w.ctl.style \in [POIs -> Styles \cup {"none"}] /\ w.ctl.logo \in [POIs -> Logos]
        /\ w.ctl.kind \in [POIs -> {"none", "emoji", "logo"}]
    BY <1>0 DEF Controllers
  <2>8. /\ c.style = w.ctl.style /\ c.logo = [w.ctl.logo EXCEPT ![p] = url]
        /\ c.kind = [w.ctl.kind EXCEPT ![p] = "logo"] /\ c.markers = w.ctl.markers
        /\ c.placed = w.ctl.placed /\ c.applied = w.ctl.applied /\ c.view = w.ctl.view
        /\ c.visible = w.ctl.visible /\ c.selected = w.ctl.selected
        /\ c.highlighted = w.ctl.highlighted
    BY <1>0 DEF Controllers
  <2>9. c \in Controllers
    BY <1>0 DEF Controllers, Logos
  <2>10. known.ctl.style[p] = "none"
    <3>1. [c.style EXCEPT ![p] = "none"][p] = "none"
      BY <1>0, <2>7, <2>8
    <3>2. [c EXCEPT !.style = [@ EXCEPT ![p] = "none"]].style = [c.style EXCEPT ![p] = "none"]
      <4>. HIDE DEF c
      <4>. QED BY <2>9 DEF Controllers
    <3>. HIDE DEF known, c
    <3>3. known.ctl = [c EXCEPT !.style = [@ EXCEPT ![p] = "none"]]
      BY <2>6
    <3>. QED BY <3>1, <3>2, <3>3
  <2>11. u = [icons |-> w.icons, layer |-> w.layer, waiting |-> w.waiting, ctl |-> c,
              fails |-> w.fails, dead |-> w.dead]
    <3>1. [[c EXCEPT !.style = [@ EXCEPT ![p] = "none"]] EXCEPT !.style = [@ EXCEPT ![p] = s]] = c
      <4>1. [[w.ctl.style EXCEPT ![p] = "none"] EXCEPT ![p] = s] = w.ctl.style
        BY <2>7
      <4>2. [[c EXCEPT !.style = [@ EXCEPT ![p] = "none"]] EXCEPT !.style = [@ EXCEPT ![p] = s]]
                = [c EXCEPT !.style = [[w.ctl.style EXCEPT ![p] = "none"] EXCEPT ![p] = s]]
        <5>. HIDE DEF c, s
        <5>. QED BY <2>8, <2>9 DEF Controllers
      <4>3. [c EXCEPT !.style = w.ctl.style] = c
        <5>. HIDE DEF c
        <5>. QED BY <2>8, <2>9 DEF Controllers
      <4>. QED BY <4>1, <4>2, <4>3
    <3>2. u = [known EXCEPT !.ctl = [known.ctl EXCEPT !.style = [@ EXCEPT ![p] = s]]]
      <4>. HIDE DEF c, s, known
      <4>. QED BY <2>6
    <3>. HIDE DEF c, s, known, u
    <3>3. known.ctl = [c EXCEPT !.style = [@ EXCEPT ![p] = "none"]]
      BY <2>6
    <3>4. u = [known EXCEPT !.ctl = c]
      BY <3>1, <3>2, <3>3
    <3>. QED BY <2>6, <3>4
  <2>. HIDE DEF known, c, s, u
  <2>12. v = SetDrawn(RestoreIcon(u, p), m, s)
    BY <2>4, <2>5, <2>10 DEF ApplyStyle, u
  <2>13. u.ctl.logo[p] = url /\ u.ctl.kind[p] = "logo"
    BY <1>0, <2>7, <2>8, <2>11
  <2>14. RestoreIcon(u, p) = [w |-> [u EXCEPT !.ctl.kind[p] = "logo"], icon |-> url]
    BY <1>0, <2>13 DEF RestoreIcon
  <2>15. [u EXCEPT !.ctl.kind[p] = "logo"] = u
    <3>1. [c.kind EXCEPT ![p] = "logo"] = c.kind
      BY <2>7, <2>8
    <3>2. [c EXCEPT !.kind = c.kind] = c
      BY <2>9 DEF Controllers
    <3>3. [u EXCEPT !.ctl = [c EXCEPT !.kind = [@ EXCEPT ![p] = "logo"]]] = u
      BY <2>11, <3>1, <3>2
    <3>4. u.ctl = c
      BY <2>11
    <3>. QED BY <3>3, <3>4
  <2>16. v = SetIcon(u, m, url, s)
    BY <2>12, <2>14, <2>15 DEF SetDrawn
  <2>17. v = [icons |-> w.icons, layer |-> [w.layer EXCEPT ![m] = [@ EXCEPT !.icon = url, !.style = s]],
              waiting |-> w.waiting, ctl |-> c, fails |-> w.fails, dead |-> w.dead]
    BY <2>11, <2>16 DEF SetIcon
  <2>. HIDE DEF v
  <2>18. v \in Attended
    <3>1. [w.layer[m] EXCEPT !.icon = url, !.style = s] \in Marks
      BY <1>2, <2>3, <2>4 DEF Marks, Mark, Logos
    <3>2. [w.layer EXCEPT ![m] = [@ EXCEPT !.icon = url, !.style = s]] \in [Wrappers -> Marks \cup {NoMarker}]
      BY <1>0, <2>3, <3>1, WorldHas
    <3>3. \A x \in w.waiting : x.url \in w.icons.fetching
      BY DEF Attended, NoneWaitsInVain
    <3>. HIDE DEF m
    <3>. QED BY <1>0, <2>9, <2>17, <3>2, <3>3, WorldIs, WorldHas
  <2>19. /\ v.ctl = c /\ v.icons = w.icons /\ v.waiting = w.waiting /\ v.fails = w.fails /\ v.dead = w.dead
         /\ v.layer = [w.layer EXCEPT ![m] = [@ EXCEPT !.icon = url, !.style = s]]
    BY Zenon, <2>17
  <2>20. Around(w, v) /\ Later(w.icons, v.icons) /\ v.waiting = w.waiting
         /\ v.ctl.markers = w.ctl.markers /\ v.ctl.placed = w.ctl.placed /\ v.ctl.applied = w.ctl.applied
    BY <2>8, <2>19, LaterOn DEF Around
  <2>21. /\ v.ctl.style[p] = s /\ v.ctl.logo[p] = url /\ v.ctl.kind[p] = KindOf(p, v.ctl.logo[p])
         /\ v.ctl.style[p] = w.ctl.style[p]
    BY <1>0, <2>7, <2>8, <2>19 DEF KindOf, s
  <2>22. \A q \in POIs \ {p} : v.ctl.style[q] = w.ctl.style[q] /\ v.ctl.logo[q] = w.ctl.logo[q]
                               /\ v.ctl.kind[q] = w.ctl.kind[q]
    BY <2>7, <2>8, <2>19
  <2>23. v.layer = [w.layer EXCEPT ![Wrapper(w, p)] =
                        [@ EXCEPT !.icon = v.ctl.logo[p], !.style = v.ctl.style[p]]]
    BY Zenon, <1>2, <2>19, <2>21
  <2>24. v.ctl.logo[p] # NoUrl /\ (p \in Places => v.ctl.logo[p] = NoUrl) /\ v.ctl.style[p] \in Styles
         /\ w.ctl.markers[p] # 0
    BY <1>0, <2>1, <2>4, <2>21
  <2>25. Redrawn(w, v, p)
    BY <1>0, <2>18, <2>20, <2>21, <2>22, <2>23, <2>24, Redrawing
  <2>. QED BY <2>21, <2>25 DEF v
<1>. QED BY <1>1, <1>2

LEMMA MaybeUpgradeIs ==
    ASSUME NEW w \in Attended, NEW p \in POIs, Tidy(w, p), w.ctl.markers[p] # 0
    PROVE  LET v == MaybeUpgrade(w, p, Wrapper(w, p))
           IN  Redrawn(w, v, p) /\ v.ctl.style[p] = w.ctl.style[p]
<1>1. CASE w.ctl.kind[p] # "emoji" \/ ~Wanted(w, p)
  BY <1>1, RedrawnOn DEF MaybeUpgrade
<1>2. CASE ~(w.ctl.kind[p] # "emoji" \/ ~Wanted(w, p))
  <2>. DEFINE gl == GlIcon(w, p)
              a == [w EXCEPT !.icons = gl.icons]
              n == w.ctl.markers[p]
              v == MaybeUpgrade(w, p, Wrapper(w, p))
  <2>1. p \in Companies
    BY <1>2 DEF Tidy, RecordedAsDrawn, KindOf, POIs
  <2>2. gl.icons \in KnownIcons /\ Later(w.icons, gl.icons) /\ gl.logo \in Logos /\ gl.upgrade \in Logos
    BY <2>1, GlIconIs DEF Attended
  <2>3. v = UpgradeTo(gl, a, p, Wrapper(w, p))
    BY <1>2 DEF MaybeUpgrade, UpgradeIcon
  <2>4. n \in Nums /\ Wrapper(w, p) = <<p, n>>
    BY MarkIs DEF Wrapper
  <2>. HIDE DEF gl, v
  <2>5. Redrawn(w, a, p)
    BY <2>2, IconsRedrawn
  <2>6. a.ctl = w.ctl
    BY DEF Attended, Worlds
  <2>. HIDE DEF a
  <2>7. a \in Attended /\ Tidy(a, p) /\ a.ctl.markers[p] # 0 /\ Wrapper(a, p) = Wrapper(w, p)
    BY <2>5, <2>6 DEF Redrawn, Local, Wrapper
  <2>8. (v = a \/ Redrawn(a, v, p)) /\ v.ctl.style[p] = a.ctl.style[p]
    <3>1. CASE gl.logo # NoUrl
      <4>1. gl.logo \in Urls /\ v = ApplyLogoUpgrade(a, p, <<p, n>>, gl.logo)
        BY <2>2, <2>3, <2>4, <3>1 DEF Logos, UpgradeTo
      <4>. HIDE DEF n
      <4>. QED BY <2>1, <2>4, <2>7, <4>1, ApplyLogoUpgradeIs
    <3>2. CASE gl.logo = NoUrl /\ gl.upgrade = NoUrl
      BY <2>3, <3>2 DEF UpgradeTo
    <3>3. CASE gl.logo = NoUrl /\ gl.upgrade # NoUrl
      <4>1. gl.upgrade \in Urls /\ v = AwaitLogo(a, p, Wrapper(a, p), gl.upgrade)
        BY <2>2, <2>3, <2>7, <3>3 DEF Logos, UpgradeTo
      <4>. QED BY <2>1, <2>7, <4>1, AwaitLogoIs
    <3>. QED BY <3>1, <3>2, <3>3
  <2>9. Redrawn(w, v, p) /\ v.ctl.style[p] = w.ctl.style[p]
    BY <2>5, <2>6, <2>8, RedrawnOn
  <2>. QED BY <2>9 DEF v
<1>. QED BY <1>1, <1>2

\* On the layer if it is meant to be shown.
Up(w, p) == Mark(w, p).want => Mark(w, p).onLayer

\* Shown or hidden, as wanted; what was on the layer and is not refused still is.
Shown(w, v, p) ==
    /\ Local(w, v, p) /\ Tidy(v, p)
    /\ v.ctl.markers[p] = w.ctl.markers[p] /\ w.ctl.markers[p] # 0
    /\ Mark(v, p).want <=> Wanted(w, p)
    /\ Mark(v, p).icon = Mark(w, p).icon /\ v.ctl.style[p] = w.ctl.style[p]
    /\ Mark(v, p).known = Mark(w, p).known
    /\ Up(w, p) /\ p \notin w.fails => Up(v, p)
    /\ InUse(v, p) = InUse(w, p)

LEMMA ApplyVisibilityIs ==
    ASSUME NEW w \in Attended, NEW p \in POIs, Tidy(w, p), w.ctl.markers[p] # 0
    PROVE  Shown(w, ApplyVisibility(w, p), p)
<1>. DEFINE on == Wanted(w, p)
            n == w.ctl.markers[p]
            m == Wrapper(w, p)
            a == IF on THEN "shown" ELSE "hidden"
            v == ApplyVisibility(w, p)
<1>1. n \in Nums /\ m = <<p, n>> /\ m \in Wrappers /\ Mark(w, p) \in Marks /\ w.layer[m] = Mark(w, p)
  BY MarkIs DEF Wrapper, Mark
<1>2. w.ctl.applied[p] = (IF Mark(w, p).want THEN "shown" ELSE "hidden")
  BY DEF Tidy, RecordedAsDrawn
<1>3. Mark(w, p).want \in BOOLEAN /\ Mark(w, p).onLayer \in BOOLEAN /\ Mark(w, p).known \in BOOLEAN
  BY <1>1 DEF Marks
<1>4. on \in BOOLEAN
  BY DEF Wanted
<1>5. CASE w.ctl.applied[p] = a
  <2>1. v = w
    BY <1>5 DEF ApplyVisibility
  <2>2. Mark(w, p).want <=> on
    <3>. HIDE DEF on
    <3>. QED BY <1>2, <1>3, <1>5
  <2>3. Local(w, w, p)
    BY LocalOn
  <2>4. Shown(w, w, p)
    BY <2>2, <2>3 DEF Shown
  <2>. HIDE DEF v
  <2>. QED BY <2>1, <2>4 DEF v
<1>6. CASE w.ctl.applied[p] # a
  <2>. DEFINE u == [w EXCEPT !.ctl.applied[p] = a]
              c == [w.ctl EXCEPT !.applied = [@ EXCEPT ![p] = a]]
              x == [Mark(w, p) EXCEPT !.want = on, !.onLayer = on /\ m[1] \notin w.fails]
  <2>1. w \in Worlds /\ w.ctl \in Controllers
    BY DEF Attended
  <2>2. v = SetVisible(u, m, on)
    BY <1>6 DEF ApplyVisibility
  <2>3. u = [icons |-> w.icons, layer |-> w.layer, waiting |-> w.waiting, ctl |-> c,
             fails |-> w.fails, dead |-> w.dead]
    <3>1. u = [w EXCEPT !.ctl = c]
      BY <2>1 DEF Worlds
    <3>. HIDE DEF c, u
    <3>. QED BY <2>1, <3>1 DEF Worlds
  <2>4. Mark(w, p).want # on
    <3>. HIDE DEF on
    <3>. QED BY <1>2, <1>3, <1>6
  <2>. HIDE DEF u, c, on, v, m
  <2>5. v = [icons |-> w.icons, layer |-> [w.layer EXCEPT ![m] = x], waiting |-> w.waiting, ctl |-> c,
             fails |-> w.fails, dead |-> w.dead]
    <3>1. u.layer = w.layer /\ u.fails = w.fails
      BY <2>3
    <3>2. u.layer[m].want # on
      BY <1>1, <2>4, <3>1
    <3>3. v = [u EXCEPT !.layer[m] = [@ EXCEPT !.want = on, !.onLayer = on /\ m[1] \notin u.fails]]
      BY <2>2, <3>2 DEF SetVisible
    <3>4. v = [u EXCEPT !.layer = [w.layer EXCEPT ![m] = x]]
      BY <1>1, <3>1, <3>3
    <3>. HIDE DEF x
    <3>. QED BY <2>3, <3>4
  <2>6. c \in Controllers
    BY <2>1 DEF c, Controllers
  <2>7. x \in Marks
    BY <1>1, <1>4 DEF Marks
  <2>8. /\ x.want = on /\ x.onLayer = (on /\ p \notin w.fails) /\ x.icon = Mark(w, p).icon
        /\ x.style = Mark(w, p).style /\ x.view = Mark(w, p).view /\ x.known = Mark(w, p).known
    BY <1>1 DEF Marks
  <2>. HIDE DEF x
  <2>9. v \in Attended
    <3>1. [w.layer EXCEPT ![m] = x] \in [Wrappers -> Marks \cup {NoMarker}]
      BY <1>1, <2>1, <2>7, WorldHas
    <3>2. \A t \in w.waiting : t.url \in w.icons.fetching
      BY DEF Attended, NoneWaitsInVain
    <3>. QED BY <2>1, <2>5, <2>6, <3>1, <3>2, WorldIs, WorldHas
  <2>10. /\ v.ctl = c /\ v.icons = w.icons /\ v.waiting = w.waiting /\ v.fails = w.fails /\ v.dead = w.dead
         /\ v.layer = [w.layer EXCEPT ![m] = x]
    BY Zenon, <2>5
  <2>11. /\ c.applied = [w.ctl.applied EXCEPT ![p] = a] /\ c.style = w.ctl.style /\ c.logo = w.ctl.logo
         /\ c.kind = w.ctl.kind /\ c.markers = w.ctl.markers /\ c.placed = w.ctl.placed
         /\ c.view = w.ctl.view /\ c.visible = w.ctl.visible /\ c.selected = w.ctl.selected
         /\ c.highlighted = w.ctl.highlighted /\ w.ctl.applied \in [POIs -> {"none", "shown", "hidden"}]
    BY <2>1 DEF c, Controllers
  <2>12. c.applied[p] = a /\ \A q \in POIs \ {p} : c.applied[q] = w.ctl.applied[q]
    BY <2>11
  <2>13. Local(w, v, p)
    <3>1. Around(w, v) /\ Later(w.icons, v.icons)
      BY <2>10, <2>11, LaterOn DEF Around
    <3>2. \A z \in Wrappers : z[1] # p => v.layer[z] = w.layer[z]
      BY <1>1, <2>1, <2>10, WorldHas
    <3>3. w.waiting \subseteq v.waiting /\ \A t \in v.waiting : t \in w.waiting \/ t.marker[1] = p
      BY <2>10
    <3>4. \A q \in POIs \ {p} :
                /\ v.ctl.markers[q] = w.ctl.markers[q] /\ v.ctl.style[q] = w.ctl.style[q]
                /\ v.ctl.kind[q] = w.ctl.kind[q] /\ v.ctl.logo[q] = w.ctl.logo[q]
                /\ v.ctl.applied[q] = w.ctl.applied[q]
                /\ \A j \in Nums : <<q, j>> \in v.ctl.placed <=> <<q, j>> \in w.ctl.placed
      BY <2>10, <2>11, <2>12
    <3>. QED BY <2>9, <3>1, <3>2, <3>3, <3>4, LocalChange
  <2>14. /\ Mark(v, p) = x /\ v.layer[<<p, n>>] = x
         /\ \A j \in Nums : j # n => v.layer[<<p, j>>] = w.layer[<<p, j>>]
    <3>1. \A j \in Nums : <<p, j>> \in Wrappers
      BY DEF Nums, Wrappers
    <3>2. w.layer \in [Wrappers -> Marks \cup {NoMarker}]
      BY <2>1, WorldHas
    <3>. QED BY <1>1, <2>10, <2>11, <3>1, <3>2 DEF Mark, Wrapper
  <2>15. x # NoMarker /\ w.layer[<<p, n>>] # NoMarker
    BY <1>1, <2>7, Distinctions
  <2>16. Tidy(v, p)
    <3>1. RecordedAsDrawn(w, p)
      BY DEF Tidy
    <3>2. v.ctl.applied[p] = (IF Mark(v, p).want THEN "shown" ELSE "hidden")
      BY Zenon, <2>8, <2>10, <2>12, <2>14
    <3>3. /\ v.ctl.style[p] = Mark(v, p).style /\ v.ctl.logo[p] = Mark(v, p).icon
          /\ v.ctl.kind[p] = KindOf(p, Mark(v, p).icon) /\ (p \in Places => Mark(v, p).icon = NoUrl)
      BY Zenon, <2>8, <2>10, <2>11, <2>14, <3>1 DEF RecordedAsDrawn
    <3>4. RecordedAsDrawn(v, p)
      BY Zenon, <3>2, <3>3 DEF RecordedAsDrawn
    <3>5. Mark(v, p).view = Mark(w, p).view /\ Mark(v, p).known = Mark(w, p).known
      BY Zenon, <2>8, <2>14
    <3>6. /\ v.ctl.markers[p] = w.ctl.markers[p] /\ v.ctl.placed = w.ctl.placed
          /\ v.ctl.view = w.ctl.view /\ v.dead = w.dead
      BY Zenon, <2>10, <2>11
    <3>7. v.layer[<<p, w.ctl.markers[p]>>] # NoMarker /\ w.ctl.markers[p] \in Nums
          /\ \A j \in Nums : j # w.ctl.markers[p] => v.layer[<<p, j>>] = w.layer[<<p, j>>]
      BY <1>1, <2>14, <2>15
    <3>. QED BY <3>4, <3>5, <3>6, <3>7, StaysTidy
  <2>17. InUse(v, p) = InUse(w, p)
    <3>1. \A j \in Nums : v.layer[<<p, j>>] # NoMarker <=> w.layer[<<p, j>>] # NoMarker
      BY <2>14, <2>15
    <3>. QED BY <2>10, <3>1 DEF InUse, Nums
  <2>18. (Mark(v, p).want <=> on) /\ Mark(v, p).icon = Mark(w, p).icon /\ v.ctl.style[p] = w.ctl.style[p]
         /\ Mark(v, p).known = Mark(w, p).known /\ v.ctl.markers[p] = w.ctl.markers[p]
    BY <1>4, <2>8, <2>10, <2>11, <2>14
  <2>19. p \notin w.fails => Up(v, p)
    BY <1>4, <2>8, <2>14 DEF Up
  <2>20. Shown(w, v, p)
    BY <2>13, <2>16, <2>17, <2>18, <2>19 DEF Shown, on
  <2>. QED BY <2>20 DEF v
<1>. QED BY <1>5, <1>6

\* Taken away, and nothing of it recorded.
Gone(w, v, p) == Tidy(v, p) /\ v.ctl.markers[p] = 0 /\ InUse(v, p) \subseteq InUse(w, p)

Dropped(w, v, p) == Local(w, v, p) /\ Gone(w, v, p)

LEMMA DropIs ==
    ASSUME NEW w \in Attended, NEW p \in POIs, Tidy(w, p), w.ctl.markers[p] # 0
    PROVE  Dropped(w, Drop(w, p), p)
<1>. DEFINE n == w.ctl.markers[p]
            m == Wrapper(w, p)
            c == Forgotten(w.ctl, p, m)
            v == Drop(w, p)
<1>0. w \in Worlds /\ w.ctl \in Controllers
  BY DEF Attended
<1>1. n \in Nums /\ m = <<p, n>> /\ m \in Wrappers
  BY MarkIs DEF Wrapper
<1>2. v = [icons |-> w.icons, layer |-> [w.layer EXCEPT ![m] = NoMarker], waiting |-> w.waiting,
           ctl |-> c, fails |-> w.fails, dead |-> w.dead]
  <2>1. v = [RemoveMarker(w, m) EXCEPT !.ctl = c]
    <3>1. v = [RemoveMarker(w, m) EXCEPT !.ctl = Forgotten(RemoveMarker(w, m).ctl, p, m)]
      BY Zenon DEF Drop
    <3>2. RemoveMarker(w, m).ctl = w.ctl
      BY <1>0 DEF RemoveMarker, Worlds
    <3>. HIDE DEF m, v
    <3>. QED BY Zenon, <3>1, <3>2
  <2>. HIDE DEF c, v, m
  <2>. QED BY <1>0, <2>1 DEF RemoveMarker, Worlds
<1>3. c \in Controllers
  <2>1. 0 \in 0 .. MaxWrappers /\ NoUrl \in Logos
    BY Distinctions DEF Logos
  <2>. HIDE DEF m
  <2>. QED BY <1>0, <2>1 DEF Controllers, Forgotten
<1>4. /\ c.markers = [w.ctl.markers EXCEPT ![p] = 0] /\ c.style = [w.ctl.style EXCEPT ![p] = "none"]
      /\ c.kind = [w.ctl.kind EXCEPT ![p] = "none"] /\ c.logo = [w.ctl.logo EXCEPT ![p] = NoUrl]
      /\ c.applied = [w.ctl.applied EXCEPT ![p] = "none"] /\ c.placed = w.ctl.placed \ {m}
      /\ c.view = w.ctl.view /\ c.visible = w.ctl.visible /\ c.selected = w.ctl.selected
      /\ c.highlighted = w.ctl.highlighted
  <2>. HIDE DEF m
  <2>. QED BY <1>0 DEF Controllers, Forgotten
<1>5. /\ w.ctl.markers \in [POIs -> 0 .. MaxWrappers] /\ w.ctl.style \in [POIs -> Styles \cup {"none"}]
      /\ w.ctl.kind \in [POIs -> {"none", "emoji", "logo"}] /\ w.ctl.logo \in [POIs -> Logos]
      /\ w.ctl.applied \in [POIs -> {"none", "shown", "hidden"}]
  BY <1>0 DEF Controllers
<1>. HIDE DEF c, v, m
<1>6. v \in Attended
  <2>1. [w.layer EXCEPT ![m] = NoMarker] \in [Wrappers -> Marks \cup {NoMarker}]
    BY <1>0, <1>1, WorldHas
  <2>2. \A t \in w.waiting : t.url \in w.icons.fetching
    BY DEF Attended, NoneWaitsInVain
  <2>. QED BY <1>0, <1>2, <1>3, <2>1, <2>2, WorldIs, WorldHas
<1>7. /\ v.ctl = c /\ v.icons = w.icons /\ v.waiting = w.waiting /\ v.fails = w.fails /\ v.dead = w.dead
      /\ v.layer = [w.layer EXCEPT ![m] = NoMarker]
  BY Zenon, <1>2
<1>8. Local(w, v, p)
  <2>1. Around(w, v) /\ Later(w.icons, v.icons)
    BY <1>4, <1>7, LaterOn DEF Around
  <2>2. \A z \in Wrappers : z[1] # p => v.layer[z] = w.layer[z]
    BY <1>0, <1>1, <1>7, WorldHas
  <2>3. w.waiting \subseteq v.waiting /\ \A t \in v.waiting : t \in w.waiting \/ t.marker[1] = p
    BY <1>7
  <2>4. \A q \in POIs \ {p} :
            /\ c.markers[q] = w.ctl.markers[q] /\ c.style[q] = w.ctl.style[q]
            /\ c.kind[q] = w.ctl.kind[q] /\ c.logo[q] = w.ctl.logo[q]
            /\ c.applied[q] = w.ctl.applied[q]
    BY <1>4, <1>5
  <2>5. \A q \in POIs \ {p} : \A j \in Nums : <<q, j>> \in c.placed <=> <<q, j>> \in w.ctl.placed
    BY <1>1, <1>4
  <2>. QED BY <1>6, <1>7, <2>1, <2>2, <2>3, <2>4, <2>5, LocalChange
<1>9. v.ctl.markers[p] = 0 /\ v.ctl.applied[p] = "none"
  BY <1>4, <1>5, <1>7
<1>10. \A j \in Nums : v.layer[<<p, j>>] = (IF j = n THEN NoMarker ELSE w.layer[<<p, j>>])
  <2>1. \A j \in Nums : <<p, j>> \in Wrappers
    BY DEF Nums, Wrappers
  <2>. QED BY <1>0, <1>1, <1>7, <2>1, WorldHas
<1>11. Tidy(v, p)
  <2>1. \A j \in Nums : ~(v.layer[<<p, j>>] # NoMarker) /\ j # 0
    BY <1>10, Distinctions DEF Tidy, Nums
  <2>2. \A j \in Nums : <<p, j>> \notin v.ctl.placed
    BY <1>1, <1>4, <1>7 DEF Tidy
  <2>. QED BY <1>9, <2>1, <2>2 DEF Tidy
<1>12. InUse(v, p) \subseteq InUse(w, p)
  <2>1. \A j \in Nums : v.layer[<<p, j>>] # NoMarker => w.layer[<<p, j>>] # NoMarker
    BY <1>10
  <2>. QED BY <1>7, <2>1 DEF InUse, Nums
<1>13. Dropped(w, v, p)
  BY <1>8, <1>9, <1>11, <1>12 DEF Dropped, Gone
<1>. QED BY <1>13 DEF v

\* A new marker, as it is wanted; or none, if the layer refuses it.
Added(w, v, p) ==
    /\ Local(w, v, p)
    /\ p \in w.fails => Same(w, v, p)
    /\ p \notin w.fails =>
            /\ Tidy(v, p) /\ v.ctl.markers[p] # 0
            /\ Mark(v, p).want <=> Wanted(w, p)
            /\ v.ctl.style[p] = StyleOf(p, w.ctl.selected, w.ctl.highlighted)
            /\ Up(v, p)
            /\ \A j \in Nums : j \in InUse(v, p) => j = v.ctl.markers[p] \/ j \in InUse(w, p)

LEMMA StyleOfIs ==
    \A p, s, h : /\ StyleOf(p, s, h) \in Styles
                 /\ (StyleOf(p, s, h) = "selected" <=> p = s)
                 /\ (StyleOf(p, s, h) = "highlighted" => p = h)
  BY DEF StyleOf, Styles

\* A new marker x with the number n, shown or hidden, before its logo is asked for.
NewMarker(w, v, p, n, x) ==
    /\ Around(w, v) /\ Later(w.icons, v.icons) /\ v.waiting = w.waiting
    /\ v.ctl.placed = w.ctl.placed \cup {<<p, n>>}
    /\ \A q \in POIs \ {p} :
            /\ v.ctl.markers[q] = w.ctl.markers[q] /\ v.ctl.style[q] = w.ctl.style[q]
            /\ v.ctl.kind[q] = w.ctl.kind[q] /\ v.ctl.logo[q] = w.ctl.logo[q]
            /\ v.ctl.applied[q] = w.ctl.applied[q]
    /\ v.ctl.markers[p] = n /\ v.ctl.kind[p] = KindOf(p, v.ctl.logo[p])
    /\ p \in Places => v.ctl.logo[p] = NoUrl
    /\ v.ctl.applied[p] = (IF Wanted(w, p) THEN "shown" ELSE "hidden")
    /\ v.layer = [w.layer EXCEPT ![<<p, n>>] = x]
    /\ x.view = w.ctl.view /\ x.known = TRUE /\ x.want = Wanted(w, p) /\ x.onLayer = Wanted(w, p)
    /\ x.icon = v.ctl.logo[p] /\ x.style = v.ctl.style[p]

LEMMA NewMarkerIs ==
    ASSUME NEW w \in Attended, NEW v \in Attended, NEW p \in POIs, Tidy(w, p), w.ctl.markers[p] = 0,
           w.ctl.view \notin w.dead, NEW n \in Nums, NEW x \in Marks, NewMarker(w, v, p, n, x)
    PROVE  /\ Local(w, v, p) /\ Tidy(v, p)
           /\ Mark(v, p).want <=> Wanted(w, p)
           /\ Up(v, p)
           /\ \A j \in Nums : j \in InUse(v, p) => j = n \/ j \in InUse(w, p)
<1>. DEFINE m == <<p, n>>
<1>0. w \in Worlds /\ w.ctl \in Controllers /\ m \in Wrappers /\ n # 0 /\ x # NoMarker
  BY Distinctions DEF Attended, Wrappers, Nums
<1>. USE DEF NewMarker
<1>1. Local(w, v, p)
  <2>1. \A z \in Wrappers : z[1] # p => v.layer[z] = w.layer[z]
    BY <1>0, WorldHas
  <2>2. \A q \in POIs \ {p} : \A j \in Nums : <<q, j>> \in v.ctl.placed <=> <<q, j>> \in w.ctl.placed
    OBVIOUS
  <2>. QED BY <2>1, <2>2, LocalChange
<1>2. /\ Mark(v, p) = x
      /\ \A j \in Nums : v.layer[<<p, j>>] = (IF j = n THEN x ELSE w.layer[<<p, j>>])
  <2>1. \A j \in Nums : <<p, j>> \in Wrappers
    BY DEF Nums, Wrappers
  <2>2. w.layer \in [Wrappers -> Marks \cup {NoMarker}]
    BY <1>0, WorldHas
  <2>. QED BY <1>0, <2>1, <2>2 DEF Mark, Wrapper
<1>3. \A j \in Nums : j # 0
  BY Distinctions DEF Nums
<1>4. Tidy(v, p)
  <2>1. \A j \in Nums : (v.layer[<<p, j>>] # NoMarker) <=> (j = v.ctl.markers[p])
    <3>1. \A j \in Nums : w.layer[<<p, j>>] = NoMarker
      BY <1>3 DEF Tidy
    <3>. QED BY Zenon, <1>0, <1>2, <3>1
  <2>2. \A j \in Nums : (<<p, j>> \in v.ctl.placed) <=> (j = v.ctl.markers[p])
    <3>1. \A j \in Nums : <<p, j>> \notin w.ctl.placed
      BY <1>3 DEF Tidy
    <3>. QED BY <3>1
  <2>3. RecordedAsDrawn(v, p)
    BY Zenon, <1>2 DEF RecordedAsDrawn
  <2>4. Mark(v, p).view = v.ctl.view /\ (Mark(v, p).known <=> v.ctl.view \notin v.dead)
    BY Zenon, <1>2 DEF Around
  <2>. QED BY <1>0, <2>1, <2>2, <2>3, <2>4 DEF Tidy
<1>5. \A j \in Nums : j \in InUse(v, p) => j = n \/ j \in InUse(w, p)
  BY <1>2 DEF InUse, Nums
<1>6. (Mark(v, p).want <=> Wanted(w, p)) /\ Up(v, p)
  BY Zenon, <1>2 DEF Up
<1>. QED BY <1>1, <1>4, <1>5, <1>6

LEMMA AddMarkerIs ==
    ASSUME NEW w \in Attended, NEW p \in POIs, Tidy(w, p), w.ctl.markers[p] = 0,
           w.ctl.view \notin w.dead, \E n \in Nums : n \notin InUse(w, p)
    PROVE  Added(w, AddMarker(w, p), p)
<1>. DEFINE gl == IF p \in Companies THEN GlIcon(w, p)
                  ELSE [icons |-> w.icons, logo |-> NoUrl, upgrade |-> NoUrl]
            s == StyleOf(p, w.ctl.selected, w.ctl.highlighted)
            seen == [w EXCEPT !.icons = gl.icons]
            n == CHOOSE i \in 1 .. MaxWrappers : i \notin InUse(w, p)
            m == <<p, n>>
            v == AddMarker(w, p)
<1>0. w \in Worlds /\ w.ctl \in Controllers
  BY DEF Attended
<1>1. /\ gl.icons \in KnownIcons /\ Later(w.icons, gl.icons) /\ gl.logo \in Logos /\ gl.upgrade \in Logos
      /\ p \in Places => gl.logo = NoUrl /\ gl.upgrade = NoUrl
  <2>1. CASE p \in Companies
    <3>1. gl = GlIcon(w, p) /\ p \notin Places
      BY <2>1, Distinctions
    <3>. HIDE DEF gl
    <3>. QED BY <1>0, <2>1, <3>1, GlIconIs
  <2>2. CASE p \notin Companies
    <3>1. gl = [icons |-> w.icons, logo |-> NoUrl, upgrade |-> NoUrl]
      BY <2>2
    <3>. HIDE DEF gl
    <3>. QED BY <1>0, <3>1, LaterOn, WorldHas DEF Logos
  <2>. QED BY <2>1, <2>2
<1>2. n \in Nums /\ n \notin InUse(w, p)
  BY DEF Nums
<1>3. v = AddWithIcon(w, p, gl)
  BY DEF AddMarker
<1>. HIDE DEF gl, n, v
<1>4. seen \in Attended /\ Around(w, seen) /\ seen.icons = gl.icons /\ \A q : Same(w, seen, q)
  BY <1>1, IconsAlone DEF Later
<1>5. CASE p \in w.fails
  <2>1. v = seen
    BY <1>3, <1>5 DEF AddWithIcon
  <2>2. Added(w, v, p)
    BY <1>1, <1>4, <1>5, <2>1 DEF Added, Local
  <2>. QED BY <2>2 DEF v
<1>6. CASE p \notin w.fails
  <2>. DEFINE on == Wanted(w, p)
              x == [view |-> w.ctl.view, known |-> TRUE, want |-> TRUE, onLayer |-> TRUE,
                    icon |-> gl.logo, style |-> s]
              b == Recording(w.ctl, p, n, s, gl.logo)
              added == [seen EXCEPT !.layer[m] = x, !.ctl = b]
              c == [w.ctl EXCEPT !.markers = [@ EXCEPT ![p] = n], !.placed = @ \cup {<<p, n>>},
                             !.style = [@ EXCEPT ![p] = s], !.logo = [@ EXCEPT ![p] = gl.logo],
                             !.kind = [@ EXCEPT ![p] = KindOf(p, gl.logo)],
                             !.applied = [@ EXCEPT ![p] = IF Wanted(w, p) THEN "shown" ELSE "hidden"]]
              a == ApplyVisibility(added, p)
  <2>1. v = IF gl.upgrade = NoUrl THEN a ELSE AwaitLogo(a, p, m, gl.upgrade)
    <3>1. seen.ctl = w.ctl
      BY <1>0 DEF Worlds
    <3>2. [seen EXCEPT !.layer[m] = x, !.ctl = Recording(seen.ctl, p, n, s, gl.logo)] = added
      <4>. HIDE DEF seen, x, m, s
      <4>. QED BY Zenon, <3>1
    <3>. DEFINE z == [seen EXCEPT !.layer[m] = x, !.ctl = Recording(seen.ctl, p, n, s, gl.logo)]
    <3>3. v = IF gl.upgrade = NoUrl THEN ApplyVisibility(z, p)
              ELSE AwaitLogo(ApplyVisibility(z, p), p, m, gl.upgrade)
      BY Zenon, <1>3, <1>6 DEF AddWithIcon, n
    <3>4. z = added
      BY <3>2
    <3>. HIDE DEF added, z, m
    <3>. QED BY Zenon, <3>3, <3>4
  <2>0. b = [w.ctl EXCEPT !.markers[p] = n, !.placed = @ \cup {m},
                          !.style[p] = s, !.logo[p] = gl.logo,
                          !.kind[p] = IF p \in Places THEN "none"
                                      ELSE IF gl.logo = NoUrl THEN "emoji" ELSE "logo"]
    <3>. HIDE DEF s
    <3>. QED BY Zenon DEF Recording
  <2>. HIDE DEF b
  <2>2. added = [icons |-> gl.icons, layer |-> [w.layer EXCEPT ![m] = x], waiting |-> w.waiting,
                 ctl |-> b, fails |-> w.fails, dead |-> w.dead]
    <3>1. seen = [icons |-> gl.icons, layer |-> w.layer, waiting |-> w.waiting, ctl |-> w.ctl,
                  fails |-> w.fails, dead |-> w.dead]
      BY <1>0 DEF Worlds
    <3>. HIDE DEF x, b, m, seen
    <3>2. seen.layer = w.layer
      BY <3>1
    <3>3. added = [seen EXCEPT !.layer = [w.layer EXCEPT ![m] = x], !.ctl = b]
      BY <3>2
    <3>. HIDE DEF added
    <3>. QED BY <3>1, <3>3
  <2>3. w.ctl.applied[p] = "none" /\ b.applied = w.ctl.applied /\ b.visible = w.ctl.visible
        /\ b.markers[p] = n
    <3>. HIDE DEF m, s
    <3>. QED BY <1>0, <2>0 DEF Tidy, Controllers
  <2>4. [b EXCEPT !.applied[p] = IF on THEN "shown" ELSE "hidden"] = c
    <3>1. [b EXCEPT !.applied[p] = IF on THEN "shown" ELSE "hidden"]
             = [w.ctl EXCEPT !.markers[p] = n, !.placed = @ \cup {m},
                                 !.style[p] = s, !.logo[p] = gl.logo,
                                 !.kind[p] = IF p \in Places THEN "none"
                                             ELSE IF gl.logo = NoUrl THEN "emoji" ELSE "logo",
                                 !.applied[p] = IF on THEN "shown" ELSE "hidden"]
      <4>. HIDE DEF m, on, s
      <4>. QED BY <1>0, <2>0 DEF Controllers
    <3>. HIDE DEF m, on, s
    <3>. QED BY <3>1 DEF KindOf, on, m
  <2>5. /\ c.markers = [w.ctl.markers EXCEPT ![p] = n] /\ c.style = [w.ctl.style EXCEPT ![p] = s]
        /\ c.kind = [w.ctl.kind EXCEPT ![p] = KindOf(p, gl.logo)]
        /\ c.logo = [w.ctl.logo EXCEPT ![p] = gl.logo]
        /\ c.applied = [w.ctl.applied EXCEPT ![p] = IF on THEN "shown" ELSE "hidden"]
        /\ c.placed = w.ctl.placed \cup {m}
        /\ c.view = w.ctl.view /\ c.visible = w.ctl.visible /\ c.selected = w.ctl.selected
        /\ c.highlighted = w.ctl.highlighted
    <3>. HIDE DEF on, s, m
    <3>. QED BY <1>0 DEF Controllers, m, on
  <2>6. c \in Controllers
    <3>1. s \in Styles /\ gl.logo \in Logos /\ n \in 0 .. MaxWrappers /\ n \in Nums /\ m \in Wrappers
      BY <1>1, <1>2, StyleOfIs, Distinctions DEF Nums, Wrappers
    <3>. HIDE DEF on, s, m
    <3>. QED BY <1>0, <3>1 DEF Controllers, KindOf, m, on
  <2>. HIDE DEF b, c, added, a, m
  <2>7. Wanted(added, p) = on /\ Wrapper(added, p) = m
    BY <2>2, <2>3 DEF Wanted, Wrapper, m
  <2>8. m \in Wrappers /\ on \in BOOLEAN /\ w.layer \in [Wrappers -> Marks \cup {NoMarker}]
    BY <1>0, <1>2, WorldHas DEF m, Wrappers, Nums, Wanted
  <2>. HIDE DEF on
  <2>. DEFINE z == [icons |-> gl.icons, layer |-> [w.layer EXCEPT ![m] = x], waiting |-> w.waiting,
                    ctl |-> c, fails |-> w.fails, dead |-> w.dead]
  <2>9. a = SetVisible(z, m, on)
    <3>1. added.ctl.applied[p] = "none" /\ added.ctl = b
      BY <2>2, <2>3
    <3>2. [added EXCEPT !.ctl.applied[p] = IF on THEN "shown" ELSE "hidden"] = z
      <4>1. [added EXCEPT !.ctl.applied[p] = IF on THEN "shown" ELSE "hidden"]
             = [added EXCEPT !.ctl = [b EXCEPT !.applied[p] = IF on THEN "shown" ELSE "hidden"]]
        <5>. HIDE DEF x
        <5>. QED BY <2>2
      <4>2. [added EXCEPT !.ctl = c] = z
        <5>. HIDE DEF x
        <5>. QED BY <2>2
      <4>. QED BY Zenon, <2>4, <4>1, <4>2
    <3>. DEFINE to == IF on THEN "shown" ELSE "hidden"
    <3>3. to # "none"
      OBVIOUS
    <3>4. ApplyVisibility(added, p) =
             IF added.ctl.applied[p] = to THEN added
             ELSE SetVisible([added EXCEPT !.ctl.applied[p] = to], m, on)
      BY Zenon, <2>7 DEF ApplyVisibility
    <3>. HIDE DEF to, z
    <3>. QED BY <3>1, <3>2, <3>3, <3>4 DEF a, to
  <2>10. z.layer[m] = x /\ x.want = TRUE /\ z.fails = w.fails
         /\ z.layer = [w.layer EXCEPT ![m] = x]
    BY <2>8
  <2>11. x \in Marks /\ x.view = w.ctl.view /\ x.known = TRUE /\ x.want = TRUE /\ x.onLayer = TRUE
         /\ x.icon = gl.logo /\ x.style = s
    <3>1. w.ctl.view \in Nat /\ s \in Styles
      BY <1>0, StyleOfIs DEF Controllers
    <3>. HIDE DEF s
    <3>. QED BY <1>1, <3>1 DEF Marks
  <2>12. PICK y \in Marks :
            /\ y.view = w.ctl.view /\ y.known = TRUE /\ y.want = on /\ y.onLayer = on
            /\ y.icon = gl.logo /\ y.style = s
            /\ a = [icons |-> gl.icons, layer |-> [w.layer EXCEPT ![m] = y], waiting |-> w.waiting,
                    ctl |-> c, fails |-> w.fails, dead |-> w.dead]
    <3>1. CASE on = TRUE
      <4>. HIDE DEF x, z, s
      <4>1. a = z
        BY <2>9, <2>10, <3>1 DEF SetVisible
      <4>. QED BY <2>11, <3>1, <4>1 DEF z
    <3>2. CASE on = FALSE
      <4>. HIDE DEF x, z, s
      <4>. DEFINE y == [x EXCEPT !.want = on, !.onLayer = on /\ m[1] \notin z.fails]
      <4>1. a = [z EXCEPT !.layer[m] = [@ EXCEPT !.want = on, !.onLayer = on /\ m[1] \notin z.fails]]
        BY <2>9, <2>10, <3>2 DEF SetVisible
      <4>2. y \in Marks /\ y.view = x.view /\ y.known = x.known /\ y.want = on
            /\ y.onLayer = on /\ y.icon = x.icon /\ y.style = x.style
        BY <2>11, <3>2 DEF Marks
      <4>3. a = [z EXCEPT !.layer = [z.layer EXCEPT ![m] = y]]
        BY <2>10, <4>1
      <4>. HIDE DEF y
      <4>4. [z.layer EXCEPT ![m] = y] = [w.layer EXCEPT ![m] = y]
        BY <2>8, <2>10
      <4>5. a = [icons |-> gl.icons, layer |-> [w.layer EXCEPT ![m] = y], waiting |-> w.waiting,
                 ctl |-> c, fails |-> w.fails, dead |-> w.dead]
        BY <4>3, <4>4 DEF z
      <4>. QED BY <2>11, <4>2, <4>5
    <3>. QED BY <2>8, <3>1, <3>2
  <2>13. s \in Styles
    BY StyleOfIs
  <2>14. /\ Local(w, a, p) /\ Tidy(a, p) /\ a.ctl.markers[p] = n /\ a.ctl.style[p] = s
         /\ (Mark(a, p).want <=> on) /\ Up(a, p)
         /\ \A j \in Nums : j \in InUse(a, p) => j = n \/ j \in InUse(w, p)
    <3>. HIDE DEF s
    <3>1. y \in Marks /\ y.view = w.ctl.view /\ y.known = TRUE /\ y.want = on /\ y.onLayer = on
          /\ y.icon = gl.logo /\ y.style = s
      BY <2>12
    <3>2. a \in Attended
      <4>1. [w.layer EXCEPT ![m] = y] \in [Wrappers -> Marks \cup {NoMarker}]
        BY <2>8, <3>1
      <4>2. \A t \in w.waiting : t.url \in gl.icons.fetching
        BY <1>1 DEF Attended, NoneWaitsInVain, Later
      <4>. QED BY <1>0, <1>1, <2>6, <2>12, <4>1, <4>2, WorldIs, WorldHas
    <3>3. /\ a.ctl = c /\ a.icons = gl.icons /\ a.waiting = w.waiting /\ a.fails = w.fails
          /\ a.dead = w.dead /\ a.layer = [w.layer EXCEPT ![m] = y]
      BY Zenon, <2>12
    <3>4. Around(w, a) /\ Later(w.icons, a.icons)
      BY <1>1, <2>5, <3>3 DEF Around
    <3>5. /\ w.ctl.markers \in [POIs -> 0 .. MaxWrappers] /\ w.ctl.style \in [POIs -> Styles \cup {"none"}]
          /\ w.ctl.kind \in [POIs -> {"none", "emoji", "logo"}] /\ w.ctl.logo \in [POIs -> Logos]
          /\ w.ctl.applied \in [POIs -> {"none", "shown", "hidden"}]
      BY <1>0 DEF Controllers
    <3>6. \A q \in POIs \ {p} :
            /\ a.ctl.markers[q] = w.ctl.markers[q] /\ a.ctl.style[q] = w.ctl.style[q]
            /\ a.ctl.kind[q] = w.ctl.kind[q] /\ a.ctl.logo[q] = w.ctl.logo[q]
            /\ a.ctl.applied[q] = w.ctl.applied[q]
      BY <2>5, <3>3, <3>5
    <3>7. /\ a.ctl.markers[p] = n /\ a.ctl.style[p] = s /\ a.ctl.kind[p] = KindOf(p, gl.logo)
          /\ a.ctl.logo[p] = gl.logo
      BY <2>5, <3>3, <3>5
    <3>8. a.ctl.applied[p] = (IF Wanted(w, p) THEN "shown" ELSE "hidden")
      BY <2>5, <3>3, <3>5 DEF on
    <3>9. a.ctl.placed = w.ctl.placed \cup {<<p, n>>} /\ a.layer = [w.layer EXCEPT ![<<p, n>>] = y]
      BY Zenon, <2>5, <3>3 DEF m
    <3>10. y.want = Wanted(w, p) /\ y.onLayer = Wanted(w, p)
      BY Zenon, <3>1 DEF on
    <3>11. a.ctl.kind[p] = KindOf(p, a.ctl.logo[p]) /\ (p \in Places => a.ctl.logo[p] = NoUrl)
           /\ y.icon = a.ctl.logo[p] /\ y.style = a.ctl.style[p]
      BY <1>1, <3>1, <3>7
    <3>12. NewMarker(w, a, p, n, y)
      BY Zenon, <3>1, <3>3, <3>4, <3>6, <3>7, <3>8, <3>9, <3>10, <3>11 DEF NewMarker
    <3>13. /\ Local(w, a, p) /\ Tidy(a, p) /\ (Mark(a, p).want <=> Wanted(w, p)) /\ Up(a, p)
           /\ \A j \in Nums : j \in InUse(a, p) => j = n \/ j \in InUse(w, p)
      BY Zenon, <1>2, <3>1, <3>2, <3>12, NewMarkerIs
    <3>. QED BY <3>7, <3>13 DEF on
  <2>15. CASE gl.upgrade = NoUrl
    <3>1. Added(w, a, p)
      BY <1>2, <1>6, <2>14, Distinctions DEF Added, on, Nums
    <3>. QED BY <2>1, <2>15, <3>1 DEF v
  <2>16. CASE gl.upgrade # NoUrl
    <3>1. p \in Companies /\ gl.upgrade \in Urls
      BY <1>1, <2>16, Distinctions DEF Logos
    <3>2. a \in Attended /\ a.ctl.markers[p] # 0 /\ m = Wrapper(a, p)
      BY <1>2, <2>14, Distinctions DEF Local, m, Wrapper, Nums
    <3>3. v = AwaitLogo(a, p, Wrapper(a, p), gl.upgrade)
      BY <2>1, <2>16, <3>2
    <3>4. Redrawn(a, v, p) /\ v.ctl = a.ctl /\ v.layer = a.layer
      BY <2>14, <3>1, <3>2, <3>3, AwaitLogoIs
    <3>5. Local(w, v, p)
      BY <2>14, <3>4, LocalOn DEF Redrawn
    <3>6. Added(w, v, p)
      BY <1>2, <1>6, <2>14, <3>2, <3>4, <3>5 DEF Added, Redrawn, Mark, Wrapper, Up, on
    <3>. QED BY <3>6 DEF v
  <2>. QED BY <2>15, <2>16
<1>. QED BY <1>5, <1>6

-----------------------------------------------------------------------------
\* What stays true of a POI while the markers are gone through

FreeOf(w, p) == Nums \ InUse(w, p)

AttachedAt(w, p) == Mark(w, p).known /\ Up(w, p)

\* The style is that of the selection; the marker is meant to be shown as the page asks.
Styled(w, p) ==
    w.ctl.markers[p] # 0 =>
        /\ w.ctl.style[p] = "selected" <=> p = w.ctl.selected
        /\ w.ctl.style[p] = "highlighted" => p = w.ctl.highlighted

AsWanted(w, p) == w.ctl.markers[p] # 0 => (Mark(w, p).want <=> Wanted(w, p))

\* A logo that was shown at the start, in K, is still shown, unless the marker was taken
\* away: then it is refused, or not of the pool, and not made again with the same number.
Keeps(K, w, p, pool) ==
    (K.ctl.markers[p] # 0 /\ Mark(K, p).icon # NoUrl /\ AttachedAt(K, p)) =>
        \/ /\ w.ctl.markers[p] = K.ctl.markers[p] /\ Mark(w, p).icon # NoUrl
           /\ AttachedAt(w, p) \/ p \in w.fails
        \/ w.ctl.markers[p] = 0 /\ (p \in w.fails \/ p \notin pool)

\* At most one of the numbers free at the start, in W, is taken; none while a new marker
\* may still be needed. Where none is made, NoController stands for W.
Room(W, w, p, pool) ==
    W # NoController =>
        /\ FreeOf(W, p) # {}
        /\ \E i : FreeOf(W, p) \ {i} \subseteq FreeOf(w, p)
        /\ \/ FreeOf(W, p) \subseteq FreeOf(w, p)
           \/ w.ctl.markers[p] # 0 /\ AttachedAt(w, p) /\ p \notin w.fails
           \/ w.ctl.markers[p] = 0 /\ p \notin pool

Drawn(K, W, w, p, pool) == Tidy(w, p) /\ Keeps(K, w, p, pool) /\ Room(W, w, p, pool)

LEMMA DrawnAlike ==
    ASSUME NEW w \in Attended, NEW v, NEW p \in POIs, Same(w, v, p), Around(w, v), NEW K, NEW W, NEW pool
    PROVE  /\ Drawn(K, W, w, p, pool) => Drawn(K, W, v, p, pool)
           /\ Styled(w, p) => Styled(v, p)
           /\ AsWanted(w, p) => AsWanted(v, p)
           /\ w.ctl.markers[p] # 0 => (AttachedAt(w, p) <=> AttachedAt(v, p)) /\ (Up(w, p) <=> Up(v, p))
<1>1. /\ w.ctl.markers[p] # 0 => Mark(v, p) = Mark(w, p)
      /\ Tidy(w, p) => Tidy(v, p)
      /\ v.ctl.markers[p] = w.ctl.markers[p] /\ v.ctl.style[p] = w.ctl.style[p]
      /\ v.fails = w.fails /\ FreeOf(v, p) = FreeOf(w, p)
      /\ v.ctl.selected = w.ctl.selected /\ v.ctl.highlighted = w.ctl.highlighted
      /\ Wanted(v, p) = Wanted(w, p)
  BY Alike DEF Same, Around, FreeOf, Wanted
<1>2. w.ctl.markers[p] # 0 => (AttachedAt(w, p) <=> AttachedAt(v, p)) /\ (Up(w, p) <=> Up(v, p))
  BY <1>1 DEF AttachedAt, Up
<1>3. Room(W, w, p, pool) => Room(W, v, p, pool)
  BY <1>1, <1>2 DEF Room
<1>4. Keeps(K, w, p, pool) => Keeps(K, v, p, pool)
  BY <1>1, <1>2 DEF Keeps
<1>5. Styled(w, p) => Styled(v, p)
  BY <1>1 DEF Styled
<1>6. AsWanted(w, p) => AsWanted(v, p)
  BY <1>1 DEF AsWanted
<1>. QED BY <1>1, <1>2, <1>3, <1>4, <1>5, <1>6 DEF Drawn

LEMMA DrawnAgain ==
    ASSUME NEW w \in Attended, NEW v, NEW p \in POIs, Redrawn(w, v, p), NEW K, NEW W, NEW pool
    PROVE  /\ Drawn(K, W, w, p, pool) => Drawn(K, W, v, p, pool)
           /\ AsWanted(w, p) => AsWanted(v, p)
           /\ Styled(w, p) /\ v.ctl.style[p] = w.ctl.style[p] => Styled(v, p)
           /\ AttachedAt(w, p) <=> AttachedAt(v, p)
           /\ Up(w, p) <=> Up(v, p)
<1>1. /\ v.ctl.markers[p] = w.ctl.markers[p] /\ w.ctl.markers[p] # 0 /\ Tidy(v, p)
      /\ v.fails = w.fails /\ FreeOf(v, p) = FreeOf(w, p)
      /\ v.ctl.selected = w.ctl.selected /\ v.ctl.highlighted = w.ctl.highlighted
      /\ Wanted(v, p) = Wanted(w, p)
      /\ Mark(w, p).icon # NoUrl => Mark(v, p).icon # NoUrl
      /\ Mark(v, p).want = Mark(w, p).want
  BY DEF Redrawn, Local, Around, FreeOf, Wanted
<1>2. (AttachedAt(w, p) <=> AttachedAt(v, p)) /\ (Up(w, p) <=> Up(v, p))
  BY DEF AttachedAt, Up, Redrawn
<1>3. Room(W, w, p, pool) => Room(W, v, p, pool)
  BY <1>1, <1>2 DEF Room
<1>4. Keeps(K, w, p, pool) => Keeps(K, v, p, pool)
  BY <1>1, <1>2 DEF Keeps
<1>5. Styled(w, p) /\ v.ctl.style[p] = w.ctl.style[p] => Styled(v, p)
  BY <1>1 DEF Styled
<1>6. AsWanted(w, p) => AsWanted(v, p)
  BY <1>1 DEF AsWanted
<1>. QED BY <1>1, <1>2, <1>3, <1>4, <1>5, <1>6 DEF Drawn

LEMMA DrawnShown ==
    ASSUME NEW w \in Attended, NEW v, NEW p \in POIs, Shown(w, v, p), NEW K, NEW W, NEW pool
    PROVE  /\ Drawn(K, W, w, p, pool) => Drawn(K, W, v, p, pool)
           /\ AsWanted(v, p)
           /\ Styled(w, p) => Styled(v, p)
<1>1. /\ v.ctl.markers[p] = w.ctl.markers[p] /\ w.ctl.markers[p] # 0 /\ Tidy(v, p)
      /\ v.fails = w.fails /\ FreeOf(v, p) = FreeOf(w, p)
      /\ v.ctl.selected = w.ctl.selected /\ v.ctl.highlighted = w.ctl.highlighted
      /\ Wanted(v, p) = Wanted(w, p) /\ v.ctl.style[p] = w.ctl.style[p]
      /\ Mark(v, p).icon = Mark(w, p).icon
      /\ Mark(v, p).want <=> Wanted(w, p)
  BY DEF Shown, Local, Around, FreeOf, Wanted
<1>2. AttachedAt(w, p) /\ p \notin w.fails => AttachedAt(v, p)
  BY DEF AttachedAt, Shown
<1>3. Room(W, w, p, pool) => Room(W, v, p, pool)
  BY <1>1, <1>2 DEF Room
<1>4. Keeps(K, w, p, pool) => Keeps(K, v, p, pool)
  BY <1>1, <1>2 DEF Keeps
<1>5. Styled(w, p) => Styled(v, p)
  BY <1>1 DEF Styled
<1>6. AsWanted(v, p)
  BY <1>1 DEF AsWanted
<1>. QED BY <1>1, <1>3, <1>4, <1>5, <1>6 DEF Drawn

LEMMA DrawnGone ==
    ASSUME NEW w, NEW v, NEW p \in POIs, Gone(w, v, p), NEW K, NEW W, NEW pool
    PROVE  /\ Styled(v, p) /\ AsWanted(v, p)
           /\ p \notin pool => Keeps(K, v, p, pool)
           /\ p \notin pool /\ Drawn(K, W, w, p, pool) => Drawn(K, W, v, p, pool)
<1>1. v.ctl.markers[p] = 0 /\ Tidy(v, p) /\ FreeOf(w, p) \subseteq FreeOf(v, p)
  BY DEF Gone, FreeOf
<1>2. Styled(v, p) /\ AsWanted(v, p)
  BY <1>1 DEF Styled, AsWanted
<1>3. p \notin pool => Keeps(K, v, p, pool)
  BY <1>1 DEF Keeps
<1>4. p \notin pool /\ Room(W, w, p, pool) => Room(W, v, p, pool)
  BY <1>1 DEF Room
<1>. QED BY <1>1, <1>2, <1>3, <1>4 DEF Drawn

\* A POI that has no marker gets one, or stays without.
LEMMA DrawnAdded ==
    ASSUME NEW w \in Attended, NEW v, NEW p \in POIs, Added(w, v, p), NEW K, NEW W, NEW pool,
           w.ctl.view \notin w.dead, Tidy(w, p),
           w.ctl.markers[p] = 0, FreeOf(W, p) # {}, FreeOf(W, p) \subseteq FreeOf(w, p),
           Keeps(K, w, p, pool), p \in pool \/ p \in w.fails \/
                ~(K.ctl.markers[p] # 0 /\ Mark(K, p).icon # NoUrl /\ AttachedAt(K, p))
    PROVE  /\ Drawn(K, W, v, p, pool) /\ Styled(v, p) /\ AsWanted(v, p)
           /\ p \notin w.fails => v.ctl.markers[p] # 0
           /\ v.ctl.markers[p] # 0 => AttachedAt(v, p)
<1>1. v.fails = w.fails /\ v.ctl.selected = w.ctl.selected /\ v.ctl.highlighted = w.ctl.highlighted
      /\ Wanted(v, p) = Wanted(w, p) /\ v.ctl.view \notin v.dead
  BY DEF Added, Local, Around, Wanted
<1>2. CASE p \in w.fails
  <2>1. Same(w, v, p) /\ Around(w, v)
    BY <1>2 DEF Added, Local
  <2>2. Room(W, w, p, pool)
    BY DEF Room
  <2>3. Drawn(K, W, w, p, pool) /\ Styled(w, p) /\ AsWanted(w, p)
    BY <2>2 DEF Drawn, Styled, AsWanted
  <2>4. Drawn(K, W, v, p, pool) /\ Styled(v, p) /\ AsWanted(v, p)
    BY <2>1, <2>3, DrawnAlike
  <2>. QED BY <1>2, <2>1, <2>4 DEF Same
<1>3. CASE p \notin w.fails
  <2>1. /\ Tidy(v, p) /\ v.ctl.markers[p] # 0
        /\ Mark(v, p).want <=> Wanted(w, p)
        /\ v.ctl.style[p] = StyleOf(p, w.ctl.selected, w.ctl.highlighted)
        /\ Up(v, p)
        /\ \A j \in Nums : j \in InUse(v, p) => j = v.ctl.markers[p] \/ j \in InUse(w, p)
    BY <1>3 DEF Added
  <2>2. AttachedAt(v, p)
    BY <1>1, <2>1 DEF AttachedAt, Tidy
  <2>3. FreeOf(W, p) \ {v.ctl.markers[p]} \subseteq FreeOf(v, p)
    BY <2>1 DEF FreeOf
  <2>4. Room(W, v, p, pool)
    BY <1>1, <1>3, <2>1, <2>2, <2>3 DEF Room
  <2>5. Keeps(K, v, p, pool)
    BY <1>3 DEF Keeps
  <2>6. Styled(v, p) /\ AsWanted(v, p)
    BY <1>1, <2>1, StyleOfIs DEF Styled, AsWanted
  <2>. QED BY <2>1, <2>2, <2>4, <2>5, <2>6 DEF Drawn
<1>. QED BY <1>2, <1>3

-----------------------------------------------------------------------------
\* What is done for one POI

LEMMA RefreshIs ==
    ASSUME NEW w \in Attended, NEW p \in POIs, NEW K, NEW W, NEW pool, Drawn(K, W, w, p, pool),
           AsWanted(w, p), w.ctl.markers[p] # 0
    PROVE  LET v == ApplyStyle(w, p, Wrapper(w, p), StyleOf(p, w.ctl.selected, w.ctl.highlighted))
           IN  /\ Redrawn(w, v, p) /\ Drawn(K, W, v, p, pool)
               /\ Styled(v, p) /\ AsWanted(v, p)
<1>. DEFINE s == StyleOf(p, w.ctl.selected, w.ctl.highlighted)
            v == ApplyStyle(w, p, Wrapper(w, p), s)
<1>1. s \in Styles
  BY StyleOfIs
<1>2. Redrawn(w, v, p) /\ v.ctl.style[p] = s
  <2>. HIDE DEF s
  <2>. QED BY <1>1, ApplyStyleIs DEF Drawn
<1>. HIDE DEF v
<1>3. Drawn(K, W, v, p, pool) /\ AsWanted(v, p)
  BY <1>2, DrawnAgain
<1>4. Styled(v, p)
  BY <1>2, StyleOfIs DEF Styled, Redrawn, Local, Around
<1>. QED BY <1>2, <1>3, <1>4 DEF v

LEMMA PutIs ==
    ASSUME NEW w \in Attended, NEW p \in POIs, NEW K, NEW W, W # NoController, NEW pool, Drawn(K, W, w, p, pool),
           AsWanted(w, p), p \in pool, w.ctl.view \notin w.dead
    PROVE  LET v == Put(w, p)
           IN  /\ Local(w, v, p) /\ Drawn(K, W, v, p, pool)
               /\ Styled(v, p) /\ AsWanted(v, p)
               /\ w.ctl.markers[p] # 0 \/ p \notin w.fails => v.ctl.markers[p] # 0
<1>. DEFINE v == Put(w, p)
<1>1. CASE w.ctl.markers[p] = 0
  <2>1. v = AddMarker(w, p)
    BY <1>1 DEF Put
  <2>2. FreeOf(W, p) # {} /\ FreeOf(W, p) \subseteq FreeOf(w, p)
    BY <1>1 DEF Drawn, Room
  <2>3. \E n \in Nums : n \notin InUse(w, p)
    BY <2>2 DEF FreeOf
  <2>4. Added(w, v, p)
    BY <1>1, <2>1, <2>3, AddMarkerIs DEF Drawn
  <2>. HIDE DEF v
  <2>5. /\ Drawn(K, W, v, p, pool) /\ Styled(v, p) /\ AsWanted(v, p)
        /\ p \notin w.fails => v.ctl.markers[p] # 0
    BY <1>1, <2>2, <2>4, DrawnAdded DEF Drawn
  <2>. QED BY <1>1, <2>4, <2>5 DEF v, Added
<1>2. CASE w.ctl.markers[p] # 0
  <2>. DEFINE a == ApplyStyle(w, p, Wrapper(w, p), StyleOf(p, w.ctl.selected, w.ctl.highlighted))
  <2>1. /\ Redrawn(w, a, p) /\ Drawn(K, W, a, p, pool) /\ Styled(a, p) /\ AsWanted(a, p)
    BY <1>2, RefreshIs
  <2>2. v = MaybeUpgrade(a, p, Wrapper(w, p))
    BY <1>2 DEF Put
  <2>. HIDE DEF a, v
  <2>3. a \in Attended /\ Tidy(a, p) /\ a.ctl.markers[p] # 0 /\ Wrapper(a, p) = Wrapper(w, p)
    BY <2>1 DEF Redrawn, Local, Wrapper
  <2>4. Redrawn(a, v, p) /\ v.ctl.style[p] = a.ctl.style[p]
    BY <2>2, <2>3, MaybeUpgradeIs
  <2>5. Drawn(K, W, v, p, pool) /\ Styled(v, p) /\ AsWanted(v, p)
    BY <2>1, <2>3, <2>4, DrawnAgain
  <2>6. Local(w, v, p) /\ v.ctl.markers[p] # 0
    BY <2>1, <2>4, LocalOn DEF Redrawn
  <2>. QED BY <2>5, <2>6 DEF v
<1>. QED BY <1>1, <1>2

LEMMA ShowIs ==
    ASSUME NEW w \in Attended, NEW p \in POIs, NEW K, NEW W, NEW pool, Drawn(K, W, w, p, pool),
           w.ctl.markers[p] # 0
    PROVE  LET v == Show(w, p)
           IN  /\ Local(w, v, p) /\ Drawn(K, W, v, p, pool)
               /\ AsWanted(v, p) /\ (Styled(w, p) => Styled(v, p))
               /\ v.ctl.markers[p] = w.ctl.markers[p]
               /\ Up(w, p) /\ p \notin w.fails => Up(v, p)
<1>. DEFINE a == ApplyVisibility(w, p)
            v == Show(w, p)
<1>1. Shown(w, a, p)
  BY ApplyVisibilityIs DEF Drawn
<1>2. v = MaybeUpgrade(a, p, Wrapper(w, p))
  BY DEF Show
<1>. HIDE DEF a, v
<1>3. a \in Attended /\ Tidy(a, p) /\ a.ctl.markers[p] # 0 /\ Wrapper(a, p) = Wrapper(w, p)
  BY <1>1 DEF Shown, Local, Wrapper
<1>4. Redrawn(a, v, p) /\ v.ctl.style[p] = a.ctl.style[p]
  BY <1>2, <1>3, MaybeUpgradeIs
<1>5. Drawn(K, W, a, p, pool) /\ AsWanted(a, p) /\ (Styled(w, p) => Styled(a, p))
  BY <1>1, DrawnShown
<1>6. /\ Drawn(K, W, v, p, pool) /\ AsWanted(v, p) /\ (Styled(w, p) => Styled(v, p))
      /\ Up(a, p) <=> Up(v, p)
  BY <1>3, <1>4, <1>5, DrawnAgain
<1>7. Local(w, v, p) /\ v.ctl.markers[p] = w.ctl.markers[p] /\ (Up(w, p) /\ p \notin w.fails => Up(a, p))
  BY <1>1, <1>4, LocalOn DEF Redrawn, Shown
<1>. QED BY <1>6, <1>7 DEF v

LEMMA RemadeIs ==
    ASSUME NEW w \in Attended, NEW p \in POIs, NEW K, NEW W, W # NoController, NEW pool, Drawn(K, W, w, p, pool),
           w.ctl.markers[p] # 0, ~AttachedAt(w, p), w.ctl.view \notin w.dead
    PROVE  LET v == Remade(w, p)
           IN  /\ Local(w, v, p) /\ Drawn(K, W, v, p, pool)
               /\ AsWanted(v, p) /\ Styled(v, p)
               /\ p \notin w.fails => v.ctl.markers[p] # 0
               /\ v.ctl.markers[p] # 0 => AttachedAt(v, p)
<1>. DEFINE a == Drop(w, p)
            v == Remade(w, p)
<1>1. Dropped(w, a, p)
  BY DropIs DEF Drawn
<1>2. v = AddMarker(a, p)
  BY DEF Remade
<1>. HIDE DEF a, v
<1>3. a \in Attended /\ Tidy(a, p) /\ a.ctl.markers[p] = 0 /\ a.ctl.view \notin a.dead /\ a.fails = w.fails
      /\ FreeOf(w, p) \subseteq FreeOf(a, p)
  BY <1>1 DEF Dropped, Gone, Local, Around, FreeOf
<1>4. FreeOf(W, p) # {} /\ FreeOf(W, p) \subseteq FreeOf(a, p)
  BY <1>3 DEF Drawn, Room
<1>5. \E n \in Nums : n \notin InUse(a, p)
  BY <1>4 DEF FreeOf
<1>6. Added(a, v, p)
  BY <1>2, <1>3, <1>5, AddMarkerIs
<1>7. p \in a.fails \/ ~(K.ctl.markers[p] # 0 /\ Mark(K, p).icon # NoUrl /\ AttachedAt(K, p))
  BY <1>3 DEF Drawn, Keeps
<1>8. Keeps(K, a, p, pool)
  BY <1>3, <1>7 DEF Keeps
<1>9. /\ Drawn(K, W, v, p, pool) /\ Styled(v, p) /\ AsWanted(v, p)
      /\ p \notin a.fails => v.ctl.markers[p] # 0
      /\ v.ctl.markers[p] # 0 => AttachedAt(v, p)
  BY <1>3, <1>4, <1>6, <1>7, <1>8, DrawnAdded
<1>10. Local(w, v, p)
  BY <1>1, <1>6, LocalOn DEF Dropped, Added
<1>. QED BY <1>3, <1>9, <1>10 DEF v

-----------------------------------------------------------------------------
\* What is done for one POI after the other

\* What is done for one of them concerns no other.
OneAtATime(k, e, w) ==
    \A a \in Attended, q \in POIs :
        Around(w, a) /\ Same(w, a, q) => Local(a, Act(k, e, a, q), q)

LEMMA SameOn ==
    /\ \A w, q : Same(w, w, q) /\ Around(w, w)
    /\ \A w, v, z, q : Same(w, v, q) /\ Same(v, z, q) => Same(w, z, q)
    /\ \A w, v, z : Around(w, v) /\ Around(v, z) => Around(w, z)
<1>1. \A w, q : Same(w, w, q) /\ Around(w, w)
  BY DEF Same, Around
<1>2. \A w, v, z, q : Same(w, v, q) /\ Same(v, z, q) => Same(w, z, q)
  BY DEF Same
<1>3. \A w, v, z : Around(w, v) /\ Around(v, z) => Around(w, z)
  BY DEF Around
<1>. QED BY <1>1, <1>2, <1>3

LEMMA OrderIs ==
    /\ Len(Order) \in Nat /\ \A j \in 1 .. Len(Order) : Order[j] \in POIs
    /\ \A i, j \in 1 .. Len(Order) : i # j => Order[i] # Order[j]
    /\ \A q \in POIs : \E j \in 1 .. Len(Order) : Order[j] = q
<1>1. Order \in Seq(POIs) /\ ToSet(Order) = POIs /\ IsInjective(Order)
  BY MarkerConstants
<1>. DEFINE N == Len(Order)
<1>2. N \in Nat /\ DOMAIN Order = 1 .. N /\ \A j \in 1 .. N : Order[j] \in POIs
  BY <1>1
<1>3. ToSet(Order) = {Order[j] : j \in DOMAIN Order}
  BY DEF ToSet
<1>4. \A i, j \in DOMAIN Order : Order[i] = Order[j] => i = j
  BY <1>1 DEF IsInjective
<1>. HIDE DEF N
<1>. QED BY <1>1, <1>2, <1>3, <1>4 DEF N

LEMMA OrderRuns ==
    ASSUME NEW k, NEW e, NEW w, NEW d, NEW N \in Nat, Runs(d, k, e, w, Order, N)
    PROVE  /\ d[0] = w
           /\ \A n \in Nat : n + 1 <= N => d[n + 1] = Act(k, e, d[n], Order[n + 1])
<1>1. \A n \in Nat : n + 1 <= N => d[n + 1] = Act(k, e, d[n], Order[n + 1])
  BY RunsStep
<1>2. 0 \in 0 .. N
  OBVIOUS
<1>3. d[0] = w
  BY Zenon, <1>2 DEF Runs
<1>. QED BY Zenon, <1>1, <1>3

\* After all, each POI is as if it had been the only one, in a world alike.
LEMMA OneByOne ==
    ASSUME NEW k, NEW e, NEW w \in Attended, OneAtATime(k, e, w),
           NEW d, Runs(d, k, e, w, Order, Len(Order))
    PROVE  LET v == d[Len(Order)]
           IN  /\ v \in Attended /\ Around(w, v) /\ Later(w.icons, v.icons)
               /\ \A q \in POIs : \E a \in Attended :
                    Around(w, a) /\ Same(w, a, q) /\ Same(Act(k, e, a, q), v, q)
<1>. DEFINE N == Len(Order)
            Done(n, j) == \E a \in Attended :
                             /\ Around(w, a) /\ Same(w, a, Order[j])
                             /\ Same(Act(k, e, a, Order[j]), d[n], Order[j])
            At(n) == /\ d[n] \in Attended /\ Around(w, d[n]) /\ Later(w.icons, d[n].icons)
                     /\ \A j \in 1 .. N : j <= n => Done(n, j)
                     /\ \A j \in 1 .. N : j > n => Same(w, d[n], Order[j])
            S == {n \in Nat : n <= N => At(n)}
<1>0. N \in Nat /\ \A j \in 1 .. N : Order[j] \in POIs
  BY OrderIs
<1>1. \A i, j \in 1 .. N : i # j => Order[i] # Order[j]
  BY OrderIs
<1>2. /\ d[0] = w
      /\ \A n \in Nat : n + 1 <= N => d[n + 1] = Act(k, e, d[n], Order[n + 1])
  <2>. HIDE DEF S, At, Done
  <2>1. Len(Order) \in Nat /\ Runs(d, k, e, w, Order, Len(Order))
    BY <1>0
  <2>2. /\ d[0] = w
        /\ \A n \in Nat : n + 1 <= Len(Order) => d[n + 1] = Act(k, e, d[n], Order[n + 1])
    BY <2>1, OrderRuns
  <2>. QED BY <2>2
<1>3. 0 \in S
  <2>1. d[0] \in Attended /\ Around(w, d[0]) /\ Later(w.icons, d[0].icons)
    BY <1>2, SameOn, LaterOn
  <2>2. \A j \in 1 .. N : ~(j <= 0)
    OBVIOUS
  <2>3. \A j \in 1 .. N : Same(w, d[0], Order[j])
    BY Zenon, <1>2, SameOn
  <2>4. At(0)
    <3>. HIDE DEF Done
    <3>. QED BY <2>1, <2>2, <2>3
  <2>. HIDE DEF At
  <2>. QED BY <2>4
<1>4. \A n \in Nat : n \in S => n + 1 \in S
  <2>. SUFFICES ASSUME NEW n \in Nat, n \in S, n + 1 <= N PROVE At(n + 1)
    <3>. HIDE DEF At
    <3>. QED OBVIOUS
  <2>1. At(n) /\ n + 1 \in 1 .. N
    <3>. HIDE DEF At
    <3>. QED BY <1>0
  <2>. DEFINE p == Order[n + 1]
              a == d[n]
              v == d[n + 1]
  <2>2. p \in POIs /\ v = Act(k, e, a, p)
    BY <1>0, <1>2, <2>1
  <2>3. a \in Attended /\ Around(w, a) /\ Later(w.icons, a.icons) /\ Same(w, a, p)
    <3>1. n + 1 > n
      OBVIOUS
    <3>. HIDE DEF Done
    <3>. QED BY <2>1, <3>1
  <2>4. Local(a, v, p)
    <3>. HIDE DEF a, v, p
    <3>. QED BY Zenon, <2>2, <2>3 DEF OneAtATime
  <2>5. v \in Attended /\ Around(w, v) /\ Later(w.icons, v.icons)
    <3>. HIDE DEF a, v, p
    <3>. QED BY <2>3, <2>4, SameOn, LaterOn DEF Local
  <2>6. ASSUME NEW j \in 1 .. N, j <= n + 1 PROVE Done(n + 1, j)
    <3>1. CASE j = n + 1
      <4>1. Same(Act(k, e, a, p), v, p)
        <5>. HIDE DEF a, v, p
        <5>. QED BY Zenon, <2>2, SameOn
      <4>2. Order[j] = p
        BY <3>1
      <4>. HIDE DEF a, v, p
      <4>3. \E b \in Attended : Around(w, b) /\ Same(w, b, p) /\ Same(Act(k, e, b, p), v, p)
        BY Zenon, <2>3, <4>1
      <4>. QED BY Zenon, <4>2, <4>3, <3>1 DEF v
    <3>2. CASE j # n + 1
      <4>1. j <= n
        BY <2>6, <3>2
      <4>2. Done(n, j)
        <5>. HIDE DEF Done
        <5>. QED BY <2>1, <4>1
      <4>3. PICK b \in Attended : Around(w, b) /\ Same(w, b, Order[j]) /\ Same(Act(k, e, b, Order[j]), a, Order[j])
        BY <4>2
      <4>4. Order[j] \in POIs \ {p}
        BY <1>0, <1>1, <2>1, <3>2
      <4>. HIDE DEF a, v, p
      <4>5. Same(a, v, Order[j])
        BY Zenon, <2>4, <4>4 DEF Local
      <4>6. Same(Act(k, e, b, Order[j]), v, Order[j])
        BY Zenon, <4>3, <4>5, SameOn
      <4>. QED BY Zenon, <4>3, <4>6 DEF v
    <3>. QED BY <3>1, <3>2
  <2>7. ASSUME NEW j \in 1 .. N, j > n + 1 PROVE Same(w, v, Order[j])
    <3>1. j > n /\ j # n + 1
      BY <2>7
    <3>2. Same(w, a, Order[j])
      <4>. HIDE DEF Done
      <4>. QED BY <2>1, <3>1
    <3>3. Order[j] \in POIs \ {p}
      BY <1>0, <1>1, <2>1, <3>1
    <3>. HIDE DEF a, v, p
    <3>. QED BY Zenon, <2>4, <3>2, <3>3, SameOn DEF Local
  <2>. HIDE DEF Done, N
  <2>. QED BY <2>5, <2>6, <2>7
<1>5. N \in S
  <2>. HIDE DEF S
  <2>. QED BY <1>0, <1>3, <1>4, InductionOverNat
<1>6. At(N)
  <2>. HIDE DEF At
  <2>. QED BY <1>0, <1>5
<1>7. ASSUME NEW q \in POIs
      PROVE  \E a \in Attended : Around(w, a) /\ Same(w, a, q) /\ Same(Act(k, e, a, q), d[N], q)
  <2>1. PICK j \in 1 .. N : Order[j] = q
    BY OrderIs
  <2>2. j <= N
    BY <1>0
  <2>3. Done(N, j)
    <3>. HIDE DEF Done, N
    <3>. QED BY <1>6, <2>1, <2>2
  <2>. QED BY <2>1, <2>3
<1>. HIDE DEF Done
<1>. QED BY <1>6, <1>7

LEMMA ForEachRuns ==
    ASSUME NEW w, NEW ps
    PROVE  /\ \E d : /\ Runs(d, "put", ps, w, Order, Len(Order))
                     /\ ForEach(Put, w, ps) = d[Len(Order)]
           /\ \E d : /\ Runs(d, "drop", ps, w, Order, Len(Order))
                     /\ ForEach(Drop, w, ps) = d[Len(Order)]
           /\ \E d : /\ Runs(d, "show", ps, w, Order, Len(Order))
                     /\ ForEach(Show, w, ps) = d[Len(Order)]
           /\ \E d : /\ Runs(d, "remade", ps, w, Order, Len(Order))
                     /\ ForEach(Remade, w, ps) = d[Len(Order)]
<1>. DEFINE N == Len(Order)
<1>1. \E d : Runs(d, "put", ps, w, Order, N) /\ ForEach(Put, w, ps) = d[N]
  <2>. DEFINE Done(g) == g = [n \in 0 .. N |-> IF n = 0 THEN w
                                ELSE IF Order[n] \in ps THEN Put(g[n - 1], Order[n]) ELSE g[n - 1]]
              f == CHOOSE g : Done(g)
  <2>1. ForEach(Put, w, ps) = f[N]
    BY DEF ForEach, Along
  <2>2. PICK d : Runs(d, "put", ps, w, Order, N)
    BY OrderIs, RunsExist
  <2>3. Done(d)
    BY <2>2 DEF Runs, Act
  <2>4. Done(f)
    BY Zenon, <2>3
  <2>. HIDE DEF f
  <2>5. Runs(f, "put", ps, w, Order, N)
    BY <2>4 DEF Runs, Act
  <2>. QED BY <2>1, <2>5
<1>2. \E d : Runs(d, "drop", ps, w, Order, N) /\ ForEach(Drop, w, ps) = d[N]
  <2>. DEFINE Done(g) == g = [n \in 0 .. N |-> IF n = 0 THEN w
                                ELSE IF Order[n] \in ps THEN Drop(g[n - 1], Order[n]) ELSE g[n - 1]]
              f == CHOOSE g : Done(g)
  <2>1. ForEach(Drop, w, ps) = f[N]
    BY DEF ForEach, Along
  <2>2. PICK d : Runs(d, "drop", ps, w, Order, N)
    BY OrderIs, RunsExist
  <2>3. Done(d)
    BY <2>2 DEF Runs, Act
  <2>4. Done(f)
    BY Zenon, <2>3
  <2>. HIDE DEF f
  <2>5. Runs(f, "drop", ps, w, Order, N)
    BY <2>4 DEF Runs, Act
  <2>. QED BY <2>1, <2>5
<1>3. \E d : Runs(d, "show", ps, w, Order, N) /\ ForEach(Show, w, ps) = d[N]
  <2>. DEFINE Done(g) == g = [n \in 0 .. N |-> IF n = 0 THEN w
                                ELSE IF Order[n] \in ps THEN Show(g[n - 1], Order[n]) ELSE g[n - 1]]
              f == CHOOSE g : Done(g)
  <2>1. ForEach(Show, w, ps) = f[N]
    BY DEF ForEach, Along
  <2>2. PICK d : Runs(d, "show", ps, w, Order, N)
    BY OrderIs, RunsExist
  <2>3. Done(d)
    BY <2>2 DEF Runs, Act
  <2>4. Done(f)
    BY Zenon, <2>3
  <2>. HIDE DEF f
  <2>5. Runs(f, "show", ps, w, Order, N)
    BY <2>4 DEF Runs, Act
  <2>. QED BY <2>1, <2>5
<1>4. \E d : Runs(d, "remade", ps, w, Order, N) /\ ForEach(Remade, w, ps) = d[N]
  <2>. DEFINE Done(g) == g = [n \in 0 .. N |-> IF n = 0 THEN w
                                ELSE IF Order[n] \in ps THEN Remade(g[n - 1], Order[n]) ELSE g[n - 1]]
              f == CHOOSE g : Done(g)
  <2>1. ForEach(Remade, w, ps) = f[N]
    BY DEF ForEach, Along
  <2>2. PICK d : Runs(d, "remade", ps, w, Order, N)
    BY OrderIs, RunsExist
  <2>3. Done(d)
    BY <2>2 DEF Runs, Act
  <2>4. Done(f)
    BY Zenon, <2>3
  <2>. HIDE DEF f
  <2>5. Runs(f, "remade", ps, w, Order, N)
    BY <2>4 DEF Runs, Act
  <2>. QED BY <2>1, <2>5
<1>. QED BY <1>1, <1>2, <1>3, <1>4

\* All POIs of the pool are put.
LEMMA PutAll ==
    ASSUME NEW w \in Attended, NEW K, NEW W, W # NoController, NEW ps, w.ctl.view \notin w.dead,
           \A q \in POIs : Drawn(K, W, w, q, ps) /\ Styled(w, q) /\ AsWanted(w, q)
    PROVE  LET v == ForEach(Put, w, ps)
           IN  /\ v \in Attended /\ Around(w, v) /\ Later(w.icons, v.icons)
               /\ \A q \in POIs :
                    /\ Drawn(K, W, v, q, ps) /\ Styled(v, q) /\ AsWanted(v, q)
                    /\ (w.ctl.markers[q] # 0 \/ (q \in ps /\ q \notin w.fails)) => v.ctl.markers[q] # 0
                    /\ v.ctl.markers[q] # 0 => (w.ctl.markers[q] # 0 \/ q \in ps)
<1>. DEFINE v == ForEach(Put, w, ps)
<1>1. ASSUME NEW a \in Attended, NEW q \in POIs, Around(w, a), Same(w, a, q)
      PROVE  LET z == Act("put", ps, a, q)
             IN  /\ Local(a, z, q)
                 /\ Drawn(K, W, z, q, ps) /\ Styled(z, q) /\ AsWanted(z, q)
                 /\ (w.ctl.markers[q] # 0 \/ (q \in ps /\ q \notin w.fails)) => z.ctl.markers[q] # 0
                 /\ z.ctl.markers[q] # 0 => (w.ctl.markers[q] # 0 \/ q \in ps)
  <2>1. Drawn(K, W, a, q, ps) /\ Styled(a, q) /\ AsWanted(a, q)
    BY <1>1, DrawnAlike
  <2>2. a.ctl.view \notin a.dead /\ a.fails = w.fails /\ a.ctl.markers[q] = w.ctl.markers[q]
    BY <1>1 DEF Around, Same
  <2>3. CASE q \in ps
    <3>1. Act("put", ps, a, q) = Put(a, q)
      BY <2>3 DEF Act
    <3>2. /\ Local(a, Put(a, q), q) /\ Drawn(K, W, Put(a, q), q, ps)
          /\ Styled(Put(a, q), q) /\ AsWanted(Put(a, q), q)
          /\ a.ctl.markers[q] # 0 \/ q \notin a.fails => Put(a, q).ctl.markers[q] # 0
      BY <2>1, <2>2, <2>3, PutIs
    <3>. QED BY <2>2, <2>3, <3>1, <3>2
  <2>4. CASE q \notin ps
    <3>1. Act("put", ps, a, q) = a
      BY <2>4 DEF Act
    <3>. QED BY <2>1, <2>2, <2>4, <3>1, LocalOn
  <2>. QED BY <2>3, <2>4
<1>2. PICK d : Runs(d, "put", ps, w, Order, Len(Order)) /\ v = d[Len(Order)]
  BY ForEachRuns
<1>3. OneAtATime("put", ps, w)
  BY <1>1 DEF OneAtATime
<1>. HIDE DEF v
<1>4. /\ v \in Attended /\ Around(w, v) /\ Later(w.icons, v.icons)
      /\ \A q \in POIs : \E a \in Attended :
            Around(w, a) /\ Same(w, a, q) /\ Same(Act("put", ps, a, q), v, q)
  BY <1>2, <1>3, OneByOne
<1>5. ASSUME NEW q \in POIs
      PROVE  /\ Drawn(K, W, v, q, ps) /\ Styled(v, q) /\ AsWanted(v, q)
             /\ (w.ctl.markers[q] # 0 \/ (q \in ps /\ q \notin w.fails)) => v.ctl.markers[q] # 0
             /\ v.ctl.markers[q] # 0 => (w.ctl.markers[q] # 0 \/ q \in ps)
  <2>1. PICK a \in Attended : Around(w, a) /\ Same(w, a, q) /\ Same(Act("put", ps, a, q), v, q)
    BY <1>4
  <2>. DEFINE z == Act("put", ps, a, q)
  <2>2. /\ Local(a, z, q)
        /\ Drawn(K, W, z, q, ps) /\ Styled(z, q) /\ AsWanted(z, q)
        /\ (w.ctl.markers[q] # 0 \/ (q \in ps /\ q \notin w.fails)) => z.ctl.markers[q] # 0
        /\ z.ctl.markers[q] # 0 => (w.ctl.markers[q] # 0 \/ q \in ps)
    BY <1>1, <2>1
  <2>. HIDE DEF z
  <2>3. z \in Attended /\ Around(z, v) /\ Same(z, v, q)
    BY <1>4, <2>1, <2>2 DEF Local, Around, z
  <2>4. Drawn(K, W, v, q, ps) /\ Styled(v, q) /\ AsWanted(v, q)
    BY <2>2, <2>3, DrawnAlike
  <2>5. v.ctl.markers[q] = z.ctl.markers[q]
    BY <2>3 DEF Same
  <2>. QED BY <2>2, <2>4, <2>5
<1>. QED BY <1>4, <1>5 DEF v

\* Those given are taken away, the others left alone.
LEMMA DropAll ==
    ASSUME NEW w \in Attended, NEW ps,
           \A q \in POIs : Tidy(w, q) /\ (q \in ps => w.ctl.markers[q] # 0)
    PROVE  LET v == ForEach(Drop, w, ps)
           IN  /\ v \in Attended /\ Around(w, v) /\ Later(w.icons, v.icons)
               /\ \A q \in POIs :
                    /\ q \in ps => Gone(w, v, q)
                    /\ q \notin ps => Same(w, v, q)
<1>. DEFINE v == ForEach(Drop, w, ps)
<1>1. ASSUME NEW a \in Attended, NEW q \in POIs, Around(w, a), Same(w, a, q)
      PROVE  LET z == Act("drop", ps, a, q)
             IN  /\ Local(a, z, q)
                 /\ q \in ps => Gone(w, z, q)
                 /\ q \notin ps => Same(w, z, q)
  <2>1. Tidy(a, q) /\ InUse(a, q) = InUse(w, q)
    BY <1>1, Alike DEF Same
  <2>2. a.ctl.markers[q] = w.ctl.markers[q]
    BY <1>1 DEF Same
  <2>3. CASE q \in ps
    <3>1. Act("drop", ps, a, q) = Drop(a, q)
      BY <2>3 DEF Act
    <3>. DEFINE z == Drop(a, q)
    <3>2. Dropped(a, z, q)
      BY <2>1, <2>2, <2>3, DropIs
    <3>. HIDE DEF z
    <3>. QED BY <2>1, <2>2, <2>3, <3>1, <3>2 DEF Dropped, Gone, z
  <2>4. CASE q \notin ps
    <3>1. Act("drop", ps, a, q) = a
      BY <2>4 DEF Act
    <3>. QED BY <1>1, <2>4, <3>1, LocalOn
  <2>. QED BY <2>3, <2>4
<1>2. PICK d : Runs(d, "drop", ps, w, Order, Len(Order)) /\ v = d[Len(Order)]
  <2>1. \A x, y : \E d : Runs(d, "drop", y, x, Order, Len(Order)) /\ ForEach(Drop, x, y) = d[Len(Order)]
    BY ForEachRuns
  <2>. QED BY Zenon, <2>1
<1>3. OneAtATime("drop", ps, w)
  BY <1>1 DEF OneAtATime
<1>. HIDE DEF v
<1>4. /\ v \in Attended /\ Around(w, v) /\ Later(w.icons, v.icons)
      /\ \A q \in POIs : \E a \in Attended :
            Around(w, a) /\ Same(w, a, q) /\ Same(Act("drop", ps, a, q), v, q)
  BY <1>2, <1>3, OneByOne
<1>5. ASSUME NEW q \in POIs
      PROVE  /\ q \in ps => Gone(w, v, q)
             /\ q \notin ps => Same(w, v, q)
  <2>1. PICK a \in Attended : Around(w, a) /\ Same(w, a, q) /\ Same(Act("drop", ps, a, q), v, q)
    BY <1>4
  <2>. DEFINE z == Act("drop", ps, a, q)
  <2>2. /\ Local(a, z, q)
        /\ q \in ps => Gone(w, z, q)
        /\ q \notin ps => Same(w, z, q)
    BY <1>1, <2>1
  <2>. HIDE DEF z
  <2>3. z \in Attended /\ Around(z, v) /\ Same(z, v, q)
    BY <1>4, <2>1, <2>2 DEF Local, Around, z
  <2>4. q \in ps => Gone(w, v, q)
    <3>1. Gone(w, z, q) => Gone(w, v, q)
      BY <2>3, Alike DEF Gone, Same
    <3>. QED BY <2>2, <3>1
  <2>5. q \notin ps => Same(w, v, q)
    BY <2>2, <2>3, SameOn
  <2>. QED BY <2>4, <2>5
<1>. QED BY <1>4, <1>5 DEF v

\* Those with a marker are shown or hidden, as wanted.
LEMMA ShowAll ==
    ASSUME NEW w \in Attended, NEW K, NEW W, NEW pool, NEW ps,
           ps = Registered(w), \A q \in POIs : Drawn(K, W, w, q, pool) /\ Styled(w, q)
    PROVE  LET v == ForEach(Show, w, ps)
           IN  /\ v \in Attended /\ Around(w, v) /\ Later(w.icons, v.icons)
               /\ \A q \in POIs :
                    /\ Drawn(K, W, v, q, pool) /\ Styled(v, q) /\ AsWanted(v, q)
                    /\ v.ctl.markers[q] = w.ctl.markers[q]
                    /\ w.ctl.markers[q] # 0 /\ Up(w, q) /\ q \notin w.fails => Up(v, q)
<1>. DEFINE v == ForEach(Show, w, ps)
<1>1. ASSUME NEW a \in Attended, NEW q \in POIs, Around(w, a), Same(w, a, q)
      PROVE  LET z == Act("show", ps, a, q)
             IN  /\ Local(a, z, q)
                 /\ Drawn(K, W, z, q, pool) /\ Styled(z, q) /\ AsWanted(z, q)
                 /\ z.ctl.markers[q] = w.ctl.markers[q]
                 /\ w.ctl.markers[q] # 0 /\ Up(w, q) /\ q \notin w.fails => Up(z, q)
  <2>1. /\ Drawn(K, W, a, q, pool) /\ Styled(a, q)
        /\ w.ctl.markers[q] # 0 => (Up(w, q) <=> Up(a, q))
    BY <1>1, DrawnAlike
  <2>2. a.fails = w.fails /\ a.ctl.markers[q] = w.ctl.markers[q] /\ (q \in ps <=> w.ctl.markers[q] # 0)
    BY <1>1 DEF Around, Same, Registered
  <2>3. CASE q \in ps
    <3>1. Act("show", ps, a, q) = Show(a, q)
      BY <2>3 DEF Act
    <3>. DEFINE z == Show(a, q)
    <3>2. /\ Local(a, z, q) /\ Drawn(K, W, z, q, pool) /\ AsWanted(z, q) /\ Styled(z, q)
          /\ z.ctl.markers[q] = a.ctl.markers[q]
          /\ Up(a, q) /\ q \notin a.fails => Up(z, q)
      BY <2>1, <2>2, <2>3, ShowIs
    <3>. HIDE DEF z
    <3>. QED BY <2>1, <2>2, <2>3, <3>1, <3>2 DEF z
  <2>4. CASE q \notin ps
    <3>1. Act("show", ps, a, q) = a
      BY <2>4 DEF Act
    <3>2. AsWanted(a, q)
      BY <2>2, <2>4 DEF AsWanted
    <3>. QED BY <2>1, <2>2, <2>4, <3>1, <3>2, LocalOn
  <2>. QED BY <2>3, <2>4
<1>2. PICK d : Runs(d, "show", ps, w, Order, Len(Order)) /\ v = d[Len(Order)]
  <2>1. \A x, y : \E d : Runs(d, "show", y, x, Order, Len(Order)) /\ ForEach(Show, x, y) = d[Len(Order)]
    BY ForEachRuns
  <2>. QED BY Zenon, <2>1
<1>3. OneAtATime("show", ps, w)
  BY <1>1 DEF OneAtATime
<1>. HIDE DEF v
<1>4. /\ v \in Attended /\ Around(w, v) /\ Later(w.icons, v.icons)
      /\ \A q \in POIs : \E a \in Attended :
            Around(w, a) /\ Same(w, a, q) /\ Same(Act("show", ps, a, q), v, q)
  BY <1>2, <1>3, OneByOne
<1>5. ASSUME NEW q \in POIs
      PROVE  /\ Drawn(K, W, v, q, pool) /\ Styled(v, q) /\ AsWanted(v, q)
             /\ v.ctl.markers[q] = w.ctl.markers[q]
             /\ w.ctl.markers[q] # 0 /\ Up(w, q) /\ q \notin w.fails => Up(v, q)
  <2>1. PICK a \in Attended : Around(w, a) /\ Same(w, a, q) /\ Same(Act("show", ps, a, q), v, q)
    BY <1>4
  <2>. DEFINE z == Act("show", ps, a, q)
  <2>2. /\ Local(a, z, q)
        /\ Drawn(K, W, z, q, pool) /\ Styled(z, q) /\ AsWanted(z, q)
        /\ z.ctl.markers[q] = w.ctl.markers[q]
        /\ w.ctl.markers[q] # 0 /\ Up(w, q) /\ q \notin w.fails => Up(z, q)
    BY <1>1, <2>1
  <2>. HIDE DEF z
  <2>3. z \in Attended /\ Around(z, v) /\ Same(z, v, q)
    BY <1>4, <2>1, <2>2 DEF Local, Around, z
  <2>4. Drawn(K, W, v, q, pool) /\ Styled(v, q) /\ AsWanted(v, q)
    BY <2>2, <2>3, DrawnAlike
  <2>5. v.ctl.markers[q] = z.ctl.markers[q]
    BY <2>3 DEF Same
  <2>6. z.ctl.markers[q] # 0 => (Up(z, q) <=> Up(v, q))
    BY <2>3, DrawnAlike
  <2>. QED BY <2>2, <2>4, <2>5, <2>6
<1>. QED BY <1>4, <1>5 DEF v

\* Those that are gone from the layer are made again.
LEMMA RemadeAll ==
    ASSUME NEW w \in Attended, NEW K, NEW W, W # NoController, NEW pool, NEW ps,
           w.ctl.view \notin w.dead,
           \A q \in POIs : q \in ps <=> (w.ctl.markers[q] # 0 /\ ~AttachedAt(w, q)),
           \A q \in POIs : Drawn(K, W, w, q, pool) /\ Styled(w, q) /\ AsWanted(w, q)
    PROVE  LET v == ForEach(Remade, w, ps)
           IN  /\ v \in Attended /\ Around(w, v) /\ Later(w.icons, v.icons)
               /\ \A q \in POIs :
                    /\ Drawn(K, W, v, q, pool) /\ Styled(v, q) /\ AsWanted(v, q)
                    /\ v.ctl.markers[q] # 0 => w.ctl.markers[q] # 0 /\ AttachedAt(v, q)
                    /\ w.ctl.markers[q] # 0 /\ q \notin w.fails => v.ctl.markers[q] # 0
<1>. DEFINE v == ForEach(Remade, w, ps)
<1>1. ASSUME NEW a \in Attended, NEW q \in POIs, Around(w, a), Same(w, a, q)
      PROVE  LET z == Act("remade", ps, a, q)
             IN  /\ Local(a, z, q)
                 /\ Drawn(K, W, z, q, pool) /\ Styled(z, q) /\ AsWanted(z, q)
                 /\ z.ctl.markers[q] # 0 => w.ctl.markers[q] # 0 /\ AttachedAt(z, q)
                 /\ w.ctl.markers[q] # 0 /\ q \notin w.fails => z.ctl.markers[q] # 0
  <2>1. /\ Drawn(K, W, a, q, pool) /\ Styled(a, q) /\ AsWanted(a, q)
        /\ w.ctl.markers[q] # 0 => (AttachedAt(w, q) <=> AttachedAt(a, q))
    BY <1>1, DrawnAlike
  <2>2. /\ a.fails = w.fails /\ a.ctl.markers[q] = w.ctl.markers[q] /\ a.ctl.view \notin a.dead
        /\ q \in ps <=> (w.ctl.markers[q] # 0 /\ ~AttachedAt(w, q))
    BY <1>1 DEF Around, Same
  <2>3. CASE q \in ps
    <3>1. Act("remade", ps, a, q) = Remade(a, q)
      BY <2>3 DEF Act
    <3>. DEFINE z == Remade(a, q)
    <3>2. /\ Local(a, z, q) /\ Drawn(K, W, z, q, pool) /\ AsWanted(z, q) /\ Styled(z, q)
          /\ q \notin a.fails => z.ctl.markers[q] # 0
          /\ z.ctl.markers[q] # 0 => AttachedAt(z, q)
      BY <2>1, <2>2, <2>3, RemadeIs
    <3>. HIDE DEF z
    <3>. QED BY <2>1, <2>2, <2>3, <3>1, <3>2 DEF z
  <2>4. CASE q \notin ps
    <3>1. Act("remade", ps, a, q) = a
      BY <2>4 DEF Act
    <3>. QED BY <2>1, <2>2, <2>4, <3>1, LocalOn
  <2>. QED BY <2>3, <2>4
<1>2. PICK d : Runs(d, "remade", ps, w, Order, Len(Order)) /\ v = d[Len(Order)]
  <2>1. \A x, y : \E d : Runs(d, "remade", y, x, Order, Len(Order)) /\ ForEach(Remade, x, y) = d[Len(Order)]
    BY ForEachRuns
  <2>. QED BY Zenon, <2>1
<1>3. OneAtATime("remade", ps, w)
  BY <1>1 DEF OneAtATime
<1>. HIDE DEF v
<1>4. /\ v \in Attended /\ Around(w, v) /\ Later(w.icons, v.icons)
      /\ \A q \in POIs : \E a \in Attended :
            Around(w, a) /\ Same(w, a, q) /\ Same(Act("remade", ps, a, q), v, q)
  BY <1>2, <1>3, OneByOne
<1>5. ASSUME NEW q \in POIs
      PROVE  /\ Drawn(K, W, v, q, pool) /\ Styled(v, q) /\ AsWanted(v, q)
             /\ v.ctl.markers[q] # 0 => w.ctl.markers[q] # 0 /\ AttachedAt(v, q)
             /\ w.ctl.markers[q] # 0 /\ q \notin w.fails => v.ctl.markers[q] # 0
  <2>1. PICK a \in Attended : Around(w, a) /\ Same(w, a, q) /\ Same(Act("remade", ps, a, q), v, q)
    BY <1>4
  <2>. DEFINE z == Act("remade", ps, a, q)
  <2>2. /\ Local(a, z, q)
        /\ Drawn(K, W, z, q, pool) /\ Styled(z, q) /\ AsWanted(z, q)
        /\ z.ctl.markers[q] # 0 => w.ctl.markers[q] # 0 /\ AttachedAt(z, q)
        /\ w.ctl.markers[q] # 0 /\ q \notin w.fails => z.ctl.markers[q] # 0
    BY <1>1, <2>1
  <2>. HIDE DEF z
  <2>3. z \in Attended /\ Around(z, v) /\ Same(z, v, q)
    BY <1>4, <2>1, <2>2 DEF Local, Around, z
  <2>4. Drawn(K, W, v, q, pool) /\ Styled(v, q) /\ AsWanted(v, q)
    BY <2>2, <2>3, DrawnAlike
  <2>5. v.ctl.markers[q] = z.ctl.markers[q]
    BY <2>3 DEF Same
  <2>6. z.ctl.markers[q] # 0 => (AttachedAt(z, q) <=> AttachedAt(v, q))
    BY <2>3, DrawnAlike
  <2>. QED BY <2>2, <2>4, <2>5, <2>6
<1>. QED BY <1>4, <1>5 DEF v

-----------------------------------------------------------------------------
\* What is done for all of them

\* The controller goes on, in the same view.
Settled(w, v) ==
    /\ v \in Attended /\ Later(w.icons, v.icons)
    /\ v.fails = w.fails /\ v.dead = w.dead /\ v.ctl.view = w.ctl.view

LEMMA SettledOn ==
    /\ \A w \in Attended : Settled(w, w)
    /\ \A w, v, z : Settled(w, v) /\ Settled(v, z) => Settled(w, z)
    /\ \A w, v : v \in Attended /\ Around(w, v) /\ Later(w.icons, v.icons) => Settled(w, v)
  BY LaterOn DEF Settled, Around

\* The controller is told what is visible, selected and highlighted.
Told(w, ids, s, h) ==
    [icons |-> w.icons, layer |-> w.layer, waiting |-> w.waiting,
     ctl |-> [w.ctl EXCEPT !.visible = ids, !.selected = s, !.highlighted = h],
     fails |-> w.fails, dead |-> w.dead]

Informed(w, v, ids, s, h) ==
    /\ Settled(w, v) /\ v.icons = w.icons /\ \A q : Same(w, v, q)
    /\ v.ctl.visible = ids /\ v.ctl.selected = s /\ v.ctl.highlighted = h

LEMMA ToldIs ==
    ASSUME NEW w \in Attended, NEW ids \in (SUBSET POIs) \cup {Everything},
           NEW s \in POIs \cup {NoPoi}, NEW h \in POIs \cup {NoPoi}
    PROVE  Informed(w, Told(w, ids, s, h), ids, s, h)
<1>. DEFINE c == [w.ctl EXCEPT !.visible = ids, !.selected = s, !.highlighted = h]
            v == Told(w, ids, s, h)
<1>1. w \in Worlds /\ w.ctl \in Controllers
  BY DEF Attended
<1>2. /\ c \in Controllers /\ c.visible = ids /\ c.selected = s /\ c.highlighted = h
      /\ c.view = w.ctl.view /\ c.markers = w.ctl.markers /\ c.style = w.ctl.style
      /\ c.kind = w.ctl.kind /\ c.logo = w.ctl.logo /\ c.applied = w.ctl.applied
      /\ c.placed = w.ctl.placed
  BY <1>1 DEF Controllers
<1>. HIDE DEF c
<1>3. v = [icons |-> w.icons, layer |-> w.layer, waiting |-> w.waiting, ctl |-> c,
           fails |-> w.fails, dead |-> w.dead]
  BY DEF Told, c
<1>. HIDE DEF v
<1>4. /\ v.icons = w.icons /\ v.layer = w.layer /\ v.waiting = w.waiting /\ v.ctl = c
      /\ v.fails = w.fails /\ v.dead = w.dead
  BY Zenon, <1>3
<1>5. v \in Attended
  <2>1. \A u \in w.waiting : u.url \in w.icons.fetching
    BY DEF Attended, NoneWaitsInVain
  <2>. QED BY <1>1, <1>2, <1>3, <2>1, WorldIs, WorldHas
<1>6. \A q : Same(w, v, q)
  BY <1>2, <1>4 DEF Same, InUse
<1>7. Settled(w, v)
  BY <1>2, <1>4, <1>5, LaterOn DEF Settled
<1>. QED BY <1>2, <1>4, <1>6, <1>7 DEF v, Informed

\* What is drawn is not changed by that.
LEMMA DrawnTold ==
    ASSUME NEW w \in Attended, NEW v, Settled(w, v), NEW p \in POIs, Same(w, v, p),
           NEW K, NEW W, NEW pool
    PROVE  /\ Drawn(K, W, w, p, pool) => Drawn(K, W, v, p, pool)
           /\ v.ctl.markers[p] = w.ctl.markers[p] /\ v.ctl.style[p] = w.ctl.style[p]
           /\ w.ctl.markers[p] # 0 => Mark(v, p) = Mark(w, p)
           /\ w.ctl.markers[p] # 0 => (Up(w, p) <=> Up(v, p))
<1>1. /\ v.ctl.markers[p] = w.ctl.markers[p] /\ v.ctl.style[p] = w.ctl.style[p] /\ FreeOf(v, p) = FreeOf(w, p)
      /\ v.fails = w.fails /\ v.dead = w.dead /\ v.ctl.view = w.ctl.view
  BY DEF Same, Settled, FreeOf
<1>2. w.ctl.markers[p] # 0 => Mark(v, p) = Mark(w, p)
  <2>. SUFFICES ASSUME w.ctl.markers[p] # 0 PROVE Mark(v, p) = Mark(w, p)
    OBVIOUS
  <2>1. w.ctl.markers[p] \in Nums
    BY MarkIs
  <2>. QED BY <1>1, <2>1 DEF Same, Mark, Wrapper
<1>3. ASSUME Tidy(w, p) PROVE Tidy(v, p)
  <2>1. /\ \A i \in Nums : v.layer[<<p, i>>] # NoMarker <=> i = v.ctl.markers[p]
        /\ \A i \in Nums : <<p, i>> \in v.ctl.placed <=> i = v.ctl.markers[p]
        /\ v.ctl.markers[p] = 0 => v.ctl.applied[p] = "none"
    BY <1>1, <1>3 DEF Same, Tidy
  <2>2. ASSUME v.ctl.markers[p] # 0
        PROVE  /\ RecordedAsDrawn(v, p) /\ Mark(v, p).view = v.ctl.view
               /\ Mark(v, p).known <=> v.ctl.view \notin v.dead
    <3>1. RecordedAsDrawn(v, p)
      BY <1>1, <1>2, <1>3, <2>2 DEF Tidy, RecordedAsDrawn, Same
    <3>. QED BY <1>1, <1>2, <1>3, <2>2, <3>1 DEF Tidy
  <2>. QED BY <2>1, <2>2 DEF Tidy
<1>4. w.ctl.markers[p] # 0 => (AttachedAt(w, p) <=> AttachedAt(v, p)) /\ (Up(w, p) <=> Up(v, p))
  BY <1>2 DEF AttachedAt, Up
<1>5. Room(W, w, p, pool) => Room(W, v, p, pool)
  BY <1>1, <1>4 DEF Room
<1>6. Keeps(K, w, p, pool) => Keeps(K, v, p, pool)
  BY <1>1, <1>2, <1>4 DEF Keeps
<1>. QED BY <1>1, <1>2, <1>3, <1>4, <1>5, <1>6 DEF Drawn

Fine(K, W, w, pool) ==
    \A q \in POIs : Drawn(K, W, w, q, pool) /\ Styled(w, q) /\ AsWanted(w, q)

\* The visible ones, and no other, are shown, unless they are refused.
Seen(K, W, w, v, pool, ids) ==
    /\ Settled(w, v) /\ Fine(K, W, v, pool) /\ v.ctl.visible = ids
    /\ v.ctl.selected = w.ctl.selected /\ v.ctl.highlighted = w.ctl.highlighted
    /\ \A q \in POIs :
        /\ v.ctl.markers[q] = w.ctl.markers[q]
        /\ w.ctl.markers[q] # 0 /\ Up(w, q) /\ q \notin w.fails => Up(v, q)

LEMMA SetVisibleIs ==
    ASSUME NEW w \in Attended, NEW ids \in SUBSET POIs, NEW K, NEW W, NEW pool, Fine(K, W, w, pool)
    PROVE  Seen(K, W, w, SetVisiblePOIs(w, ids), pool, ids)
<1>. DEFINE t == Told(w, ids, w.ctl.selected, w.ctl.highlighted)
            v == SetVisiblePOIs(w, ids)
<1>1. /\ Settled(w, t) /\ t.icons = w.icons /\ \A q : Same(w, t, q)
      /\ t.ctl.visible = ids /\ t.ctl.selected = w.ctl.selected /\ t.ctl.highlighted = w.ctl.highlighted
  <2>1. w.ctl.selected \in POIs \cup {NoPoi} /\ w.ctl.highlighted \in POIs \cup {NoPoi}
        /\ ids \in (SUBSET POIs) \cup {Everything}
    BY DEF Attended, Controllers
  <2>. DEFINE s == w.ctl.selected
              h == w.ctl.highlighted
  <2>2. s \in POIs \cup {NoPoi} /\ h \in POIs \cup {NoPoi} /\ ids \in (SUBSET POIs) \cup {Everything}
    BY <2>1
  <2>. HIDE DEF s, h, t, v
  <2>3. Informed(w, Told(w, ids, s, h), ids, s, h)
    BY <2>2, ToldIs
  <2>. QED BY Zenon, <2>3 DEF s, h, t, Informed
<1>2. [w EXCEPT !.ctl.visible = ids] = t
  <2>1. [w.ctl EXCEPT !.visible = ids] =
           [w.ctl EXCEPT !.visible = ids, !.selected = w.ctl.selected, !.highlighted = w.ctl.highlighted]
    BY DEF Attended, Controllers
  <2>2. w \in Worlds
    BY DEF Attended
  <2>3. [w EXCEPT !.ctl = [w.ctl EXCEPT !.visible = ids]] = t
    <3>. DEFINE c == [w.ctl EXCEPT !.visible = ids]
    <3>1. t = [icons |-> w.icons, layer |-> w.layer, waiting |-> w.waiting, ctl |-> c,
               fails |-> w.fails, dead |-> w.dead]
      BY <2>1 DEF Told
    <3>. HIDE DEF c, t
    <3>2. [w EXCEPT !.ctl = c] = t
      BY <2>2, <3>1 DEF Worlds
    <3>. QED BY <3>2 DEF c
  <2>. QED BY <2>3
<1>3. v = ForEach(Show, t, Registered(w))
  <2>. HIDE DEF t
  <2>. QED BY <1>2 DEF SetVisiblePOIs
<1>. HIDE DEF t, v
<1>4. t \in Attended /\ Registered(w) = Registered(t)
  BY <1>1 DEF Settled, Registered, Same
<1>5. \A q \in POIs : Drawn(K, W, t, q, pool) /\ Styled(t, q) /\ t.ctl.markers[q] = w.ctl.markers[q]
                      /\ (w.ctl.markers[q] # 0 => (Up(w, q) <=> Up(t, q)))
  <2>. TAKE q \in POIs
  <2>1. Drawn(K, W, w, q, pool) /\ Styled(w, q)
    BY DEF Fine
  <2>2. Drawn(K, W, t, q, pool) /\ t.ctl.markers[q] = w.ctl.markers[q] /\ t.ctl.style[q] = w.ctl.style[q]
        /\ (w.ctl.markers[q] # 0 => (Up(w, q) <=> Up(t, q)))
    BY <1>1, <2>1, DrawnTold
  <2>. QED BY <1>1, <2>1, <2>2 DEF Styled
<1>6. /\ v \in Attended /\ Around(t, v) /\ Later(t.icons, v.icons)
      /\ \A q \in POIs :
            /\ Drawn(K, W, v, q, pool) /\ Styled(v, q) /\ AsWanted(v, q)
            /\ v.ctl.markers[q] = t.ctl.markers[q]
            /\ t.ctl.markers[q] # 0 /\ Up(t, q) /\ q \notin t.fails => Up(v, q)
  <2>1. \A q \in POIs : Drawn(K, W, t, q, pool) /\ Styled(t, q)
    BY <1>5
  <2>2. v = ForEach(Show, t, Registered(t))
    BY <1>3, <1>4
  <2>. QED BY <1>4, <2>1, <2>2, ShowAll
<1>7. Settled(w, v)
  BY <1>1, <1>6, SettledOn
<1>8. v.ctl.visible = ids /\ v.ctl.selected = w.ctl.selected /\ v.ctl.highlighted = w.ctl.highlighted
      /\ t.fails = w.fails
  BY <1>1, <1>6 DEF Around, Settled
<1>. QED BY <1>5, <1>6, <1>7, <1>8 DEF v, Seen, Fine

\* The list is put on the map, and replaces what is neither in it nor retained.
Listed(K, W, w, v, pois, replace, retain) ==
    /\ Settled(w, v) /\ Around(w, v) /\ Fine(K, W, v, pois)
    /\ \A q \in POIs :
        /\ v.ctl.markers[q] # 0 => (w.ctl.markers[q] # 0 \/ q \in pois)
        /\ w.ctl.view \notin w.dead =>
            /\ q \in pois /\ q \notin w.fails => v.ctl.markers[q] # 0
            /\ (replace /\ pois # {} /\ v.ctl.markers[q] # 0) => q \in pois \cup retain

LEMMA SetPOIsIs ==
    ASSUME NEW w \in Attended, NEW pois \in SUBSET POIs, NEW replace \in BOOLEAN, NEW retain,
           NEW K, NEW W, W # NoController,
           Fine(K, W, w, pois)
    PROVE  Listed(K, W, w, SetPOIs(w, pois, replace, retain), pois, replace, retain)
<1>. DEFINE v == SetPOIs(w, pois, replace, retain)
<1>1. CASE ~IsReady(w) \/ pois = {}
  <2>1. v = w
    BY <1>1 DEF SetPOIs
  <2>2. w.ctl # NoController
    BY Distinctions DEF Attended
  <2>3. w.ctl.view \in w.dead \/ pois = {}
    BY <1>1, <2>2 DEF IsReady
  <2>4. Settled(w, w) /\ Around(w, w)
    BY SettledOn, SameOn
  <2>. HIDE DEF v
  <2>. QED BY <2>1, <2>3, <2>4 DEF v, Listed, Fine
<1>2. CASE ~(~IsReady(w) \/ pois = {})
  <2>. DEFINE a == ForEach(Put, w, pois)
  <2>1. v = Pruned(a, pois, replace, retain) /\ w.ctl.view \notin w.dead
    BY <1>2 DEF SetPOIs, IsReady
  <2>2. /\ a \in Attended /\ Around(w, a) /\ Later(w.icons, a.icons)
        /\ \A q \in POIs :
            /\ Drawn(K, W, a, q, pois) /\ Styled(a, q) /\ AsWanted(a, q)
            /\ (w.ctl.markers[q] # 0 \/ (q \in pois /\ q \notin w.fails)) => a.ctl.markers[q] # 0
            /\ a.ctl.markers[q] # 0 => (w.ctl.markers[q] # 0 \/ q \in pois)
    <3>1. \A q \in POIs : Drawn(K, W, w, q, pois) /\ Styled(w, q) /\ AsWanted(w, q)
      BY DEF Fine
    <3>. HIDE DEF a, v
    <3>. QED BY <2>1, <3>1, PutAll DEF a
  <2>. HIDE DEF a, v
  <2>3. CASE replace = FALSE
    <3>1. v = a
      BY <2>1, <2>3 DEF Pruned
    <3>2. Settled(w, v) /\ Around(w, v)
      BY <2>2, <3>1, SettledOn
    <3>. QED BY <2>2, <2>3, <3>1, <3>2 DEF v, Listed, Fine
  <2>4. CASE replace = TRUE
    <3>. DEFINE gone == Registered(a) \ (pois \cup retain)
    <3>1. v = ForEach(Drop, a, gone)
      BY <2>1, <2>4 DEF Pruned
    <3>2. \A q \in POIs : Tidy(a, q) /\ (q \in gone => a.ctl.markers[q] # 0 /\ q \notin pois)
      BY <2>2 DEF Drawn, Registered
    <3>3. \A q \in POIs : a.ctl.markers[q] # 0 /\ q \notin gone => q \in pois \cup retain
      BY DEF Registered
    <3>4. \A q \in POIs : q \in pois => q \notin gone
      OBVIOUS
    <3>. HIDE DEF gone
    <3>5. /\ v \in Attended /\ Around(a, v) /\ Later(a.icons, v.icons)
          /\ \A q \in POIs : (q \in gone => Gone(a, v, q)) /\ (q \notin gone => Same(a, v, q))
      BY <2>2, <3>1, <3>2, DropAll
    <3>6. Settled(w, v) /\ Around(w, v)
      BY <2>2, <3>5, SettledOn, SameOn
    <3>7. ASSUME NEW q \in POIs
          PROVE  /\ Drawn(K, W, v, q, pois) /\ Styled(v, q) /\ AsWanted(v, q)
                 /\ v.ctl.markers[q] # 0 => (w.ctl.markers[q] # 0 \/ q \in pois)
                 /\ q \in pois /\ q \notin w.fails => v.ctl.markers[q] # 0
                 /\ v.ctl.markers[q] # 0 => q \in pois \cup retain
      <4>1. CASE q \in gone
        <5>1. Gone(a, v, q) /\ q \notin pois /\ v.ctl.markers[q] = 0
          BY <3>2, <3>5, <4>1 DEF Gone
        <5>2. Drawn(K, W, v, q, pois) /\ Styled(v, q) /\ AsWanted(v, q)
          BY <2>2, <5>1, DrawnGone
        <5>. QED BY <5>1, <5>2
      <4>2. CASE q \notin gone
        <5>1. Same(a, v, q)
          BY <3>5, <4>2
        <5>2. Drawn(K, W, v, q, pois) /\ Styled(v, q) /\ AsWanted(v, q)
          BY <2>2, <3>5, <5>1, DrawnAlike
        <5>3. v.ctl.markers[q] = a.ctl.markers[q]
          BY <5>1 DEF Same
        <5>. QED BY <2>2, <3>3, <4>2, <5>2, <5>3
      <4>. QED BY <4>1, <4>2
    <3>. QED BY <3>6, <3>7 DEF v, Listed, Fine
  <2>. QED BY <2>3, <2>4
<1>. QED BY <1>1, <1>2

LEMMA SyncIs ==
    ASSUME NEW w \in Attended, NEW K, NEW W, W # NoController, NEW pool,
           \A q \in POIs : Drawn(K, W, w, q, pool) /\ Styled(w, q) /\ AsWanted(w, q)
    PROVE  LET v == Sync(w)
           IN  /\ Settled(w, v) /\ Around(w, v)
               /\ \A q \in POIs :
                    /\ Drawn(K, W, v, q, pool) /\ Styled(v, q) /\ AsWanted(v, q)
                    /\ v.ctl.markers[q] # 0 => w.ctl.markers[q] # 0
                    /\ w.ctl.markers[q] # 0 /\ q \notin w.fails => v.ctl.markers[q] # 0
                    /\ w.ctl.view \notin w.dead /\ v.ctl.markers[q] # 0 => AttachedAt(v, q)
<1>. DEFINE v == Sync(w)
            ps == {p \in Registered(w) : ~IsAttached(w, Wrapper(w, p))}
<1>0. w.ctl # NoController
  BY Distinctions DEF Attended
<1>1. CASE w.ctl.view \in w.dead
  <2>1. v = w
    BY <1>1 DEF Sync, IsReady
  <2>2. Settled(w, w) /\ Around(w, w)
    BY SettledOn, SameOn
  <2>. HIDE DEF v
  <2>. QED BY <1>1, <2>1, <2>2 DEF v
<1>2. CASE w.ctl.view \notin w.dead
  <2>1. v = ForEach(Remade, w, ps)
    BY <1>0, <1>2 DEF Sync, IsReady
  <2>2. \A q \in POIs : q \in ps <=> (w.ctl.markers[q] # 0 /\ ~AttachedAt(w, q))
    BY DEF Registered, IsAttached, AttachedAt, Up, Mark
  <2>. HIDE DEF v, ps
  <2>3. /\ v \in Attended /\ Around(w, v) /\ Later(w.icons, v.icons)
        /\ \A q \in POIs :
            /\ Drawn(K, W, v, q, pool) /\ Styled(v, q) /\ AsWanted(v, q)
            /\ v.ctl.markers[q] # 0 => w.ctl.markers[q] # 0 /\ AttachedAt(v, q)
            /\ w.ctl.markers[q] # 0 /\ q \notin w.fails => v.ctl.markers[q] # 0
    BY <1>2, <2>1, <2>2, RemadeAll
  <2>4. Settled(w, v)
    BY <2>3, SettledOn
  <2>. QED BY <2>3, <2>4 DEF v
<1>. QED BY <1>1, <1>2

\* As drawn as before, but for styles.
StillDrawn(K, W, w, v, pool) ==
    /\ Settled(w, v)
    /\ \A q \in POIs :
        /\ Drawn(K, W, v, q, pool) /\ AsWanted(v, q)
        /\ v.ctl.markers[q] = w.ctl.markers[q]
        /\ w.ctl.markers[q] # 0 => (Up(w, q) <=> Up(v, q))

LEMMA StillDrawnOn ==
    \A K, W, w, v, z, pool :
        StillDrawn(K, W, w, v, pool) /\ StillDrawn(K, W, v, z, pool) => StillDrawn(K, W, w, z, pool)
<1>. TAKE K, W, w, v, z, pool
<1>. HAVE StillDrawn(K, W, w, v, pool) /\ StillDrawn(K, W, v, z, pool)
<1>1. Settled(w, z)
  BY SettledOn DEF StillDrawn
<1>2. ASSUME NEW q \in POIs
      PROVE  /\ Drawn(K, W, z, q, pool) /\ AsWanted(z, q) /\ z.ctl.markers[q] = w.ctl.markers[q]
             /\ w.ctl.markers[q] # 0 => (Up(w, q) <=> Up(z, q))
  BY DEF StillDrawn
<1>. QED BY <1>1, <1>2 DEF StillDrawn

LEMMA RefreshedIs ==
    ASSUME NEW w \in Attended, NEW p \in POIs \cup {NoPoi}, NEW K, NEW W, NEW pool,
           \A q \in POIs : Drawn(K, W, w, q, pool) /\ AsWanted(w, q)
    PROVE  LET v == Refresh(w, p)
           IN  /\ StillDrawn(K, W, w, v, pool) /\ Around(w, v)
               /\ \A q \in POIs : q = p \/ Styled(w, q) => Styled(v, q)
<1>. DEFINE v == Refresh(w, p)
<1>1. CASE p = NoPoi
  <2>1. v = w /\ p \notin POIs
    BY <1>1, Distinctions DEF Refresh
  <2>2. Around(w, w) /\ Settled(w, w)
    BY SameOn, SettledOn
  <2>. HIDE DEF v
  <2>3. \A q \in POIs : q # p
    BY <2>1
  <2>. QED BY <2>1, <2>2, <2>3 DEF StillDrawn, v
<1>2. CASE p # NoPoi /\ w.ctl.markers[p] = 0
  <2>1. v = w
    BY <1>2 DEF Refresh
  <2>2. Around(w, w) /\ Settled(w, w)
    BY SameOn, SettledOn
  <2>3. Styled(w, p)
    BY <1>2 DEF Styled
  <2>. HIDE DEF v
  <2>. QED BY <2>1, <2>2, <2>3 DEF StillDrawn, v
<1>3. CASE p # NoPoi /\ w.ctl.markers[p] # 0
  <2>0. p \in POIs
    BY <1>3
  <2>1. v = ApplyStyle(w, p, Wrapper(w, p), StyleOf(p, w.ctl.selected, w.ctl.highlighted))
    BY <1>3 DEF Refresh
  <2>2. Redrawn(w, v, p) /\ Drawn(K, W, v, p, pool) /\ Styled(v, p) /\ AsWanted(v, p)
    BY <1>3, <2>0, <2>1, RefreshIs
  <2>. HIDE DEF v
  <2>3. Settled(w, v) /\ Around(w, v) /\ v.ctl.markers[p] = w.ctl.markers[p] /\ (Up(w, p) <=> Up(v, p))
    <3>1. Up(w, p) <=> Up(v, p)
      BY <2>0, <2>2, DrawnAgain
    <3>2. v \in Attended /\ Around(w, v) /\ Later(w.icons, v.icons) /\ v.ctl.markers[p] = w.ctl.markers[p]
      BY <2>2 DEF Redrawn, Local
    <3>. QED BY <3>1, <3>2, SettledOn
  <2>4. ASSUME NEW q \in POIs, q # p
        PROVE  /\ Drawn(K, W, v, q, pool) /\ AsWanted(v, q)
               /\ v.ctl.markers[q] = w.ctl.markers[q] /\ (Styled(w, q) => Styled(v, q))
               /\ w.ctl.markers[q] # 0 => (Up(w, q) <=> Up(v, q))
    <3>1. Same(w, v, q)
      BY <2>2, <2>4 DEF Redrawn, Local
    <3>2. /\ Drawn(K, W, w, q, pool) => Drawn(K, W, v, q, pool)
          /\ Styled(w, q) => Styled(v, q)
          /\ AsWanted(w, q) => AsWanted(v, q)
          /\ w.ctl.markers[q] # 0 => (Up(w, q) <=> Up(v, q))
      BY <2>3, <3>1, DrawnAlike
    <3>. QED BY <3>1, <3>2 DEF Same
  <2>5. StillDrawn(K, W, w, v, pool)
    BY <2>2, <2>3, <2>4 DEF StillDrawn
  <2>6. \A q \in POIs : q = p \/ Styled(w, q) => Styled(v, q)
    BY <2>2, <2>4
  <2>. QED BY <2>3, <2>5, <2>6 DEF v
<1>. QED BY <1>1, <1>2, <1>3

\* Only these two have to do with the change of what is selected and highlighted.
Concerned(w, s, h, prev, p) ==
    \A q \in POIs \ {prev, p} : /\ q = w.ctl.selected <=> q = s
                                /\ q = w.ctl.highlighted => q = h

\* As drawn as before, with s selected and h highlighted.
Turned(K, W, w, v, pool, s, h) ==
    /\ StillDrawn(K, W, w, v, pool) /\ \A q \in POIs : Styled(v, q)
    /\ v.ctl.visible = w.ctl.visible /\ v.ctl.selected = s /\ v.ctl.highlighted = h

Restyled(w, s, h, prev, p) ==
    LET told == Told(w, w.ctl.visible, s, h)
    IN  Refresh(IF prev # p THEN Refresh(told, prev) ELSE told, p)

\* The selection moves, and the one it leaves and the one it comes to are drawn again.
LEMMA RestyledIs ==
    ASSUME NEW w \in Attended, NEW K, NEW W, NEW pool, Fine(K, W, w, pool),
           NEW s \in POIs \cup {NoPoi}, NEW h \in POIs \cup {NoPoi},
           NEW prev \in POIs \cup {NoPoi}, NEW p \in POIs \cup {NoPoi},
           Concerned(w, s, h, prev, p)
    PROVE  Turned(K, W, w, Restyled(w, s, h, prev, p), pool, s, h)
<1>. DEFINE t == Told(w, w.ctl.visible, s, h)
            a == IF prev # p THEN Refresh(t, prev) ELSE t
            v == Refresh(a, p)
<1>1. /\ Settled(w, t) /\ \A q : Same(w, t, q)
      /\ t.ctl.visible = w.ctl.visible /\ t.ctl.selected = s /\ t.ctl.highlighted = h
  <2>1. w.ctl.visible \in (SUBSET POIs) \cup {Everything}
    BY DEF Attended, Controllers
  <2>. HIDE DEF t
  <2>2. Informed(w, Told(w, w.ctl.visible, s, h), w.ctl.visible, s, h)
    BY <2>1, ToldIs
  <2>. QED BY Zenon, <2>2 DEF t, Informed
<1>. HIDE DEF t
<1>2. ASSUME NEW q \in POIs
      PROVE  /\ Drawn(K, W, t, q, pool) /\ AsWanted(t, q) /\ t.ctl.markers[q] = w.ctl.markers[q]
             /\ w.ctl.markers[q] # 0 => (Up(w, q) <=> Up(t, q))
             /\ q \notin {prev, p} => Styled(t, q)
  <2>1. /\ Drawn(K, W, t, q, pool)
        /\ t.ctl.markers[q] = w.ctl.markers[q] /\ t.ctl.style[q] = w.ctl.style[q]
        /\ w.ctl.markers[q] # 0 => Mark(t, q) = Mark(w, q)
        /\ w.ctl.markers[q] # 0 => (Up(w, q) <=> Up(t, q))
    BY <1>1, DrawnTold DEF Fine
  <2>2. AsWanted(t, q)
    BY <1>1, <2>1 DEF AsWanted, Wanted, Fine
  <2>3. ASSUME q \notin {prev, p} PROVE Styled(t, q)
    <3>1. (q = w.ctl.selected <=> q = s) /\ (q = w.ctl.highlighted => q = h)
      BY <2>3 DEF Concerned
    <3>2. Styled(w, q)
      BY DEF Fine
    <3>. QED BY <1>1, <2>1, <3>1, <3>2 DEF Styled
  <2>. QED BY <2>1, <2>2, <2>3
<1>3. t \in Attended /\ StillDrawn(K, W, w, t, pool)
  BY <1>1, <1>2 DEF StillDrawn, Settled
<1>4. /\ StillDrawn(K, W, t, a, pool) /\ Around(t, a)
      /\ \A q \in POIs : q = p \/ Styled(a, q)
  <2>1. CASE prev # p
    <3>1. a = Refresh(t, prev)
      BY <2>1
    <3>2. /\ StillDrawn(K, W, t, a, pool) /\ Around(t, a)
          /\ \A q \in POIs : q = prev \/ Styled(t, q) => Styled(a, q)
      BY <1>2, <1>3, <3>1, RefreshedIs
    <3>. QED BY <1>2, <3>2
  <2>2. CASE prev = p
    <3>1. a = t
      BY <2>2
    <3>. HIDE DEF a
    <3>2. Settled(t, t) /\ Around(t, t)
      BY <1>3, SettledOn, SameOn
    <3>3. StillDrawn(K, W, t, t, pool)
      BY <1>2, <3>2 DEF StillDrawn
    <3>. QED BY <1>2, <2>2, <3>1, <3>2, <3>3
  <2>. QED BY <2>1, <2>2
<1>. HIDE DEF a
<1>5. a \in Attended /\ \A q \in POIs : Drawn(K, W, a, q, pool) /\ AsWanted(a, q)
  BY <1>4 DEF StillDrawn, Settled
<1>6. /\ StillDrawn(K, W, a, v, pool) /\ Around(a, v)
      /\ \A q \in POIs : q = p \/ Styled(a, q) => Styled(v, q)
  BY Zenon, <1>5, RefreshedIs
<1>. HIDE DEF v
<1>7. StillDrawn(K, W, w, v, pool)
  BY <1>3, <1>4, <1>6, StillDrawnOn
<1>8. \A q \in POIs : Styled(v, q)
  BY <1>4, <1>6
<1>9. v.ctl.visible = w.ctl.visible /\ v.ctl.selected = s /\ v.ctl.highlighted = h
  BY <1>1, <1>4, <1>6 DEF Around
<1>. QED BY <1>7, <1>8, <1>9 DEF v, a, t, Restyled, Turned

LEMMA SelectIs ==
    ASSUME NEW w \in Attended, NEW K, NEW W, NEW pool, NEW p \in POIs \cup {NoPoi},
           Fine(K, W, w, pool)
    PROVE  LET v == Select(w, p)
           IN  /\ StillDrawn(K, W, w, v, pool) /\ \A q \in POIs : Styled(v, q)
               /\ v.ctl.visible = w.ctl.visible /\ v.ctl.selected = p
               /\ v.ctl.highlighted \in {w.ctl.highlighted, NoPoi}
<1>. DEFINE h == IF p # NoPoi /\ w.ctl.highlighted = p THEN NoPoi ELSE w.ctl.highlighted
            prev == w.ctl.selected
            t == Told(w, w.ctl.visible, p, h)
            v == Select(w, p)
<1>1. w \in Worlds /\ prev \in POIs \cup {NoPoi} /\ h \in POIs \cup {NoPoi} /\ h \in {w.ctl.highlighted, NoPoi}
  BY DEF Attended, Controllers
<1>2. [w EXCEPT !.ctl.selected = p,
                !.ctl.highlighted = IF p # NoPoi /\ @ = p THEN NoPoi ELSE @] = t
  <2>1. [w EXCEPT !.ctl.selected = p,
                !.ctl.highlighted = IF p # NoPoi /\ @ = p THEN NoPoi ELSE @] =
        [w EXCEPT !.ctl = [w.ctl EXCEPT !.selected = p, !.highlighted = h]]
    BY DEF Attended, Worlds, Controllers
  <2>2. [w.ctl EXCEPT !.selected = p, !.highlighted = h] =
           [w.ctl EXCEPT !.visible = w.ctl.visible, !.selected = p, !.highlighted = h]
    <3>. HIDE DEF h
    <3>. QED BY DEF Attended, Controllers
  <2>. DEFINE c == [w.ctl EXCEPT !.visible = w.ctl.visible, !.selected = p, !.highlighted = h]
  <2>3. t = [icons |-> w.icons, layer |-> w.layer, waiting |-> w.waiting, ctl |-> c,
             fails |-> w.fails, dead |-> w.dead]
    BY DEF Told
  <2>. HIDE DEF t, h
  <2>4. [w EXCEPT !.ctl = c] = t
    <3>. HIDE DEF c
    <3>. QED BY <1>1, <2>3 DEF Worlds
  <2>. QED BY <2>1, <2>2, <2>4
<1>3. v = Restyled(w, p, h, prev, p)
  <2>. HIDE DEF t, h
  <2>1. v = Refresh(IF prev # p THEN Refresh(t, prev) ELSE t, p)
    BY <1>2 DEF Select, h
  <2>. QED BY <2>1 DEF Restyled, t
<1>4. Concerned(w, p, h, prev, p)
  <2>1. ASSUME NEW q \in POIs \ {prev, p}
        PROVE  (q = w.ctl.selected <=> q = p) /\ (q = w.ctl.highlighted => q = h)
    <3>1. q # p /\ q # w.ctl.selected
      OBVIOUS
    <3>2. q = w.ctl.highlighted => q = h
      BY <3>1
    <3>. QED BY <3>1, <3>2
  <2>. HIDE DEF prev, h
  <2>. QED BY <2>1 DEF Concerned
<1>. HIDE DEF h, prev
<1>5. Turned(K, W, w, Restyled(w, p, h, prev, p), pool, p, h)
  BY <1>1, <1>4, RestyledIs
<1>. HIDE DEF t, v
<1>. QED BY <1>1, <1>3, <1>5 DEF v, Turned

LEMMA HighlightIs ==
    ASSUME NEW w \in Attended, NEW K, NEW W, NEW pool, NEW p \in POIs \cup {NoPoi},
           Fine(K, W, w, pool)
    PROVE  LET v == Highlight(w, p)
           IN  /\ StillDrawn(K, W, w, v, pool) /\ \A q \in POIs : Styled(v, q)
               /\ v.ctl.visible = w.ctl.visible /\ v.ctl.selected = w.ctl.selected
               /\ v.ctl.highlighted = p
<1>. DEFINE s == w.ctl.selected
            prev == w.ctl.highlighted
            t == Told(w, w.ctl.visible, s, p)
            v == Highlight(w, p)
<1>1. w \in Worlds /\ prev \in POIs \cup {NoPoi} /\ s \in POIs \cup {NoPoi}
  BY DEF Attended, Controllers
<1>2. [w EXCEPT !.ctl.highlighted = p] = t
  <2>1. [w EXCEPT !.ctl.highlighted = p] = [w EXCEPT !.ctl = [w.ctl EXCEPT !.highlighted = p]]
    BY DEF Attended, Worlds, Controllers
  <2>2. [w.ctl EXCEPT !.highlighted = p] =
           [w.ctl EXCEPT !.visible = w.ctl.visible, !.selected = s, !.highlighted = p]
    BY DEF Attended, Controllers
  <2>. DEFINE c == [w.ctl EXCEPT !.visible = w.ctl.visible, !.selected = s, !.highlighted = p]
  <2>3. t = [icons |-> w.icons, layer |-> w.layer, waiting |-> w.waiting, ctl |-> c,
             fails |-> w.fails, dead |-> w.dead]
    BY DEF Told
  <2>. HIDE DEF t, s
  <2>4. [w EXCEPT !.ctl = c] = t
    <3>. HIDE DEF c
    <3>. QED BY <1>1, <2>3 DEF Worlds
  <2>. QED BY <2>1, <2>2, <2>4
<1>3. v = Restyled(w, s, p, prev, p)
  <2>. HIDE DEF t
  <2>1. v = Refresh(IF prev # p THEN Refresh(t, prev) ELSE t, p)
    BY <1>2 DEF Highlight
  <2>. QED BY <2>1 DEF Restyled, t
<1>4. Concerned(w, s, p, prev, p)
  <2>1. ASSUME NEW q \in POIs \ {prev, p}
        PROVE  (q = w.ctl.selected <=> q = s) /\ (q = w.ctl.highlighted => q = p)
    OBVIOUS
  <2>. HIDE DEF prev, s
  <2>. QED BY <2>1 DEF Concerned
<1>. HIDE DEF s, prev
<1>5. Turned(K, W, w, Restyled(w, s, p, prev, p), pool, s, p)
  BY <1>1, <1>4, RestyledIs
<1>. HIDE DEF t, v
<1>. QED BY <1>1, <1>3, <1>5 DEF v, s, Turned

-----------------------------------------------------------------------------
\* The effects of the page

Asks(pg) ==
    /\ pg.pois \subseteq POIs /\ pg.visible \subseteq POIs
    /\ pg.selected \in POIs \cup {NoPoi} /\ pg.highlighted \in POIs \cup {NoPoi}

\* What the controller is told is what the page asks for.
ToldOf(w, pg) ==
    /\ w.ctl.visible = pg.visible /\ w.ctl.selected = pg.selected
    /\ w.ctl.highlighted \in {pg.highlighted, NoPoi}

\* The markers there are on a living view.
UpToDate(w, pg) ==
    w.ctl.view \notin w.dead =>
        \A q \in POIs : w.ctl.markers[q] # 0 =>
            /\ q \notin w.fails => Up(w, q)
            /\ pg.mode = "domain" /\ pg.pois # {} => q \in pg.pois \cup Overlay

\* They are all there.
Complete(w, pg) ==
    w.ctl.view \notin w.dead => \A q \in pg.pois : q \notin w.fails => w.ctl.markers[q] # 0

LEMMA StillFine ==
    ASSUME NEW K, NEW W, NEW w, NEW v, NEW pool, StillDrawn(K, W, w, v, pool),
           \A q \in POIs : Styled(v, q)
    PROVE  Fine(K, W, v, pool)
  BY DEF Fine, StillDrawn

LEMMA StillUpToDate ==
    ASSUME NEW K, NEW W, NEW w, NEW v, NEW pool, StillDrawn(K, W, w, v, pool), NEW pg
    PROVE  /\ UpToDate(w, pg) => UpToDate(v, pg)
           /\ pg.pois \subseteq POIs /\ Complete(w, pg) => Complete(v, pg)
<1>1. v.ctl.view = w.ctl.view /\ v.dead = w.dead /\ v.fails = w.fails
  BY DEF StillDrawn, Settled
<1>2. \A q \in POIs : v.ctl.markers[q] = w.ctl.markers[q] /\ (w.ctl.markers[q] # 0 => (Up(w, q) <=> Up(v, q)))
  BY DEF StillDrawn
<1>3. UpToDate(w, pg) => UpToDate(v, pg)
  BY <1>1, <1>2 DEF UpToDate
<1>4. pg.pois \subseteq POIs /\ Complete(w, pg) => Complete(v, pg)
  BY <1>1, <1>2 DEF Complete
<1>. QED BY <1>3, <1>4

\* What comes of the list, the visible ones and the selection, before it is looked through.
LEMMA PutAndShownIs ==
    ASSUME NEW w \in Attended, NEW pg, Asks(pg), NEW K, NEW W, W # NoController, Fine(K, W, w, pg.pois)
    PROVE  LET v == SetVisiblePOIs(SetPOIs(w, pg.pois, pg.mode = "domain", Overlay), pg.visible)
           IN  /\ Settled(w, v) /\ Fine(K, W, v, pg.pois) /\ v.ctl.visible = pg.visible
               /\ Complete(v, pg)
               /\ \A q \in POIs : v.ctl.markers[q] # 0 =>
                    /\ w.ctl.markers[q] # 0 \/ q \in pg.pois
                    /\ w.ctl.view \notin w.dead /\ pg.mode = "domain" /\ pg.pois # {} =>
                            q \in pg.pois \cup Overlay
<1>. DEFINE a == SetPOIs(w, pg.pois, pg.mode = "domain", Overlay)
            v == SetVisiblePOIs(a, pg.visible)
<1>0. pg.pois \in SUBSET POIs /\ pg.visible \in SUBSET POIs
  BY DEF Asks
<1>1. /\ Settled(w, a) /\ Around(w, a)
      /\ \A q \in POIs :
            /\ Drawn(K, W, a, q, pg.pois) /\ Styled(a, q) /\ AsWanted(a, q)
            /\ a.ctl.markers[q] # 0 => (w.ctl.markers[q] # 0 \/ q \in pg.pois)
            /\ w.ctl.view \notin w.dead =>
                /\ q \in pg.pois /\ q \notin w.fails => a.ctl.markers[q] # 0
                /\ (pg.mode = "domain" /\ pg.pois # {} /\ a.ctl.markers[q] # 0) => q \in pg.pois \cup Overlay
  <2>1. Listed(K, W, w, a, pg.pois, pg.mode = "domain", Overlay)
    BY <1>0, SetPOIsIs
  <2>. HIDE DEF a
  <2>. QED BY <2>1 DEF Listed, Fine
<1>. HIDE DEF a
<1>2. a \in Attended /\ Fine(K, W, a, pg.pois)
  BY <1>1 DEF Settled, Fine
<1>3. Seen(K, W, a, v, pg.pois, pg.visible)
  BY <1>0, <1>2, SetVisibleIs
<1>. HIDE DEF v
<1>4. Settled(w, v) /\ Fine(K, W, v, pg.pois)
  BY <1>1, <1>3, SettledOn DEF Seen
<1>5. v.ctl.visible = pg.visible /\ \A q \in POIs : v.ctl.markers[q] = a.ctl.markers[q]
  BY <1>3 DEF Seen
<1>6. Complete(v, pg)
  BY <1>0, <1>1, <1>4, <1>5 DEF Complete, Settled
<1>. QED BY <1>1, <1>4, <1>5, <1>6 DEF v, a

LEMMA ApplySyncIs ==
    ASSUME NEW w \in Attended, NEW pg, Asks(pg), NEW K, NEW W, W # NoController, Fine(K, W, w, pg.pois)
    PROVE  LET v == ApplySync(w, pg)
           IN  /\ Settled(w, v) /\ Fine(K, W, v, pg.pois) /\ ToldOf(v, pg)
               /\ UpToDate(v, pg) /\ Complete(v, pg)
               /\ \A q \in POIs : v.ctl.markers[q] # 0 => (w.ctl.markers[q] # 0 \/ q \in pg.pois)
<1>. DEFINE a == SetVisiblePOIs(SetPOIs(w, pg.pois, pg.mode = "domain", Overlay), pg.visible)
            b == Select(a, pg.selected)
            c == Highlight(b, pg.highlighted)
            v == Sync(c)
<1>0. pg.selected \in POIs \cup {NoPoi} /\ pg.highlighted \in POIs \cup {NoPoi} /\ pg.pois \subseteq POIs
  BY DEF Asks
<1>1. /\ Settled(w, a) /\ Fine(K, W, a, pg.pois) /\ a.ctl.visible = pg.visible
      /\ Complete(a, pg)
      /\ \A q \in POIs : a.ctl.markers[q] # 0 =>
            /\ w.ctl.markers[q] # 0 \/ q \in pg.pois
            /\ w.ctl.view \notin w.dead /\ pg.mode = "domain" /\ pg.pois # {} =>
                    q \in pg.pois \cup Overlay
  BY PutAndShownIs
<1>. HIDE DEF a
<1>2. /\ StillDrawn(K, W, a, b, pg.pois) /\ \A q \in POIs : Styled(b, q)
      /\ b.ctl.visible = a.ctl.visible /\ b.ctl.selected = pg.selected
  <2>1. a \in Attended
    BY <1>1 DEF Settled
  <2>. QED BY <1>0, <1>1, <2>1, SelectIs
<1>. HIDE DEF b
<1>3. b \in Attended /\ Fine(K, W, b, pg.pois)
  BY <1>2, StillFine DEF StillDrawn, Settled
<1>4. /\ StillDrawn(K, W, b, c, pg.pois) /\ \A q \in POIs : Styled(c, q)
      /\ c.ctl.visible = b.ctl.visible /\ c.ctl.selected = b.ctl.selected
      /\ c.ctl.highlighted = pg.highlighted
  BY <1>0, <1>3, HighlightIs
<1>. HIDE DEF c
<1>5. c \in Attended /\ Fine(K, W, c, pg.pois) /\ StillDrawn(K, W, a, c, pg.pois)
  BY <1>2, <1>4, StillFine, StillDrawnOn DEF StillDrawn, Settled
<1>6. /\ Settled(c, v) /\ Around(c, v)
      /\ \A q \in POIs :
            /\ Drawn(K, W, v, q, pg.pois) /\ Styled(v, q) /\ AsWanted(v, q)
            /\ v.ctl.markers[q] # 0 => c.ctl.markers[q] # 0
            /\ c.ctl.markers[q] # 0 /\ q \notin c.fails => v.ctl.markers[q] # 0
            /\ c.ctl.view \notin c.dead /\ v.ctl.markers[q] # 0 => AttachedAt(v, q)
  <2>1. \A q \in POIs : Drawn(K, W, c, q, pg.pois) /\ Styled(c, q) /\ AsWanted(c, q)
    BY <1>5 DEF Fine
  <2>. QED BY <1>5, <2>1, SyncIs
<1>. HIDE DEF v
<1>7. Settled(a, c) /\ Settled(w, c) /\ Settled(w, v)
  BY <1>1, <1>5, <1>6, SettledOn DEF StillDrawn
<1>8. Fine(K, W, v, pg.pois)
  BY <1>6 DEF Fine
<1>9. ToldOf(v, pg)
  BY <1>1, <1>2, <1>4, <1>6 DEF ToldOf, Around
<1>10. \A q \in POIs : c.ctl.markers[q] = a.ctl.markers[q]
  BY <1>5 DEF StillDrawn
<1>11. c.ctl.view = w.ctl.view /\ c.dead = w.dead /\ c.fails = w.fails
       /\ v.ctl.view = w.ctl.view /\ v.dead = w.dead /\ v.fails = w.fails
  BY <1>7 DEF Settled
<1>12. UpToDate(v, pg)
  BY <1>1, <1>6, <1>10, <1>11 DEF UpToDate, AttachedAt
<1>13. Complete(v, pg)
  <2>1. Complete(c, pg)
    BY <1>0, <1>1, <1>5, StillUpToDate
  <2>. QED BY <1>0, <1>6, <1>11, <2>1 DEF Complete
<1>14. \A q \in POIs : v.ctl.markers[q] # 0 => (w.ctl.markers[q] # 0 \/ q \in pg.pois)
  BY <1>1, <1>6, <1>10
<1>15. v = ApplySync(w, pg)
  BY DEF v, c, b, a, ApplySync
<1>. QED BY Zenon, <1>7, <1>8, <1>9, <1>12, <1>13, <1>14, <1>15

-----------------------------------------------------------------------------
\* Room, clearing and a new controller

\* Every POI is drawn as it should be.
Sound(w) == \A q \in POIs : Tidy(w, q) /\ Styled(w, q) /\ AsWanted(w, q)

Roomy(w) == \A q \in POIs : FreeOf(w, q) # {}

LEMMA FineOn ==
    ASSUME NEW w, NEW pool
    PROVE  /\ Sound(w) => Fine(w, NoController, w, pool)
           /\ \A K : Fine(K, NoController, w, pool) /\ Roomy(w) => Fine(K, w, w, pool)
           /\ \A K, W : Fine(K, W, w, pool) => Sound(w) /\ Fine(K, NoController, w, pool)
           /\ \A K, W : /\ Fine(K, W, w, pool) /\ W # NoController
                        /\ \A q \in POIs : \A i : FreeOf(W, q) \ {i} # {}
                        => Roomy(w)
<1>1. \A q : Keeps(w, w, q, pool)
  BY DEF Keeps
<1>2. \A K, q : FreeOf(w, q) # {} => Room(w, w, q, pool)
  BY DEF Room
<1>3. \A K, q : Room(NoController, w, q, pool)
  BY DEF Room
<1>4. Sound(w) => Fine(w, NoController, w, pool)
  BY <1>1, <1>3 DEF Sound, Fine, Drawn
<1>5. \A K : Fine(K, NoController, w, pool) /\ Roomy(w) => Fine(K, w, w, pool)
  BY <1>2 DEF Fine, Drawn, Roomy
<1>6. \A K, W : Fine(K, W, w, pool) => Sound(w) /\ Fine(K, NoController, w, pool)
  BY <1>3 DEF Sound, Fine, Drawn
<1>7. ASSUME NEW K, NEW W, Fine(K, W, w, pool), W # NoController,
             \A q \in POIs : \A i : FreeOf(W, q) \ {i} # {}
      PROVE  Roomy(w)
  <2>. SUFFICES ASSUME NEW q \in POIs PROVE FreeOf(w, q) # {}
    BY DEF Roomy
  <2>1. PICK i : FreeOf(W, q) \ {i} \subseteq FreeOf(w, q)
    BY <1>7 DEF Fine, Drawn, Room
  <2>2. FreeOf(W, q) \ {i} # {}
    BY <1>7
  <2>. QED BY <2>1, <2>2
<1>. QED BY <1>4, <1>5, <1>6, <1>7

\* What is left of the wrappers' numbers.
LEMMA HasRoomIs ==
    ASSUME NEW w
    PROVE  /\ HasRoom(w, 1) => Roomy(w)
           /\ HasRoom(w, 2) => \A q \in POIs : \A i : FreeOf(w, q) \ {i} # {}
<1>1. /\ IsFiniteSet(Nums) /\ Cardinality(Nums) = MaxWrappers /\ MaxWrappers \in Nat
  BY Distinctions, FS_Interval DEF Nums
<1>2. ASSUME NEW q \in POIs
      PROVE  IsFiniteSet(InUse(w, q)) /\ Cardinality(InUse(w, q)) \in Nat
  <2>1. InUse(w, q) \subseteq Nums
    BY DEF InUse, Nums
  <2>. QED BY <1>1, <2>1, FS_Subset, FS_CardinalityType
<1>3. ASSUME HasRoom(w, 1), NEW q \in POIs PROVE FreeOf(w, q) # {}
  <2>. SUFFICES ASSUME FreeOf(w, q) = {} PROVE FALSE
    OBVIOUS
  <2>1. Nums \subseteq InUse(w, q)
    BY DEF FreeOf
  <2>2. MaxWrappers <= Cardinality(InUse(w, q))
    BY <1>1, <1>2, <2>1, FS_Subset
  <2>3. Cardinality(InUse(w, q)) + 1 <= MaxWrappers
    BY <1>3 DEF HasRoom
  <2>. QED BY <1>1, <1>2, <2>2, <2>3
<1>4. ASSUME HasRoom(w, 2), NEW q \in POIs, NEW i PROVE FreeOf(w, q) \ {i} # {}
  <2>. SUFFICES ASSUME FreeOf(w, q) \ {i} = {} PROVE FALSE
    OBVIOUS
  <2>. DEFINE S == InUse(w, q) \cup {i}
  <2>1. Nums \subseteq S
    BY DEF FreeOf
  <2>2. /\ IsFiniteSet(S)
        /\ Cardinality(S) = Cardinality(InUse(w, q)) \/ Cardinality(S) = Cardinality(InUse(w, q)) + 1
    BY <1>2, FS_AddElement
  <2>. HIDE DEF S
  <2>3. MaxWrappers <= Cardinality(S)
    BY <1>1, <2>1, <2>2, FS_Subset
  <2>4. Cardinality(InUse(w, q)) + 2 <= MaxWrappers
    BY <1>4 DEF HasRoom
  <2>. QED BY <1>1, <1>2, <2>2, <2>3, <2>4
<1>. QED BY <1>3, <1>4 DEF Roomy

LEMMA TidyTold ==
    ASSUME NEW w \in Attended, NEW v, NEW ids, NEW s, NEW h, Informed(w, v, ids, s, h),
           NEW p \in POIs, Tidy(w, p)
    PROVE  Tidy(v, p)
<1>1. Same(w, v, p) /\ Settled(w, v)
  BY DEF Informed
<1>2. Drawn(w, NoController, w, p, {})
  BY DEF Drawn, Keeps, Room
<1>3. Drawn(w, NoController, v, p, {})
  BY <1>1, <1>2, DrawnTold
<1>. QED BY <1>3 DEF Drawn

\* clear
Cleared(w, v) ==
    /\ Settled(w, v) /\ v.ctl.visible = Everything
    /\ v.ctl.selected = NoPoi /\ v.ctl.highlighted = NoPoi
    /\ \A q \in POIs : Tidy(v, q) /\ v.ctl.markers[q] = 0 /\ InUse(v, q) \subseteq InUse(w, q)

LEMMA ClearIs ==
    ASSUME NEW w \in Attended, Sound(w)
    PROVE  Cleared(w, Clear(w))
<1>. DEFINE t == Told(w, Everything, NoPoi, NoPoi)
            ps == Registered(w)
            v == Clear(w)
<1>1. Informed(w, t, Everything, NoPoi, NoPoi)
  <2>1. Everything \in (SUBSET POIs) \cup {Everything} /\ NoPoi \in POIs \cup {NoPoi}
    OBVIOUS
  <2>. HIDE DEF t, v, ps
  <2>2. Informed(w, Told(w, Everything, NoPoi, NoPoi), Everything, NoPoi, NoPoi)
    BY <2>1, ToldIs
  <2>. QED BY <2>2 DEF t
<1>2. v = ForEach(Drop, t, ps)
  <2>1. [w.ctl EXCEPT !.selected = NoPoi, !.highlighted = NoPoi, !.visible = Everything]
            = [w.ctl EXCEPT !.visible = Everything, !.selected = NoPoi, !.highlighted = NoPoi]
    BY DEF Attended, Controllers
  <2>. DEFINE c == [w.ctl EXCEPT !.visible = Everything, !.selected = NoPoi, !.highlighted = NoPoi]
  <2>2. t = [icons |-> w.icons, layer |-> w.layer, waiting |-> w.waiting, ctl |-> c,
             fails |-> w.fails, dead |-> w.dead]
    BY DEF Told
  <2>3. w \in Worlds
    BY DEF Attended
  <2>. HIDE DEF t, ps, v
  <2>4. [w EXCEPT !.ctl = c] = t
    <3>. HIDE DEF c
    <3>. QED BY <2>2, <2>3 DEF Worlds
  <2>. QED BY <2>1, <2>4 DEF Clear, v, ps
<1>. HIDE DEF t, v
<1>3. t \in Attended /\ \A q \in POIs : Tidy(t, q) /\ Same(w, t, q)
  <2>1. \A q \in POIs : Tidy(w, q)
    BY DEF Sound
  <2>. QED BY <1>1, <2>1, TidyTold DEF Informed, Settled
<1>4. \A q \in POIs : q \in ps <=> t.ctl.markers[q] # 0
  BY <1>3 DEF Registered, Same
<1>. HIDE DEF ps
<1>5. /\ v \in Attended /\ Around(t, v) /\ Later(t.icons, v.icons)
      /\ \A q \in POIs : (q \in ps => Gone(t, v, q)) /\ (q \notin ps => Same(t, v, q))
  BY <1>2, <1>3, <1>4, DropAll
<1>6. Settled(w, v)
  BY <1>1, <1>5, SettledOn DEF Informed
<1>7. ASSUME NEW q \in POIs
      PROVE  Tidy(v, q) /\ v.ctl.markers[q] = 0 /\ InUse(v, q) \subseteq InUse(w, q)
  <2>1. InUse(t, q) = InUse(w, q)
    BY <1>3 DEF Same
  <2>2. CASE q \in ps
    BY <1>5, <2>1, <2>2 DEF Gone
  <2>3. CASE q \notin ps
    <3>1. Same(t, v, q) /\ t.ctl.markers[q] = 0
      BY <1>4, <1>5, <2>3
    <3>2. Tidy(v, q)
      BY <1>3, <1>5, <3>1, Alike
    <3>. QED BY <2>1, <3>1, <3>2 DEF Same
  <2>. QED BY <2>2, <2>3
<1>8. v.ctl.visible = Everything /\ v.ctl.selected = NoPoi /\ v.ctl.highlighted = NoPoi
  BY <1>1, <1>5 DEF Around, Informed
<1>9. Cleared(w, v)
  BY <1>6, <1>7, <1>8 DEF Cleared
<1>. QED BY <1>9 DEF v

\* No controller, and nothing on the map.
Bare(w) ==
    /\ w \in Worlds /\ NoneWaitsInVain(w) /\ w.ctl = NoController
    /\ \A m \in Wrappers : w.layer[m] = NoMarker

\* What is not the controller's goes on.
Continued(w, v) ==
    /\ Later(w.icons, v.icons) /\ v.fails = w.fails /\ v.dead = w.dead
    /\ \A q \in POIs : InUse(v, q) \subseteq InUse(w, q)

LEMMA SweptIs ==
    ASSUME NEW w \in Attended, \A q \in POIs : Tidy(w, q) /\ w.ctl.markers[q] = 0
    PROVE  Bare(Swept(w)) /\ Continued(w, Swept(w))
<1>. DEFINE l == [m \in Wrappers |-> IF m \in w.ctl.placed THEN NoMarker ELSE w.layer[m]]
            v == Swept(w)
<1>1. w \in Worlds /\ NoneWaitsInVain(w)
  BY DEF Attended
<1>2. v = [icons |-> w.icons, layer |-> l, waiting |-> w.waiting, ctl |-> NoController,
           fails |-> w.fails, dead |-> w.dead]
  <2>1. v = [w EXCEPT !.layer = l, !.ctl = NoController]
    BY DEF Swept
  <2>. HIDE DEF l, v
  <2>. QED BY <1>1, <2>1 DEF Worlds
<1>3. \A m \in Wrappers : w.layer[m] = NoMarker
  <2>. TAKE m \in Wrappers
  <2>1. PICK q \in POIs, i \in Nums : m = <<q, i>>
    BY DEF Wrappers, Nums
  <2>2. Tidy(w, q) /\ i # 0 /\ w.ctl.markers[q] = 0
    BY Distinctions DEF Nums
  <2>. QED BY <2>1, <2>2 DEF Tidy
<1>4. l \in [Wrappers -> Marks \cup {NoMarker}] /\ \A m \in Wrappers : l[m] = NoMarker
  BY <1>3
<1>. HIDE DEF l, v
<1>5. /\ v.icons = w.icons /\ v.layer = l /\ v.waiting = w.waiting /\ v.ctl = NoController
      /\ v.fails = w.fails /\ v.dead = w.dead
  BY Zenon, <1>2
<1>6. v \in Worlds
  BY <1>1, <1>2, <1>4, WorldHas DEF Worlds
<1>7. \A q \in POIs : InUse(v, q) = InUse(w, q)
  <2>1. \A q \in POIs, i \in Nums : <<q, i>> \in Wrappers
    BY DEF Wrappers, Nums
  <2>. QED BY <1>3, <1>4, <1>5, <2>1 DEF InUse, Nums
<1>8. NoneWaitsInVain(v)
  BY <1>1, <1>5 DEF NoneWaitsInVain
<1>9. Bare(v) /\ Continued(w, v)
  BY <1>4, <1>5, <1>6, <1>7, <1>8, LaterOn DEF Bare, Continued
<1>. QED BY <1>9 DEF v

\* destroy
LEMMA DestroyIs ==
    ASSUME NEW w, Bare(w) \/ (w \in Attended /\ Sound(w))
    PROVE  Bare(Destroy(w)) /\ Continued(w, Destroy(w))
<1>1. CASE Bare(w)
  <2>1. Destroy(w) = w
    BY <1>1 DEF Destroy, Bare
  <2>. QED BY <1>1, <2>1, LaterOn DEF Continued, Bare, Worlds
<1>2. CASE w \in Attended /\ Sound(w)
  <2>. DEFINE c == Clear(w)
              v == Destroy(w)
  <2>1. Cleared(w, c)
    BY <1>2, ClearIs
  <2>2. v = Swept(c)
    BY <1>2, Distinctions DEF Destroy, Attended
  <2>. HIDE DEF c, v
  <2>3. c \in Attended /\ \A q \in POIs : Tidy(c, q) /\ c.ctl.markers[q] = 0
    BY <2>1 DEF Cleared, Settled
  <2>4. Bare(v) /\ Continued(c, v)
    BY <2>2, <2>3, SweptIs
  <2>5. Continued(w, v)
    BY <2>1, <2>4, LaterOn DEF Continued, Cleared, Settled
  <2>. QED BY <2>4, <2>5 DEF v
<1>. QED BY <1>1, <1>2

\* A new controller has no marker.
LEMMA NewControllerIs ==
    ASSUME NEW w, Bare(w), NEW view \in Nat \ {0}
    PROVE  LET v == [w EXCEPT !.ctl = NewController(view)]
           IN  /\ v \in Attended /\ Sound(v) /\ Continued(w, v) /\ v.ctl.view = view
               /\ \A q \in POIs : v.ctl.markers[q] = 0
<1>. DEFINE c == NewController(view)
            v == [w EXCEPT !.ctl = c]
<1>1. /\ c \in Controllers /\ c.view = view
      /\ \A q \in POIs : c.markers[q] = 0 /\ c.applied[q] = "none"
      /\ c.placed = {}
  <2>1. 0 \in 0 .. MaxWrappers /\ NoUrl \in Logos
    BY Distinctions DEF Logos
  <2>. QED BY <2>1 DEF NewController, Controllers
<1>2. w \in Worlds
  BY DEF Bare
<1>. HIDE DEF c
<1>3. v = [icons |-> w.icons, layer |-> w.layer, waiting |-> w.waiting, ctl |-> c,
           fails |-> w.fails, dead |-> w.dead]
  BY <1>2 DEF Worlds
<1>. HIDE DEF v
<1>4. /\ v.icons = w.icons /\ v.layer = w.layer /\ v.waiting = w.waiting /\ v.ctl = c
      /\ v.fails = w.fails /\ v.dead = w.dead
  BY Zenon, <1>3
<1>5. v \in Attended
  <2>1. \A u \in w.waiting : u.url \in w.icons.fetching
    BY DEF Bare, NoneWaitsInVain
  <2>. QED BY <1>1, <1>2, <1>3, <2>1, WorldIs, WorldHas
<1>6. \A q \in POIs : InUse(v, q) = InUse(w, q)
  BY <1>4 DEF InUse
<1>7. Sound(v)
  <2>1. ASSUME NEW q \in POIs PROVE Tidy(v, q) /\ Styled(v, q) /\ AsWanted(v, q)
    <3>1. \A i \in Nums : v.layer[<<q, i>>] = NoMarker /\ i # 0
      BY <1>4, Distinctions DEF Bare, Wrappers, Nums
    <3>. QED BY <1>1, <1>4, <3>1 DEF Tidy, Styled, AsWanted
  <2>. QED BY <2>1 DEF Sound
<1>8. Continued(w, v)
  BY <1>4, <1>6, LaterOn DEF Continued, Bare, Worlds
<1>. QED BY <1>1, <1>4, <1>5, <1>7, <1>8 DEF v, c

\* The map after the effects: drawn as it should be, told what the page asks for, and
\* up to date.
Synced(K, w, v, pg) ==
    /\ Settled(w, v) /\ Fine(K, NoController, v, pg.pois)
    /\ ToldOf(v, pg) /\ UpToDate(v, pg) /\ Complete(v, pg)

LEMMA SeenAgain ==
    ASSUME NEW K, NEW W, NEW w, NEW v, NEW pg, Asks(pg), NEW pool,
           Seen(K, W, w, v, pool, pg.visible), UpToDate(w, pg)
    PROVE  UpToDate(v, pg) /\ (Complete(w, pg) => Complete(v, pg))
<1>1. v.ctl.view = w.ctl.view /\ v.dead = w.dead /\ v.fails = w.fails
  BY DEF Seen, Settled
<1>2. \A q \in POIs : /\ v.ctl.markers[q] = w.ctl.markers[q]
                      /\ w.ctl.markers[q] # 0 /\ Up(w, q) /\ q \notin w.fails => Up(v, q)
  BY DEF Seen
<1>3. UpToDate(v, pg)
  BY <1>1, <1>2 DEF UpToDate
<1>4. Complete(w, pg) => Complete(v, pg)
  BY <1>1, <1>2 DEF Complete, Asks
<1>. QED BY <1>3, <1>4

LEMMA PoolEffectIs ==
    ASSUME NEW w \in Attended, NEW pg, Asks(pg), NEW K, Fine(K, NoController, w, pg.pois), Roomy(w),
           NEW reset \in BOOLEAN, reset => \A q \in pg.pois : K.ctl.markers[q] = 0
    PROVE  LET v == PoolEffect(w, pg, reset)
           IN  /\ Synced(K, w, v, pg)
               /\ \A q \in POIs : v.ctl.markers[q] # 0 =>
                    (~reset /\ w.ctl.markers[q] # 0) \/ q \in pg.pois
<1>. DEFINE c == IF reset THEN Clear(w) ELSE w
            a == ApplySync(c, pg)
            v == PoolEffect(w, pg, reset)
<1>0. v = SetVisiblePOIs(a, pg.visible) /\ pg.visible \in SUBSET POIs
  BY DEF PoolEffect, Asks
<1>1. /\ Settled(w, c) /\ Fine(K, NoController, c, pg.pois) /\ Roomy(c)
      /\ \A q \in POIs : c.ctl.markers[q] # 0 => ~reset /\ w.ctl.markers[q] # 0
  <2>1. CASE reset = FALSE
    <3>1. c = w
      BY <2>1
    <3>. HIDE DEF c
    <3>. QED BY <2>1, <3>1, SettledOn
  <2>2. CASE reset = TRUE
    <3>1. Sound(w)
      BY FineOn
    <3>2. Cleared(w, c)
      BY <2>2, <3>1, ClearIs
    <3>. HIDE DEF c
    <3>3. Roomy(c)
      BY <3>2 DEF Roomy, FreeOf, Cleared
    <3>4. ASSUME NEW q \in POIs PROVE Drawn(K, NoController, c, q, pg.pois) /\ Styled(c, q) /\ AsWanted(c, q)
      <4>1. Tidy(c, q) /\ c.ctl.markers[q] = 0
        BY <3>2 DEF Cleared
      <4>2. Keeps(K, c, q, pg.pois)
        BY <2>2, <4>1 DEF Keeps
      <4>. QED BY <4>1, <4>2 DEF Drawn, Room, Styled, AsWanted
    <3>5. Fine(K, NoController, c, pg.pois)
      BY <3>4 DEF Fine
    <3>. QED BY <3>2, <3>3, <3>5 DEF Cleared
  <2>. QED BY <2>1, <2>2
<1>. HIDE DEF c
<1>2. c \in Attended /\ Fine(K, c, c, pg.pois) /\ c # NoController
  <2>1. c \in Attended
    BY <1>1 DEF Settled
  <2>2. c # NoController
    <3>. SUFFICES ASSUME c = NoController PROVE FALSE
      OBVIOUS
    <3>1. "icons" \in DOMAIN c
      BY <2>1 DEF Attended, Worlds
    <3>2. DOMAIN NoController = {"view"}
      BY DEF NoController
    <3>. QED BY <3>1, <3>2
  <2>. QED BY <1>1, <2>1, <2>2, FineOn
<1>3. /\ Settled(c, a) /\ Fine(K, c, a, pg.pois) /\ ToldOf(a, pg)
      /\ UpToDate(a, pg) /\ Complete(a, pg)
      /\ \A q \in POIs : a.ctl.markers[q] # 0 => (c.ctl.markers[q] # 0 \/ q \in pg.pois)
  BY <1>2, ApplySyncIs
<1>. HIDE DEF a
<1>4. a \in Attended
  BY <1>3 DEF Settled
<1>5. Seen(K, c, a, v, pg.pois, pg.visible)
  BY <1>0, <1>3, <1>4, SetVisibleIs
<1>. HIDE DEF v
<1>6. Settled(w, v)
  BY <1>1, <1>3, <1>5, SettledOn DEF Seen
<1>7. Fine(K, NoController, v, pg.pois)
  BY <1>5, FineOn DEF Seen
<1>8. ToldOf(v, pg)
  BY <1>3, <1>5 DEF Seen, ToldOf
<1>9. UpToDate(v, pg) /\ Complete(v, pg)
  BY <1>3, <1>5, SeenAgain
<1>10. \A q \in POIs : v.ctl.markers[q] = a.ctl.markers[q]
  BY <1>5 DEF Seen
<1>. QED BY <1>1, <1>3, <1>6, <1>7, <1>8, <1>9, <1>10 DEF Synced, v

-----------------------------------------------------------------------------
\* The creating effect, logos that stay, and the upgrades that were waited for

\* What the creating effect applies the page to: the controller there is, or a new one.
Ready(w, r, pg, reusable) ==
    /\ r \in Attended /\ Sound(r) /\ r.ctl.view = pg.view /\ Continued(w, r)
    /\ reusable => r = w
    /\ ~reusable => \A q \in POIs : r.ctl.markers[q] = 0

Reusable(w, pg, kept) == kept /\ w.ctl.view = pg.view /\ pg.view \notin w.dead

LEMMA CreateEffectIs ==
    ASSUME NEW w, NEW pg, pg.view \in Nat \ {0}, NEW kept \in BOOLEAN,
           Bare(w) \/ (w \in Attended /\ Sound(w)), kept => w \in Attended
    PROVE  \E r : Ready(w, r, pg, Reusable(w, pg, kept)) /\ CreateEffect(w, pg, kept) = ApplySync(r, pg)
<1>0. pg.view # NoView
  BY DEF NoView
<1>1. CASE Reusable(w, pg, kept)
  <2>1. CreateEffect(w, pg, kept) = ApplySync(w, pg)
    BY <1>0, <1>1 DEF CreateEffect, Reusable
  <2>2. w \in Attended /\ Sound(w)
    BY <1>1, Distinctions DEF Reusable, Bare, Attended
  <2>3. Ready(w, w, pg, Reusable(w, pg, kept))
    BY <1>1, <2>2, LaterOn DEF Ready, Reusable, Continued
  <2>. QED BY <2>1, <2>3
<1>2. CASE ~Reusable(w, pg, kept)
  <2>. DEFINE b == Destroy(w)
              r == [b EXCEPT !.ctl = NewController(pg.view)]
  <2>1. CreateEffect(w, pg, kept) = ApplySync(r, pg)
    BY <1>0, <1>2 DEF CreateEffect, Reusable
  <2>2. Bare(b) /\ Continued(w, b)
    BY DestroyIs
  <2>. HIDE DEF b
  <2>3. /\ r \in Attended /\ Sound(r) /\ Continued(b, r) /\ r.ctl.view = pg.view
        /\ \A q \in POIs : r.ctl.markers[q] = 0
    BY <2>2, NewControllerIs
  <2>. HIDE DEF r
  <2>4. Continued(w, r)
    BY <2>2, <2>3, LaterOn DEF Continued
  <2>5. Ready(w, r, pg, Reusable(w, pg, kept))
    BY <1>2, <2>3, <2>4 DEF Ready
  <2>. QED BY <2>1, <2>5
<1>. QED BY <1>1, <1>2

\* A logo that is shown stays, on a marker that stays.
StaysLogo(w, v) ==
    \A m \in Wrappers :
        (/\ w.layer[m] # NoMarker /\ v.layer[m] # NoMarker
         /\ w.layer[m].icon # NoUrl /\ IsAttached(w, m)
         /\ v.layer[m].view = w.layer[m].view)
            => v.layer[m].icon # NoUrl

LEMMA MarkersOfTidy ==
    ASSUME NEW w \in Attended, Sound(w), NEW q \in POIs, NEW i \in Nums,
           w.layer[<<q, i>>] # NoMarker
    PROVE  /\ w.ctl.markers[q] = i /\ i # 0 /\ Mark(w, q) = w.layer[<<q, i>>]
           /\ Mark(w, q).view = w.ctl.view /\ (Mark(w, q).known <=> w.ctl.view \notin w.dead)
<1>1. Tidy(w, q) /\ i # 0
  BY Distinctions DEF Sound, Nums
<1>2. i = w.ctl.markers[q]
  BY <1>1 DEF Tidy
<1>3. Mark(w, q) = w.layer[<<q, i>>]
  BY <1>2 DEF Mark, Wrapper
<1>. QED BY <1>1, <1>2, <1>3 DEF Tidy

LEMMA LogosKept ==
    ASSUME NEW w \in Attended, NEW v \in Attended, Sound(w), NEW W, NEW pool, Fine(w, W, v, pool)
    PROVE  StaysLogo(w, v)
<1>1. Sound(v)
  BY FineOn
<1>2. ASSUME NEW m \in Wrappers, w.layer[m] # NoMarker, v.layer[m] # NoMarker,
             w.layer[m].icon # NoUrl, IsAttached(w, m)
      PROVE  v.layer[m].icon # NoUrl
  <2>1. PICK q \in POIs, i \in Nums : m = <<q, i>>
    BY DEF Wrappers, Nums
  <2>2. /\ w.ctl.markers[q] = i /\ i # 0 /\ Mark(w, q) = w.layer[m]
        /\ v.ctl.markers[q] = i /\ Mark(v, q) = v.layer[m]
    BY <1>1, <1>2, <2>1, MarkersOfTidy
  <2>3. AttachedAt(w, q)
    BY <1>2, <2>2 DEF AttachedAt, Up, IsAttached
  <2>4. Keeps(w, v, q, pool)
    BY DEF Fine, Drawn
  <2>. QED BY <1>2, <2>2, <2>3, <2>4 DEF Keeps
<1>. QED BY <1>2 DEF StaysLogo

\* On a map with nothing on it there is no logo, and one of another view, or of a view
\* that is destroyed, does not count.
LEMMA LogosOfAnother ==
    ASSUME NEW w, NEW v
    PROVE  /\ Bare(w) \/ Bare(v) => StaysLogo(w, v)
           /\ w \in Attended /\ Sound(w) /\ v \in Attended /\ Sound(v)
                /\ (w.ctl.view # v.ctl.view \/ w.ctl.view \in w.dead) => StaysLogo(w, v)
<1>1. Bare(w) \/ Bare(v) => StaysLogo(w, v)
  BY DEF Bare, StaysLogo
<1>2. ASSUME w \in Attended, Sound(w), v \in Attended, Sound(v),
             w.ctl.view # v.ctl.view \/ w.ctl.view \in w.dead
      PROVE  StaysLogo(w, v)
  <2>1. ASSUME NEW m \in Wrappers, w.layer[m] # NoMarker, v.layer[m] # NoMarker, IsAttached(w, m),
               v.layer[m].view = w.layer[m].view
        PROVE  FALSE
    <3>1. PICK q \in POIs, i \in Nums : m = <<q, i>>
      BY DEF Wrappers, Nums
    <3>2. /\ w.layer[m].view = w.ctl.view /\ (w.layer[m].known <=> w.ctl.view \notin w.dead)
      BY <1>2, <2>1, <3>1, MarkersOfTidy
    <3>3. v.layer[m].view = v.ctl.view
      BY <1>2, <2>1, <3>1, MarkersOfTidy
    <3>. QED BY <1>2, <2>1, <3>2, <3>3 DEF IsAttached
  <2>. QED BY <2>1 DEF StaysLogo
<1>. QED BY <1>1, <1>2

LEMMA PoisAreFinite == IsFiniteSet(POIs)
<1>. DEFINE N == Len(Order)
            f == [i \in 1 .. N |-> Order[i]]
<1>1. N \in Nat /\ (\A j \in 1 .. N : Order[j] \in POIs) /\ \A q \in POIs : \E j \in 1 .. N : Order[j] = q
  BY OrderIs
<1>. HIDE DEF N
<1>2. f \in Surjection(1 .. N, POIs)
  BY <1>1 DEF Surjection
<1>3. IsFiniteSet(1 .. N)
  BY <1>1, FS_Interval
<1>. QED BY <1>2, <1>3, FS_Surjection

LEMMA SetToSeqIs ==
    ASSUME NEW S, IsFiniteSet(S)
    PROVE  Len(SetToSeq(S)) \in Nat /\ \A i \in 1 .. Len(SetToSeq(S)) : SetToSeq(S)[i] \in S
<1>. DEFINE N == Cardinality(S)
            f == SetToSeq(S)
<1>1. N \in Nat /\ ExistsBijection(1 .. N, S)
  BY FS_CardinalityType
<1>2. \E g \in [1 .. N -> S] : IsInjective(g)
  <2>. HIDE DEF N
  <2>. QED BY <1>1 DEF ExistsBijection, Bijection, Injection
<1>3. f \in [1 .. N -> S]
  BY <1>2 DEF SetToSeq
<1>. HIDE DEF f, N
<1>4. f \in Seq(S) /\ Len(f) = N
  BY <1>1, <1>3
<1>. QED BY <1>1, <1>3, <1>4 DEF f

LEMMA WokenRuns ==
    ASSUME NEW w, NEW url, NEW ms, Len(SetToSeq(ms)) \in Nat
    PROVE  LET s == SetToSeq(ms)
           IN  \E d : /\ d[0] = w
                      /\ \A n \in Nat : n + 1 <= Len(s) =>
                            d[n + 1] = ApplyLogoUpgrade(d[n], s[n + 1][1], s[n + 1], url)
                      /\ Woken(w, ms, url) = d[Len(s)]
<1>. DEFINE s == SetToSeq(ms)
            N == Len(s)
            Done(g) == g = [n \in 0 .. N |-> IF n = 0 THEN w
                              ELSE ApplyLogoUpgrade(g[n - 1], s[n][1], s[n], url)]
            f == CHOOSE g : Done(g)
<1>1. Woken(w, ms, url) = f[N]
  BY DEF Woken, Along
<1>2. PICK d : Runs(d, "woken", url, w, s, N)
  BY RunsExist
<1>3. Done(d)
  BY <1>2 DEF Runs, Act
<1>4. Done(f)
  BY Zenon, <1>3
<1>. HIDE DEF f
<1>5. Runs(f, "woken", url, w, s, N)
  BY <1>4 DEF Runs, Act
<1>6. f[0] = w /\ \A n \in Nat : n + 1 <= N => f[n + 1] = Act("woken", url, f[n], s[n + 1])
  <2>1. N \in Nat
    OBVIOUS
  <2>. HIDE DEF s, N
  <2>. QED BY <1>5, <2>1, RunsStep
<1>7. \A n \in Nat : n + 1 <= N => f[n + 1] = ApplyLogoUpgrade(f[n], s[n + 1][1], s[n + 1], url)
  BY <1>6 DEF Act
<1>. QED BY <1>1, <1>6, <1>7

\* As drawn as before: another icon, perhaps, and what is known of logos.
Upgraded(w, v) ==
    \A pool : /\ StillDrawn(w, NoController, w, v, pool) /\ Around(w, v)
              /\ \A q \in POIs : Styled(v, q)

LEMMA OneUpgrade ==
    ASSUME NEW w, NEW a \in Attended, Upgraded(w, a),
           NEW p \in Companies, NEW n \in Nums, NEW url \in Urls
    PROVE  Upgraded(w, ApplyLogoUpgrade(a, p, <<p, n>>, url))
<1>. DEFINE v == ApplyLogoUpgrade(a, p, <<p, n>>, url)
<1>0. p \in POIs /\ Tidy(a, p)
  BY DEF Upgraded, StillDrawn, Drawn, POIs
<1>1. (v = a \/ Redrawn(a, v, p)) /\ v.ctl.style[p] = a.ctl.style[p]
  BY <1>0, ApplyLogoUpgradeIs
<1>. HIDE DEF v
<1>2. CASE v = a
  BY <1>2 DEF v
<1>3. CASE Redrawn(a, v, p)
  <2>. SUFFICES ASSUME NEW pool
                PROVE  /\ StillDrawn(w, NoController, w, v, pool) /\ Around(w, v)
                       /\ \A q \in POIs : Styled(v, q)
    BY DEF Upgraded, v
  <2>1. /\ StillDrawn(w, NoController, w, a, pool) /\ Around(w, a)
        /\ \A q \in POIs : Styled(a, q)
    BY DEF Upgraded
  <2>2. v \in Attended /\ Around(a, v) /\ Later(a.icons, v.icons)
        /\ v.ctl.markers[p] = a.ctl.markers[p] /\ \A q \in POIs \ {p} : Same(a, v, q)
    BY <1>3 DEF Redrawn, Local
  <2>3. Settled(w, v) /\ Around(w, v)
    BY <2>1, <2>2, SettledOn, SameOn DEF StillDrawn
  <2>4. ASSUME NEW q \in POIs
        PROVE  /\ Drawn(w, NoController, v, q, pool) /\ AsWanted(v, q) /\ Styled(v, q)
               /\ v.ctl.markers[q] = a.ctl.markers[q]
               /\ a.ctl.markers[q] # 0 => (Up(a, q) <=> Up(v, q))
    <3>1. Drawn(w, NoController, a, q, pool) /\ AsWanted(a, q) /\ Styled(a, q)
      BY <2>1 DEF StillDrawn
    <3>2. CASE q = p
      BY <1>1, <1>3, <2>2, <3>1, <3>2, DrawnAgain
    <3>3. CASE q # p
      <4>1. Same(a, v, q)
        BY <2>2, <3>3
      <4>. QED BY <2>2, <3>1, <4>1, DrawnAlike DEF Same
    <3>. QED BY <3>2, <3>3
  <2>. QED BY <2>1, <2>3, <2>4 DEF StillDrawn
<1>. QED BY <1>1, <1>2, <1>3

LEMMA WokenIs ==
    ASSUME NEW w \in Attended, Sound(w), NEW url \in Urls, NEW ms, Len(SetToSeq(ms)) \in Nat,
           \A i \in 1 .. Len(SetToSeq(ms)) : SetToSeq(ms)[i] \in Companies \X Nums
    PROVE  Upgraded(w, Woken(w, ms, url))
<1>. DEFINE s == SetToSeq(ms)
            N == Len(s)
<1>1. PICK d : /\ d[0] = w
               /\ \A n \in Nat : n + 1 <= N => d[n + 1] = ApplyLogoUpgrade(d[n], s[n + 1][1], s[n + 1], url)
               /\ Woken(w, ms, url) = d[N]
  BY WokenRuns
<1>2. d[0] = w /\ \A n \in Nat : n + 1 <= N => d[n + 1] = ApplyLogoUpgrade(d[n], s[n + 1][1], s[n + 1], url)
  BY <1>1
<1>. DEFINE S == {n \in Nat : n <= N => d[n] \in Attended /\ Upgraded(w, d[n])}
<1>3. Upgraded(w, w)
  <2>. SUFFICES ASSUME NEW pool
                PROVE  StillDrawn(w, NoController, w, w, pool) /\ Around(w, w) /\ \A q \in POIs : Styled(w, q)
    BY DEF Upgraded
  <2>1. Fine(w, NoController, w, pool) /\ Settled(w, w) /\ Around(w, w)
    BY FineOn, SettledOn, SameOn
  <2>. QED BY <2>1 DEF Fine, StillDrawn
<1>4. 0 \in S
  BY <1>2, <1>3
<1>5. \A n \in Nat : n \in S => n + 1 \in S
  <2>. TAKE n \in Nat
  <2>. HAVE n \in S
  <2>. SUFFICES ASSUME n + 1 <= N PROVE d[n + 1] \in Attended /\ Upgraded(w, d[n + 1])
    OBVIOUS
  <2>. DEFINE a == d[n]
              m == s[n + 1]
  <2>1. a \in Attended /\ Upgraded(w, a)
    OBVIOUS
  <2>2. m \in Companies \X Nums
    OBVIOUS
  <2>3. d[n + 1] = ApplyLogoUpgrade(a, m[1], m, url)
    BY <1>2
  <2>. HIDE DEF a, m, S
  <2>4. PICK p \in Companies, i \in Nums : m = <<p, i>>
    BY <2>2
  <2>5. d[n + 1] = ApplyLogoUpgrade(a, p, <<p, i>>, url)
    BY <2>3, <2>4
  <2>6. Upgraded(w, d[n + 1])
    BY <2>1, <2>5, OneUpgrade
  <2>7. d[n + 1] \in Attended
    BY <2>6 DEF Upgraded, StillDrawn, Settled
  <2>. QED BY <2>6, <2>7
<1>6. N \in S
  <2>. HIDE DEF S
  <2>. QED BY <1>4, <1>5, InductionOverNat
<1>. QED BY <1>1, <1>6

\* Without a controller no upgrade has any effect.
LEMMA WokenNobody ==
    ASSUME NEW w, w.ctl = NoController, NEW url, NEW ms, Len(SetToSeq(ms)) \in Nat
    PROVE  Woken(w, ms, url) = w
<1>. DEFINE s == SetToSeq(ms)
            N == Len(s)
<1>1. PICK d : /\ d[0] = w
               /\ \A n \in Nat : n + 1 <= N => d[n + 1] = ApplyLogoUpgrade(d[n], s[n + 1][1], s[n + 1], url)
               /\ Woken(w, ms, url) = d[N]
  BY WokenRuns
<1>2. d[0] = w /\ \A n \in Nat : n + 1 <= N => d[n + 1] = ApplyLogoUpgrade(d[n], s[n + 1][1], s[n + 1], url)
  BY <1>1
<1>. DEFINE T == {n \in Nat : n <= N => d[n] = w}
<1>3. 0 \in T
  BY <1>2
<1>4. \A n \in Nat : n \in T => n + 1 \in T
  <2>. TAKE n \in Nat
  <2>. HAVE n \in T
  <2>. SUFFICES ASSUME n + 1 <= N PROVE d[n + 1] = w
    OBVIOUS
  <2>. DEFINE m == s[n + 1]
  <2>1. d[n + 1] = ApplyLogoUpgrade(w, m[1], m, url)
    BY <1>2
  <2>. HIDE DEF m, s
  <2>. QED BY <2>1 DEF ApplyLogoUpgrade
<1>5. N \in T
  <2>. HIDE DEF T
  <2>. QED BY <1>3, <1>4, InductionOverNat
<1>. QED BY <1>1, <1>5

-----------------------------------------------------------------------------
\* The states of the page and its map

Pages ==
    [view : Nat, mode : PageModes, pois : SUBSET POIs, visible : SUBSET POIs,
     selected : POIs \cup {NoPoi}, highlighted : POIs \cup {NoPoi}]

PageFits(pg, lat) ==
    /\ pg \in Pages /\ pg.view <= lat
    /\ pg.pois \subseteq PoisOf(pg.mode) /\ pg.visible \subseteq PoisOf(pg.mode)

\* Where nothing is done there is no controller, and nothing on the map. Else everything
\* is drawn as it should be; a controller of the page's own view has markers of the mode
\* that was last dealt with only; an attached one shows what the page asks for.
WorldFits(w, r, pg, last, lat, flt) ==
    /\ r = "none" => Bare(w)
    /\ r # "none" => w \in Attended /\ Sound(w) /\ w.ctl.view <= lat
    /\ r # "none" /\ w.ctl.view = pg.view =>
            \A q \in POIs : w.ctl.markers[q] # 0 => q \in PoisOf(last)
    /\ r = "attached" =>
            /\ w.ctl.view = pg.view /\ ToldOf(w, pg) /\ UpToDate(w, pg)
            /\ flt = 0 => Complete(w, pg)
    /\ flt = 0 => w.fails = {}

\* A controller that is kept has a timer, and no view to be attached to while the
\* effects are set up; an attached one has both.
RolesFit ==
    /\ role = "kept" => timers > 0 /\ (connected => page.view = NoView)
    /\ role = "attached" => connected /\ page.view # NoView
    /\ connected => lastMode = page.mode

CountersFit ==
    /\ role \in {"none", "attached", "kept"} /\ timers \in 0 .. MaxTimers /\ connected \in BOOLEAN
    /\ lastMode \in PageModes /\ latest \in Nat /\ faults \in Nat

\* The inductive invariant.
MapInv ==
    /\ CountersFit /\ RolesFit /\ PageFits(page, latest)
    /\ WorldFits(world, role, page, lastMode, latest, faults)

\* What a step may do to the logos on the map, and to what is known of logos.
LogosFare(w, v) ==
    /\ StaysLogo(w, v)
    /\ (v.icons.trying \ w.icons.trying) \cap ToSet(w.icons.failed) = {}

LEMMA PoisOfIs ==
    /\ \A m \in PageModes : PoisOf(m) \subseteq POIs
    /\ \A m, n \in PageModes : m # n => PoisOf(m) \cap PoisOf(n) = {}
<1>1. Companies \cap Places = {} /\ Companies \subseteq POIs /\ Places \subseteq POIs
  BY MarkerConstants DEF POIs
<1>2. PoisOf("work") = Companies /\ PoisOf("domain") = Places
  BY DEF PoisOf
<1>3. \A m \in PageModes : m = "work" \/ m = "domain"
  BY DEF PageModes
<1>. QED BY <1>1, <1>2, <1>3

LEMMA PageFitsIs ==
    ASSUME NEW pg, NEW lat, PageFits(pg, lat)
    PROVE  Asks(pg) /\ pg.mode \in PageModes /\ pg.view \in Nat
  BY DEF PageFits, Pages, Asks

\* The visible POIs are of the page's mode.
LEMMA VisiblesAre ==
    ASSUME NEW md \in PageModes, NEW pois \in SUBSET PoisOf(md), NEW visible \in Visibles(md, pois)
    PROVE  visible \subseteq PoisOf(md) /\ visible \subseteq POIs
<1>1. Overlay \subseteq Places
  BY PoiMapConstants
<1>. QED BY <1>1, PoisOfIs DEF Visibles, PoisOf, PageModes

LEMMA RefusalsAre ==
    ASSUME NEW F \in Refusals PROVE F \subseteq POIs
  BY PoiMapConstants DEF Refusals

\* A change of what is not the controller's.
Outside(w, v) ==
    /\ v \in Worlds /\ NoneWaitsInVain(v)
    /\ v.layer = w.layer /\ v.ctl = w.ctl /\ v.dead = w.dead

LEMMA OutsideIs ==
    ASSUME NEW w, NEW v, Outside(w, v)
    PROVE  /\ Bare(w) => Bare(v)
           /\ w \in Attended => v \in Attended
           /\ Sound(w) => Sound(v)
           /\ StaysLogo(w, v) /\ \A z : StaysLogo(v, z) => StaysLogo(w, z)
           /\ \A pg : ToldOf(w, pg) => ToldOf(v, pg)
           /\ \A pg : w.fails \subseteq v.fails /\ UpToDate(w, pg) => UpToDate(v, pg)
           /\ \A pg : w.fails \subseteq v.fails /\ Complete(w, pg) => Complete(v, pg)
           /\ \A q : w.ctl.markers[q] = v.ctl.markers[q] /\ (Up(w, q) <=> Up(v, q))
<1>1. v.layer = w.layer /\ v.ctl = w.ctl /\ v.dead = w.dead /\ v \in Worlds /\ NoneWaitsInVain(v)
  BY DEF Outside
<1>2. \A q : Mark(v, q) = Mark(w, q)
  BY <1>1 DEF Mark, Wrapper
<1>3. \A q : Up(w, q) <=> Up(v, q)
  BY <1>2 DEF Up
<1>4. ASSUME NEW q \in POIs
      PROVE  /\ Tidy(w, q) => Tidy(v, q)
             /\ Styled(w, q) => Styled(v, q)
             /\ AsWanted(w, q) => AsWanted(v, q)
  <2>1. Tidy(w, q) => Tidy(v, q)
    BY <1>1, <1>2 DEF Tidy, RecordedAsDrawn
  <2>2. Styled(w, q) => Styled(v, q)
    BY <1>1 DEF Styled
  <2>3. AsWanted(w, q) => AsWanted(v, q)
    BY <1>1, <1>2 DEF AsWanted, Wanted
  <2>. QED BY <2>1, <2>2, <2>3
<1>5. Sound(w) => Sound(v)
  BY <1>4 DEF Sound
<1>6. (Bare(w) => Bare(v)) /\ (w \in Attended => v \in Attended)
  BY <1>1 DEF Bare, Attended
<1>7. StaysLogo(w, v) /\ \A z : StaysLogo(v, z) => StaysLogo(w, z)
  BY <1>1 DEF StaysLogo, IsAttached
<1>8. \A pg : ToldOf(w, pg) => ToldOf(v, pg)
  BY <1>1 DEF ToldOf
<1>9. \A pg : w.fails \subseteq v.fails /\ UpToDate(w, pg) => UpToDate(v, pg)
  BY <1>1, <1>3 DEF UpToDate
<1>10. \A pg : w.fails \subseteq v.fails /\ Complete(w, pg) => Complete(v, pg)
  BY <1>1 DEF Complete
<1>. QED BY <1>1, <1>3, <1>5, <1>6, <1>7, <1>8, <1>9, <1>10

LEMMA OutsideChange ==
    ASSUME NEW w \in Worlds, NEW i \in KnownIcons, NEW t \in SUBSET w.waiting, NEW f \in SUBSET POIs,
           \A u \in t : u.url \in i.fetching
    PROVE  LET v == [icons |-> i, layer |-> w.layer, waiting |-> t, ctl |-> w.ctl, fails |-> f, dead |-> w.dead]
           IN  Outside(w, v)
<1>1. t \in SUBSET Awaited
  BY WorldHas
<1>2. w.ctl \in Controllers \cup {NoController}
  BY DEF Worlds
<1>. QED BY <1>1, <1>2, WorldHas DEF Outside, Worlds, NoneWaitsInVain

\* A step in which the layer refuses some.
LEMMA FacingIs ==
    ASSUME NEW F \in SUBSET POIs, world \in Worlds, NoneWaitsInVain(world)
    PROVE  /\ Outside(world, Facing(F)) /\ Facing(F).fails = F /\ Facing(F).icons = world.icons
           /\ \A n : HasRoom(world, n) => HasRoom(Facing(F), n)
<1>. DEFINE v == Facing(F)
<1>1. v = [icons |-> world.icons, layer |-> world.layer, waiting |-> world.waiting, ctl |-> world.ctl,
           fails |-> F, dead |-> world.dead]
  BY DEF Facing, Worlds
<1>. HIDE DEF v
<1>2. /\ v.fails = F /\ v.icons = world.icons /\ v.layer = world.layer /\ v.waiting = world.waiting
  BY Zenon, <1>1
<1>3. Outside(world, v)
  <2>1. \A u \in world.waiting : u.url \in world.icons.fetching
    BY DEF NoneWaitsInVain
  <2>. QED BY <1>1, <2>1, OutsideChange, WorldHas
<1>4. \A q : InUse(v, q) = InUse(world, q)
  BY <1>2 DEF InUse
<1>5. \A n : HasRoom(world, n) => HasRoom(v, n)
  BY <1>4 DEF HasRoom
<1>. QED BY <1>2, <1>3, <1>5 DEF v

LEMMA WorldIsKnown ==
    ASSUME MapInv
    PROVE  /\ world \in Worlds /\ NoneWaitsInVain(world)
           /\ Bare(world) \/ (world \in Attended /\ Sound(world))
           /\ role = "none" <=> world.ctl = NoController
           /\ role # "none" => world.ctl.view \in Nat \ {0}
<1>1. role = "none" => Bare(world)
  BY DEF MapInv, WorldFits
<1>2. role # "none" => world \in Attended /\ Sound(world)
  BY DEF MapInv, WorldFits
<1>3. world \in Attended => world.ctl # NoController /\ world.ctl.view \in Nat \ {0}
  BY Distinctions DEF Attended, Controllers
<1>. QED BY <1>1, <1>2, <1>3 DEF Bare, Attended

LEMMA InitFits == PoiMapInit => MapInv
<1>. SUFFICES ASSUME PoiMapInit PROVE MapInv
  OBVIOUS
<1>1. NoIcons \in KnownIcons
  <2>1. MaxResults \in Nat /\ MaxInlined \in Nat /\ MaxTrying \in Nat /\ MaxFailed \in Nat /\ MaxFetching \in Nat
    BY CacheBounds
  <2>2. IsFiniteSet({}) /\ Cardinality({}) = 0
    BY FS_EmptySet
  <2>. DEFINE e == << >>
  <2>3. Len(e) = 0 /\ e \in Seq(Urls) /\ e \in Seq([url : Urls, status : {"ok", "fail"}])
    OBVIOUS
  <2>. HIDE DEF e
  <2>4. NoIcons = [results |-> e, trying |-> {}, failed |-> e, inlined |-> e, fetching |-> {}]
    BY DEF NoIcons, e
  <2>5. NoIcons \in Icons
    BY <2>3, <2>4 DEF Icons
  <2>6. /\ NoIcons.results = e /\ NoIcons.trying = {} /\ NoIcons.failed = e
        /\ NoIcons.inlined = e /\ NoIcons.fetching = {}
    BY Zenon, <2>4
  <2>7. WithinBounds(NoIcons)
    BY <2>1, <2>2, <2>3, <2>6 DEF WithinBounds
  <2>. QED BY <2>5, <2>7 DEF KnownIcons
<1>. DEFINE l == [m \in Wrappers |-> NoMarker]
<1>2. l \in [Wrappers -> Marks \cup {NoMarker}] /\ \A m \in Wrappers : l[m] = NoMarker
  OBVIOUS
<1>. HIDE DEF l
<1>3. world = [icons |-> NoIcons, layer |-> l, waiting |-> {}, ctl |-> NoController, fails |-> {}, dead |-> {}]
  BY DEF PoiMapInit, l
<1>4. Bare(world) /\ world.fails = {}
  BY <1>1, <1>2, <1>3 DEF Bare, Worlds, NoneWaitsInVain
<1>5. CountersFit /\ RolesFit
  BY PoiMapConstants DEF PoiMapInit, CountersFit, RolesFit, PageModes, NoView
<1>6. PageFits(page, latest)
  <2>1. page = [view |-> 0, mode |-> "work", pois |-> {}, visible |-> {}, selected |-> NoPoi, highlighted |-> NoPoi]
        /\ latest = 0
    BY DEF PoiMapInit, NoView
  <2>. QED BY <2>1 DEF PageFits, Pages, PageModes
<1>7. role = "none"
  BY DEF PoiMapInit
<1>. QED BY <1>4, <1>5, <1>6, <1>7 DEF MapInv, WorldFits

\* What a step comes to.
Fares == MapInv' /\ LogosFare(world, world')

LEMMA LaterFares ==
    ASSUME NEW w, NEW v, Later(w.icons, v.icons), StaysLogo(w, v)
    PROVE  LogosFare(w, v)
  BY DEF Later, LogosFare

LEMMA RefusedIs ==
    ASSUME NEW F, Refused(F), faults \in Nat
    PROVE  faults' \in Nat /\ (faults' = 0 => faults = 0 /\ F = {})
  BY DEF Refused

\* The effects of a render with another pool.
LEMMA RepooledFares ==
    ASSUME MapInv, NEW F \in Refusals, Refused(F), HasRoom(world, 1), PageFits(page', latest),
           page'.view = page.view, Repooled(F), UNCHANGED <<role, timers, connected, latest>>
    PROVE  Fares
<1>. DEFINE f == Facing(F)
            last == lastMode'
<1>1. /\ CountersFit /\ RolesFit /\ PageFits(page, latest)
      /\ WorldFits(world, role, page, lastMode, latest, faults)
  BY DEF MapInv
<1>2. /\ world \in Worlds /\ NoneWaitsInVain(world) /\ (role # "none" => world.ctl.view \in Nat \ {0})
  BY WorldIsKnown
<1>3. faults' \in Nat /\ (faults' = 0 => faults = 0 /\ F = {})
  BY <1>1, RefusedIs DEF CountersFit
<1>4. Asks(page') /\ page'.mode \in PageModes /\ page'.pois \subseteq PoisOf(page'.mode)
  BY PageFitsIs DEF PageFits
<1>5. last = IF connected THEN page'.mode ELSE lastMode
  BY DEF Repooled
<1>6. CountersFit' /\ RolesFit' /\ PageFits(page', latest')
  BY <1>1, <1>3, <1>4, <1>5 DEF CountersFit, RolesFit
<1>7. CASE role = "attached"
  <2>. DEFINE reset == (lastMode # page'.mode)
              v == PoolEffect(f, page', reset)
  <2>1. world' = v /\ reset \in BOOLEAN
    BY <1>7 DEF Repooled
  <2>2. /\ world \in Attended /\ Sound(world) /\ world.ctl.view = page.view /\ world.ctl.view <= latest
        /\ \A q \in POIs : world.ctl.markers[q] # 0 => q \in PoisOf(lastMode)
        /\ connected /\ lastMode \in PageModes
    BY <1>1, <1>7 DEF WorldFits, RolesFit, CountersFit
  <2>. HIDE DEF v, f
  <2>3. Outside(world, f) /\ f.fails = F /\ f.icons = world.icons /\ HasRoom(f, 1)
    BY <1>2, RefusalsAre, FacingIs DEF f
  <2>4. f \in Attended /\ Sound(f) /\ f.ctl = world.ctl /\ f.dead = world.dead
        /\ StaysLogo(world, f) /\ \A z : StaysLogo(f, z) => StaysLogo(world, z)
    BY <2>2, <2>3, OutsideIs DEF Outside
  <2>5. Fine(f, NoController, f, page'.pois) /\ Roomy(f)
    BY <2>3, <2>4, FineOn, HasRoomIs
  <2>6. reset => \A q \in page'.pois : f.ctl.markers[q] = 0
    BY <1>4, <2>2, <2>4, PoisOfIs DEF Asks
  <2>. HIDE DEF reset
  <2>7. /\ Synced(f, f, v, page')
        /\ \A q \in POIs : v.ctl.markers[q] # 0 =>
                (~reset /\ f.ctl.markers[q] # 0) \/ q \in page'.pois
    BY <1>4, <2>1, <2>4, <2>5, <2>6, PoolEffectIs DEF v
  <2>8. v \in Attended /\ Later(f.icons, v.icons) /\ v.fails = F /\ v.dead = f.dead /\ v.ctl.view = f.ctl.view
    BY <2>3, <2>7 DEF Synced, Settled
  <2>9. Sound(v) /\ StaysLogo(f, v)
    BY <2>4, <2>7, <2>8, FineOn, LogosKept DEF Synced
  <2>10. LogosFare(world, v)
    BY <2>3, <2>4, <2>8, <2>9, LaterFares
  <2>11. \A q \in POIs : v.ctl.markers[q] # 0 => q \in PoisOf(last)
    BY <1>4, <1>5, <2>2, <2>4, <2>7 DEF reset
  <2>12. WorldFits(v, "attached", page', last, latest, faults')
    BY <1>3, <2>2, <2>4, <2>7, <2>8, <2>9, <2>11 DEF WorldFits, Synced
  <2>. QED BY <1>6, <1>7, <2>1, <2>10, <2>12 DEF Fares, MapInv
<1>8. CASE role # "attached"
  <2>1. world' = world
    BY <1>8 DEF Repooled
  <2>2. role # "none" /\ world.ctl.view = page'.view => last = lastMode
    BY <1>1, <1>2, <1>5, <1>8 DEF RolesFit, CountersFit, NoView
  <2>3. WorldFits(world, role, page', last, latest, faults')
    BY <1>1, <1>3, <1>8, <2>2 DEF WorldFits
  <2>4. LogosFare(world, world)
    BY LaterOn, LaterFares DEF StaysLogo
  <2>. QED BY <1>6, <2>1, <2>3, <2>4 DEF Fares, MapInv
<1>. QED BY <1>7, <1>8

LEMMA RenderPoolFares ==
    ASSUME MapInv, NEW F \in Refusals, NEW pois \in SUBSET PoisOf(page.mode),
           NEW visible \in Visibles(page.mode, pois), RenderPool(pois, visible, F)
    PROVE  Fares
<1>1. page \in Pages /\ page.view <= latest /\ page.mode \in PageModes
  BY DEF MapInv, PageFits, Pages
<1>2. page' = [page EXCEPT !.pois = pois, !.visible = visible]
  BY DEF RenderPool, Rendered
<1>3. visible \subseteq PoisOf(page.mode) /\ visible \subseteq POIs /\ pois \subseteq POIs
  BY <1>1, VisiblesAre, PoisOfIs
<1>4. PageFits(page', latest) /\ page'.view = page.view
  BY <1>1, <1>2, <1>3 DEF PageFits, Pages
<1>. QED BY <1>4, RepooledFares DEF RenderPool

LEMMA RenderModeFares ==
    ASSUME MapInv, NEW F \in Refusals, NEW md \in PageModes, NEW pois \in SUBSET PoisOf(md),
           NEW visible \in Visibles(md, pois), RenderMode(md, pois, visible, F)
    PROVE  Fares
<1>1. page \in Pages /\ page.view <= latest
  BY DEF MapInv, PageFits, Pages
<1>2. page' = [page EXCEPT !.mode = md, !.pois = pois, !.visible = visible,
                          !.selected = NoPoi, !.highlighted = NoPoi]
  BY DEF RenderMode, Rendered
<1>3. visible \subseteq PoisOf(md) /\ visible \subseteq POIs /\ pois \subseteq POIs
  BY VisiblesAre, PoisOfIs
<1>4. PageFits(page', latest) /\ page'.view = page.view
  BY <1>1, <1>2, <1>3 DEF PageFits, Pages
<1>. QED BY <1>4, RepooledFares DEF RenderMode

\* Only the visible ones change.
LEMMA RenderVisibleFares ==
    ASSUME MapInv, NEW F \in Refusals, NEW visible \in Visibles(page.mode, page.pois),
           RenderVisible(visible, F)
    PROVE  Fares
<1>1. /\ CountersFit /\ RolesFit /\ PageFits(page, latest)
      /\ WorldFits(world, role, page, lastMode, latest, faults)
  BY DEF MapInv
<1>2. /\ world \in Worlds /\ NoneWaitsInVain(world)
  BY WorldIsKnown
<1>3. faults' \in Nat /\ (faults' = 0 => faults = 0 /\ F = {})
  BY <1>1, RefusedIs DEF CountersFit, RenderVisible
<1>4. page' = [page EXCEPT !.visible = visible] /\ UNCHANGED <<role, timers, connected, lastMode, latest>>
  BY DEF RenderVisible, Rendered
<1>5. page \in Pages /\ page.mode \in PageModes /\ page.pois \in SUBSET PoisOf(page.mode) /\ page.view <= latest
  BY <1>1 DEF PageFits, Pages
<1>6. visible \subseteq PoisOf(page.mode) /\ visible \subseteq POIs
  BY <1>5, VisiblesAre
<1>7. /\ page' \in Pages /\ page'.visible = visible /\ page'.view = page.view /\ page'.pois = page.pois
      /\ page'.mode = page.mode /\ page'.selected = page.selected /\ page'.highlighted = page.highlighted
  BY <1>4, <1>5, <1>6 DEF Pages
<1>8. PageFits(page', latest')
  BY <1>4, <1>5, <1>6, <1>7 DEF PageFits
<1>9. CountersFit' /\ RolesFit'
  BY <1>1, <1>3, <1>4, <1>7 DEF CountersFit, RolesFit
<1>10. Asks(page')
  BY <1>8, PageFitsIs
<1>11. CASE role = "attached"
  <2>. DEFINE f == Facing(F)
              a == SetVisiblePOIs(f, visible)
              v == [a EXCEPT !.fails = @ \cup world.fails]
  <2>1. world' = v
    BY <1>11 DEF RenderVisible
  <2>. HIDE DEF f
  <2>2. /\ world \in Attended /\ Sound(world) /\ world.ctl.view = page.view /\ world.ctl.view <= latest
        /\ \A q \in POIs : world.ctl.markers[q] # 0 => q \in PoisOf(lastMode)
        /\ ToldOf(world, page) /\ UpToDate(world, page) /\ (faults = 0 => Complete(world, page))
        /\ faults = 0 => world.fails = {}
    BY <1>1, <1>11 DEF WorldFits
  <2>3. Outside(world, f) /\ f.fails = F /\ f.icons = world.icons /\ F \subseteq POIs
    BY <1>2, RefusalsAre, FacingIs DEF f
  <2>4. f \in Attended /\ Sound(f) /\ f.ctl = world.ctl /\ f.dead = world.dead
        /\ StaysLogo(world, f) /\ (\A z : StaysLogo(f, z) => StaysLogo(world, z))
        /\ \A q : Up(world, q) <=> Up(f, q)
    BY <2>2, <2>3, OutsideIs DEF Outside
  <2>5. Fine(f, NoController, f, {})
    BY <2>4, FineOn
  <2>6. Seen(f, NoController, f, a, {}, visible)
    BY <1>6, <2>4, <2>5, SetVisibleIs
  <2>. HIDE DEF a
  <2>7. /\ a \in Attended /\ Later(f.icons, a.icons) /\ a.fails = F /\ a.dead = f.dead
        /\ a.ctl.view = f.ctl.view /\ a.ctl.visible = visible
        /\ a.ctl.selected = f.ctl.selected /\ a.ctl.highlighted = f.ctl.highlighted
        /\ \A q \in POIs : /\ a.ctl.markers[q] = f.ctl.markers[q]
                           /\ f.ctl.markers[q] # 0 /\ Up(f, q) /\ q \notin F => Up(a, q)
    BY <2>3, <2>6 DEF Seen, Settled
  <2>8. Sound(a) /\ StaysLogo(f, a)
    BY <2>4, <2>6, <2>7, FineOn, LogosKept DEF Seen
  <2>9. v = [icons |-> a.icons, layer |-> a.layer, waiting |-> a.waiting, ctl |-> a.ctl,
             fails |-> F \cup world.fails, dead |-> a.dead]
    <3>1. a \in Worlds
      BY <2>7 DEF Attended
    <3>2. \A x : x = F \cup world.fails =>
            v = [icons |-> a.icons, layer |-> a.layer, waiting |-> a.waiting, ctl |-> a.ctl,
                 fails |-> x, dead |-> a.dead]
      <4>. TAKE x
      <4>. HAVE x = F \cup world.fails
      <4>1. v = [a EXCEPT !.fails = x]
        BY <2>7
      <4>. HIDE DEF v
      <4>. QED BY <3>1, <4>1 DEF Worlds
    <3>. QED BY <3>2
  <2>. HIDE DEF v
  <2>10. /\ v.fails = F \cup world.fails /\ v.icons = a.icons /\ v.ctl = a.ctl /\ v.dead = a.dead
    BY Zenon, <2>9
  <2>11. Outside(a, v)
    <3>1. \A u \in a.waiting : u.url \in a.icons.fetching
      BY <2>7 DEF Attended, NoneWaitsInVain
    <3>2. a \in Worlds /\ F \cup world.fails \subseteq POIs
      BY <1>2, <2>3, <2>7, WorldHas DEF Attended
    <3>. QED BY <2>9, <3>1, <3>2, OutsideChange, WorldHas
  <2>12. v \in Attended /\ Sound(v) /\ (\A q : Up(a, q) <=> Up(v, q)) /\ StaysLogo(a, v)
    BY <2>7, <2>8, <2>11, OutsideIs
  <2>13. StaysLogo(f, v)
    <3>1. v.layer = a.layer
      BY <2>11 DEF Outside
    <3>. QED BY <2>8, <3>1 DEF StaysLogo
  <2>14. LogosFare(world, v)
    BY <2>3, <2>4, <2>7, <2>10, <2>13, LaterFares
  <2>15. ToldOf(v, page')
    BY <1>7, <2>2, <2>4, <2>7, <2>10 DEF ToldOf
  <2>16. UpToDate(v, page')
    BY <1>7, <2>2, <2>4, <2>7, <2>10, <2>12 DEF UpToDate
  <2>17. faults' = 0 => Complete(v, page') /\ v.fails = {}
    BY <1>3, <1>7, <1>10, <2>2, <2>4, <2>7, <2>10 DEF Complete, Asks
  <2>18. WorldFits(v, "attached", page', lastMode, latest, faults')
    BY <1>7, <2>2, <2>4, <2>7, <2>10, <2>12, <2>15, <2>16, <2>17 DEF WorldFits
  <2>. QED BY <1>4, <1>8, <1>9, <1>11, <2>1, <2>14, <2>18 DEF Fares, MapInv
<1>12. CASE role # "attached"
  <2>1. world' = world
    BY <1>12 DEF RenderVisible
  <2>2. WorldFits(world, role, page', lastMode, latest, faults')
    BY <1>1, <1>3, <1>7, <1>12 DEF WorldFits
  <2>3. LogosFare(world, world)
    BY LaterOn, LaterFares DEF StaysLogo
  <2>. QED BY <1>4, <1>8, <1>9, <2>1, <2>2, <2>3 DEF Fares, MapInv
<1>. QED BY <1>11, <1>12

\* The selection or the highlight moves, and nothing else.
LEMMA TurnedFares ==
    ASSUME MapInv, NEW pg, pg \in Pages, pg.view = page.view, pg.pois = page.pois, pg.mode = page.mode,
           pg.visible = page.visible, page' = pg,
           UNCHANGED <<role, timers, connected, lastMode, latest, faults>>,
           role # "attached" => world' = world,
           role = "attached" =>
                /\ StillDrawn(world, NoController, world, world', {}) /\ \A q \in POIs : Styled(world', q)
                /\ ToldOf(world', pg)
    PROVE  Fares
<1>1. /\ CountersFit /\ RolesFit /\ PageFits(page, latest)
      /\ WorldFits(world, role, page, lastMode, latest, faults)
  BY DEF MapInv
<1>2. CountersFit' /\ RolesFit' /\ PageFits(page', latest')
  BY <1>1 DEF CountersFit, RolesFit, PageFits
<1>3. CASE role = "attached"
  <2>. DEFINE v == world'
  <2>1. /\ StillDrawn(world, NoController, world, v, {}) /\ ToldOf(v, pg) /\ \A q \in POIs : Styled(v, q)
    BY <1>3
  <2>. HIDE DEF v
  <2>2. /\ world \in Attended /\ Sound(world) /\ world.ctl.view = page.view /\ world.ctl.view <= latest
        /\ \A q \in POIs : world.ctl.markers[q] # 0 => q \in PoisOf(lastMode)
        /\ UpToDate(world, page) /\ (faults = 0 => Complete(world, page))
        /\ faults = 0 => world.fails = {}
    BY <1>1, <1>3 DEF WorldFits
  <2>3. /\ v \in Attended /\ Later(world.icons, v.icons) /\ v.fails = world.fails
        /\ v.ctl.view = world.ctl.view /\ \A q \in POIs : v.ctl.markers[q] = world.ctl.markers[q]
    BY <2>1 DEF StillDrawn, Settled
  <2>4. Fine(world, NoController, v, {})
    BY <2>1, StillFine
  <2>5. Sound(v) /\ StaysLogo(world, v)
    BY <2>2, <2>3, <2>4, FineOn, LogosKept
  <2>6. UpToDate(world, pg) /\ (faults = 0 => Complete(world, pg)) /\ pg.pois \subseteq POIs
    BY <2>2 DEF UpToDate, Complete, Pages
  <2>7. UpToDate(v, pg) /\ (faults = 0 => Complete(v, pg))
    BY <2>1, <2>6, StillUpToDate
  <2>8. WorldFits(v, "attached", pg, lastMode, latest, faults)
    BY <2>1, <2>2, <2>3, <2>5, <2>7 DEF WorldFits
  <2>9. LogosFare(world, v)
    BY <2>3, <2>5, LaterFares
  <2>. QED BY <1>2, <1>3, <2>8, <2>9 DEF Fares, MapInv, v
<1>4. CASE role # "attached"
  <2>1. world' = world
    BY <1>4
  <2>2. WorldFits(world, role, page', lastMode, latest, faults)
    BY <1>1, <1>4 DEF WorldFits
  <2>3. LogosFare(world, world)
    BY LaterOn, LaterFares DEF StaysLogo
  <2>. QED BY <1>2, <2>1, <2>2, <2>3 DEF Fares, MapInv
<1>. QED BY <1>3, <1>4

LEMMA RenderSelectedFares ==
    ASSUME MapInv, NEW p \in POIs \cup {NoPoi}, RenderSelected(p)
    PROVE  Fares
<1>. DEFINE pg == [page EXCEPT !.selected = p]
<1>1. page \in Pages
  BY DEF MapInv, PageFits
<1>2. /\ pg \in Pages /\ pg.view = page.view /\ pg.pois = page.pois /\ pg.mode = page.mode
      /\ pg.visible = page.visible /\ pg.selected = p /\ pg.highlighted = page.highlighted
  BY <1>1 DEF Pages
<1>3. page' = pg /\ UNCHANGED <<role, timers, connected, lastMode, latest, faults>>
      /\ (role # "attached" => world' = world)
  BY DEF RenderSelected, Rendered
<1>. HIDE DEF pg
<1>4. ASSUME role = "attached"
      PROVE  /\ StillDrawn(world, NoController, world, world', {}) /\ \A q \in POIs : Styled(world', q)
             /\ ToldOf(world', pg)
  <2>. DEFINE v == Select(world, p)
  <2>1. world' = v
    BY <1>4 DEF RenderSelected
  <2>2. world \in Attended /\ Sound(world) /\ ToldOf(world, page)
    BY <1>4 DEF MapInv, WorldFits
  <2>3. Fine(world, NoController, world, {})
    BY <2>2, FineOn
  <2>4. /\ StillDrawn(world, NoController, world, v, {}) /\ \A q \in POIs : Styled(v, q)
        /\ v.ctl.visible = world.ctl.visible /\ v.ctl.selected = p
        /\ v.ctl.highlighted \in {world.ctl.highlighted, NoPoi}
    BY <2>2, <2>3, SelectIs
  <2>. HIDE DEF v
  <2>. QED BY <1>2, <2>1, <2>2, <2>4 DEF ToldOf
<1>. QED BY <1>2, <1>3, <1>4, TurnedFares

LEMMA RenderHighlightedFares ==
    ASSUME MapInv, NEW p \in POIs \cup {NoPoi}, RenderHighlighted(p)
    PROVE  Fares
<1>. DEFINE pg == [page EXCEPT !.highlighted = p]
<1>1. page \in Pages
  BY DEF MapInv, PageFits
<1>2. /\ pg \in Pages /\ pg.view = page.view /\ pg.pois = page.pois /\ pg.mode = page.mode
      /\ pg.visible = page.visible /\ pg.selected = page.selected /\ pg.highlighted = p
  BY <1>1 DEF Pages
<1>3. page' = pg /\ UNCHANGED <<role, timers, connected, lastMode, latest, faults>>
      /\ (role # "attached" => world' = world)
  BY DEF RenderHighlighted, Rendered
<1>. HIDE DEF pg
<1>4. ASSUME role = "attached"
      PROVE  /\ StillDrawn(world, NoController, world, world', {}) /\ \A q \in POIs : Styled(world', q)
             /\ ToldOf(world', pg)
  <2>. DEFINE v == Highlight(world, p)
  <2>1. world' = v
    BY <1>4 DEF RenderHighlighted
  <2>2. world \in Attended /\ Sound(world) /\ ToldOf(world, page)
    BY <1>4 DEF MapInv, WorldFits
  <2>3. Fine(world, NoController, world, {})
    BY <2>2, FineOn
  <2>4. /\ StillDrawn(world, NoController, world, v, {}) /\ \A q \in POIs : Styled(v, q)
        /\ v.ctl.visible = world.ctl.visible /\ v.ctl.selected = world.ctl.selected
        /\ v.ctl.highlighted = p
    BY <2>2, <2>3, HighlightIs
  <2>. HIDE DEF v
  <2>. QED BY <1>2, <2>1, <2>2, <2>4 DEF ToldOf
<1>. QED BY <1>2, <1>3, <1>4, TurnedFares

\* The world of a step in which the layer refuses some.
Faced(f, F) ==
    /\ f.fails = F /\ f.icons = world.icons /\ f.ctl = world.ctl /\ f.dead = world.dead
    /\ role = "none" => Bare(f)
    /\ role # "none" =>
            /\ f \in Attended /\ Sound(f) /\ f.ctl.view \in Nat \ {0} /\ f.ctl.view <= latest
            /\ f.ctl.view = page.view => \A q \in POIs : f.ctl.markers[q] # 0 => q \in PoisOf(lastMode)
    /\ \A n : HasRoom(world, n) => HasRoom(f, n)
    /\ \A z : Later(f.icons, z.icons) /\ StaysLogo(f, z) => LogosFare(world, z)

LEMMA FacedIs ==
    ASSUME MapInv, NEW F \in Refusals
    PROVE  Faced(Facing(F), F)
<1>. DEFINE f == Facing(F)
<1>1. /\ world \in Worlds /\ NoneWaitsInVain(world) /\ (role # "none" => world.ctl.view \in Nat \ {0})
  BY WorldIsKnown
<1>2. WorldFits(world, role, page, lastMode, latest, faults)
  BY DEF MapInv
<1>3. Outside(world, f) /\ f.fails = F /\ f.icons = world.icons /\ \A n : HasRoom(world, n) => HasRoom(f, n)
  BY <1>1, RefusalsAre, FacingIs
<1>. HIDE DEF f
<1>4. f.ctl = world.ctl /\ f.dead = world.dead
  BY <1>3 DEF Outside
<1>5. /\ Bare(world) => Bare(f)
      /\ world \in Attended => f \in Attended
      /\ Sound(world) => Sound(f)
      /\ \A z : StaysLogo(f, z) => StaysLogo(world, z)
  BY <1>3, OutsideIs
<1>6. role = "none" => Bare(f)
  BY <1>2, <1>5 DEF WorldFits
<1>7. role # "none" => f \in Attended /\ Sound(f) /\ f.ctl.view \in Nat \ {0} /\ f.ctl.view <= latest
  BY <1>1, <1>2, <1>4, <1>5 DEF WorldFits
<1>8. role # "none" /\ f.ctl.view = page.view =>
        \A q \in POIs : f.ctl.markers[q] # 0 => q \in PoisOf(lastMode)
  BY <1>2, <1>4 DEF WorldFits
<1>9. \A z : Later(f.icons, z.icons) /\ StaysLogo(f, z) => LogosFare(world, z)
  BY <1>3, <1>5, LaterFares
<1>10. Faced(f, F)
  BY <1>3, <1>4, <1>6, <1>7, <1>8, <1>9 DEF Faced
<1>. QED BY <1>10 DEF f

\* Room for one new marker of each POI, or for two, is not lost to a new controller.
LEMMA RoomGoesOn ==
    ASSUME NEW w, NEW v, Continued(w, v)
    PROVE  /\ HasRoom(w, 1) => Roomy(v)
           /\ HasRoom(w, 2) => \A q \in POIs : \A i : FreeOf(v, q) \ {i} # {}
<1>1. \A q \in POIs : FreeOf(w, q) \subseteq FreeOf(v, q)
  BY DEF Continued, FreeOf
<1>2. HasRoom(w, 1) => Roomy(v)
  BY <1>1, HasRoomIs DEF Roomy
<1>3. HasRoom(w, 2) => \A q \in POIs : \A i : FreeOf(v, q) \ {i} # {}
  BY <1>1, HasRoomIs
<1>. QED BY <1>2, <1>3

LEMMA ControllersAreNone ==
    ASSUME NEW r \in Attended PROVE r # NoController
<1>1. r \in Worlds
  BY DEF Attended
<1>2. "icons" \in DOMAIN r
  BY <1>1 DEF Worlds
<1>. QED BY <1>2 DEF NoController

\* Another view is shown, or none.
LEMMA RenderViewFares ==
    ASSUME MapInv, NEW F \in Refusals, NEW view \in 0 .. MaxViews, RenderView(view, F)
    PROVE  Fares
<1>. DEFINE f == Facing(F)
            kept == role = "attached" \/ role = "kept"
<1>1. /\ CountersFit /\ RolesFit /\ PageFits(page, latest)
      /\ WorldFits(world, role, page, lastMode, latest, faults)
  BY DEF MapInv
<1>2. faults' \in Nat /\ (faults' = 0 => faults = 0 /\ F = {})
  BY <1>1, RefusedIs DEF CountersFit, RenderView
<1>3. page' = [page EXCEPT !.view = view] /\ UNCHANGED <<connected, lastMode>> /\ connected /\ timers < MaxTimers
  BY DEF RenderView, Rendered
<1>4. /\ view = 0 \/ view = latest + 1
      /\ HasRoom(world, 1)
      /\ world' = CreateEffect(f, page', kept)
      /\ role' = IF view # 0 THEN "attached" ELSE IF role = "attached" THEN "kept" ELSE role
      /\ timers' = IF view # 0 THEN 0 ELSE IF role = "attached" THEN timers + 1 ELSE timers
      /\ latest' = IF view = 0 THEN latest ELSE view
  BY DEF RenderView, NoView
<1>. HIDE DEF f
<1>5. /\ page \in Pages /\ page.view <= latest /\ page.pois \subseteq PoisOf(page.mode)
      /\ page.visible \subseteq PoisOf(page.mode) /\ latest \in Nat
  BY <1>1 DEF PageFits, CountersFit
<1>6. /\ page' \in Pages /\ page'.view = view /\ page'.pois = page.pois /\ page'.mode = page.mode
      /\ page'.visible = page.visible
  BY <1>3, <1>5 DEF Pages
<1>7. PageFits(page', latest') /\ latest' \in Nat
  BY <1>4, <1>5, <1>6 DEF PageFits
<1>8. Faced(f, F)
  BY FacedIs DEF f
<1>9. Asks(page')
  BY <1>7, PageFitsIs
<1>10. CASE view = 0
  <2>1. world' = f
    BY <1>4, <1>6, <1>10 DEF CreateEffect, NoView
  <2>2. role' # "attached" /\ (role' = "none" => role = "none") /\ (role' # "none" => role # "none") /\ latest' = latest
    BY <1>4, <1>10
  <2>3. MaxTimers \in Nat
    BY PoiMapConstants
  <2>4. CountersFit' /\ RolesFit'
    BY <1>1, <1>2, <1>3, <1>4, <1>6, <1>10, <2>2, <2>3 DEF CountersFit, RolesFit, NoView
  <2>5. WorldFits(f, role', page', lastMode, latest, faults')
    BY <1>2, <1>6, <1>8, <1>10, <2>2 DEF WorldFits, Faced
  <2>6. LogosFare(world, f)
    BY <1>8, LaterOn DEF Faced, StaysLogo
  <2>. QED BY <1>3, <1>7, <2>1, <2>2, <2>4, <2>5, <2>6 DEF Fares, MapInv
<1>11. CASE view = latest + 1
  <2>1. view \in Nat \ {0} /\ view # 0 /\ role' = "attached" /\ latest' = view
    BY <1>4, <1>5, <1>11
  <2>2. CountersFit' /\ RolesFit'
    <3>1. timers' = 0 /\ MaxTimers \in Nat
      BY <1>4, <2>1, PoiMapConstants
    <3>. QED BY <1>1, <1>2, <1>3, <1>6, <1>7, <2>1, <3>1 DEF CountersFit, RolesFit, NoView
  <2>3. Bare(f) \/ (f \in Attended /\ Sound(f))
    BY <1>8 DEF Faced
  <2>4. kept => f \in Attended /\ f.ctl.view # view
    BY <1>5, <1>8, <1>11 DEF Faced
  <2>5. ~Reusable(f, page', kept)
    BY <1>6, <2>4 DEF Reusable
  <2>6. kept \in BOOLEAN
    OBVIOUS
  <2>. HIDE DEF kept
  <2>7. \E r : Ready(f, r, page', Reusable(f, page', kept)) /\ CreateEffect(f, page', kept) = ApplySync(r, page')
    BY <1>6, <2>1, <2>3, <2>4, <2>6, CreateEffectIs
  <2>8. PICK r : Ready(f, r, page', Reusable(f, page', kept)) /\ CreateEffect(f, page', kept) = ApplySync(r, page')
    BY <2>7
  <2>9. /\ r \in Attended /\ Sound(r) /\ r.ctl.view = view /\ Continued(f, r)
        /\ \A q \in POIs : r.ctl.markers[q] = 0
    BY <1>6, <2>5, <2>8 DEF Ready
  <2>10. Fine(r, r, r, page'.pois) /\ r # NoController
    BY <1>4, <1>8, <2>9, RoomGoesOn, FineOn, ControllersAreNone DEF Faced
  <2>. DEFINE v == ApplySync(r, page')
  <2>11. /\ Settled(r, v) /\ Fine(r, r, v, page'.pois) /\ ToldOf(v, page')
         /\ UpToDate(v, page') /\ Complete(v, page')
         /\ \A q \in POIs : v.ctl.markers[q] # 0 => (r.ctl.markers[q] # 0 \/ q \in page'.pois)
    BY <1>9, <2>9, <2>10, ApplySyncIs
  <2>12. world' = v
    BY <1>4, <2>8
  <2>. HIDE DEF v
  <2>13. v \in Attended /\ Sound(v) /\ v.ctl.view = view /\ v.fails = F /\ Later(f.icons, v.icons)
    <3>1. v \in Attended /\ v.ctl.view = view /\ v.fails = r.fails /\ Later(r.icons, v.icons)
      BY <2>9, <2>11 DEF Settled
    <3>2. r.fails = F /\ Later(f.icons, r.icons)
      BY <1>8, <2>9 DEF Continued, Faced
    <3>3. Sound(v)
      BY <2>11, FineOn
    <3>. QED BY <3>1, <3>2, <3>3, LaterOn
  <2>14. \A q \in POIs : v.ctl.markers[q] # 0 => q \in PoisOf(lastMode)
    BY <1>1, <1>3, <1>5, <1>6, <2>9, <2>11 DEF RolesFit
  <2>15. WorldFits(v, "attached", page', lastMode, view, faults')
    BY <1>2, <1>6, <2>1, <2>11, <2>13, <2>14 DEF WorldFits
  <2>16. StaysLogo(f, v)
    <3>1. CASE role = "none"
      BY <1>8, <3>1, LogosOfAnother DEF Faced
    <3>2. CASE role # "none"
      BY <1>5, <1>8, <1>11, <2>13, <3>2, LogosOfAnother DEF Faced
    <3>. QED BY <3>1, <3>2
  <2>17. LogosFare(world, v)
    BY <1>8, <2>13, <2>16 DEF Faced
  <2>. QED BY <1>3, <1>7, <2>1, <2>2, <2>12, <2>15, <2>17 DEF Fares, MapInv
<1>. QED BY <1>4, <1>10, <1>11

\* The effects are taken down, and a timer set.
LEMMA DisconnectFares ==
    ASSUME MapInv, Disconnect
    PROVE  Fares
<1>1. /\ CountersFit /\ RolesFit /\ PageFits(page, latest)
      /\ WorldFits(world, role, page, lastMode, latest, faults)
  BY DEF MapInv
<1>2. /\ connected' = FALSE /\ timers < MaxTimers
      /\ role' = (IF role = "attached" THEN "kept" ELSE role)
      /\ timers' = (IF role = "attached" THEN timers + 1 ELSE timers)
      /\ UNCHANGED <<world, lastMode, page, latest, faults>>
  BY DEF Disconnect
<1>3. MaxTimers \in Nat
  BY PoiMapConstants
<1>4. CountersFit' /\ RolesFit'
  <2>1. CASE role = "attached"
    <3>1. role' = "kept" /\ timers' = timers + 1
      BY <1>2, <2>1
    <3>2. timers' \in 0 .. MaxTimers /\ timers' > 0
      BY <1>1, <1>2, <1>3, <3>1 DEF CountersFit
    <3>. QED BY <1>1, <1>2, <3>1, <3>2 DEF CountersFit, RolesFit
  <2>2. CASE role # "attached"
    <3>1. role' = role /\ timers' = timers
      BY <1>2, <2>2
    <3>. QED BY <1>1, <1>2, <2>2, <3>1 DEF CountersFit, RolesFit
  <2>. QED BY <2>1, <2>2
<1>5. WorldFits(world, role', page, lastMode, latest, faults)
  BY <1>1, <1>2 DEF WorldFits
<1>6. LogosFare(world, world)
  BY LaterOn, LaterFares DEF StaysLogo
<1>. QED BY <1>1, <1>2, <1>4, <1>5, <1>6 DEF Fares, MapInv

\* The effects are set up again: the creating one, and those of the pool.
LEMMA ReconnectFares ==
    ASSUME MapInv, NEW F \in Refusals, Reconnect(F)
    PROVE  Fares
<1>. DEFINE f == Facing(F)
            kept == role = "kept"
            reset == lastMode # page.mode
<1>1. /\ CountersFit /\ RolesFit /\ PageFits(page, latest)
      /\ WorldFits(world, role, page, lastMode, latest, faults)
  BY DEF MapInv
<1>2. faults' \in Nat /\ (faults' = 0 => faults = 0 /\ F = {})
  BY <1>1, RefusedIs DEF CountersFit, Reconnect
<1>3. /\ ~connected /\ HasRoom(world, 2) /\ connected' = TRUE /\ lastMode' = page.mode
      /\ UNCHANGED <<page, latest>>
  BY DEF Reconnect
<1>4. page.view # 0 => world' = PoolEffect(CreateEffect(f, page, kept), page, reset) /\ role' = "attached"
                       /\ timers' \in {timers, 0}
  BY DEF Reconnect, NoView
<1>5. page.view = 0 => UNCHANGED <<world, role, timers>>
  BY DEF Reconnect, NoView
<1>6. /\ page.pois \subseteq PoisOf(page.mode) /\ page.mode \in PageModes /\ page.view \in Nat /\ Asks(page)
      /\ page.view <= latest
  BY <1>1, PageFitsIs DEF PageFits
<1>7. role # "attached"
  BY <1>1, <1>3 DEF RolesFit
<1>8. Faced(f, F)
  BY FacedIs
<1>. HIDE DEF f
<1>9. CASE page.view = 0
  <2>1. CountersFit' /\ RolesFit'
    BY <1>1, <1>2, <1>3, <1>5, <1>6, <1>7, <1>9 DEF CountersFit, RolesFit, NoView
  <2>2. role # "none" => world.ctl.view # page.view
    BY <1>9, WorldIsKnown
  <2>3. WorldFits(world, role, page, page.mode, latest, faults')
    BY <1>1, <1>2, <1>7, <2>2 DEF WorldFits
  <2>4. LogosFare(world, world)
    BY LaterOn, LaterFares DEF StaysLogo
  <2>. QED BY <1>1, <1>3, <1>5, <1>9, <2>1, <2>3, <2>4 DEF Fares, MapInv
<1>10. CASE page.view # 0
  <2>1. CountersFit' /\ RolesFit'
    <3>1. role' = "attached" /\ timers' \in 0 .. MaxTimers
      BY <1>1, <1>4, <1>10, PoiMapConstants DEF CountersFit
    <3>. QED BY <1>1, <1>2, <1>3, <1>6, <1>10, <3>1 DEF CountersFit, RolesFit, NoView
  <2>2. Bare(f) \/ (f \in Attended /\ Sound(f))
    BY <1>8 DEF Faced
  <2>3. (kept => f \in Attended) /\ page.view \in Nat \ {0} /\ kept \in BOOLEAN
    BY <1>6, <1>8, <1>10 DEF Faced
  <2>. DEFINE again == Reusable(f, page, kept)
  <2>4. again => /\ role = "kept" /\ f.ctl.view = page.view
                 /\ \A q \in POIs : f.ctl.markers[q] # 0 => q \in PoisOf(lastMode)
    BY <1>8 DEF Reusable, Faced
  <2>5. ~again => \/ Bare(f)
                  \/ /\ f \in Attended /\ Sound(f)
                     /\ f.ctl.view # page.view \/ f.ctl.view \in f.dead
    <3>1. CASE role = "kept"
      <4>1. f \in Attended /\ Sound(f)
        BY <1>8, <3>1 DEF Faced
      <4>. QED BY <3>1, <4>1 DEF Reusable
    <3>2. CASE role = "none"
      BY <1>8, <3>2 DEF Faced
    <3>. QED BY <1>1, <1>7, <3>1, <3>2 DEF CountersFit
  <2>6. world' = PoolEffect(CreateEffect(f, page, kept), page, reset)
    BY <1>4, <1>10
  <2>. HIDE DEF kept
  <2>7. \E r : Ready(f, r, page, again) /\ CreateEffect(f, page, kept) = ApplySync(r, page)
    BY <2>2, <2>3, CreateEffectIs
  <2>8. PICK r : Ready(f, r, page, again) /\ CreateEffect(f, page, kept) = ApplySync(r, page)
    BY <2>7
  <2>. HIDE DEF again
  <2>9. /\ r \in Attended /\ Sound(r) /\ r.ctl.view = page.view /\ Continued(f, r)
        /\ again => r = f
        /\ ~again => \A q \in POIs : r.ctl.markers[q] = 0
    BY <2>8 DEF Ready
  <2>10. HasRoom(f, 2)
    BY <1>3, <1>8 DEF Faced
  <2>11. \A q \in POIs : \A i : FreeOf(r, q) \ {i} # {}
    BY <2>9, <2>10, RoomGoesOn
  <2>12. Roomy(r) /\ r # NoController
    BY <2>9, <2>11, ControllersAreNone DEF Roomy
  <2>13. Fine(r, r, r, page.pois)
    BY <2>9, <2>12, FineOn
  <2>. DEFINE made == ApplySync(r, page)
  <2>14. /\ Settled(r, made) /\ Fine(r, r, made, page.pois)
         /\ \A q \in POIs : made.ctl.markers[q] # 0 => (r.ctl.markers[q] # 0 \/ q \in page.pois)
    BY <1>6, <2>9, <2>12, <2>13, ApplySyncIs
  <2>15. world' = PoolEffect(made, page, reset)
    BY <2>6, <2>8
  <2>. HIDE DEF made
  <2>16. made \in Attended /\ Roomy(made) /\ Fine(r, NoController, made, page.pois)
    BY <2>11, <2>12, <2>14, FineOn DEF Settled
  <2>17. \A q \in POIs : r.ctl.markers[q] # 0 => q \in PoisOf(lastMode)
    BY <2>4, <2>9
  <2>18. reset => \A q \in page.pois : r.ctl.markers[q] = 0
    BY <1>1, <1>6, <2>17, PoisOfIs DEF CountersFit, Asks
  <2>19. reset \in BOOLEAN /\ (~reset => lastMode = page.mode)
    OBVIOUS
  <2>. HIDE DEF reset
  <2>. DEFINE v == PoolEffect(made, page, reset)
  <2>20. /\ Synced(r, made, v, page)
         /\ \A q \in POIs : v.ctl.markers[q] # 0 => (~reset /\ made.ctl.markers[q] # 0) \/ q \in page.pois
    BY <1>6, <2>16, <2>18, <2>19, PoolEffectIs
  <2>21. world' = v
    BY <2>15
  <2>. HIDE DEF v
  <2>22. Settled(r, v) /\ Fine(r, NoController, v, page.pois)
    BY <2>14, <2>20, SettledOn DEF Synced
  <2>23. v \in Attended /\ Sound(v) /\ v.ctl.view = page.view /\ v.fails = F /\ Later(f.icons, v.icons)
    <3>1. v \in Attended /\ v.ctl.view = page.view /\ v.fails = r.fails /\ Later(r.icons, v.icons)
      BY <2>9, <2>22 DEF Settled
    <3>2. r.fails = F /\ Later(f.icons, r.icons)
      BY <1>8, <2>9 DEF Continued, Faced
    <3>3. Sound(v)
      BY <2>22, FineOn
    <3>. QED BY <3>1, <3>2, <3>3, LaterOn
  <2>24. \A q \in POIs : v.ctl.markers[q] # 0 => q \in PoisOf(page.mode)
    BY <1>6, <2>14, <2>17, <2>19, <2>20
  <2>25. WorldFits(v, "attached", page, page.mode, latest, faults')
    BY <1>2, <1>6, <2>20, <2>23, <2>24 DEF WorldFits, Synced
  <2>26. StaysLogo(f, v)
    <3>1. CASE again
      BY <2>9, <2>22, <2>23, <3>1, LogosKept
    <3>2. CASE ~again
      BY <2>5, <2>23, <3>2, LogosOfAnother
    <3>. QED BY <3>1, <3>2
  <2>27. LogosFare(world, v)
    BY <1>8, <2>23, <2>26 DEF Faced
  <2>. QED BY <1>1, <1>3, <1>4, <1>10, <2>1, <2>21, <2>25, <2>27 DEF Fares, MapInv
<1>. QED BY <1>9, <1>10

\* The timer ends a controller that is kept, and no other.
LEMMA KeepaliveTimerFares ==
    ASSUME MapInv, KeepaliveTimer
    PROVE  Fares
<1>1. /\ CountersFit /\ RolesFit /\ PageFits(page, latest)
      /\ WorldFits(world, role, page, lastMode, latest, faults)
  BY DEF MapInv
<1>2. /\ timers > 0 /\ timers' = (IF role = "kept" THEN 0 ELSE timers - 1)
      /\ UNCHANGED <<connected, lastMode, page, latest, faults>>
  BY DEF KeepaliveTimer
<1>3. timers' \in 0 .. MaxTimers
  BY <1>1, <1>2, PoiMapConstants DEF CountersFit
<1>4. CASE role = "kept"
  <2>. DEFINE v == Destroy(world)
  <2>1. role' = "none" /\ world' = v
    BY <1>4 DEF KeepaliveTimer
  <2>. HIDE DEF v
  <2>2. world \in Attended /\ Sound(world)
    BY <1>1, <1>4 DEF WorldFits
  <2>3. Bare(v) /\ Continued(world, v)
    BY <2>2, DestroyIs DEF v
  <2>4. LogosFare(world, v)
    BY <2>3, LogosOfAnother, LaterFares DEF Continued
  <2>5. WorldFits(v, "none", page, lastMode, latest, faults)
    BY <1>1, <2>3 DEF WorldFits, Continued
  <2>6. CountersFit' /\ RolesFit'
    BY <1>1, <1>2, <1>3, <2>1 DEF CountersFit, RolesFit
  <2>. QED BY <1>1, <1>2, <2>1, <2>4, <2>5, <2>6 DEF Fares, MapInv
<1>5. CASE role # "kept"
  <2>1. UNCHANGED <<role, world>>
    BY <1>5 DEF KeepaliveTimer
  <2>2. CountersFit' /\ RolesFit'
    BY <1>1, <1>2, <1>3, <1>5, <2>1 DEF CountersFit, RolesFit
  <2>3. LogosFare(world, world)
    BY LaterOn, LaterFares DEF StaysLogo
  <2>. QED BY <1>1, <1>2, <2>1, <2>2, <2>3 DEF Fares, MapInv
<1>. QED BY <1>4, <1>5

\* The map has been moved: markers that are gone from the layer are made again.
LEMMA MoveEndFares ==
    ASSUME MapInv, NEW F \in Refusals, MoveEnd(F)
    PROVE  Fares
<1>. DEFINE f == Facing(F)
            v == Sync(f)
<1>1. /\ CountersFit /\ RolesFit /\ PageFits(page, latest)
      /\ WorldFits(world, role, page, lastMode, latest, faults)
  BY DEF MapInv
<1>2. faults' \in Nat /\ (faults' = 0 => faults = 0 /\ F = {})
  BY <1>1, RefusedIs DEF CountersFit, MoveEnd
<1>3. /\ role = "attached" /\ HasRoom(world, 1) /\ world' = v
      /\ UNCHANGED <<role, timers, connected, lastMode, page, latest>>
  BY DEF MoveEnd
<1>4. Faced(f, F)
  BY FacedIs
<1>. HIDE DEF f
<1>5. /\ world.ctl.view = page.view /\ ToldOf(world, page) /\ UpToDate(world, page)
      /\ faults = 0 => Complete(world, page) /\ world.fails = {}
  BY <1>1, <1>3 DEF WorldFits
<1>6. /\ f \in Attended /\ Sound(f) /\ f.ctl = world.ctl /\ f.dead = world.dead /\ f.fails = F
      /\ f.ctl.view <= latest /\ HasRoom(f, 1)
      /\ \A q \in POIs : f.ctl.markers[q] # 0 => q \in PoisOf(lastMode)
  BY <1>3, <1>4, <1>5 DEF Faced
<1>7. Fine(f, f, f, {}) /\ f # NoController
  BY <1>6, FineOn, HasRoomIs, ControllersAreNone
<1>8. \A q \in POIs : Drawn(f, f, f, q, {}) /\ Styled(f, q) /\ AsWanted(f, q)
  BY <1>7 DEF Fine
<1>9. /\ Settled(f, v) /\ Around(f, v)
      /\ \A q \in POIs :
            /\ Drawn(f, f, v, q, {}) /\ Styled(v, q) /\ AsWanted(v, q)
            /\ v.ctl.markers[q] # 0 => f.ctl.markers[q] # 0
            /\ f.ctl.markers[q] # 0 /\ q \notin f.fails => v.ctl.markers[q] # 0
            /\ f.ctl.view \notin f.dead /\ v.ctl.markers[q] # 0 => AttachedAt(v, q)
  BY <1>6, <1>7, <1>8, SyncIs
<1>. HIDE DEF v
<1>10. Fine(f, f, v, {})
  BY <1>9 DEF Fine
<1>11. v \in Attended /\ Sound(v) /\ StaysLogo(f, v) /\ Later(f.icons, v.icons)
       /\ v.fails = F /\ v.dead = world.dead /\ v.ctl.view = world.ctl.view
  <2>1. v \in Attended /\ Later(f.icons, v.icons) /\ v.fails = F /\ v.dead = world.dead
        /\ v.ctl.view = world.ctl.view
    BY <1>6, <1>9 DEF Settled
  <2>2. Sound(v)
    BY <1>10, FineOn
  <2>3. StaysLogo(f, v)
    BY <1>6, <1>10, <2>1, LogosKept
  <2>. QED BY <2>1, <2>2, <2>3
<1>12. ToldOf(v, page)
  BY <1>5, <1>6, <1>9 DEF ToldOf, Around
<1>13. UpToDate(v, page)
  BY <1>5, <1>6, <1>9, <1>11 DEF UpToDate, AttachedAt
<1>14. faults' = 0 => Complete(v, page) /\ v.fails = {}
  <2>1. page.pois \subseteq POIs
    BY <1>1, PageFitsIs DEF Asks
  <2>. QED BY <1>2, <1>5, <1>6, <1>9, <1>11, <2>1 DEF Complete
<1>15. WorldFits(v, "attached", page, lastMode, latest, faults')
  BY <1>5, <1>6, <1>9, <1>11, <1>12, <1>13, <1>14 DEF WorldFits
<1>16. CountersFit' /\ RolesFit'
  BY <1>1, <1>2, <1>3 DEF CountersFit, RolesFit
<1>17. LogosFare(world, v)
  BY <1>4, <1>11 DEF Faced
<1>. QED BY <1>1, <1>3, <1>15, <1>16, <1>17 DEF Fares, MapInv

\* A view is destroyed, and its markers are off the map.
Buried(w, z, view) ==
    /\ z.icons = w.icons /\ z.ctl = w.ctl /\ z.fails = w.fails /\ z.waiting = w.waiting
    /\ z.dead = w.dead \cup {view}
    /\ z.layer \in [Wrappers -> Marks \cup {NoMarker}]
    /\ \A m \in Wrappers :
        /\ z.layer[m] = NoMarker <=> w.layer[m] = NoMarker
        /\ w.layer[m] # NoMarker =>
            /\ z.layer[m].view = w.layer[m].view /\ z.layer[m].icon = w.layer[m].icon
            /\ z.layer[m].style = w.layer[m].style /\ z.layer[m].want = w.layer[m].want
            /\ w.layer[m].view # view => z.layer[m] = w.layer[m]
            /\ w.layer[m].view = view => ~z.layer[m].known

LEMMA ViewDiesIs ==
    ASSUME world \in Worlds, NEW view \in Nat, ViewDies(view)
    PROVE  world' \in Worlds /\ Buried(world, world', view)
<1>. DEFINE l == [m \in Wrappers |-> IF world.layer[m] # NoMarker /\ world.layer[m].view = view
                                     THEN [world.layer[m] EXCEPT !.known = FALSE, !.onLayer = FALSE]
                                     ELSE world.layer[m]]
            d == world.dead \cup {view}
<1>1. world' = [world EXCEPT !.dead = d, !.layer = l]
  BY DEF ViewDies
<1>2. world.layer \in [Wrappers -> Marks \cup {NoMarker}] /\ world.dead \in SUBSET Nat
  BY WorldHas
<1>3. \A m \in Wrappers :
        /\ world.layer[m] \in Marks \cup {NoMarker}
        /\ l[m] = IF world.layer[m] # NoMarker /\ world.layer[m].view = view
                  THEN [world.layer[m] EXCEPT !.known = FALSE, !.onLayer = FALSE]
                  ELSE world.layer[m]
  BY <1>2
<1>4. DOMAIN l = Wrappers /\ l = [m \in Wrappers |-> l[m]]
  OBVIOUS
<1>5. d \in SUBSET Nat
  BY <1>2
<1>. HIDE DEF l
<1>6. ASSUME NEW m \in Wrappers
      PROVE  /\ l[m] \in Marks \cup {NoMarker}
             /\ l[m] = NoMarker <=> world.layer[m] = NoMarker
             /\ world.layer[m] # NoMarker =>
                /\ l[m].view = world.layer[m].view /\ l[m].icon = world.layer[m].icon
                /\ l[m].style = world.layer[m].style /\ l[m].want = world.layer[m].want
                /\ world.layer[m].view # view => l[m] = world.layer[m]
                /\ world.layer[m].view = view => ~l[m].known
  <2>1. CASE world.layer[m] # NoMarker /\ world.layer[m].view = view
    <3>1. world.layer[m] \in Marks /\ l[m] = [world.layer[m] EXCEPT !.known = FALSE, !.onLayer = FALSE]
      BY <1>3, <2>1
    <3>2. l[m] \in Marks /\ l[m].view = world.layer[m].view /\ l[m].icon = world.layer[m].icon
          /\ l[m].style = world.layer[m].style /\ l[m].want = world.layer[m].want /\ l[m].known = FALSE
      BY <3>1 DEF Marks
    <3>. QED BY <2>1, <3>2, Distinctions
  <2>2. CASE ~(world.layer[m] # NoMarker /\ world.layer[m].view = view)
    BY <1>3, <2>2
  <2>. QED BY <2>1, <2>2
<1>7. l \in [Wrappers -> Marks \cup {NoMarker}]
  BY <1>4, <1>6
<1>. HIDE DEF d
<1>8. world' = [icons |-> world.icons, layer |-> l, waiting |-> world.waiting, ctl |-> world.ctl,
                fails |-> world.fails, dead |-> d]
  BY <1>1 DEF Worlds
<1>9. world' \in Worlds
  <2>1. world.ctl \in Controllers \cup {NoController}
    BY DEF Worlds
  <2>. QED BY <1>5, <1>7, <1>8, <2>1, WorldHas DEF Worlds
<1>. DEFINE z == world'
<1>10. /\ z.icons = world.icons /\ z.ctl = world.ctl /\ z.fails = world.fails /\ z.waiting = world.waiting
       /\ z.dead = d /\ z.layer = l
  BY Zenon, <1>8
<1>. QED BY <1>6, <1>7, <1>9, <1>10 DEF Buried, d

LEMMA BuriedIs ==
    ASSUME NEW w \in Worlds, NEW z \in Worlds, NEW view \in Nat, Buried(w, z, view)
    PROVE  /\ Bare(w) => Bare(z)
           /\ w \in Attended /\ Sound(w) => z \in Attended /\ Sound(z)
           /\ StaysLogo(w, z)
           /\ \A pg : w \in Attended /\ Sound(w) /\ UpToDate(w, pg) => UpToDate(z, pg)
           /\ \A pg : Complete(w, pg) => Complete(z, pg)
<1>1. /\ z.icons = w.icons /\ z.ctl = w.ctl /\ z.fails = w.fails /\ z.waiting = w.waiting
      /\ z.dead = w.dead \cup {view}
  BY DEF Buried
<1>2. \A m \in Wrappers :
        /\ z.layer[m] = NoMarker <=> w.layer[m] = NoMarker
        /\ w.layer[m] # NoMarker =>
            /\ z.layer[m].view = w.layer[m].view /\ z.layer[m].icon = w.layer[m].icon
            /\ z.layer[m].style = w.layer[m].style /\ z.layer[m].want = w.layer[m].want
            /\ w.layer[m].view # view => z.layer[m] = w.layer[m]
            /\ w.layer[m].view = view => ~z.layer[m].known
  BY DEF Buried
<1>3. Bare(w) => Bare(z)
  BY <1>1, <1>2 DEF Bare, NoneWaitsInVain
<1>4. StaysLogo(w, z)
  BY <1>2 DEF StaysLogo
<1>5. ASSUME w \in Attended, Sound(w), NEW q \in POIs
      PROVE  /\ Tidy(z, q) /\ Styled(z, q) /\ AsWanted(z, q)
             /\ w.ctl.markers[q] # 0 /\ w.ctl.view # view => (Up(w, q) <=> Up(z, q))
  <2>1. Tidy(w, q) /\ Styled(w, q) /\ AsWanted(w, q)
    BY <1>5 DEF Sound
  <2>2. Wrapper(z, q) = Wrapper(w, q)
    BY <1>1 DEF Wrapper
  <2>3. \A i \in Nums : <<q, i>> \in Wrappers
    BY DEF Wrappers, Nums
  <2>4. w.ctl.markers[q] # 0 =>
            /\ Wrapper(w, q) \in Wrappers /\ w.layer[Wrapper(w, q)] # NoMarker
            /\ Mark(w, q).view = w.ctl.view
    <3>1. w.ctl.markers[q] # 0 => w.ctl.markers[q] \in Nums /\ Wrapper(w, q) \in Wrappers
      BY <1>5, MarkIs
    <3>. QED BY <2>1, <3>1 DEF Tidy, Wrapper
  <2>5. w.ctl.markers[q] # 0 =>
            /\ Mark(z, q).view = Mark(w, q).view /\ Mark(z, q).icon = Mark(w, q).icon
            /\ Mark(z, q).style = Mark(w, q).style /\ Mark(z, q).want = Mark(w, q).want
            /\ Mark(w, q).view # view => Mark(z, q) = Mark(w, q)
            /\ Mark(w, q).view = view => ~Mark(z, q).known
    BY <1>2, <2>2, <2>4 DEF Mark
  <2>6. w.ctl.markers[q] # 0 => RecordedAsDrawn(z, q)
    BY <1>1, <2>1, <2>5 DEF Tidy, RecordedAsDrawn
  <2>7. w.ctl.markers[q] # 0 => (Mark(z, q).known <=> z.ctl.view \notin z.dead)
    BY <1>1, <2>1, <2>4, <2>5 DEF Tidy
  <2>8. Tidy(z, q)
    BY <1>1, <1>2, <2>1, <2>3, <2>4, <2>5, <2>6, <2>7 DEF Tidy
  <2>9. Styled(z, q)
    BY <1>1, <2>1 DEF Styled
  <2>10. AsWanted(z, q)
    BY <1>1, <2>1, <2>5 DEF AsWanted, Wanted
  <2>11. w.ctl.markers[q] # 0 /\ w.ctl.view # view => (Up(w, q) <=> Up(z, q))
    BY <2>4, <2>5 DEF Up
  <2>. QED BY <2>8, <2>9, <2>10, <2>11
<1>6. w \in Attended /\ Sound(w) => z \in Attended /\ Sound(z)
  BY <1>1, <1>5 DEF Attended, Sound, NoneWaitsInVain
<1>7. \A pg : w \in Attended /\ Sound(w) /\ UpToDate(w, pg) => UpToDate(z, pg)
  BY <1>1, <1>5 DEF UpToDate
<1>8. \A pg : Complete(w, pg) => Complete(z, pg)
  BY <1>1 DEF Complete
<1>. QED BY <1>3, <1>4, <1>6, <1>7, <1>8

LEMMA ViewDiesFares ==
    ASSUME MapInv, NEW view \in Nat, ViewDies(view)
    PROVE  Fares
<1>1. /\ CountersFit /\ RolesFit /\ PageFits(page, latest)
      /\ WorldFits(world, role, page, lastMode, latest, faults)
  BY DEF MapInv
<1>2. world \in Worlds /\ world' \in Worlds /\ Buried(world, world', view)
  BY WorldIsKnown, ViewDiesIs
<1>3. UNCHANGED <<role, timers, connected, lastMode, page, latest, faults>>
  BY DEF ViewDies
<1>. DEFINE z == world'
<1>4. z.ctl = world.ctl /\ z.fails = world.fails /\ z.icons = world.icons
  BY <1>2 DEF Buried
<1>5. role = "none" => Bare(z)
  BY <1>1, <1>2, BuriedIs DEF WorldFits
<1>6. role # "none" => z \in Attended /\ Sound(z)
  BY <1>1, <1>2, BuriedIs DEF WorldFits
<1>7. role = "attached" => UpToDate(z, page) /\ (faults = 0 => Complete(z, page))
  BY <1>1, <1>2, BuriedIs DEF WorldFits
<1>8. role = "attached" => ToldOf(z, page)
  BY <1>1, <1>4 DEF WorldFits, ToldOf
<1>9. WorldFits(z, role, page, lastMode, latest, faults)
  BY <1>1, <1>4, <1>5, <1>6, <1>7, <1>8 DEF WorldFits
<1>10. LogosFare(world, z)
  <2>1. StaysLogo(world, z)
    BY <1>2, BuriedIs
  <2>. QED BY <1>4, <2>1, LaterOn, LaterFares
<1>11. CountersFit' /\ RolesFit'
  BY <1>1, <1>3 DEF CountersFit, RolesFit
<1>. QED BY <1>1, <1>3, <1>9, <1>10, <1>11 DEF Fares, MapInv

\* Less may be tried and fetched.
LEMMA IconsWithLess ==
    ASSUME NEW i \in KnownIcons, NEW t \in SUBSET i.trying, NEW g \in SUBSET i.fetching,
           NEW f \in Seq(Urls), Len(f) <= MaxFailed
    PROVE  [results |-> i.results, trying |-> t, failed |-> f, inlined |-> i.inlined, fetching |-> g]
                \in KnownIcons
<1>. DEFINE j == [results |-> i.results, trying |-> t, failed |-> f, inlined |-> i.inlined, fetching |-> g]
<1>1. i \in Icons /\ WithinBounds(i)
  BY DEF KnownIcons
<1>2. j \in Icons
  BY <1>1 DEF Icons
<1>3. j.results = i.results /\ j.trying = t /\ j.failed = f /\ j.inlined = i.inlined /\ j.fetching = g
  OBVIOUS
<1>. HIDE DEF j
<1>4. IsFiniteSet(t) /\ Cardinality(t) <= MaxTrying /\ IsFiniteSet(g) /\ Cardinality(g) <= MaxFetching
  <2>1. /\ IsFiniteSet(i.trying) /\ Cardinality(i.trying) <= MaxTrying
        /\ IsFiniteSet(i.fetching) /\ Cardinality(i.fetching) <= MaxFetching
    BY <1>1 DEF WithinBounds
  <2>2. /\ IsFiniteSet(t) /\ Cardinality(t) <= Cardinality(i.trying)
        /\ IsFiniteSet(g) /\ Cardinality(g) <= Cardinality(i.fetching)
    BY <2>1, FS_Subset
  <2>3. /\ Cardinality(t) \in Nat /\ Cardinality(i.trying) \in Nat
        /\ Cardinality(g) \in Nat /\ Cardinality(i.fetching) \in Nat
        /\ MaxTrying \in Nat /\ MaxFetching \in Nat
    BY <2>1, <2>2, FS_CardinalityType, CacheBounds
  <2>. QED BY <2>1, <2>2, <2>3
<1>5. WithinBounds(j)
  BY <1>1, <1>3, <1>4 DEF WithinBounds
<1>6. j \in KnownIcons
  BY <1>2, <1>5 DEF KnownIcons
<1>. QED BY <1>6 DEF j

\* An image has been tried.
TriedIs(i, j) == j \in KnownIcons /\ j.fetching = i.fetching /\ j.trying \subseteq i.trying

LEMMA TriedWellIs ==
    ASSUME NEW i \in KnownIcons, NEW url \in Urls
    PROVE  TriedIs(i, TriedWell(i, url))
<1>. DEFINE r == Remember(i, url, "ok")
            j == TriedWell(i, url)
<1>1. r \in KnownIcons /\ r = [i EXCEPT !.results = r.results]
  BY RememberIs
<1>2. j = [r EXCEPT !.trying = @ \ {url}]
  BY DEF TriedWell
<1>. HIDE DEF r, j
<1>3. i \in Icons /\ r \in Icons /\ WithinBounds(r)
  BY <1>1 DEF KnownIcons
<1>4. r.trying = i.trying /\ r.fetching = i.fetching
  BY <1>1, <1>3 DEF Icons
<1>. DEFINE t == r.trying \ {url}
<1>5. j = [r EXCEPT !.trying = t]
  BY <1>2
<1>6. t \in SUBSET r.trying
  OBVIOUS
<1>. HIDE DEF t
<1>7. j = [results |-> r.results, trying |-> t, failed |-> r.failed, inlined |-> r.inlined, fetching |-> r.fetching]
  BY <1>3, <1>5 DEF Icons
<1>8. j \in KnownIcons
  BY <1>1, <1>3, <1>6, <1>7, IconsWithLess DEF Icons, WithinBounds
<1>9. j.fetching = r.fetching /\ j.trying = t
  BY Zenon, <1>7
<1>10. TriedIs(i, j)
  BY <1>4, <1>6, <1>8, <1>9 DEF TriedIs
<1>. QED BY <1>10 DEF j

LEMMA TriedInVainIs ==
    ASSUME NEW i \in KnownIcons, NEW url \in Urls
    PROVE  TriedIs(i, TriedInVain(i, url))
<1>. DEFINE r == Remember(i, url, "fail")
            o == IF url \in ToSet(i.failed) THEN i.failed ELSE Append(i.failed, url)
            f == Newest(o, MaxFailed)
            j == TriedInVain(i, url)
<1>1. r \in KnownIcons /\ r = [i EXCEPT !.results = r.results]
  BY RememberIs
<1>2. j = [r EXCEPT !.trying = @ \ {url}, !.failed = f]
  BY DEF TriedInVain
<1>. HIDE DEF r, j
<1>3. i \in Icons /\ r \in Icons /\ WithinBounds(r)
  BY <1>1 DEF KnownIcons
<1>4. r.trying = i.trying /\ r.fetching = i.fetching
  BY <1>1, <1>3 DEF Icons
<1>5. f \in Seq(Urls) /\ Len(f) <= MaxFailed
  <2>1. i.failed \in Seq(Urls) /\ MaxFailed \in Nat
    BY <1>3, CacheBounds DEF Icons
  <2>2. Append(i.failed, url) \in Seq(Urls)
    BY <2>1, AppendProperties
  <2>3. o \in Seq(Urls)
    BY <2>1, <2>2
  <2>. HIDE DEF o
  <2>. QED BY <2>1, <2>3, NewestIs
<1>. HIDE DEF f
<1>. DEFINE t == r.trying \ {url}
<1>6. j = [r EXCEPT !.trying = t, !.failed = f]
  BY <1>2
<1>7. t \in SUBSET r.trying
  OBVIOUS
<1>. HIDE DEF t
<1>8. j = [results |-> r.results, trying |-> t, failed |-> f, inlined |-> r.inlined, fetching |-> r.fetching]
  BY <1>3, <1>6 DEF Icons
<1>9. j \in KnownIcons
  BY <1>1, <1>3, <1>5, <1>7, <1>8, IconsWithLess DEF Icons
<1>10. j.fetching = r.fetching /\ j.trying = t
  BY Zenon, <1>8
<1>11. TriedIs(i, j)
  BY <1>4, <1>7, <1>9, <1>10 DEF TriedIs
<1>. QED BY <1>11 DEF j

\* The bytes of a logo have come, or have not.
FetchedIs(i, j, url) ==
    j \in KnownIcons /\ j.fetching = i.fetching \ {url} /\ j.trying = i.trying /\ j.failed = i.failed

LEMMA FetchFailedIs ==
    ASSUME NEW i \in KnownIcons, NEW url
    PROVE  FetchedIs(i, FetchFailed(i, url), url)
<1>. DEFINE g == i.fetching \ {url}
            j == FetchFailed(i, url)
<1>1. j = [i EXCEPT !.fetching = g] /\ g \in SUBSET i.fetching
  BY DEF FetchFailed
<1>. HIDE DEF j, g
<1>2. i \in Icons /\ WithinBounds(i)
  BY DEF KnownIcons
<1>3. j = [results |-> i.results, trying |-> i.trying, failed |-> i.failed, inlined |-> i.inlined, fetching |-> g]
  BY <1>1, <1>2 DEF Icons
<1>4. i.trying \in SUBSET i.trying /\ i.failed \in Seq(Urls) /\ Len(i.failed) <= MaxFailed
  BY <1>2 DEF Icons, WithinBounds
<1>5. j \in KnownIcons
  <2>1. g \in SUBSET i.fetching
    BY <1>1
  <2>. QED BY <1>3, <1>4, <2>1, IconsWithLess
<1>6. j.fetching = g /\ j.trying = i.trying /\ j.failed = i.failed
  BY Zenon, <1>3
<1>. QED BY <1>5, <1>6 DEF FetchedIs, j, g

LEMMA LogoFetchedIs ==
    ASSUME NEW i \in KnownIcons, NEW url \in Urls
    PROVE  FetchedIs(i, Fetched(i, url), url)
<1>. DEFINE r == Inline(i, url)
<1>1. r \in KnownIcons /\ r = [i EXCEPT !.inlined = r.inlined]
  BY InlineIs
<1>2. Fetched(i, url) = FetchFailed(r, url)
  BY DEF Fetched, FetchFailed
<1>. HIDE DEF r
<1>3. FetchedIs(r, FetchFailed(r, url), url)
  BY <1>1, FetchFailedIs
<1>4. r.fetching = i.fetching /\ r.trying = i.trying /\ r.failed = i.failed
  <2>1. i \in Icons
    BY DEF KnownIcons
  <2>. QED BY <1>1, <2>1 DEF Icons
<1>. QED BY <1>2, <1>3, <1>4 DEF FetchedIs

\* A step that leaves the controller and the map alone.
LEMMA OutsideFares ==
    ASSUME MapInv, UNCHANGED <<role, timers, connected, lastMode, page, latest, faults>>,
           Outside(world, world'), world'.fails = world.fails,
           (world'.icons.trying \ world.icons.trying) \cap ToSet(world.icons.failed) = {}
    PROVE  Fares
<1>1. /\ CountersFit /\ RolesFit /\ PageFits(page, latest)
      /\ WorldFits(world, role, page, lastMode, latest, faults)
  BY DEF MapInv
<1>. DEFINE v == world'
<1>2. v.ctl = world.ctl
  BY DEF Outside
<1>3. /\ Bare(world) => Bare(v)
      /\ world \in Attended => v \in Attended
      /\ Sound(world) => Sound(v)
      /\ StaysLogo(world, v)
      /\ \A pg : ToldOf(world, pg) => ToldOf(v, pg)
      /\ \A pg : UpToDate(world, pg) => UpToDate(v, pg)
      /\ \A pg : Complete(world, pg) => Complete(v, pg)
  BY OutsideIs
<1>4. WorldFits(v, role, page, lastMode, latest, faults)
  BY <1>1, <1>2, <1>3 DEF WorldFits
<1>5. LogosFare(world, v)
  BY <1>3 DEF LogosFare
<1>6. CountersFit' /\ RolesFit'
  BY <1>1 DEF CountersFit, RolesFit
<1>. QED BY <1>1, <1>4, <1>5, <1>6 DEF Fares, MapInv

LEMMA ImageTriedFares ==
    ASSUME MapInv, NEW url \in Urls, NEW ok \in BOOLEAN, ImageTried(url, ok)
    PROVE  Fares
<1>. DEFINE j == IF ok THEN TriedWell(world.icons, url) ELSE TriedInVain(world.icons, url)
<1>1. world \in Worlds /\ NoneWaitsInVain(world)
  BY WorldIsKnown
<1>2. world.icons \in KnownIcons
  BY <1>1, WorldHas
<1>3. TriedIs(world.icons, j)
  BY <1>2, TriedWellIs, TriedInVainIs
<1>4. world' = [world EXCEPT !.icons = j]
  BY DEF ImageTried
<1>. HIDE DEF j
<1>5. world' = [icons |-> j, layer |-> world.layer, waiting |-> world.waiting, ctl |-> world.ctl,
                fails |-> world.fails, dead |-> world.dead]
  BY <1>1, <1>4 DEF Worlds
<1>6. world'.fails = world.fails /\ world'.icons = j
  BY Zenon, <1>5
<1>7. Outside(world, world')
  <2>1. \A u \in world.waiting : u.url \in j.fetching
    BY <1>1, <1>3 DEF NoneWaitsInVain, TriedIs
  <2>2. j \in KnownIcons
    BY <1>3 DEF TriedIs
  <2>3. world.waiting \in SUBSET world.waiting
    OBVIOUS
  <2>. QED BY <1>1, <1>5, <2>1, <2>2, <2>3, OutsideChange, WorldHas
<1>8. UNCHANGED <<role, timers, connected, lastMode, page, latest, faults>>
  BY DEF ImageTried
<1>. QED BY <1>3, <1>6, <1>7, <1>8, OutsideFares DEF TriedIs

\* The fetch is over, and nobody waits for it any more.
NobodyWaits(h, j, url) == h = [world EXCEPT !.icons = j, !.waiting = {u \in @ : u.url # url}]

LEMMA FetchOver ==
    ASSUME world \in Worlds, NoneWaitsInVain(world), NEW url, NEW j, FetchedIs(world.icons, j, url),
           NEW h, NobodyWaits(h, j, url)
    PROVE  /\ Outside(world, h) /\ h.fails = world.fails
           /\ h.icons.trying = world.icons.trying /\ h.icons.failed = world.icons.failed
<1>. DEFINE t == {u \in world.waiting : u.url # url}
<1>1. h = [world EXCEPT !.icons = j, !.waiting = t]
  BY DEF NobodyWaits
<1>2. t \in SUBSET world.waiting
  OBVIOUS
<1>3. \A u \in t : u.url \in j.fetching
  BY DEF NoneWaitsInVain, FetchedIs
<1>. HIDE DEF t
<1>4. h = [icons |-> j, layer |-> world.layer, waiting |-> t, ctl |-> world.ctl,
           fails |-> world.fails, dead |-> world.dead]
  BY <1>1 DEF Worlds
<1>5. h.fails = world.fails /\ h.icons = j
  BY Zenon, <1>4
<1>6. j \in KnownIcons
  BY DEF FetchedIs
<1>7. Outside(world, h)
  <2>1. world.fails \in SUBSET POIs
    BY WorldHas
  <2>. QED BY <1>2, <1>3, <1>4, <1>6, <2>1, OutsideChange
<1>. QED BY <1>5, <1>7 DEF FetchedIs

LEMMA LogoLostFares ==
    ASSUME MapInv, NEW url \in Urls, LogoLost(url)
    PROVE  Fares
<1>1. world \in Worlds /\ NoneWaitsInVain(world) /\ world.icons \in KnownIcons
  BY WorldIsKnown, WorldHas
<1>. DEFINE j == FetchFailed(world.icons, url)
<1>2. FetchedIs(world.icons, j, url)
  BY <1>1, FetchFailedIs
<1>3. NobodyWaits(world', j, url)
  BY DEF LogoLost, NobodyWaits
<1>. HIDE DEF j
<1>4. /\ Outside(world, world') /\ world'.fails = world.fails
      /\ world'.icons.trying = world.icons.trying
  BY <1>1, <1>2, <1>3, FetchOver
<1>5. UNCHANGED <<role, timers, connected, lastMode, page, latest, faults>>
  BY DEF LogoLost
<1>. QED BY <1>4, <1>5, OutsideFares

\* The wrappers that waited are of the recruitment POIs, and finitely many.
LEMMA WaitersAre ==
    ASSUME world \in Worlds, NEW url
    PROVE  LET ms == {u.marker : u \in {x \in world.waiting : x.url = url}}
           IN  /\ Len(SetToSeq(ms)) \in Nat
               /\ \A i \in 1 .. Len(SetToSeq(ms)) : SetToSeq(ms)[i] \in Companies \X Nums
<1>. DEFINE ms == {u.marker : u \in {x \in world.waiting : x.url = url}}
<1>1. ms \subseteq Companies \X Nums
  <2>1. world.waiting \subseteq Awaited
    BY WorldHas
  <2>. QED BY <2>1 DEF Awaited
<1>. HIDE DEF ms
<1>2. IsFiniteSet(Companies)
  BY PoisAreFinite, FS_Subset DEF POIs
<1>3. IsFiniteSet(Nums)
  <2>1. 1 \in Int /\ MaxWrappers \in Int
    BY Distinctions
  <2>. QED BY <2>1, FS_Interval DEF Nums
<1>4. IsFiniteSet(Companies \X Nums)
  BY <1>2, <1>3, FS_Product
<1>5. IsFiniteSet(ms)
  BY <1>1, <1>4, FS_Subset
<1>6. Len(SetToSeq(ms)) \in Nat /\ \A i \in 1 .. Len(SetToSeq(ms)) : SetToSeq(ms)[i] \in ms
  BY <1>5, SetToSeqIs
<1>. QED BY <1>1, <1>6 DEF ms

LEMMA LogoFetchedFares ==
    ASSUME MapInv, NEW url \in Urls, LogoFetched(url)
    PROVE  Fares
<1>1. /\ CountersFit /\ RolesFit /\ PageFits(page, latest)
      /\ WorldFits(world, role, page, lastMode, latest, faults)
  BY DEF MapInv
<1>2. world \in Worlds /\ NoneWaitsInVain(world) /\ world.icons \in KnownIcons
  BY WorldIsKnown, WorldHas
<1>. DEFINE j == Fetched(world.icons, url)
            h == [world EXCEPT !.icons = j, !.waiting = {u \in @ : u.url # url}]
            ms == {u.marker : u \in {x \in world.waiting : x.url = url}}
            v == Woken(h, ms, url)
<1>3. world' = v /\ UNCHANGED <<role, timers, connected, lastMode, page, latest, faults>>
  BY DEF LogoFetched
<1>4. FetchedIs(world.icons, j, url)
  BY <1>2, LogoFetchedIs
<1>5. Len(SetToSeq(ms)) \in Nat /\ \A i \in 1 .. Len(SetToSeq(ms)) : SetToSeq(ms)[i] \in Companies \X Nums
  BY <1>2, WaitersAre
<1>6. NobodyWaits(h, j, url)
  BY DEF NobodyWaits
<1>. HIDE DEF j, ms, h
<1>7. /\ Outside(world, h) /\ h.fails = world.fails
      /\ h.icons.trying = world.icons.trying /\ h.icons.failed = world.icons.failed
  BY <1>2, <1>4, <1>6, FetchOver
<1>8. CASE role = "none"
  <2>1. h.ctl = NoController
    BY <1>1, <1>7, <1>8 DEF WorldFits, Bare, Outside
  <2>2. v = h
    BY <1>5, <2>1, WokenNobody
  <2>. QED BY <1>3, <1>7, <2>2, OutsideFares
<1>9. CASE role # "none"
  <2>1. /\ world \in Attended /\ Sound(world) /\ world.ctl.view <= latest
        /\ faults = 0 => world.fails = {}
    BY <1>1, <1>9 DEF WorldFits
  <2>2. /\ h \in Attended /\ Sound(h) /\ StaysLogo(world, h)
        /\ \A z : StaysLogo(h, z) => StaysLogo(world, z)
        /\ \A pg : ToldOf(world, pg) => ToldOf(h, pg)
        /\ \A pg : UpToDate(world, pg) => UpToDate(h, pg)
        /\ \A pg : Complete(world, pg) => Complete(h, pg)
        /\ h.ctl = world.ctl
    BY <1>7, <2>1, OutsideIs DEF Outside
  <2>3. Upgraded(h, v)
    BY <1>5, <2>2, WokenIs
  <2>. HIDE DEF v
  <2>4. StillDrawn(h, NoController, h, v, {}) /\ Around(h, v) /\ \A q \in POIs : Styled(v, q)
    BY <2>3 DEF Upgraded
  <2>5. Fine(h, NoController, v, {})
    BY <2>4, StillFine
  <2>6. /\ v \in Attended /\ Later(h.icons, v.icons) /\ v.fails = h.fails /\ v.ctl.view = h.ctl.view
        /\ \A q \in POIs : v.ctl.markers[q] = h.ctl.markers[q]
    BY <2>4 DEF StillDrawn, Settled
  <2>7. Sound(v) /\ StaysLogo(h, v)
    BY <2>2, <2>5, <2>6, FineOn, LogosKept
  <2>8. LogosFare(world, v)
    BY <1>7, <2>2, <2>6, <2>7 DEF LogosFare, Later
  <2>9. role = "attached" => ToldOf(v, page)
    <3>1. \A pg : ToldOf(h, pg) => ToldOf(v, pg)
      BY <2>4 DEF ToldOf, Around
    <3>. QED BY <1>1, <2>2, <3>1 DEF WorldFits
  <2>10. role = "attached" => UpToDate(v, page) /\ (faults = 0 => Complete(v, page))
    <3>1. page.pois \subseteq POIs
      BY <1>1, PageFitsIs DEF Asks
    <3>2. role = "attached" => UpToDate(h, page) /\ (faults = 0 => Complete(h, page))
      BY <1>1, <2>2 DEF WorldFits
    <3>. QED BY <2>4, <3>1, <3>2, StillUpToDate
  <2>11. WorldFits(v, role, page, lastMode, latest, faults)
    <3>1. role = "attached" => v.ctl.view = page.view
      BY <1>1, <2>2, <2>6 DEF WorldFits
    <3>2. v.ctl.view = page.view => \A q \in POIs : v.ctl.markers[q] # 0 => q \in PoisOf(lastMode)
      BY <1>1, <1>9, <2>2, <2>6 DEF WorldFits
    <3>. QED BY <1>7, <1>9, <2>1, <2>2, <2>6, <2>7, <2>9, <2>10, <3>1, <3>2 DEF WorldFits
  <2>12. CountersFit' /\ RolesFit'
    BY <1>1, <1>3 DEF CountersFit, RolesFit
  <2>. QED BY <1>1, <1>3, <2>8, <2>11, <2>12 DEF Fares, MapInv
<1>. QED BY <1>8, <1>9

\* The step of a refusal, or of none.
LEMMA RefusalFares ==
    ASSUME MapInv, NEW F \in Refusals,
           \/ \E pois \in SUBSET PoisOf(page.mode) :
                \E visible \in Visibles(page.mode, pois) : RenderPool(pois, visible, F)
           \/ \E md \in PageModes \ {page.mode} : \E pois \in SUBSET PoisOf(md) :
                \E visible \in Visibles(md, pois) : RenderMode(md, pois, visible, F)
           \/ \E visible \in Visibles(page.mode, page.pois) : RenderVisible(visible, F)
           \/ \E v \in 0 .. MaxViews : RenderView(v, F)
           \/ Reconnect(F)
           \/ MoveEnd(F)
    PROVE  Fares
<1>1. ASSUME NEW pois \in SUBSET PoisOf(page.mode), NEW visible \in Visibles(page.mode, pois),
             RenderPool(pois, visible, F)
      PROVE  Fares
  BY <1>1, RenderPoolFares
<1>2. ASSUME NEW md \in PageModes \ {page.mode}, NEW pois \in SUBSET PoisOf(md),
             NEW visible \in Visibles(md, pois), RenderMode(md, pois, visible, F)
      PROVE  Fares
  BY <1>2, RenderModeFares
<1>3. ASSUME NEW visible \in Visibles(page.mode, page.pois), RenderVisible(visible, F)
      PROVE  Fares
  BY <1>3, RenderVisibleFares
<1>4. ASSUME NEW v \in 0 .. MaxViews, RenderView(v, F)
      PROVE  Fares
  BY <1>4, RenderViewFares
<1>5. CASE Reconnect(F)
  BY <1>5, ReconnectFares
<1>6. CASE MoveEnd(F)
  BY <1>6, MoveEndFares
<1>. QED BY Zenon, <1>1, <1>2, <1>3, <1>4, <1>5, <1>6

LEMMA NextFares ==
    ASSUME MapInv, PoiMapNext
    PROVE  Fares
<1>1. ASSUME NEW F \in Refusals,
           \/ \E pois \in SUBSET PoisOf(page.mode) :
                \E visible \in Visibles(page.mode, pois) : RenderPool(pois, visible, F)
           \/ \E md \in PageModes \ {page.mode} : \E pois \in SUBSET PoisOf(md) :
                \E visible \in Visibles(md, pois) : RenderMode(md, pois, visible, F)
           \/ \E visible \in Visibles(page.mode, page.pois) : RenderVisible(visible, F)
           \/ \E v \in 0 .. MaxViews : RenderView(v, F)
           \/ Reconnect(F)
           \/ MoveEnd(F)
      PROVE  Fares
  BY <1>1, RefusalFares
<1>2. ASSUME NEW p \in POIs \cup {NoPoi}, RenderSelected(p) \/ RenderHighlighted(p)
      PROVE  Fares
  BY <1>2, RenderSelectedFares, RenderHighlightedFares
<1>3. CASE Disconnect
  BY <1>3, DisconnectFares
<1>4. CASE KeepaliveTimer
  BY <1>4, KeepaliveTimerFares
<1>5. ASSUME NEW v \in 1 .. MaxViews, ViewDies(v)
      PROVE  Fares
  <2>1. v \in Nat
    OBVIOUS
  <2>. QED BY <1>5, <2>1, ViewDiesFares
<1>6. ASSUME NEW url \in Urls, \/ \E ok \in BOOLEAN : ImageTried(url, ok)
                               \/ LogoFetched(url)
                               \/ LogoLost(url)
      PROVE  Fares
  <2>1. ASSUME NEW ok \in BOOLEAN, ImageTried(url, ok) PROVE Fares
    BY <2>1, ImageTriedFares
  <2>2. CASE LogoFetched(url)
    BY <2>2, LogoFetchedFares
  <2>3. CASE LogoLost(url)
    BY <2>3, LogoLostFares
  <2>. QED BY Zenon, <1>6, <2>1, <2>2, <2>3
<1>. QED BY Zenon, <1>1, <1>2, <1>3, <1>4, <1>5, <1>6 DEF PoiMapNext

LEMMA StepFares ==
    ASSUME MapInv, [PoiMapNext]_poiMapVars
    PROVE  Fares
<1>1. CASE PoiMapNext
  BY <1>1, NextFares
<1>2. CASE UNCHANGED poiMapVars
  <2>1. UNCHANGED <<world, role, timers, connected, lastMode, page, latest, faults>>
    BY <1>2 DEF poiMapVars
  <2>2. MapInv'
    BY <2>1 DEF MapInv, CountersFit, RolesFit
  <2>3. LogosFare(world, world)
    BY LaterOn, LaterFares DEF StaysLogo
  <2>. QED BY <2>1, <2>2, <2>3 DEF Fares
<1>. QED BY <1>1, <1>2

-----------------------------------------------------------------------------
\* What is always so

\* The inductive invariant: every marker is drawn as its controller records it, an
\* attached controller is told what the page asks for, and a kept one has a timer.
LEMMA MapInvAlways == PoiMapSpec => []MapInv
<1>1. MapInv /\ [PoiMapNext]_poiMapVars => MapInv'
  BY StepFares DEF Fares
<1>. QED BY <1>1, InitFits, PTL DEF PoiMapSpec

\* The roles of the controller, and the bounds of the caches of logos (lib/map-markers.ts
\* and lib/map-engine/icon-preflight.ts): none is outgrown, and whoever waits for a logo
\* waits for a fetch under way.
THEOREM PoiMapTypeOKAlways == PoiMapSpec => []PoiMapTypeOK
<1>1. MapInv => PoiMapTypeOK
  <2>. SUFFICES ASSUME MapInv PROVE PoiMapTypeOK
    OBVIOUS
  <2>1. CountersFit /\ PageFits(page, latest)
    BY DEF MapInv
  <2>2. world \in Worlds /\ NoneWaitsInVain(world) /\ (role = "none" <=> world.ctl = NoController)
    BY WorldIsKnown
  <2>3. WithinBounds(world.icons)
    BY <2>2, WorldHas DEF KnownIcons
  <2>. QED BY <2>1, <2>2, <2>3 DEF PoiMapTypeOK, CountersFit, PageFits, WithinBounds, NoneWaitsInVain
<1>. QED BY <1>1, MapInvAlways, PTL

\* Switches of the view, disconnections and late timers leave nothing on the map that
\* nobody will remove (lib/map-markers.ts destroy, hooks/use-poi-map.ts 186-227).
THEOREM NothingLeftBehindAlways == PoiMapSpec => []NothingLeftBehind
<1>1. MapInv => NothingLeftBehind
  <2>. SUFFICES ASSUME MapInv PROVE NothingLeftBehind
    OBVIOUS
  <2>1. RolesFit /\ WorldFits(world, role, page, lastMode, latest, faults)
    BY DEF MapInv
  <2>2. ASSUME NEW m \in Wrappers, world.layer[m] # NoMarker
        PROVE  /\ world.ctl # NoController
               /\ m = Wrapper(world, m[1]) /\ m \in world.ctl.placed
               /\ world.layer[m].view = world.ctl.view
    <3>1. role # "none"
      BY <2>1, <2>2 DEF WorldFits, Bare
    <3>2. world \in Attended /\ Sound(world) /\ world.ctl # NoController
      BY <2>1, <3>1, WorldIsKnown DEF WorldFits
    <3>3. PICK q \in POIs, i \in Nums : m = <<q, i>>
      BY DEF Wrappers, Nums
    <3>4. world.ctl.markers[q] = i /\ Mark(world, q) = world.layer[m] /\ Mark(world, q).view = world.ctl.view
      BY <2>2, <3>2, <3>3, MarkersOfTidy
    <3>5. <<q, i>> \in world.ctl.placed
      BY <3>2, <3>4 DEF Sound, Tidy
    <3>. QED BY <3>2, <3>3, <3>4, <3>5 DEF Wrapper
  <2>3. role = "kept" => timers > 0
    BY <2>1 DEF RolesFit
  <2>. QED BY <2>2, <2>3 DEF NothingLeftBehind
<1>. QED BY <1>1, MapInvAlways, PTL

\* The map shows what the page asks for - the pool, the visible POIs, the selected one -
\* whatever was rendered, refused, moved or disconnected in between (hooks/use-poi-map.ts
\* and setPOIs, setVisiblePOIs, sync of lib/map-markers.ts).
THEOREM MapShowsThePageAlways == PoiMapSpec => []MapShowsThePage
<1>1. MapInv => MapShowsThePage
  <2>. SUFFICES ASSUME MapInv, OnMap PROVE MapShowsThePage
    BY DEF MapShowsThePage, PoolIsMarked, ShownIsWanted, SelectionIsShown
  <2>1. /\ RolesFit /\ WorldFits(world, role, page, lastMode, latest, faults)
        /\ role = "attached" /\ page.view \notin world.dead
    BY DEF MapInv, OnMap
  <2>2. /\ world \in Attended /\ Sound(world) /\ world.ctl.view \notin world.dead
        /\ ToldOf(world, page) /\ UpToDate(world, page)
        /\ faults = 0 => Complete(world, page) /\ world.fails = {}
        /\ \A q \in POIs : world.ctl.markers[q] # 0 => q \in PoisOf(page.mode)
    BY <2>1 DEF WorldFits, RolesFit
  <2>3. Asks(page)
    BY PageFitsIs DEF MapInv
  <2>4. PoolIsMarked
    BY <2>2, <2>3 DEF PoolIsMarked, Registered, UpToDate, Complete, Asks
  <2>5. ASSUME NEW p \in Registered(world)
        PROVE  /\ p \in POIs /\ world.ctl.markers[p] # 0 /\ Marker(p) = Mark(world, p)
               /\ Styled(world, p) /\ AsWanted(world, p) /\ RecordedAsDrawn(world, p)
    <3>1. p \in POIs /\ world.ctl.markers[p] # 0
      BY <2>5 DEF Registered
    <3>. QED BY <2>2, <3>1 DEF Sound, Tidy, Marker, Mark
  <2>6. ShownIsWanted
    <3>1. ASSUME NEW p \in Registered(world)
          PROVE  /\ Marker(p).want <=> p \in page.visible
                 /\ (Marker(p).want /\ p \notin world.fails) => Marker(p).onLayer
      <4>1. Marker(p).want <=> Wanted(world, p)
        BY <2>5, <3>1 DEF AsWanted
      <4>2. Wanted(world, p) <=> p \in page.visible
        BY <2>2, <2>3, Distinctions DEF Wanted, ToldOf, Asks
      <4>3. p \notin world.fails => Up(world, p)
        BY <2>2, <2>5, <3>1 DEF UpToDate
      <4>. QED BY <2>5, <3>1, <4>1, <4>2, <4>3 DEF Up
    <3>. QED BY <3>1 DEF ShownIsWanted
  <2>7. SelectionIsShown
    <3>1. ASSUME NEW p \in Registered(world)
          PROVE  /\ Marker(p).style = "selected" <=> p = page.selected
                 /\ Marker(p).style = "highlighted" => p = page.highlighted
      <4>1. Marker(p).style = world.ctl.style[p]
        BY <2>5, <3>1 DEF RecordedAsDrawn
      <4>2. /\ world.ctl.style[p] = "selected" <=> p = world.ctl.selected
            /\ world.ctl.style[p] = "highlighted" => p = world.ctl.highlighted
        BY <2>5, <3>1 DEF Styled
      <4>. QED BY <2>2, <2>5, <3>1, <4>1, <4>2, Distinctions DEF ToldOf
    <3>. QED BY <3>1 DEF SelectionIsShown
  <2>. QED BY <2>4, <2>6, <2>7 DEF MapShowsThePage
<1>. QED BY <1>1, MapInvAlways, PTL

\* What the controller records of a marker is what is drawn, so that comparing with the
\* record may skip the drawing (applyStyle, applyVisibility of lib/map-markers.ts).
THEOREM RecordsMatchTheMapAlways == PoiMapSpec => []RecordsMatchTheMap
<1>1. MapInv => RecordsMatchTheMap
  <2>. SUFFICES ASSUME MapInv, role # "none", NEW p \in Registered(world)
                PROVE  /\ world.ctl.style[p] = Marker(p).style
                       /\ world.ctl.logo[p] = Marker(p).icon
                       /\ world.ctl.kind[p] = "logo" <=> Marker(p).icon # NoUrl
                       /\ world.ctl.applied[p] = (IF Marker(p).want THEN "shown" ELSE "hidden")
    BY DEF RecordsMatchTheMap
  <2>1. Sound(world)
    BY DEF MapInv, WorldFits
  <2>2. p \in POIs /\ world.ctl.markers[p] # 0
    BY DEF Registered
  <2>3. RecordedAsDrawn(world, p) /\ Mark(world, p) = Marker(p)
    BY <2>1, <2>2 DEF Sound, Tidy, Mark, Marker
  <2>4. KindOf(p, Marker(p).icon) = "logo" <=> p \notin Places /\ Marker(p).icon # NoUrl
    BY DEF KindOf
  <2>. QED BY <2>3, <2>4 DEF RecordedAsDrawn
<1>. QED BY <1>1, MapInvAlways, PTL

\* A marker that shows its logo goes on showing it while it is on the map, whatever the
\* shared cache of logos has dropped (lib/map-markers.ts glIconForState).
THEOREM LogosStayAlways == PoiMapSpec => LogosStay
<1>1. MapInv /\ [PoiMapNext]_poiMapVars =>
        [\A m \in Wrappers :
            (/\ world.layer[m] # NoMarker /\ world.layer'[m] # NoMarker
             /\ world.layer[m].icon # NoUrl /\ IsAttached(world, m)
             /\ world.layer'[m].view = world.layer[m].view)
                => world.layer'[m].icon # NoUrl]_poiMapVars
  BY StepFares DEF Fares, LogosFare, StaysLogo
<1>. QED BY <1>1, MapInvAlways, PTL DEF PoiMapSpec, LogosStay

\* An image remembered as failed in this session is not tried again, whatever the caches
\* have dropped (lib/map-engine/icon-preflight.ts 28-30).
THEOREM FailuresAreRememberedAlways == PoiMapSpec => FailuresAreRemembered
<1>1. MapInv /\ [PoiMapNext]_poiMapVars =>
        [(world.icons'.trying \ world.icons.trying) \cap ToSet(world.icons.failed) = {}]_poiMapVars
  BY StepFares DEF Fares, LogosFare
<1>. QED BY <1>1, MapInvAlways, PTL DEF PoiMapSpec, FailuresAreRemembered
=============================================================================

--------------------------- MODULE MC_CameraMoves ---------------------------
(***************************************************************************)
(* What a move of the map sets off in the page: the debounced viewport      *)
(* loader and the suggestions of the search box. With a bounded number of   *)
(* moves and of what the user does at the search box.                       *)
(***************************************************************************)
EXTENDS MC_ViewportLoader, SearchSuggestions

CONSTANT MaxActions   \* bound: moves and user actions in a behaviour

VARIABLE actions

allVars == <<mcVars, suggestVars, actions>>

MovesInit == MCInit /\ InitSuggestions /\ actions = 0

Acts == actions < MaxActions /\ actions' = actions + 1

CameraMoves == Acts /\ MapEvent /\ \E b \in Buckets : Move(b)

UserActs == Acts /\ UserStep /\ UNCHANGED mcVars

LoaderActs == (Delay \/ MCTimerFires \/ MCLoadEnds \/ MCDispose) /\ UNCHANGED <<suggestVars, actions>>

SuggestionsAct == SuggestionStep /\ UNCHANGED <<mcVars, actions>>

MovesNext == CameraMoves \/ UserActs \/ LoaderActs \/ SuggestionsAct

(* As for the loader alone; of the suggestions no more than safety is asked. *)
MovesSpec ==
    /\ MovesInit /\ [][MovesNext]_allVars
    /\ WF_mcVars(Delay /\ UNCHANGED <<suggestVars, actions>>)
    /\ WF_mcVars(MCTimerFires /\ UNCHANGED <<suggestVars, actions>>)
    /\ WF_mcVars(MCLoadEnds /\ UNCHANGED <<suggestVars, actions>>)
=============================================================================

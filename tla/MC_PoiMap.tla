----------------------------- MODULE MC_PoiMap -----------------------------
(***************************************************************************)
(* Two companies with a logo each, two places of which one is saved, and   *)
(* caches of one entry, so that every entry is dropped by the next.        *)
(***************************************************************************)
EXTENDS PoiMap

MC_Companies == {"p", "q"}
MC_Places == {"d", "e"}
MC_Order == <<"p", "q", "d", "e">>
MC_Chain == [c \in MC_Companies |-> IF c = "p" THEN <<"a">> ELSE <<"b">>]
MC_Focus == {"p"}
MC_Unsteady == {"p"}
MC_Flaky == {"b"}
MC_Overlay == {"e"}
=============================================================================

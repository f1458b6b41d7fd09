----------------------------- MODULE MC_Deploy -----------------------------
(* Deploy on two commits: s1 with the legacy release and the builds built and *)
(* built2, s2 with a build that adds two migrations.                          *)
EXTENDS Deploy, TLC

CONSTANTS s1, s2, legacy, built, built2, migrated, w1, w2

MC_ShaOf == [x \in Builds |-> IF x = migrated THEN s2 ELSE s1]
MC_Needs == [x \in Builds |-> IF x = migrated THEN 3 ELSE 1]

Overlaps == Permutations(Wrappers)
=============================================================================

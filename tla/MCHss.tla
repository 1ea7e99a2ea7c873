------------------------------- MODULE MCHss -------------------------------
(* Two types with trees of two and four leaves. *)
EXTENDS Hss, TLC

CONSTANTS t1, t2

MCHeight == (t1 :> 1) @@ (t2 :> 2)
MCParaIds == {<<t1, t1>>, <<t2, t1>>}

\* One key pair of up to three levels, or two key pairs of two levels of one type.
MCBounds == {[types |-> Types, levels |-> MaxLevels, seeds |-> 1],
             [types |-> {t1}, levels |-> 2, seeds |-> 2]}
=============================================================================

------------------------------ MODULE MCFallback ------------------------------
(***************************************************************************)
(* Three goroutines, one of which may wait for its client for ever.        *)
(***************************************************************************)
EXTENDS Fallback

CONSTANTS g1, g2, stuck

MCCaller == {g1, g2, stuck}

MCResponsive == {g1, g2}
=============================================================================

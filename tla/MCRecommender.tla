---------------------------- MODULE MCRecommender ----------------------------
(* Recommender with the clock in minutes: the default 1-minute ticker and *)
(* checkpoint timeout stretched to 2 so that ticks are dropped and the    *)
(* deadline can pass before or during StoreCheckpoints; the GC intervals   *)
(* (10 min, 1 h) scaled down to 3 and 4 minutes, past a whole RunOnce.     *)
EXTENDS Recommender
=============================================================================

---------------------------- MODULE MCUpdaterMain ----------------------------
(* The clock in units of half a minute: the interval is 2, the health      *)
(* timeout 10.  One token every 3 units with a burst of 1, and up to 4 pods *)
(* to evict, so the evictions of one run can outlast the deadline.  The    *)
(* start-up takes up to 7 units: with 8 the health check fails before the  *)
(* first RunOnce reports.                                                    *)
EXTENDS UpdaterMain
=============================================================================

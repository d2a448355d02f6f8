------------------------ MODULE MCMonitoredRequests ------------------------
(***************************************************************************)
(* Two shows of two seasons and a movie, whose searches find nothing: who  *)
(* gets the active search of the cycle?                                    *)
(***************************************************************************)
EXTENDS MonitoredRequests
=============================================================================

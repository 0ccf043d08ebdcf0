---------------------------- MODULE MCStatusPage ----------------------------
(***************************************************************************)
(* Small instances of what the status page shows.  Its parts do not        *)
(* interact, so a behaviour is one of the first of them that it chooses:   *)
(*   ring     every request passes through the ring of the finished ones,  *)
(*            while the clock stands;                                      *)
(*   timing   the requests of Timed are polled while the clock runs;       *)
(*   rate     writers race for the roll of a byte rate.                    *)
(***************************************************************************)
EXTENDS ProxyMetrics, RollingRate, TLC

CONSTANT Timed

VARIABLE part

MCvars == <<vars, rateVars, part>>

MCInit == Init /\ RateInit /\ part \in {"ring", "timing", "rate"}

MCNext ==
    /\ UNCHANGED part
    /\ \/ part = "ring" /\ Next /\ now' = now /\ UNCHANGED rateVars
       \/ /\ part = "timing" /\ Next /\ UNCHANGED rateVars
          /\ \A r \in Requests \ Timed : conn'[r] = conn[r]
       \/ part = "rate" /\ RateNext /\ UNCHANGED vars

MCSpec == MCInit /\ [][MCNext]_MCvars
=============================================================================

---------------------------- MODULE SinkContract ----------------------------
(***************************************************************************)
(* What activation and deactivation of a dmsynth sink promise their        *)
(* caller, whatever the transport and the workers do: a sink is only on    *)
(* when each worker has reported that it serves, and when it is off again  *)
(* every worker it started has ended and been joined.                      *)
(***************************************************************************)
CONSTANT WorkersMayFail \* whether a worker may end while the sink is on

VARIABLES
  sink,   \* "off", "starting", "on" or "stopping"
  worker  \* each worker: "none", "starting", "serving", "failed" or "ended"

contractVars == <<sink, worker>>

ContractWorkers == {"timing", "render"}

ContractInit ==
  /\ sink = "off"
  /\ worker = [w \in ContractWorkers |-> "none"]

ContractMove(w, from, to) ==
  /\ worker[w] \in from
  /\ worker' = [worker EXCEPT ![w] = to]

\* The render thread is only started for a sink whose timing thread has reported.
ContractStarts(w) ==
  /\ ContractMove(w, {"none"}, "starting")
  /\ \/ w = "timing" /\ sink = "off" /\ sink' = "starting"
     \/ w = "render" /\ sink = "starting" /\ worker["timing"] \in {"serving", "ended"}
        /\ UNCHANGED sink

ContractReports(w) ==
  /\ sink = "starting"
  /\ ContractMove(w, {"starting"}, "serving")
  /\ UNCHANGED sink

ContractEnds(w) ==
  /\ \/ ContractMove(w, {"starting"}, "failed")
     \/ ContractMove(w, {"serving"}, "ended") /\ (sink # "on" \/ WorkersMayFail)
  /\ UNCHANGED sink

\* A join; the last one ends the activation or deactivation it belongs to.
ContractJoins(w) ==
  /\ sink \in {"starting", "stopping"}
  /\ ContractMove(w, {"failed", "ended"}, "none")
  /\ sink' = IF \A v \in ContractWorkers : worker'[v] = "none" THEN "off" ELSE sink

ContractSucceeds ==
  /\ sink = "starting" /\ sink' = "on"
  /\ \A w \in ContractWorkers : worker[w] \in {"serving", "ended"}
  /\ UNCHANGED worker

ContractStops ==
  /\ sink = "on" /\ sink' = "stopping"
  /\ UNCHANGED worker

ContractNext ==
  \/ \E w \in ContractWorkers :
       ContractStarts(w) \/ ContractReports(w) \/ ContractEnds(w) \/ ContractJoins(w)
  \/ ContractSucceeds \/ ContractStops

ContractSpec == ContractInit /\ [][ContractNext]_contractVars

=============================================================================

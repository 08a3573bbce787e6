-------------------------- MODULE MCClockBaseline --------------------------
(* A small instance of ClockBaseline: one policy's governor and cap and the *)
(* GPU governor, two settings each.                                         *)
EXTENDS ClockBaseline

MCKnobs == {"governor", "max_freq", "gpu"}
MCSettings == {"user", "capped"}
MCCap == [k \in MCKnobs |-> "capped"]
MCCapRank == [k \in MCKnobs |->
               CASE k = "governor" -> 0 [] k = "max_freq" -> 1 [] k = "gpu" -> 2]
MCRestoreRank == [k \in MCKnobs |->
               CASE k = "gpu" -> 0 [] k = "max_freq" -> 1 [] k = "governor" -> 2]

=============================================================================

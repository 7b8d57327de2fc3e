--------------------------- MODULE MCPairExecution ---------------------------
(* Small instances of PairExecution for TLC.                                *)
EXTENDS PairExecution

(* A state constraint of the runs that pass.  Their properties claim        *)
(* nothing beyond a lapse, but for TypeOK, which PairTyped proves beyond    *)
(* one too; lapses are never taken back, so nothing is lost by stopping at  *)
(* the first one.                                                           *)
UpToALapse == lapses = {}

(* A death is followed up, with the work it leaves behind.                  *)
UpToALapseOrDeath == lapses \subseteq {"crash"}

(* Either legs trade in parts, at most on one side, or the rule is disabled  *)
(* and processes die: all of it together is too many states.                *)
Disturbed == requests > 0 \/ crashes > 0 \/ ~enabled

InWhole(s) ==
    /\ position[s] \in {0, LegSize}
    /\ \A i \in DOMAIN legs : legs[i].side = s =>
          legs[i].qty = LegSize /\ legs[i].traded \in {0, LegSize}

PartsOrDisturbances ==
    /\ UpToALapse
    /\ \E s \in Sides : InWhole(s)
    /\ Disturbed => \A s \in Sides : InWhole(s)
=============================================================================

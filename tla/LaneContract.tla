------------------------------ MODULE LaneContract ------------------------------
(***************************************************************************)
(* What the file-operation machinery promises about the disk, with no      *)
(* queue, channel, event or window in sight: an accepted operation waits   *)
(* until its lane is free, is then served alone in that lane, and settles. *)
(* A settled operation may be forgotten, or asked for once more.  Nothing  *)
(* an accepted operation can become is outside these four phases.          *)
(***************************************************************************)
CONSTANTS Ids, LaneNames

VARIABLES phase,    \* [Ids -> {"absent", "waiting", "serving", "settled"}]
          home      \* [Ids -> LaneNames], read while an operation is served

contractVars == <<phase, home>>

\* One critical section may do several of the elementary steps at once:
\* accept and serve, settle one operation and serve the next.
Advance ==
  {<<"absent", "waiting">>, <<"absent", "serving">>,
   <<"waiting", "serving">>, <<"waiting", "settled">>,
   <<"serving", "settled">>, <<"settled", "waiting">>, <<"settled", "serving">>,
   <<"settled", "absent">>}

AtMostOneServed ==
  \A i, j \in Ids :
    (phase[i] = "serving" /\ phase[j] = "serving" /\ home[i] = home[j]) => i = j

ContractInit == phase = [i \in Ids |-> "absent"] /\ home \in [Ids -> LaneNames]

ContractNext ==
  /\ \A i \in Ids : phase'[i] = phase[i] \/ <<phase[i], phase'[i]>> \in Advance
  /\ phase' \in [Ids -> {"absent", "waiting", "serving", "settled"}]
  /\ home' \in [Ids -> LaneNames]
  /\ \A i \in Ids : phase[i] = "serving" => home'[i] = home[i]
  /\ AtMostOneServed'

ContractSpec == ContractInit /\ [][ContractNext]_contractVars
=============================================================================

-------------------------------- MODULE Scout --------------------------------
(***************************************************************************)
(* What a training job concludes from SCOUT's checks: the replay harness   *)
(* of a peer group (ReplayHarness), and the localizers over the process    *)
(* groups (Localization).  The two share no state.                         *)
(***************************************************************************)
CONSTANTS
  Peers,                                \* ranks of the peer group
  Catalogs, Intervals, EmbeddingInterval, OptimizerInterval, Layers, Shapes, Rounds,
  Corruptions, TimeVectors,             \* what may be wrong, and how long replays take
  SlowRatio, SlowMargin, Sigma, MinSamples, Window, MaxKeys,
  MaxInvocations, LastStep              \* bounds

VARIABLES
  catalog, interval, replaying, count, captured, optimizer, layer, position, baselines,
  plan, check, result, tainted

Harness == INSTANCE ReplayHarness WITH
  Ranks <- Peers, MaxStep <- LastStep, step <- count

(* The ranks of a peer group execute the same recipes.                     *)
LockStep == Harness!LockStep

(* A certified check found nothing wrong and left nothing out.             *)
CertifiedMeansClean == Harness!CertifiedMeansClean /\ Harness!CertifiedIsCovered

-----------------------------------------------------------------------------
CONSTANTS
  Endpoints, Groups, Members, Leaf, Spine,  \* process groups, and the fabric
  SlowFactor, HealthyFactor, Persistence, MinSlowGroups,
  MaxSamples, MaxRounds                     \* bounds

VARIABLES fault, straggler, samples, failed, endpoint, switch, verdict, truths

Local == INSTANCE Localization WITH Ranks <- Endpoints

(* An endpoint or a switch that the localizers confirm was at fault, and   *)
(* lost and missing reports do not turn the blame on another machine.      *)
BlamedIsGuilty ==
  Local!EndpointIsGuilty /\ Local!SwitchIsGuilty /\ Local!LostReportsDoNotMislead
=============================================================================

------------------------- MODULE MCCronJobController -------------------------
(* CronJobController with what a cfg cannot spell.                         *)
EXTENDS CronJobController, TLC

CONSTANTS
  PatchedInVain,  \* settings to which no patch applies
  Invalid         \* settings the API server refuses

Setting(S) == {m \in Manifest : \E f \in Fields : m[f] \in S}

MCUnpatchable == Setting(PatchedInVain)
MCRejected == Setting(Invalid)

(* PodProfiles and values are only compared, as long as all manifests can  *)
(* be made.                                                                *)
MCSymmetry == Permutations(Profiles) \cup Permutations(Values)
=============================================================================

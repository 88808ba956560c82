-------------------------- MODULE MCJobController --------------------------
(* Values for the constants of JobController that a cfg cannot spell.      *)
EXTENDS JobController, TLC

CONSTANTS
  PatchedInVain,  \* parameters of Jobs whose patches never apply
  Invalid         \* parameters the API server refuses

MCUnpatchable == [params : PatchedInVain, template : Templates]
MCRejected == [params : Invalid, template : Templates]

MCNames == Templates \X (0 .. MaxCollisions)

(* No two templates and collision counts hash to one name.                 *)
MCNameOf == [x \in MCNames |-> x]

(* Job parameters and templates are only compared, as long as all of them  *)
(* can be made.                                                            *)
MCSymmetry == Permutations(Params) \cup Permutations(Templates)

MCSpecHash == [s \in BatchSpec |-> s]

=============================================================================

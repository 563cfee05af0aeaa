----------------------------- MODULE MCArtifacts -----------------------------
(* Instances of Artifacts for TLC: versions of one driver, the first of     *)
(* them republished with other outer metadata, and another provider; the    *)
(* layers overlap.                                                          *)
EXTENDS Artifacts, TLC

CONSTANTS p1, p2

Processes == {p1, p2}
Symmetry == Permutations(Processes)

Drivers == {"n1", "n1again", "n2", "amd"}
States == {{"n1", "amd"}, {"n1again", "amd"}, {"n2"}}
DriverLayers == [a \in Drivers |->
  CASE a = "n2" -> {"base", "new"} [] a = "amd" -> {"base"} [] OTHER -> {"old"}]
DriverIdentity == [a \in Drivers |-> IF a = "amd" THEN "amd" ELSE "nvidia"]
DriverBuild == [a \in Drivers |-> "A"]
TwoBuilds == {"A", "B"}
KnownHooks == {"n1", "n1again", "n2"}
=============================================================================

---------------------------- MODULE SaveStepsMC ----------------------------
(* Instances of SaveSteps for TLC. *)
EXTENDS SaveSteps

FewContents == 0 .. 3
OneContent == {0}
NoRisk == {}
AnyFailure == RiskyKinds \ {"hidden", "unsigned"}
=============================================================================

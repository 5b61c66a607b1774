---------------------------- MODULE MCCorrections ----------------------------
(* A small book for StoryCorrections: two chapters and two scenes in the      *)
(* first.  In one scene somebody is mentioned who is one of two characters,   *)
(* in the other one of them is mentioned and speaks.                          *)
EXTENDS StoryCorrections, TLC

MCParentOf     == ("s1" :> "c1") @@ ("s2" :> "c1")
MCSceneOf      == ("m1" :> "s1") @@ ("m2" :> "s2") @@ ("l1" :> "s2")
MCCandidatesOf == ("m1" :> {"x", "y"}) @@ ("m2" :> {"x"}) @@ ("l1" :> {"x"})
=============================================================================

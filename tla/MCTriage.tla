------------------------------ MODULE MCTriage ------------------------------
EXTENDS Triage, TLC
TwoSites == (1 :> 1 @@ 2 :> 1 @@ 3 :> 2)
SplitHomes == <<1, 2, 3>>
OneSite == (1 :> 1 @@ 2 :> 1)
ThreeHomes == <<1, 2, 2>>
ThreeNames == <<"leaf1", "leaf1", "leaf2">>
AllTroubles ==
  ({"down", "job", "drift"} \X Machines) \cup ({"blocked", "raised"} \X Plants)
=============================================================================

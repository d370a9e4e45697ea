------------------------------ MODULE MCSizing ------------------------------
(***************************************************************************)
(* Sizing for TLC: windows of two buckets, within the limit, beyond it and *)
(* beyond it by less than the rounding, and of a rate beyond all buckets.  *)
(***************************************************************************)
EXTENDS Sizing, TLC

MCLoads ==
    { 5000 :> 90,
      5000 :> 16000,
      5000 :> 200,
      5000 :> 150 @@ 20004 :> 50,
      5000 :> 70 @@ 30000 :> 20,
      5000 :> 180 @@ 30000 :> 60 }

=============================================================================

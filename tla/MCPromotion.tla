---------------------------- MODULE MCPromotion -----------------------------
(* Model-checking instance of Promotion.  Versions and runs only serve as  *)
(* names, and with one transaction at a time every CHOOSE is unique.       *)
EXTENDS Promotion, TLC

CONSTANTS v1, v2, v3, p1, p2

PromotionSymmetry == Permutations({v1, v2, v3}) \cup Permutations({p1, p2})
=============================================================================

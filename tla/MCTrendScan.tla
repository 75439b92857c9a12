------------------------------ MODULE MCTrendScan ------------------------------
(* Instances of TrendScan for TLC. *)
EXTENDS TrendScan

CONSTANTS s1, s2, s3

TwoListed == <<s1, s2>>

=============================================================================

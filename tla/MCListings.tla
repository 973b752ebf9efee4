----------------------------- MODULE MCListings -----------------------------
(* Instances of Listings for TLC.                                           *)
EXTENDS Listings

MCJoins == <<1, 1>>
=============================================================================

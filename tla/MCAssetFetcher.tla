--------------------------- MODULE MCAssetFetcher ---------------------------
(* AssetFetcher on one URL and a few calls, for TLC. *)
EXTENDS AssetFetcher

CONSTANTS u1, f1, f2, f3, c1, c2, c3
=============================================================================

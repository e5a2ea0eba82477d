------------------------- MODULE MCResourceDelivery -------------------------
(* ResourceDelivery with one resource of each kind, for TLC. *)
EXTENDS ResourceDelivery

CONSTANTS node, texture, clip

MCKind == [u \in Uids |-> CASE u = node    -> "inline"
                            [] u = texture -> "pointer"
                            [] u = clip    -> "animation"]
=============================================================================

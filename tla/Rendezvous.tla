----------------------------- MODULE Rendezvous -----------------------------
(***************************************************************************)
(* What scene/resources.ts promises of one resource of a session: asked    *)
(* for and sent in either order, and as often as one likes, it is decoded  *)
(* or built once, in the very step in which the second of the two happens. *)
(*                                                                         *)
(* There is no queue of callbacks here: the cache's waiters are how        *)
(* scene/cache.ts keeps this promise.                                      *)
(***************************************************************************)
EXTENDS Naturals

VARIABLES
    life,       \* of the session: "new", "open" or "closed"
    here,       \* the payload is in the cache
    promise,    \* what whoever has asked holds
    starts      \* how often decoding has begun

vars == <<life, here, promise, starts>>

Init == life = "new" /\ here = FALSE /\ promise = "none" /\ starts = 0

Open ==
    /\ life = "new" /\ life' = "open"
    /\ UNCHANGED <<here, promise, starts>>

(* The first request; those that follow share its promise. *)
Ask ==
    /\ life = "open" /\ promise = "none"
    /\ promise' = "pending"
    /\ starts' = IF here THEN 1 ELSE 0
    /\ UNCHANGED <<life, here>>

(* The payload is sent, for the first time or again. *)
Arrive ==
    /\ life = "open"
    /\ here' = TRUE
    /\ starts' = IF promise = "pending" THEN 1 ELSE starts
    /\ UNCHANGED <<life, promise>>

(* Decoding ends, also after the session. *)
Settle ==
    /\ promise = "pending" /\ starts = 1
    /\ promise' \in {"done", "failed"}
    /\ UNCHANGED <<life, here, starts>>

(* The cache goes with its session: what has not begun never will. *)
Close ==
    /\ life = "open" /\ life' = "closed"
    /\ here' = FALSE
    /\ UNCHANGED <<promise, starts>>

Next == Open \/ Ask \/ Arrive \/ Settle \/ Close

Spec == Init /\ [][Next]_vars
=============================================================================

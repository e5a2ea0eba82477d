---------------------------- MODULE SingleFlight ----------------------------
(***************************************************************************)
(* What http/assets.ts promises of AssetFetcher: an in-memory cache in     *)
(* front of the network where concurrent requests for one URL share a      *)
(* single fetch and its outcome.                                           *)
(***************************************************************************)
CONSTANTS Urls, Calls

VARIABLES
    flying, \* the URLs being fetched
    held,   \* the URLs whose body is cached
    call    \* every get(): its URL and how far it came

vars == <<flying, held, call>>

Stages == {"idle", "waiting", "answered", "failed"}

Init ==
    /\ flying = {}
    /\ held = {}
    /\ call \in [Calls -> [url : Urls, stage : {"idle"}]]

(* get(url): answered from the cache, or waiting for the URL's one fetch. *)
Ask(c, u) ==
    /\ call[c].stage = "idle"
    /\ call' = [call EXCEPT ![c] =
                  [url |-> u, stage |-> IF u \in held THEN "answered" ELSE "waiting"]]
    /\ flying' = IF u \in held THEN flying ELSE flying \cup {u}
    /\ UNCHANGED held

(* The fetch of u ends: every get() waiting for u has its outcome. *)
Land(u, outcome) ==
    /\ u \in flying
    /\ flying' = flying \ {u}
    /\ held' = IF outcome = "answered" THEN held \cup {u} ELSE held
    /\ call' = [c \in Calls |->
                  IF call[c].url = u /\ call[c].stage = "waiting"
                  THEN [url |-> u, stage |-> outcome] ELSE call[c]]

(* invalidate(url), clear() *)
Forget(urls) ==
    /\ held' = held \ urls
    /\ UNCHANGED <<flying, call>>

Next ==
    \/ \E c \in Calls, u \in Urls : Ask(c, u)
    \/ \E u \in Urls, outcome \in {"answered", "failed"} : Land(u, outcome)
    \/ \E urls \in SUBSET Urls : Forget(urls)

Spec == Init /\ [][Next]_vars
=============================================================================

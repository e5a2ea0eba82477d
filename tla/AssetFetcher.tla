---------------------------- MODULE AssetFetcher ----------------------------
(***************************************************************************)
(* AssetFetcher of http/assets.ts: the cache of fetched bodies, the map of *)
(* fetches in flight, and the fetches themselves, which clear() forgets    *)
(* but does not stop.                                                      *)
(*                                                                         *)
(* A fetcher has one client when the client made its own, several when the *)
(* host hands the same one to several (TeleportClientOptions.assets).      *)
(* Each clears it whenever its close() is called, which may be often       *)
(* (client.ts:123, 491; component.ts:152, 341), and asks for nothing after *)
(* the first.  A body is reduced to the version of the content the server  *)
(* was publishing when it answered.                                        *)
(***************************************************************************)
EXTENDS Naturals, FiniteSets

CONSTANTS
    Urls,        \* resolved URLs
    Calls,       \* the calls of get(), each made once
    Fetches,     \* the calls of fetchOnce()
    NoFetch,     \* no entry in inFlight
    MaxClients,  \* bound on the clients sharing the fetcher
    MaxClears,   \* bound on the calls of clear()
    MaxVersion   \* bound on the versions the server publishes

ASSUME FetchAssumption == /\ NoFetch \notin Fetches
                          /\ MaxClients \in Nat \ {0}
                          /\ MaxClears \in Nat
                          /\ MaxVersion \in Nat \ {0}

VARIABLES
    cache,     \* version cached for each URL, 0 when there is none
    inFlight,  \* the fetch whose promise is on record for each URL
    fetch,     \* every fetch: URL, stage, version of the body
    call,      \* every get(): URL, stage, the fetch awaited, version returned
    clients,   \* the clients sharing the fetcher, fixed
    sessions,  \* those of them that are not closed
    clears,    \* the calls of clear() so far
    published, \* the server's current version of each URL
    newest     \* history: newest version any get() has returned for each URL

users == <<clients, sessions, clears>>
vars == <<cache, inFlight, fetch, call, users, published, newest>>

NoAsset == 0
Versions == Nat

TypeOK ==
    /\ cache \in [Urls -> Versions]
    /\ inFlight \in [Urls -> Fetches \cup {NoFetch}]
    /\ fetch \in [Fetches -> [url : Urls, version : Versions,
                              stage : {"unused", "requested", "responded", "done"}]]
    /\ call \in [Calls -> [url : Urls, version : Versions,
                           stage : {"idle", "waiting", "answered", "failed"},
                           fetch : Fetches \cup {NoFetch}]]
    /\ clients \in 1..MaxClients
    /\ sessions \in 0..clients
    /\ clears \in Nat
    /\ published \in [Urls -> Versions \ {NoAsset}]
    /\ newest \in [Urls -> Versions]
    /\ \A f \in Fetches : fetch[f].stage = "responded" => fetch[f].version # NoAsset
    /\ \A c \in Calls :
          /\ call[c].stage = "waiting" => call[c].fetch # NoFetch
          /\ call[c].stage = "answered" => call[c].version # NoAsset

Init ==
    /\ cache = [u \in Urls |-> NoAsset]
    /\ inFlight = [u \in Urls |-> NoFetch]
    /\ \E u \in Urls :
          /\ fetch = [f \in Fetches |-> [url |-> u, version |-> NoAsset, stage |-> "unused"]]
          /\ call = [c \in Calls |-> [url |-> u, version |-> NoAsset,
                                      stage |-> "idle", fetch |-> NoFetch]]
    /\ clients \in 1..MaxClients
    /\ sessions = clients
    /\ clears = 0
    /\ published = [u \in Urls |-> 1]
    /\ newest = [u \in Urls |-> NoAsset]

Later(a, b) == IF a < b THEN b ELSE a

(* The fetches of u the network has not finished. *)
Outstanding(u) ==
    {f \in Fetches : fetch[f].url = u /\ fetch[f].stage \in {"requested", "responded"}}

----------------------------------------------------------------------------
(* get(url), up to its first await. *)

Asks(c, u, stage, f, version) ==
    /\ sessions > 0
    /\ call[c].stage = "idle"
    /\ call' = [call EXCEPT ![c] = [url |-> u, version |-> version,
                                    stage |-> stage, fetch |-> f]]

GetCached(c, u) ==
    /\ cache[u] # NoAsset
    /\ Asks(c, u, "answered", NoFetch, cache[u])
    /\ newest' = [newest EXCEPT ![u] = Later(@, cache[u])]
    /\ UNCHANGED <<cache, inFlight, fetch, users, published>>

GetPending(c, u) ==
    /\ cache[u] = NoAsset
    /\ inFlight[u] # NoFetch
    /\ Asks(c, u, "waiting", inFlight[u], NoAsset)
    /\ UNCHANGED <<cache, inFlight, fetch, users, published, newest>>

(* inFlight is set before the first await, so that no second get() slips in. *)
GetStartUnrecorded(c, u) ==
    /\ cache[u] = NoAsset
    /\ inFlight[u] = NoFetch
    /\ \E f \in Fetches :
          /\ fetch[f].stage = "unused"
          /\ fetch' = [fetch EXCEPT ![f] = [url |-> u, version |-> NoAsset,
                                            stage |-> "requested"]]
          /\ Asks(c, u, "waiting", f, NoAsset)
    /\ UNCHANGED <<cache, inFlight, users, published, newest>>

GetStart(c, u) ==
    /\ cache[u] = NoAsset
    /\ inFlight[u] = NoFetch
    /\ \E f \in Fetches :
          /\ fetch[f].stage = "unused"
          /\ fetch' = [fetch EXCEPT ![f] = [url |-> u, version |-> NoAsset,
                                            stage |-> "requested"]]
          /\ inFlight' = [inFlight EXCEPT ![u] = f]
          /\ Asks(c, u, "waiting", f, NoAsset)
    /\ UNCHANGED <<cache, users, published, newest>>

----------------------------------------------------------------------------
(* fetchOnce(), and the rest of get() when it settles. *)

(* The server answers with the content it publishes at that moment. *)
RespondForgets(f) ==
    /\ fetch[f].stage = "requested"
    /\ fetch' = [fetch EXCEPT ![f].stage = "responded",
                              ![f].version = published[fetch[f].url]]
    /\ inFlight' = [inFlight EXCEPT ![fetch[f].url] = NoFetch]
    /\ UNCHANGED <<cache, call, users, published, newest>>

Respond(f) ==
    /\ fetch[f].stage = "requested"
    /\ fetch' = [fetch EXCEPT ![f].stage = "responded",
                              ![f].version = published[fetch[f].url]]
    /\ UNCHANGED <<cache, inFlight, call, users, published, newest>>

(* Every get() awaiting f settles in the same task. *)
Settle(f, stage) ==
    /\ fetch' = [fetch EXCEPT ![f].stage = "done"]
    /\ call' = [c \in Calls |->
                  IF call[c].stage = "waiting" /\ call[c].fetch = f
                  THEN [call[c] EXCEPT !.stage = stage,
                                       !.version = IF stage = "answered"
                                                   THEN fetch[f].version ELSE NoAsset]
                  ELSE call[c]]

(* The body has arrived: cached, then the entry of its URL is deleted, whichever
   fetch the entry is about. *)
Complete(f) ==
    /\ fetch[f].stage = "responded"
    /\ Settle(f, "answered")
    /\ LET u == fetch[f].url IN
          /\ cache' = [cache EXCEPT ![u] = fetch[f].version]
          /\ inFlight' = [inFlight EXCEPT ![u] = NoFetch]
          /\ newest' = [newest EXCEPT ![u] = Later(@, fetch[f].version)]
    /\ UNCHANGED <<users, published>>

(* A network error, an HTTP error status, or a body that breaks off. *)
FailUnchecked(f) ==
    /\ fetch[f].stage \in {"requested", "responded"}
    /\ Settle(f, "answered")
    /\ inFlight' = [inFlight EXCEPT ![fetch[f].url] = NoFetch]
    /\ UNCHANGED <<cache, users, published, newest>>

Fail(f) ==
    /\ fetch[f].stage \in {"requested", "responded"}
    /\ Settle(f, "failed")
    /\ inFlight' = [inFlight EXCEPT ![fetch[f].url] = NoFetch]
    /\ UNCHANGED <<cache, users, published, newest>>

----------------------------------------------------------------------------
(* invalidate(url) *)
InvalidateForgetsFlight(u) ==
    /\ sessions > 0
    /\ cache' = [cache EXCEPT ![u] = NoAsset]
    /\ inFlight' = [inFlight EXCEPT ![u] = NoFetch]
    /\ UNCHANGED <<fetch, call, users, published, newest>>

Invalidate(u) ==
    /\ sessions > 0
    /\ cache' = [cache EXCEPT ![u] = NoAsset]
    /\ UNCHANGED <<inFlight, fetch, call, users, published, newest>>

(* TeleportClient.close, by a client that was open or by one already closed. *)
Closing ==
    /\ clears < MaxClears
    /\ clears' = clears + 1
    /\ \/ sessions > 0 /\ sessions' = sessions - 1
       \/ sessions < clients /\ UNCHANGED sessions
    /\ UNCHANGED clients

(* clear().  The fetches go on. *)
ClearAborts ==
    /\ Closing
    /\ cache' = [u \in Urls |-> NoAsset]
    /\ inFlight' = [u \in Urls |-> NoFetch]
    /\ fetch' = [f \in Fetches |-> IF fetch[f].stage = "unused" THEN fetch[f]
                                   ELSE [fetch[f] EXCEPT !.stage = "done"]]
    /\ UNCHANGED <<call, published, newest>>

Clear ==
    /\ Closing
    /\ cache' = [u \in Urls |-> NoAsset]
    /\ inFlight' = [u \in Urls |-> NoFetch]
    /\ UNCHANGED <<fetch, call, published, newest>>

Publish(u) ==
    /\ published[u] < MaxVersion
    /\ published' = [published EXCEPT ![u] = @ + 1]
    /\ UNCHANGED <<cache, inFlight, fetch, call, users, newest>>

Next ==
    \/ \E c \in Calls, u \in Urls : GetCached(c, u) \/ GetPending(c, u) \/ GetStart(c, u)
    \/ \E f \in Fetches : Respond(f) \/ Complete(f) \/ Fail(f)
    \/ \E u \in Urls : Invalidate(u) \/ Publish(u)
    \/ Clear

Spec == Init /\ [][Next]_vars

(* The browser settles every fetch one way or the other. *)
FairSpec ==
    /\ Spec
    /\ \A f \in Fetches : WF_vars(Respond(f) \/ Fail(f)) /\ WF_vars(Complete(f) \/ Fail(f))

----------------------------------------------------------------------------
(* Properties.                                                             *)

(* However get(), clear(), invalidate() and the network interleave, and however
   many clients share the fetcher, the fetches outstanding for one URL exceed one
   by no more than the calls of clear(): each lets at most one more be started
   beside those it forgot (http/assets.ts:49-64, 83-86). *)
FlightsBounded == \A u \in Urls : Cardinality(Outstanding(u)) <= 1 + clears

(* A get() of a fetcher used by one client never returns content older than what an
   earlier get() of the same URL returned, although responses are slow and
   invalidate() and clear() may come at any time (http/assets.ts:49-80). *)
NoRegress ==
    [][clients = 1 => \A c \in Calls :
          call[c].stage # "answered" /\ call'[c].stage = "answered" =>
              call'[c].version >= newest[call'[c].url]]_vars

(* Every get() settles, those caught by clear() included: whoever awaits an
   asset to acknowledge it gets to know (client.ts:340-372). *)
CallsSettle ==
    \A c \in Calls : call[c].stage = "waiting" ~> call[c].stage \in {"answered", "failed"}

(* The promise of http/assets.ts:2-3, kept to a client that has the fetcher to
   itself: a fetch is shared by all who ask while it is under way. *)
Shared == INSTANCE SingleFlight
    WITH flying <- {u \in Urls : Outstanding(u) # {}},
         held   <- {u \in Urls : cache[u] # NoAsset},
         call   <- [c \in Calls |-> [url |-> call[c].url, stage |-> call[c].stage]]

SharesOneFetch ==
    /\ clients = 1 => Shared!Init
    /\ [][clients = 1 => [Shared!Next]_(Shared!vars)]_vars
=============================================================================

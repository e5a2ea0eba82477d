------------------------------ MODULE Resolver ------------------------------
(***************************************************************************)
(* ResourceResolver (scene/resources.ts) over ResourceCache and its        *)
(* waiters (scene/cache.ts), one of each for every session of an element.  *)
(*                                                                         *)
(* A resource is asked for by its uid, before or after its payload         *)
(* arrives; its promise settles when the payload is there and the decoder  *)
(* is done.  A payload arrives in its own chunk or is fetched through a    *)
(* pointer (ResourceDelivery): it is put into the cache at any time, as    *)
(* often as the server likes, or never.  Decoders end at any time, also    *)
(* after the session; what is put into the cache then is read by nobody.   *)
(* Meshes are resolved as textures are, by another decoder; uid 0, which   *)
(* resolves at once, is left out.                                          *)
(***************************************************************************)
EXTENDS Naturals, FiniteSets

CONSTANTS
    Textures,       \* texture uids
    Materials,      \* material uids
    TexturesOf,     \* the textures a material names
    MaxSessions     \* bound on the sessions

Sessions == 1..MaxSessions
Uids == Textures \cup Materials

ASSUME ResolverAssumption ==
    /\ MaxSessions \in Nat
    /\ TexturesOf \in [Materials -> SUBSET Textures]
    /\ Textures \cap Materials = {} /\ 0 \notin Uids

VARIABLES
    cache,      \* uids of the payloads in the cache
    waiters,    \* how many callbacks wait for a payload
    promise,    \* what meshes, textures and materials hold for a uid: "none",
                \* "pending", "done" or "failed"
    runs,       \* how often the callback has run: decodes and builds started
    lost        \* textures whose fetch failed, and which have not come since

resolverVars == <<cache, waiters, promise, runs, lost>>

ResolverInit ==
    /\ cache = [s \in Sessions |-> {}]
    /\ waiters = [s \in Sessions |-> [u \in Uids |-> 0]]
    /\ promise = [s \in Sessions |-> [u \in Uids |-> "none"]]
    /\ runs = [s \in Sessions |-> [u \in Uids |-> 0]]
    /\ lost = [s \in Sessions |-> {}]

----------------------------------------------------------------------------
(* One session's cache and resolver as a record, which the synchronous     *)
(* calls change.                                                           *)

Now(s) == [cache |-> cache[s], waiters |-> waiters[s], promise |-> promise[s], runs |-> runs[s]]

Becomes(s, r) ==
    /\ cache' = [cache EXCEPT ![s] = r.cache]
    /\ waiters' = [waiters EXCEPT ![s] = r.waiters]
    /\ promise' = [promise EXCEPT ![s] = r.promise]
    /\ runs' = [runs EXCEPT ![s] = r.runs]

Plus(count, us) == [u \in Uids |-> IF u \in us THEN count[u] + 1 ELSE count[u]]

\* MUTANT of ResolveTextures: waits without a look at what is there
ResolveTexturesBlind(r, us) ==
    LET fresh == {u \in us : r.promise[u] = "none"}
    IN  [r EXCEPT !.promise = [u \in Uids |-> IF u \in fresh THEN "pending" ELSE @[u]],
                  !.waiters = Plus(@, fresh)]

\* resolveTexture() for each of us: a uid that has a promise shares it, the payload
\* of another is decoded, now or when it lands
ResolveTextures(r, us) ==
    LET fresh == {u \in us : r.promise[u] = "none"}
    IN  [r EXCEPT !.promise = [u \in Uids |-> IF u \in fresh THEN "pending" ELSE @[u]],
                  !.runs = Plus(@, fresh \cap r.cache),
                  !.waiters = Plus(@, fresh \ r.cache)]

\* buildMaterial(), up to its await
StartBuild(r, m) == ResolveTextures([r EXCEPT !.runs = Plus(@, {m})], TexturesOf[m])

\* resolveMaterial()
ResolveMaterial(r, m) ==
    LET asked == [r EXCEPT !.promise[m] = "pending"]
    IN  CASE r.promise[m] # "none" -> r
          [] r.promise[m] = "none" /\ m \in r.cache -> StartBuild(asked, m)
          [] OTHER -> [asked EXCEPT !.waiters = Plus(@, {m})]

\* put() and flushWaiters(): every callback that waits for the payload runs
PutPayload(r, u) ==
    LET flushed == [r EXCEPT !.cache = @ \cup {u}, !.waiters[u] = 0]
    IN  CASE r.waiters[u] = 0 -> flushed
          [] r.waiters[u] # 0 /\ u \in Materials -> StartBuild(flushed, u)
          [] OTHER -> [flushed EXCEPT !.runs[u] = @ + r.waiters[u]]

\* clear()
ClearCache(r) == [r EXCEPT !.cache = {}, !.waiters = [u \in Uids |-> 0]]

----------------------------------------------------------------------------
(* The client and the server. *)

\* populateMesh() asks for the materials of a node
AskFor(s, m) ==
    /\ Becomes(s, ResolveMaterial(Now(s), m))
    /\ UNCHANGED lost

\* A chunk that carries the payload, or a fetch that brings it
Arrives(s, u) ==
    /\ Becomes(s, PutPayload(Now(s), u))
    /\ lost' = [lost EXCEPT ![s] = @ \ {u}]

\* 404: the server is told, and nothing is put into the cache
FetchFails(s, u) ==
    /\ u \in Textures \ (cache[s] \cup lost[s])
    /\ lost' = [lost EXCEPT ![s] = @ \cup {u}]
    /\ UNCHANGED <<cache, waiters, promise, runs>>

\* client.close(), as far as the resolver is concerned; what the session was still
\* to bring is forgotten
Closed(s) ==
    /\ Becomes(s, ClearCache(Now(s)))
    /\ lost' = [lost EXCEPT ![s] = {}]

----------------------------------------------------------------------------
(* Promises. *)

Running(s, u) == promise[s][u] = "pending" /\ runs[s][u] > 0
Settled(s, u) == promise[s][u] \in {"done", "failed"}

\* The decoder is done, or rejects
Decoded(s, u, outcome) ==
    /\ u \in Textures /\ Running(s, u)
    /\ promise' = [promise EXCEPT ![s][u] = outcome]
    /\ UNCHANGED <<cache, waiters, runs, lost>>

\* MUTANT of Built: without the catch, a texture that fails takes the material with it
BuiltWhole(s, m) ==
    /\ m \in Materials /\ Running(s, m)
    /\ \A u \in TexturesOf[m] : Settled(s, u)
    /\ promise' = [promise EXCEPT ![s][m] =
           IF \A u \in TexturesOf[m] : promise[s][u] = "done" THEN "done" ELSE "failed"]
    /\ UNCHANGED <<cache, waiters, runs, lost>>

\* buildMaterial() after its await: a texture that failed is left out
Built(s, m) ==
    /\ m \in Materials /\ Running(s, m)
    /\ \A u \in TexturesOf[m] : Settled(s, u)
    /\ promise' = [promise EXCEPT ![s][m] = "done"]
    /\ UNCHANGED <<cache, waiters, runs, lost>>
=============================================================================

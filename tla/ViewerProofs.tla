---------------------------- MODULE ViewerProofs ----------------------------
(* What Viewer promises of the resolver, of the scene and of its light, for *)
(* any number of sessions, textures and materials.                          *)
EXTENDS Viewer, TLAPS

USE ResolverAssumption, ViewerAssumption

Status == {"none", "pending", "done", "failed"}

Resolvers == [cache : SUBSET Uids, waiters : [Uids -> Nat],
              promise : [Uids -> Status], runs : [Uids -> Nat]]

\* A uid nobody has asked for has no callback; any other has run or waits once.
Once(r) ==
    \A u \in Uids :
        /\ r.runs[u] + r.waiters[u] <= 1
        /\ r.promise[u] = "none" => r.runs[u] = 0 /\ r.waiters[u] = 0

\* Whoever asks for a resource whose payload is in the cache, or comes into it
\* later, gets an answer: a promise that waits has its callback with the cache,
\* and the payload is not there.
NoLostWakeup(s) ==
    \A u \in Uids :
        promise[s][u] = "pending" /\ runs[s][u] = 0 => waiters[s][u] > 0 /\ u \notin cache[s]

\* NoLostWakeup, of the session that is open: close() drops the callbacks of
\* another, and a fetch that ends later finds nobody.
WakesUp == session # 0 => NoLostWakeup(session)

\* Each uid of a session has at most one callback or run: one decode or build.
ResolvedOnce == \A s \in Sessions, u \in Uids : runs[s][u] + waiters[s][u] <= 1

\* NoLostWakeup of a record
Awake(r) ==
    \A u \in Uids :
        r.promise[u] = "pending" /\ r.runs[u] = 0 => r.waiters[u] > 0 /\ u \notin r.cache

\* What was asked for stays so, and what is settled stays as it is.
Further(r, q) ==
    \A u \in Uids :
        \/ q.promise[u] = r.promise[u]
        \/ r.promise[u] = "none" /\ q.promise[u] = "pending"

----------------------------------------------------------------------------
(* The calls of one cache and resolver. *)

LEMMA ResolveTexturesFields ==
    ASSUME NEW r \in Resolvers, NEW us \in SUBSET Uids
    PROVE  /\ ResolveTextures(r, us) \in Resolvers
           /\ ResolveTextures(r, us).cache = r.cache
           /\ \A u \in Uids :
                 IF u \in us /\ r.promise[u] = "none"
                 THEN /\ ResolveTextures(r, us).promise[u] = "pending"
                      /\ IF u \in r.cache
                         THEN /\ ResolveTextures(r, us).runs[u] = r.runs[u] + 1
                              /\ ResolveTextures(r, us).waiters[u] = r.waiters[u]
                         ELSE /\ ResolveTextures(r, us).runs[u] = r.runs[u]
                              /\ ResolveTextures(r, us).waiters[u] = r.waiters[u] + 1
                 ELSE /\ ResolveTextures(r, us).promise[u] = r.promise[u]
                      /\ ResolveTextures(r, us).runs[u] = r.runs[u]
                      /\ ResolveTextures(r, us).waiters[u] = r.waiters[u]
<1> DEFINE fresh == {u \in us : r.promise[u] = "none"}
           q == ResolveTextures(r, us)
<1>1. /\ q.cache = r.cache
      /\ q.promise = [u \in Uids |-> IF u \in fresh THEN "pending" ELSE r.promise[u]]
      /\ q.runs = Plus(r.runs, fresh \cap r.cache)
      /\ q.waiters = Plus(r.waiters, fresh \ r.cache)
  BY DEF ResolveTextures, Resolvers
<1>2. /\ Plus(r.runs, fresh \cap r.cache) \in [Uids -> Nat]
      /\ Plus(r.waiters, fresh \ r.cache) \in [Uids -> Nat]
      /\ [u \in Uids |-> IF u \in fresh THEN "pending" ELSE r.promise[u]] \in [Uids -> Status]
  BY DEF Resolvers, Plus, Status
<1>3. q \in Resolvers
  <2> DEFINE a == [r EXCEPT !.promise = [u \in Uids |-> IF u \in fresh THEN "pending" ELSE r.promise[u]]]
             b == [a EXCEPT !.runs = Plus(r.runs, fresh \cap r.cache)]
             c == [b EXCEPT !.waiters = Plus(r.waiters, fresh \ r.cache)]
  <2> HIDE DEF fresh
  <2>1. a \in Resolvers
    BY <1>2 DEF Resolvers
  <2>2. b \in Resolvers
    BY <1>2, <2>1 DEF Resolvers
  <2>3. c \in Resolvers
    BY <1>2, <2>2 DEF Resolvers
  <2>4. q = c
    BY DEF ResolveTextures, Resolvers, fresh
  <2> QED
    BY <2>3, <2>4
<1> HIDE DEF q
<1> QED
  BY <1>1, <1>3 DEF Plus, q

LEMMA ResolveTexturesKeeps ==
    ASSUME NEW r \in Resolvers, NEW us \in SUBSET Uids, Once(r)
    PROVE  /\ ResolveTextures(r, us) \in Resolvers
           /\ Once(ResolveTextures(r, us))
           /\ Awake(r) => Awake(ResolveTextures(r, us))
           /\ Further(r, ResolveTextures(r, us))
<1> DEFINE q == ResolveTextures(r, us)
<1>1. q \in Resolvers /\ q.cache = r.cache
  BY ResolveTexturesFields
<1>2. \A u \in Uids :
         IF u \in us /\ r.promise[u] = "none"
         THEN /\ q.promise[u] = "pending"
              /\ IF u \in r.cache
                 THEN q.runs[u] = r.runs[u] + 1 /\ q.waiters[u] = r.waiters[u]
                 ELSE q.runs[u] = r.runs[u] /\ q.waiters[u] = r.waiters[u] + 1
         ELSE q.promise[u] = r.promise[u] /\ q.runs[u] = r.runs[u] /\ q.waiters[u] = r.waiters[u]
  BY ResolveTexturesFields
<1> HIDE DEF q
<1>3. Once(q)
  BY <1>1, <1>2 DEF Once, Resolvers
<1>4. Awake(r) => Awake(q)
  BY <1>1, <1>2 DEF Once, Awake, Resolvers
<1>5. Further(r, q)
  BY <1>2 DEF Further
<1> QED
  BY <1>1, <1>3, <1>4, <1>5 DEF q

(* Building a material nobody has started to build, once it is asked for. *)
LEMMA StartBuildKeeps ==
    ASSUME NEW r \in Resolvers, NEW m \in Materials, Once(r),
           r.promise[m] # "none", r.runs[m] = 0, r.waiters[m] = 0
    PROVE  /\ StartBuild(r, m) \in Resolvers
           /\ Once(StartBuild(r, m))
           /\ (\A u \in Uids \ {m} : 
                 r.promise[u] = "pending" /\ r.runs[u] = 0 => r.waiters[u] > 0 /\ u \notin r.cache)
              => Awake(StartBuild(r, m))
           /\ Further(r, StartBuild(r, m))
<1> DEFINE p == [r EXCEPT !.runs = Plus(@, {m})]
<1>1. /\ p \in Resolvers /\ p.cache = r.cache /\ p.waiters = r.waiters /\ p.promise = r.promise
      /\ \A u \in Uids : p.runs[u] = IF u = m THEN 1 ELSE r.runs[u]
  BY DEF Resolvers, Plus, Uids
<1>2. TexturesOf[m] \in SUBSET Uids /\ StartBuild(r, m) = ResolveTextures(p, TexturesOf[m])
  BY DEF StartBuild, Uids
<1> HIDE DEF p
<1>3. (\A u \in Uids \ {m} : 
          r.promise[u] = "pending" /\ r.runs[u] = 0 => r.waiters[u] > 0 /\ u \notin r.cache)
      => Awake(p)
  BY <1>1 DEF Awake
<1>4. Once(p)
  <2>1. ASSUME NEW u \in Uids
        PROVE  /\ p.runs[u] + p.waiters[u] <= 1
               /\ p.promise[u] = "none" => p.runs[u] = 0 /\ p.waiters[u] = 0
    <3>1. CASE u = m
      BY <1>1, <3>1
    <3>2. CASE u # m
      BY <1>1, <3>2 DEF Once
    <3> QED
      BY <3>1, <3>2
  <2> QED
    BY <2>1 DEF Once
<1>5. Further(p, StartBuild(r, m)) => Further(r, StartBuild(r, m))
  BY <1>1 DEF Further
<1> QED
  BY <1>1, <1>2, <1>3, <1>4, <1>5, ResolveTexturesKeeps

LEMMA ResolveMaterialKeeps ==
    ASSUME NEW r \in Resolvers, NEW m \in Materials, Once(r)
    PROVE  /\ ResolveMaterial(r, m) \in Resolvers
           /\ Once(ResolveMaterial(r, m))
           /\ Awake(r) => Awake(ResolveMaterial(r, m))
           /\ Further(r, ResolveMaterial(r, m))
<1> DEFINE asked == [r EXCEPT !.promise[m] = "pending"]
           queued == [asked EXCEPT !.waiters = Plus(@, {m})]
<1>0. m \in Uids
  BY DEF Uids
<1>1. CASE r.promise[m] # "none"
  <2>1. ResolveMaterial(r, m) = r
    BY <1>1 DEF ResolveMaterial
  <2> QED
    BY <2>1 DEF Further
<1>2. CASE r.promise[m] = "none"
  <2>1. /\ asked \in Resolvers /\ asked.cache = r.cache
        /\ asked.runs = r.runs /\ asked.waiters = r.waiters
        /\ \A u \in Uids : asked.promise[u] = IF u = m THEN "pending" ELSE r.promise[u]
    BY <1>0 DEF Resolvers, Status
  <2>2. r.runs[m] = 0 /\ r.waiters[m] = 0
    BY <1>0, <1>2 DEF Once
  <2>3. ResolveMaterial(r, m) = IF m \in r.cache THEN StartBuild(asked, m) ELSE queued
    BY <1>2 DEF ResolveMaterial
  <2>4. /\ queued \in Resolvers /\ queued.cache = asked.cache
        /\ queued.runs = asked.runs /\ queued.promise = asked.promise
        /\ \A u \in Uids : queued.waiters[u] = IF u = m THEN asked.waiters[u] + 1 ELSE asked.waiters[u]
    <3> HIDE DEF asked
    <3> QED
      BY <2>1 DEF Resolvers, Plus
  <2> HIDE DEF asked, queued
  <2>5. Once(asked)
    BY <1>0, <2>1, <2>2 DEF Once
  <2>6. CASE m \in r.cache
    <3>1. asked.promise[m] # "none" /\ asked.runs[m] = 0 /\ asked.waiters[m] = 0
      BY <1>0, <2>1, <2>2
    <3>2. /\ StartBuild(asked, m) \in Resolvers
          /\ Once(StartBuild(asked, m))
          /\ (\A u \in Uids \ {m} :
                asked.promise[u] = "pending" /\ asked.runs[u] = 0
                => asked.waiters[u] > 0 /\ u \notin asked.cache) => Awake(StartBuild(asked, m))
          /\ Further(asked, StartBuild(asked, m))
      BY <2>1, <2>5, <3>1, StartBuildKeeps
    <3>3. Awake(r) => \A u \in Uids \ {m} :
                asked.promise[u] = "pending" /\ asked.runs[u] = 0
                => asked.waiters[u] > 0 /\ u \notin asked.cache
      BY <2>1 DEF Awake
    <3>4. Further(r, StartBuild(asked, m))
      BY <1>2, <2>1, <3>2 DEF Further
    <3> QED
      BY <2>3, <2>6, <3>2, <3>3, <3>4
  <2>7. CASE m \notin r.cache
    <3>1. Once(queued)
      <4>1. ASSUME NEW u \in Uids
            PROVE  /\ queued.runs[u] + queued.waiters[u] <= 1
                   /\ queued.promise[u] = "none" => queued.runs[u] = 0 /\ queued.waiters[u] = 0
        <5>1. CASE u = m
          BY <2>1, <2>2, <2>4, <5>1
        <5>2. CASE u # m
          BY <2>4, <2>5, <5>2 DEF Once
        <5> QED
          BY <5>1, <5>2
      <4> QED
        BY <4>1 DEF Once
    <3>2. Awake(r) => Awake(queued)
      <4> SUFFICES ASSUME Awake(r), NEW u \in Uids,
                          queued.promise[u] = "pending", queued.runs[u] = 0
                   PROVE  queued.waiters[u] > 0 /\ u \notin queued.cache
        BY DEF Awake
      <4>1. CASE u = m
        BY <2>1, <2>2, <2>4, <2>7, <4>1
      <4>2. CASE u # m
        BY <2>1, <2>4, <4>2 DEF Awake
      <4> QED
        BY <4>1, <4>2
    <3>3. Further(r, queued)
      BY <1>2, <2>1, <2>4 DEF Further
    <3> QED
      BY <2>3, <2>4, <2>7, <3>1, <3>2, <3>3
  <2> QED
    BY <2>6, <2>7
<1> QED
  BY <1>1, <1>2

LEMMA PutPayloadKeeps ==
    ASSUME NEW r \in Resolvers, NEW u \in Uids, Once(r)
    PROVE  /\ PutPayload(r, u) \in Resolvers
           /\ Once(PutPayload(r, u))
           /\ Awake(r) => Awake(PutPayload(r, u))
           /\ Further(r, PutPayload(r, u))
<1> DEFINE flushed == [r EXCEPT !.cache = @ \cup {u}, !.waiters[u] = 0]
           run == [flushed EXCEPT !.runs[u] = @ + r.waiters[u]]
<1>1. /\ flushed.cache = r.cache \cup {u}
      /\ flushed.runs = r.runs /\ flushed.promise = r.promise
      /\ flushed.waiters \in [Uids -> Nat]
      /\ \A v \in Uids : flushed.waiters[v] = IF v = u THEN 0 ELSE r.waiters[v]
  BY DEF Resolvers
<1>2. flushed \in Resolvers
  <2> DEFINE a == [r EXCEPT !.cache = r.cache \cup {u}]
             b == [a EXCEPT !.waiters = flushed.waiters]
  <2> HIDE DEF flushed
  <2>1. a \in Resolvers
    BY DEF Resolvers
  <2>2. b \in Resolvers
    BY <1>1, <2>1 DEF Resolvers
  <2>3. flushed = b
    BY DEF flushed, Resolvers
  <2> QED
    BY <2>2, <2>3
<1>3. PutPayload(r, u) = IF r.waiters[u] = 0 THEN flushed
                         ELSE IF u \in Materials THEN StartBuild(flushed, u) ELSE run
  BY DEF PutPayload
<1>4. /\ run \in Resolvers /\ run.cache = flushed.cache
      /\ run.waiters = flushed.waiters /\ run.promise = flushed.promise
      /\ \A v \in Uids : run.runs[v] = IF v = u THEN flushed.runs[v] + r.waiters[u] ELSE flushed.runs[v]
  <2> HIDE DEF flushed
  <2> QED
    BY <1>2 DEF Resolvers
<1> HIDE DEF flushed, run
<1>5. Once(flushed)
  BY <1>1 DEF Once, Resolvers
<1>6. Awake(r) => \A v \in Uids \ {u} :
          flushed.promise[v] = "pending" /\ flushed.runs[v] = 0
          => flushed.waiters[v] > 0 /\ v \notin flushed.cache
  BY <1>1 DEF Awake
<1>7. Further(r, flushed)
  BY <1>1 DEF Further
<1>8. CASE r.waiters[u] = 0
  <2>1. Awake(r) => Awake(flushed)
    BY <1>1, <1>6, <1>8 DEF Awake
  <2> QED
    BY <1>2, <1>3, <1>5, <1>7, <1>8, <2>1
<1>9. CASE r.waiters[u] # 0
  <2>1. r.waiters[u] = 1 /\ r.runs[u] = 0 /\ r.promise[u] # "none"
    BY <1>9 DEF Once, Resolvers
  <2>2. CASE u \in Materials
    <3>1. flushed.promise[u] # "none" /\ flushed.runs[u] = 0 /\ flushed.waiters[u] = 0
      BY <1>1, <2>1
    <3>2. /\ StartBuild(flushed, u) \in Resolvers
          /\ Once(StartBuild(flushed, u))
          /\ (\A v \in Uids \ {u} :
                flushed.promise[v] = "pending" /\ flushed.runs[v] = 0
                => flushed.waiters[v] > 0 /\ v \notin flushed.cache) => Awake(StartBuild(flushed, u))
          /\ Further(flushed, StartBuild(flushed, u))
      BY <1>2, <1>5, <2>2, <3>1, StartBuildKeeps
    <3>3. Further(r, StartBuild(flushed, u))
      BY <1>1, <3>2 DEF Further
    <3> QED
      BY <1>3, <1>6, <1>9, <2>2, <3>2, <3>3
  <2>3. CASE u \notin Materials
    <3>1. Once(run)
      <4>1. ASSUME NEW v \in Uids
            PROVE  /\ run.runs[v] + run.waiters[v] <= 1
                   /\ run.promise[v] = "none" => run.runs[v] = 0 /\ run.waiters[v] = 0
        <5>1. CASE v = u
          BY <1>1, <1>4, <2>1, <5>1
        <5>2. CASE v # u
          BY <1>4, <1>5, <5>2 DEF Once
        <5> QED
          BY <5>1, <5>2
      <4> QED
        BY <4>1 DEF Once
    <3>2. Awake(r) => Awake(run)
      BY <1>1, <1>4, <1>6, <2>1 DEF Awake
    <3>3. Further(r, run)
      BY <1>1, <1>4 DEF Further
    <3> QED
      BY <1>3, <1>4, <1>9, <2>3, <3>1, <3>2, <3>3
  <2> QED
    BY <2>2, <2>3
<1> QED
  BY <1>8, <1>9

LEMMA ClearCacheKeeps ==
    ASSUME NEW r \in Resolvers, Once(r)
    PROVE  /\ ClearCache(r) \in Resolvers
           /\ Once(ClearCache(r))
           /\ Further(r, ClearCache(r))
<1> DEFINE q == ClearCache(r)
<1>1. /\ q \in Resolvers /\ q.runs = r.runs /\ q.promise = r.promise
      /\ \A u \in Uids : q.waiters[u] = 0
  BY DEF ClearCache, Resolvers
<1> HIDE DEF q
<1>2. Once(q)
  BY <1>1 DEF Once, Resolvers
<1> QED
  BY <1>1, <1>2 DEF Further, q

----------------------------------------------------------------------------
(* The tables of all sessions. *)

ResolverType ==
    /\ cache \in [Sessions -> SUBSET Uids] /\ waiters \in [Sessions -> [Uids -> Nat]]
    /\ promise \in [Sessions -> [Uids -> Status]] /\ runs \in [Sessions -> [Uids -> Nat]]

OnceAt(s) ==
    \A u \in Uids :
        /\ runs[s][u] + waiters[s][u] <= 1
        /\ promise[s][u] = "none" => runs[s][u] = 0 /\ waiters[s][u] = 0

ResolverInv == ResolverType /\ \A s \in Sessions : OnceAt(s)

\* Which promises a call of session s may change, and how
Promises(s) ==
    \A t \in Sessions, u \in Uids :
        \/ promise'[t][u] = promise[t][u]
        \/ t = s /\ promise[t][u] = "none" /\ promise'[t][u] = "pending"

\* What every call of session s keeps
CallOf(s) ==
    /\ ResolverInv'
    /\ Promises(s)
    /\ NoLostWakeup(s) => NoLostWakeup(s)'

LEMMA NowOk ==
    ASSUME ResolverInv, NEW s \in Sessions
    PROVE  /\ Now(s) \in Resolvers /\ Once(Now(s))
           /\ NoLostWakeup(s) => Awake(Now(s))
<1>1. Now(s) \in Resolvers
  BY DEF ResolverInv, ResolverType, Now, Resolvers
<1>2. Once(Now(s))
  BY DEF ResolverInv, OnceAt, Now, Once
<1>3. NoLostWakeup(s) => Awake(Now(s))
  BY DEF NoLostWakeup, Now, Awake
<1> QED
  BY <1>1, <1>2, <1>3

LEMMA BecomesKeeps ==
    ASSUME ResolverInv, NEW s \in Sessions, NEW r \in Resolvers,
           Once(r), Further(Now(s), r), Becomes(s, r)
    PROVE  ResolverInv' /\ Promises(s) /\ (Awake(r) => NoLostWakeup(s)')
<1>1. /\ cache'[s] = r.cache /\ waiters'[s] = r.waiters
      /\ promise'[s] = r.promise /\ runs'[s] = r.runs
  BY DEF Becomes, ResolverInv, ResolverType
<1>2. \A t \in Sessions \ {s} :
         /\ waiters'[t] = waiters[t]
         /\ promise'[t] = promise[t] /\ runs'[t] = runs[t]
  BY DEF Becomes, ResolverInv, ResolverType
<1>3. ResolverType'
  BY DEF Becomes, ResolverInv, ResolverType, Resolvers
<1>4. \A t \in Sessions : OnceAt(t)'
  BY <1>1, <1>2 DEF ResolverInv, OnceAt, Once
<1>5. Promises(s)
  BY <1>1, <1>2 DEF Promises, Further, Now
<1>6. Awake(r) => NoLostWakeup(s)'
  BY <1>1 DEF Awake, NoLostWakeup
<1> QED
  BY <1>3, <1>4, <1>5, <1>6 DEF ResolverInv

LEMMA ResolveTexturesCall ==
    ASSUME ResolverInv, NEW s \in Sessions, NEW u \in Textures,
           Becomes(s, ResolveTextures(Now(s), {u}))
    PROVE  CallOf(s)
<1>1. {u} \in SUBSET Uids
  BY DEF Uids
<1>2. Now(s) \in Resolvers /\ Once(Now(s)) /\ (NoLostWakeup(s) => Awake(Now(s)))
  BY NowOk
<1>3. /\ ResolveTextures(Now(s), {u}) \in Resolvers
      /\ Once(ResolveTextures(Now(s), {u}))
      /\ Awake(Now(s)) => Awake(ResolveTextures(Now(s), {u}))
      /\ Further(Now(s), ResolveTextures(Now(s), {u}))
  BY <1>1, <1>2, ResolveTexturesKeeps
<1> QED
  BY <1>2, <1>3, BecomesKeeps DEF CallOf

LEMMA AskForCall ==
    ASSUME ResolverInv, NEW s \in Sessions, NEW m \in Materials, AskFor(s, m)
    PROVE  CallOf(s)
<1>1. Now(s) \in Resolvers /\ Once(Now(s)) /\ (NoLostWakeup(s) => Awake(Now(s)))
  BY NowOk
<1>2. /\ ResolveMaterial(Now(s), m) \in Resolvers
      /\ Once(ResolveMaterial(Now(s), m))
      /\ Awake(Now(s)) => Awake(ResolveMaterial(Now(s), m))
      /\ Further(Now(s), ResolveMaterial(Now(s), m))
  BY <1>1, ResolveMaterialKeeps
<1>3. Becomes(s, ResolveMaterial(Now(s), m))
  BY DEF AskFor
<1> QED
  BY <1>1, <1>2, <1>3, BecomesKeeps DEF CallOf

LEMMA ArrivesCall ==
    ASSUME ResolverInv, NEW s \in Sessions, NEW u \in Uids, Arrives(s, u)
    PROVE  CallOf(s)
<1>1. Now(s) \in Resolvers /\ Once(Now(s)) /\ (NoLostWakeup(s) => Awake(Now(s)))
  BY NowOk
<1>2. /\ PutPayload(Now(s), u) \in Resolvers
      /\ Once(PutPayload(Now(s), u))
      /\ Awake(Now(s)) => Awake(PutPayload(Now(s), u))
      /\ Further(Now(s), PutPayload(Now(s), u))
  BY <1>1, PutPayloadKeeps
<1>3. Becomes(s, PutPayload(Now(s), u))
  BY DEF Arrives
<1> QED
  BY <1>1, <1>2, <1>3, BecomesKeeps DEF CallOf

(* The end of a session's cache. *)
LEMMA ClosedKeeps ==
    ASSUME ResolverInv, NEW s \in Sessions, Closed(s)
    PROVE  ResolverInv' /\ Promises(s)
<1>1. Now(s) \in Resolvers /\ Once(Now(s))
  BY NowOk
<1>2. /\ ClearCache(Now(s)) \in Resolvers
      /\ Once(ClearCache(Now(s)))
      /\ Further(Now(s), ClearCache(Now(s)))
  BY <1>1, ClearCacheKeeps
<1>3. Becomes(s, ClearCache(Now(s)))
  BY DEF Closed
<1> QED
  BY <1>2, <1>3, BecomesKeeps

(* A promise settles. *)
Settles(s, u, outcome) ==
    /\ Running(s, u)
    /\ promise' = [promise EXCEPT ![s][u] = outcome]
    /\ UNCHANGED <<cache, waiters, runs>>

OnlyChange(s, u, outcome) ==
    \A t \in Sessions, v \in Uids :
        promise'[t][v] = IF t = s /\ v = u THEN outcome ELSE promise[t][v]

LEMMA SettlesKeeps ==
    ASSUME ResolverInv, NEW s \in Sessions, NEW u \in Uids, NEW outcome \in {"done", "failed"},
           Settles(s, u, outcome)
    PROVE  /\ ResolverInv'
           /\ OnlyChange(s, u, outcome)
           /\ \A t \in Sessions : NoLostWakeup(t) => NoLostWakeup(t)'
<1>1. /\ Running(s, u) /\ promise' = [promise EXCEPT ![s][u] = outcome]
      /\ UNCHANGED <<cache, waiters, runs>>
  BY DEF Settles
<1>2. \A t \in Sessions, v \in Uids :
         promise'[t][v] = IF t = s /\ v = u THEN outcome ELSE promise[t][v]
  BY <1>1 DEF ResolverInv, ResolverType
<1>3. ResolverType'
  BY <1>1 DEF ResolverInv, ResolverType, Status
<1>4. \A t \in Sessions : OnceAt(t)'
  BY <1>1, <1>2 DEF ResolverInv, OnceAt, Running
<1>5. \A t \in Sessions : NoLostWakeup(t) => NoLostWakeup(t)'
  BY <1>1, <1>2 DEF NoLostWakeup, Running
<1> QED
  BY <1>2, <1>3, <1>4, <1>5 DEF ResolverInv, OnlyChange

----------------------------------------------------------------------------
(* The element. *)

SessionInv ==
    /\ opened \in 0..MaxSessions /\ session \in 0..opened
    /\ resolving \subseteq 1..opened
    /\ SessionIsShown

\* Nothing has been asked for in a session that is still to come.
Pristine == \A s \in Sessions, u \in Uids : s > opened => promise[s][u] = "none"

\* The texture asked for last was asked for in the session that is open, and while
\* it is being decoded the continuation that shows it waits.
Awaited ==
    /\ envSource = NoSource \/ \E u \in Textures : envSource = Source(u)
    /\ envSource # NoSource => session # 0 /\ attached
    /\ \A s \in Sessions, u \in Textures :
          session = s /\ envSource = Source(u)
          => /\ promise[s][u] # "none"
             /\ promise[s][u] = "pending" => Waits(s, u, "environment") \in thens

\* NewestLights, for each session and texture
Lit ==
    \A s \in Sessions, u \in Textures :
        session = s /\ envSource = Source(u) /\ environment # Empty /\ promise[s][u] = "done"
        => environment.uid = u

\* What EnvironmentIsLive says of the element, and of the session that is open
Alight == attached /\ environment # Empty => session # 0 /\ environment = currentEnv

AskedFor ==
    \A s \in Sessions : attached /\ environment # Empty /\ session = s =>
        \E u \in Textures : environment.uid = u /\ promise[s][u] # "none"

LightInv == Awaited /\ Lit /\ Alight /\ AskedFor

ViewerInv == ResolverInv /\ SessionInv /\ Pristine /\ WakesUp /\ LightInv

LEMMA SourceIsUid ==
    ASSUME NEW u \in Textures
    PROVE  /\ Source(u) # NoSource /\ Source(u).uid = u
           /\ \A v \in Textures : Source(u) = Source(v) => u = v
<1>1. Source(u).uid = u /\ NoSource.uid = 0 /\ u # 0
  BY DEF Source, NoSource, Uids
<1>2. ASSUME NEW v \in Textures, Source(u) = Source(v) PROVE u = v
  <2>1. Source(v).uid = v
    BY DEF Source
  <2> QED
    BY <1>1, <1>2, <2>1
<1> QED
  BY <1>1, <1>2

LEMMA OpenIsSession ==
    ASSUME SessionInv, session # 0
    PROVE  session \in Sessions
BY DEF SessionInv, Sessions

(* What follows from the invariant: lighting by the newest texture. *)
LEMMA LitIsNewest == ViewerInv => NewestLights
<1> SUFFICES ASSUME ViewerInv, session # 0, environment # Empty, envSource # NoSource,
                    promise[session][envSource.uid] = "done"
             PROVE  environment.uid = envSource.uid
  BY DEF NewestLights
<1>1. PICK u \in Textures : envSource = Source(u)
  BY DEF ViewerInv, LightInv, Awaited
<1>2. envSource.uid = u
  BY <1>1, SourceIsUid
<1>3. session \in Sessions
  BY OpenIsSession DEF ViewerInv
<1> QED
  BY <1>1, <1>2, <1>3 DEF ViewerInv, LightInv, Lit

(* What has been asked for stays asked for, so that the light may stay too. *)
LEMMA StillAsked ==
    ASSUME AskedFor, UNCHANGED <<session, attached>>,
           environment' = environment \/ environment' = Empty,
           \A t \in Sessions, v \in Textures : promise[t][v] # "none" => promise'[t][v] # "none"
    PROVE  AskedFor'
BY DEF AskedFor

(* A call of the session that is open. *)
LEMMA CallKeeps ==
    ASSUME ViewerInv, NEW s \in Sessions, session = s, CallOf(s), UNCHANGED <<session, opened>>
    PROVE  ResolverInv' /\ Pristine' /\ WakesUp'
<1>1. ResolverInv' /\ Promises(s) /\ (NoLostWakeup(s) => NoLostWakeup(s)')
  BY DEF CallOf
<1>2. Pristine'
  BY <1>1 DEF ViewerInv, SessionInv, Pristine, Promises, Sessions
<1>3. NoLostWakeup(s)
  BY DEF ViewerInv, WakesUp, Sessions
<1>4. WakesUp'
  BY <1>1, <1>3 DEF WakesUp
<1> QED
  BY <1>1, <1>2, <1>4

(* Such a call that changes neither the light nor what waits for it. *)
LEMMA CallKeepsAll ==
    ASSUME ViewerInv, NEW s \in Sessions, session = s, CallOf(s), thens \subseteq thens',
           UNCHANGED <<session, opened, attached, resolving, mounted, environment, envSource, currentEnv>>
    PROVE  ViewerInv'
<1>1. ResolverInv' /\ Pristine' /\ WakesUp'
  BY CallKeeps
<1>2. SessionInv' /\ Alight'
  BY DEF ViewerInv, SessionInv, SessionIsShown, LightInv, Alight
<1>3. \A t \in Sessions, u \in Textures :
         \/ promise'[t][u] = promise[t][u]
         \/ promise[t][u] = "none" /\ promise'[t][u] = "pending"
  BY DEF CallOf, Promises, Uids
<1>4. Awaited'
  BY <1>3 DEF ViewerInv, LightInv, Awaited
<1>5. Lit'
  BY <1>3 DEF ViewerInv, LightInv, Lit
<1>6. AskedFor'
  BY <1>3, StillAsked DEF ViewerInv, LightInv
<1> QED
  BY <1>1, <1>2, <1>4, <1>5, <1>6 DEF ViewerInv, LightInv

LEMMA OpensKeeps == ASSUME ViewerInv, Connect \/ ConnectedCallback PROVE ViewerInv'
<1>1. UNCHANGED <<resolverVars, envSource, currentEnv, thens>>
  BY DEF Connect, ConnectedCallback
<1>2. ResolverInv'
  BY <1>1 DEF ViewerInv, ResolverInv, ResolverType, OnceAt, resolverVars
<1>3. /\ opened \in 0..MaxSessions /\ session \in 0..opened /\ resolving \subseteq 1..opened
      /\ session \in resolving => attached /\ session \in mounted
  BY DEF ViewerInv, SessionInv, SessionIsShown
<1>4. \/ /\ UNCHANGED <<session, opened, resolving>>
         /\ UNCHANGED <<attached, mounted>> \/ ~attached
      \/ /\ session' = opened + 1 /\ opened' = opened + 1 /\ opened < MaxSessions
         /\ (resolving' = resolving \cup {opened + 1} /\ attached') \/ resolving' = resolving
         /\ opened + 1 \in mounted'
  <2>1. CASE Connect
    BY <2>1 DEF Connect, NewSession
  <2>2. CASE ConnectedCallback
    BY <2>2 DEF ConnectedCallback, NewSession
  <2> QED
    BY <2>1, <2>2
<1>5. /\ opened' \in 0..MaxSessions /\ session' \in 0..opened'
      /\ (session' = session /\ opened' = opened) \/ (session' = opened + 1 /\ opened' = opened + 1)
  BY <1>3, <1>4
<1>6. Pristine'
  BY <1>1, <1>5, <1>3 DEF ViewerInv, Pristine, Sessions, resolverVars
<1>7. SessionInv'
  <2>1. CASE UNCHANGED <<session, opened, resolving>> /\ (UNCHANGED <<attached, mounted>> \/ ~attached)
    BY <2>1, <1>3 DEF SessionInv, SessionIsShown
  <2>2. CASE /\ session' = opened + 1 /\ opened' = opened + 1 /\ opened < MaxSessions
             /\ (resolving' = resolving \cup {opened + 1} /\ attached') \/ resolving' = resolving
             /\ opened + 1 \in mounted'
    <3>1. resolving' \subseteq 1..opened'
      <4>1. 1..opened \subseteq 1..(opened + 1) /\ opened + 1 \in 1..(opened + 1)
        BY <1>3
      <4>2. resolving' \subseteq 1..(opened + 1)
        BY <1>3, <2>2, <4>1, Zenon
      <4> QED
        BY <2>2, <4>2
    <3>2. opened + 1 \notin resolving
      BY <1>3
    <3>3. session' \in resolving' => attached' /\ session' \in mounted'
      BY <2>2, <3>2
    <3> QED
      BY <1>5, <3>1, <3>3 DEF SessionInv, SessionIsShown
  <2> QED
    BY <1>4, <2>1, <2>2
<1>8. envSource' = NoSource
  BY <1>1 DEF ViewerInv, LightInv, Awaited, Connect, ConnectedCallback, NewSession
<1>9. Awaited' /\ Lit'
  BY <1>8, SourceIsUid DEF Awaited, Lit
<1>10. Alight'
  BY DEF ViewerInv, LightInv, Alight, Connect, ConnectedCallback, NewSession
<1>11. WakesUp'
  <2>1. CASE session' = session
    <3>1. \A s \in Sessions : NoLostWakeup(s) => NoLostWakeup(s)'
      BY <1>1 DEF NoLostWakeup, resolverVars
    <3> SUFFICES ASSUME NEW s \in Sessions, session = s PROVE WakesUp'
      BY <2>1, <1>5, OpenIsSession DEF ViewerInv, WakesUp
    <3> QED
      BY <2>1, <3>1 DEF ViewerInv, WakesUp, Sessions
  <2>2. CASE session' = opened + 1
    <3>1. PICK s \in Sessions : session' = s /\ s > opened
      BY <1>5, <2>2 DEF ViewerInv, SessionInv, Sessions
    <3>2. \A u \in Uids : promise'[s][u] = "none"
      BY <1>1, <3>1 DEF ViewerInv, Pristine, resolverVars
    <3>3. NoLostWakeup(s)'
      BY <3>2 DEF NoLostWakeup
    <3> QED
      BY <3>1, <3>3 DEF WakesUp
  <2> QED
    BY <1>5, <2>1, <2>2
<1>12. AskedFor'
  <2>1. ~attached' \/ environment' = Empty
    BY DEF ViewerInv, LightInv, Alight, Connect, ConnectedCallback, NewSession
  <2> QED
    BY <2>1 DEF AskedFor
<1> QED
  BY <1>2, <1>6, <1>7, <1>9, <1>10, <1>11, <1>12 DEF ViewerInv, LightInv

LEMMA EndsKeeps == ASSUME ViewerInv, DisconnectedCallback \/ DisconnectClient PROVE ViewerInv'
<1>1. /\ session' = 0 /\ envSource' = NoSource /\ UNCHANGED <<opened, resolving, mounted>>
      /\ IF session = 0 THEN UNCHANGED resolverVars ELSE Closed(session)
  BY DEF DisconnectedCallback, DisconnectClient, CloseClient
<1>2. ResolverInv' /\ Pristine'
  <2>1. CASE session = 0
    BY <1>1, <2>1 DEF ViewerInv, ResolverInv, ResolverType, OnceAt, Pristine, resolverVars
  <2>2. CASE session # 0
    <3>1. PICK s \in Sessions : session = s
      BY <2>2, OpenIsSession DEF ViewerInv
    <3>2. ResolverInv' /\ Promises(s)
      BY <1>1, <2>2, <3>1, ClosedKeeps DEF ViewerInv
    <3>3. s <= opened
      BY <3>1 DEF ViewerInv, SessionInv
    <3>4. Pristine'
      BY <1>1, <3>2, <3>3 DEF ViewerInv, SessionInv, Pristine, Promises, Sessions
    <3> QED
      BY <3>2, <3>4
  <2> QED
    BY <2>1, <2>2
<1>3. SessionInv'
  BY <1>1 DEF ViewerInv, SessionInv, SessionIsShown
<1>4. WakesUp' /\ Awaited' /\ Lit'
  BY <1>1, SourceIsUid DEF WakesUp, Awaited, Lit, Sessions
<1>5. Alight' /\ AskedFor'
  BY <1>1 DEF Alight, AskedFor, Sessions, DisconnectedCallback, DisconnectClient
<1> QED
  BY <1>2, <1>3, <1>4, <1>5 DEF ViewerInv, LightInv

LEMMA PlainKeeps ==
    ASSUME ViewerInv, SetupNoLighting \/ \E shown \in {Colour, Empty} : SetupPlain(shown)
    PROVE  ViewerInv'
<1>1. UNCHANGED <<resolverVars, session, opened, attached, resolving, mounted, envSource, currentEnv, thens>>
      /\ (environment' = environment \/ environment' = Empty)
  BY DEF SetupNoLighting, SetupPlain, Commanded
<1>2. ResolverInv' /\ Pristine'
  BY <1>1 DEF ViewerInv, ResolverInv, ResolverType, OnceAt, Pristine, resolverVars
<1>3. SessionInv' /\ Alight'
  BY <1>1 DEF ViewerInv, SessionInv, SessionIsShown, LightInv, Alight
<1>4. WakesUp'
  BY <1>1 DEF ViewerInv, WakesUp, NoLostWakeup, resolverVars
<1>5. Awaited' /\ Lit'
  BY <1>1 DEF ViewerInv, LightInv, Awaited, Lit, resolverVars
<1>6. AskedFor'
  BY <1>1, StillAsked DEF ViewerInv, LightInv, resolverVars
<1> QED
  BY <1>2, <1>3, <1>4, <1>5, <1>6 DEF ViewerInv, LightInv

LEMMA TextureKeeps == ASSUME ViewerInv, NEW u \in Textures, SetupTexture(u) PROVE ViewerInv'
<1>1. PICK s \in Sessions : session = s
  BY OpenIsSession DEF SetupTexture, Commanded, ViewerInv
<1>2. UNCHANGED <<session, opened, attached, resolving, mounted, environment, envSource, currentEnv>>
  BY DEF SetupTexture, Commanded
<1>3. CASE s \in resolving
  <2>1. Becomes(s, ResolveTextures(Now(s), {u})) /\ thens \subseteq thens'
    BY <1>1, <1>3 DEF SetupTexture, ResolveThen
  <2>2. CallOf(s)
    BY <2>1, ResolveTexturesCall DEF ViewerInv
  <2> QED
    BY <1>1, <1>2, <2>1, <2>2, CallKeepsAll
<1>4. CASE s \notin resolving
  <2>1. UNCHANGED <<resolverVars, thens>>
    BY <1>1, <1>4 DEF SetupTexture
  <2>2. CallOf(s)
    BY <2>1 DEF CallOf, ViewerInv, ResolverInv, ResolverType, OnceAt, Promises, NoLostWakeup, resolverVars
  <2> QED
    BY <1>1, <1>2, <2>1, <2>2, CallKeepsAll
<1> QED
  BY <1>3, <1>4

LEMMA GeometryKeeps == ASSUME ViewerInv, Geometry PROVE ViewerInv'
<1>1. PICK s \in Sessions : session = s
  BY OpenIsSession DEF Geometry, ViewerInv
<1>2. UNCHANGED viewerVars
  BY DEF Geometry
<1>3. CASE \E m \in Materials : AskFor(session, m)
  <2>1. CallOf(s)
    BY <1>1, <1>3, AskForCall DEF ViewerInv
  <2> QED
    BY <1>1, <1>2, <2>1, CallKeepsAll DEF viewerVars
<1>4. CASE \E u \in Uids : Arrives(session, u)
  <2>1. CallOf(s)
    BY <1>1, <1>4, ArrivesCall DEF ViewerInv
  <2> QED
    BY <1>1, <1>2, <2>1, CallKeepsAll DEF viewerVars
<1>5. CASE \E u \in Uids : FetchFails(session, u)
  <2>1. UNCHANGED <<cache, waiters, promise, runs>>
    BY <1>5 DEF FetchFails
  <2>2. CallOf(s)
    BY <2>1 DEF CallOf, ViewerInv, ResolverInv, ResolverType, OnceAt, Promises, NoLostWakeup
  <2> QED
    BY <1>1, <1>2, <2>2, CallKeepsAll DEF viewerVars
<1> QED
  BY <1>3, <1>4, <1>5 DEF Geometry

LEMMA LightingKeeps == ASSUME ViewerInv, NEW u \in Textures, SetupLighting(u) PROVE ViewerInv'
<1>1. PICK s \in Sessions : session = s
  BY OpenIsSession DEF SetupLighting, Commanded, ViewerInv
<1>2. /\ UNCHANGED <<session, opened, attached, resolving, mounted>>
      /\ attached /\ envSource' = Source(u)
      /\ Becomes(s, ResolveTextures(Now(s), {u}))
      /\ thens' = IF Settled(s, u) THEN thens ELSE thens \cup {Waits(s, u, "environment")}
      /\ IF promise[s][u] = "done"
         THEN environment' = Picture(s, u) /\ currentEnv' = Picture(s, u)
         ELSE UNCHANGED <<environment, currentEnv>>
  BY <1>1 DEF SetupLighting, Commanded, ResolveThen
<1>3. CallOf(s)
  BY <1>2, ResolveTexturesCall DEF ViewerInv
<1>4. ResolverInv' /\ Pristine' /\ WakesUp'
  BY <1>1, <1>2, <1>3, CallKeeps
<1>5. SessionInv'
  BY <1>2 DEF ViewerInv, SessionInv, SessionIsShown
<1>6. Alight'
  BY <1>1, <1>2 DEF ViewerInv, LightInv, Alight, Sessions
<1>7. promise'[s][u] = IF promise[s][u] = "none" THEN "pending" ELSE promise[s][u]
  <2>1. /\ u \in Uids /\ {u} \in SUBSET Uids
        /\ Now(s) \in Resolvers /\ Now(s).promise = promise[s]
    BY NowOk DEF Uids, ViewerInv, Now
  <2>2. ResolveTextures(Now(s), {u}).promise[u]
        = IF Now(s).promise[u] = "none" THEN "pending" ELSE Now(s).promise[u]
    BY <2>1, ResolveTexturesFields
  <2>3. promise'[s] = ResolveTextures(Now(s), {u}).promise
    BY <1>2 DEF Becomes, ViewerInv, ResolverInv, ResolverType
  <2> QED
    BY <2>1, <2>2, <2>3
<1>8. \A v \in Textures : envSource' = Source(v) => v = u
  BY <1>2, SourceIsUid
<1>9. Awaited'
  <2>1. envSource' # NoSource => session' # 0 /\ attached'
    BY <1>1, <1>2 DEF Sessions
  <2>2. promise'[s][u] # "none"
    BY <1>7
  <2>3. promise'[s][u] = "pending" => Waits(s, u, "environment") \in thens'
    BY <1>2, <1>7 DEF Settled
  <2> QED
    BY <1>1, <1>2, <1>8, <2>1, <2>2, <2>3 DEF Awaited
<1>10. Lit'
  <2>1. promise'[s][u] = "done" => environment' = Picture(s, u)
    BY <1>2, <1>7
  <2>2. Picture(s, u).uid = u
    BY DEF Picture
  <2> QED
    BY <1>1, <1>2, <1>8, <2>1, <2>2 DEF Lit
<1>11. AskedFor'
  <2>1. CASE promise[s][u] = "done"
    <3>1. environment'.uid = u /\ promise'[s][u] # "none"
      BY <1>2, <1>7, <2>1 DEF Picture
    <3> QED
      BY <1>1, <1>2, <3>1 DEF AskedFor
  <2>2. CASE promise[s][u] # "done"
    <3>1. \A t \in Sessions, v \in Textures : promise[t][v] # "none" => promise'[t][v] # "none"
      BY <1>3 DEF CallOf, Promises, Uids
    <3> QED
      BY <1>2, <2>2, <3>1, StillAsked DEF ViewerInv, LightInv
  <2> QED
    BY <2>1, <2>2
<1> QED
  BY <1>4, <1>5, <1>6, <1>9, <1>10, <1>11 DEF ViewerInv, LightInv

LEMMA DecodesKeeps ==
    ASSUME ViewerInv, NEW s \in Sessions, NEW u \in Uids, Decodes(s, u)
    PROVE  ViewerInv'
<1>1. PICK outcome \in {"done", "failed"} : TextureSettles(s, u, outcome)
  BY DEF Decodes
<1> DEFINE waiting == {w \in thens : w.session = s /\ w.uid = u}
           shown == IF outcome = "done" THEN {w.use : w \in waiting} ELSE {}
<1>2. /\ u \in Textures /\ Running(s, u)
      /\ promise' = [promise EXCEPT ![s][u] = outcome]
      /\ UNCHANGED <<cache, waiters, runs>>
      /\ UNCHANGED <<attached, session, opened, resolving, mounted, envSource>>
      /\ thens' = thens \ waiting
  BY <1>1 DEF TextureSettles, Decoded
<1>3. /\ ResolverInv'
      /\ \A t \in Sessions, v \in Uids :
            promise'[t][v] = IF t = s /\ v = u THEN outcome ELSE promise[t][v]
      /\ \A t \in Sessions : NoLostWakeup(t) => NoLostWakeup(t)'
  <2>1. ResolverInv /\ Settles(s, u, outcome) /\ outcome \in {"done", "failed"}
    BY <1>1, <1>2 DEF ViewerInv, Settles
  <2>2. /\ ResolverInv' /\ OnlyChange(s, u, outcome)
        /\ \A t \in Sessions : NoLostWakeup(t) => NoLostWakeup(t)'
    BY <2>1, SettlesKeeps
  <2> QED
    BY <2>2 DEF OnlyChange
<1>4. IF "environment" \in shown /\ attached /\ envSource = Source(u)
      THEN environment' = Picture(s, u) /\ currentEnv' = Picture(s, u)
      ELSE UNCHANGED <<environment, currentEnv>>
  BY <1>1 DEF TextureSettles, ShowEnvironment
<1>5. promise[s][u] = "pending"
  BY <1>2 DEF Running
<1>6. Pristine'
  BY <1>2, <1>3, <1>5 DEF ViewerInv, Pristine
<1>7. SessionInv'
  BY <1>2 DEF ViewerInv, SessionInv, SessionIsShown
<1>8. WakesUp'
  <2> SUFFICES ASSUME NEW t \in Sessions, session = t PROVE WakesUp'
    BY <1>2, OpenIsSession DEF ViewerInv, WakesUp
  <2> QED
    BY <1>2, <1>3 DEF ViewerInv, WakesUp, Sessions
<1>9. Alight'
  <2>1. CASE "environment" \in shown /\ attached /\ envSource = Source(u)
    <3>1. session # 0
      BY <1>2, <2>1, SourceIsUid DEF ViewerInv, LightInv, Awaited
    <3> QED
      BY <1>2, <1>4, <2>1, <3>1 DEF Alight
  <2>2. CASE ~("environment" \in shown /\ attached /\ envSource = Source(u))
    BY <1>2, <1>4, <2>2 DEF ViewerInv, LightInv, Alight
  <2> QED
    BY <2>1, <2>2
<1>12. AskedFor'
  <2>1. CASE "environment" \in shown /\ attached /\ envSource = Source(u)
    <3> SUFFICES ASSUME NEW t \in Sessions, session = t
                 PROVE  environment'.uid = u /\ promise'[t][u] # "none"
      BY <1>2 DEF AskedFor
    <3>1. promise[t][u] # "none"
      BY <1>2, <2>1 DEF ViewerInv, LightInv, Awaited
    <3>2. u \in Uids
      BY <1>2 DEF Uids
    <3> QED
      BY <1>3, <1>4, <2>1, <3>1, <3>2 DEF Picture
  <2>2. CASE ~("environment" \in shown /\ attached /\ envSource = Source(u))
    <3>1. \A t \in Sessions, v \in Textures : promise[t][v] # "none" => promise'[t][v] # "none"
      BY <1>3 DEF Uids
    <3> QED
      BY <1>2, <1>4, <2>2, <3>1, StillAsked DEF ViewerInv, LightInv
  <2> QED
    BY <2>1, <2>2
<1>10. Awaited'
  <2>1. /\ envSource' = NoSource \/ \E v \in Textures : envSource' = Source(v)
        /\ envSource' # NoSource => session' # 0 /\ attached'
    BY <1>2 DEF ViewerInv, LightInv, Awaited
  <2>2. ASSUME NEW t \in Sessions, NEW v \in Textures, session' = t, envSource' = Source(v)
        PROVE  /\ promise'[t][v] # "none"
               /\ promise'[t][v] = "pending" => Waits(t, v, "environment") \in thens'
    <3>1. /\ promise[t][v] # "none" /\ v \in Uids
          /\ promise[t][v] = "pending" => Waits(t, v, "environment") \in thens
      BY <1>2, <2>2 DEF ViewerInv, LightInv, Awaited, Uids
    <3>2. CASE t = s /\ v = u
      BY <1>3, <3>1, <3>2
    <3>3. CASE ~(t = s /\ v = u)
      <4>1. Waits(t, v, "environment") \notin waiting
        BY <3>3 DEF Waits
      <4> QED
        BY <1>2, <1>3, <3>1, <3>3, <4>1
    <3> QED
      BY <3>2, <3>3
  <2> QED
    BY <2>1, <2>2 DEF Awaited
<1>11. Lit'
  <2> SUFFICES ASSUME NEW t \in Sessions, NEW v \in Textures,
                      session' = t, envSource' = Source(v), environment' # Empty,
                      promise'[t][v] = "done"
               PROVE  environment'.uid = v
    BY DEF Lit
  <2>1. session = t /\ envSource = Source(v) /\ v \in Uids
    BY <1>2 DEF Uids
  <2>2. CASE "environment" \in shown /\ attached /\ envSource = Source(u)
    <3>1. u = v /\ Picture(s, u).uid = u
      BY <1>2, <2>1, <2>2, SourceIsUid DEF Picture
    <3> QED
      BY <1>4, <2>2, <3>1
  <2>3. CASE ~("environment" \in shown /\ attached /\ envSource = Source(u))
    <3>1. environment' = environment
      BY <1>4, <2>3
    <3>2. promise[t][v] = "done"
      <4> SUFFICES ASSUME t = s, v = u PROVE FALSE
        BY <1>3, <2>1
      <4>1. Waits(s, u, "environment") \in thens /\ attached
        BY <1>5, <2>1, SourceIsUid DEF ViewerInv, LightInv, Awaited
      <4>2. Waits(s, u, "environment") \in waiting /\ Waits(s, u, "environment").use = "environment"
        BY <4>1 DEF Waits
      <4>3. outcome = "done"
        BY <1>3, <2>1
      <4>4. "environment" \in shown
        BY <4>2, <4>3
      <4> QED
        BY <2>1, <2>3, <4>1, <4>4
    <3> QED
      BY <2>1, <3>1, <3>2 DEF ViewerInv, LightInv, Lit
  <2> QED
    BY <2>2, <2>3
<1> QED
  BY <1>3, <1>6, <1>7, <1>8, <1>9, <1>10, <1>11, <1>12 DEF ViewerInv, LightInv

LEMMA BuildsKeeps ==
    ASSUME ViewerInv, NEW s \in Sessions, NEW m \in Uids, Builds(s, m)
    PROVE  ViewerInv'
<1>1. /\ m \in Materials /\ Running(s, m)
      /\ promise' = [promise EXCEPT ![s][m] = "done"]
      /\ UNCHANGED <<cache, waiters, runs>> /\ UNCHANGED viewerVars
  BY DEF Builds, Built
<1>2. /\ ResolverInv'
      /\ \A t \in Sessions, v \in Uids :
            promise'[t][v] = IF t = s /\ v = m THEN "done" ELSE promise[t][v]
      /\ \A t \in Sessions : NoLostWakeup(t) => NoLostWakeup(t)'
  <2>1. ResolverInv /\ Settles(s, m, "done")
    BY <1>1 DEF ViewerInv, Settles
  <2>2. /\ ResolverInv' /\ OnlyChange(s, m, "done")
        /\ \A t \in Sessions : NoLostWakeup(t) => NoLostWakeup(t)'
    BY <2>1, SettlesKeeps
  <2> QED
    BY <2>2 DEF OnlyChange
<1>3. \A t \in Sessions, v \in Textures : promise'[t][v] = promise[t][v]
  BY <1>1, <1>2 DEF Uids
<1>4. Pristine'
  BY <1>1, <1>2 DEF ViewerInv, Pristine, Running, viewerVars
<1>5. SessionInv' /\ Alight'
  BY <1>1 DEF ViewerInv, SessionInv, SessionIsShown, LightInv, Alight, viewerVars
<1>6. WakesUp'
  <2> SUFFICES ASSUME NEW t \in Sessions, session = t PROVE WakesUp'
    BY <1>1, OpenIsSession DEF ViewerInv, WakesUp, viewerVars
  <2> QED
    BY <1>1, <1>2 DEF ViewerInv, WakesUp, Sessions, viewerVars
<1>7. Awaited' /\ Lit' /\ AskedFor'
  BY <1>1, <1>3 DEF ViewerInv, LightInv, Awaited, Lit, AskedFor, viewerVars
<1> QED
  BY <1>2, <1>4, <1>5, <1>6, <1>7 DEF ViewerInv, LightInv

LEMMA ViewerStep == ASSUME ViewerInv, [Next]_vars PROVE ViewerInv'
<1>1. CASE Connect \/ ConnectedCallback
  BY <1>1, OpensKeeps
<1>2. CASE DisconnectedCallback \/ DisconnectClient
  BY <1>2, EndsKeeps
<1>3. CASE SetupNoLighting \/ \E shown \in {Colour, Empty} : SetupPlain(shown)
  BY <1>3, PlainKeeps
<1>4. CASE \E u \in Textures : SetupTexture(u) \/ SetupLighting(u)
  BY <1>4, TextureKeeps, LightingKeeps
<1>5. CASE Geometry
  BY <1>5, GeometryKeeps
<1>6. CASE \E s \in Sessions, u \in Uids : Decodes(s, u) \/ Builds(s, u)
  BY <1>6, DecodesKeeps, BuildsKeeps
<1>7. CASE UNCHANGED vars
  <2>1. UNCHANGED resolverVars /\ UNCHANGED viewerVars
    BY <1>7 DEF vars
  <2>2. ResolverInv' /\ Pristine'
    BY <2>1 DEF ViewerInv, ResolverInv, ResolverType, OnceAt, Pristine, resolverVars, viewerVars
  <2>3. SessionInv' /\ Alight'
    BY <2>1 DEF ViewerInv, SessionInv, SessionIsShown, LightInv, Alight, viewerVars
  <2>4. WakesUp'
    BY <2>1 DEF ViewerInv, WakesUp, NoLostWakeup, resolverVars, viewerVars
  <2>5. Awaited' /\ Lit' /\ AskedFor'
    BY <2>1 DEF ViewerInv, LightInv, Awaited, Lit, AskedFor, resolverVars, viewerVars
  <2> QED
    BY <2>2, <2>3, <2>4, <2>5 DEF ViewerInv, LightInv
<1> QED
  BY <1>1, <1>2, <1>3, <1>4, <1>5, <1>6, <1>7 DEF Next

LEMMA ViewerStarts == Init => ViewerInv
<1> SUFFICES ASSUME Init PROVE ViewerInv
  OBVIOUS
<1>1. ResolverInv
  BY DEF Init, ResolverInit, ResolverInv, ResolverType, OnceAt, Status
<1>2. Pristine
  BY DEF Init, ResolverInit, Pristine
<1>3. SessionInv
  BY DEF Init, SessionInv, SessionIsShown
<1>4. WakesUp /\ Alight /\ AskedFor
  BY DEF Init, WakesUp, Alight, AskedFor
<1>5. Awaited /\ Lit
  BY SourceIsUid DEF Init, Awaited, Lit
<1> QED
  BY <1>1, <1>2, <1>3, <1>4, <1>5 DEF ViewerInv, LightInv

LEMMA Always == Spec => []ViewerInv
BY ViewerStarts, ViewerStep, PTL DEF Spec

----------------------------------------------------------------------------

(* Whoever asks for a resource of the open session before or after its payload comes
   is answered: no callback of whenAvailable() is dropped or left (cache.ts:62 and 144). *)
THEOREM WakesCorrect == Spec => []WakesUp
<1>1. ViewerInv => WakesUp
  BY DEF ViewerInv
<1> QED
  BY <1>1, Always, PTL

(* One decode or build for each uid, in whatever order requests and payloads of a
   session come (resources.ts:3). *)
THEOREM OnceCorrect == Spec => []ResolvedOnce
<1>1. ViewerInv => ResolvedOnce
  BY DEF ViewerInv, ResolverInv, OnceAt, ResolvedOnce
<1> QED
  BY <1>1, Always, PTL

(* Textures that resolve out of order leave the one asked for last in the light
   (component.ts:310-315). *)
THEOREM NewestCorrect == Spec => []NewestLights
BY LitIsNewest, Always, PTL

(* The light is the one that is disposed of later, by a texture that the session that
   is open has asked for (component.ts:309-331). *)
THEOREM LiveCorrect == Spec => []EnvironmentIsLive
<1>1. ViewerInv => EnvironmentIsLive
  <2> SUFFICES ASSUME ViewerInv, attached, environment # Empty
               PROVE  /\ session # 0
                      /\ environment = currentEnv
                      /\ promise[session][environment.uid] # "none"
    BY DEF EnvironmentIsLive
  <2>1. session # 0 /\ environment = currentEnv
    BY DEF ViewerInv, LightInv, Alight
  <2>2. session \in Sessions
    BY <2>1, OpenIsSession DEF ViewerInv
  <2> QED
    BY <2>1, <2>2 DEF ViewerInv, LightInv, AskedFor
<1> QED
  BY <1>1, Always, PTL

(* The session of an element in the document is in the scene that is rendered, through
   whatever moves of the element and reconnections. *)
THEOREM ShownCorrect == Spec => []SessionIsShown
<1>1. ViewerInv => SessionIsShown
  BY DEF ViewerInv, SessionInv
<1> QED
  BY <1>1, Always, PTL

----------------------------------------------------------------------------
(* Viewer implements Rendezvous, for each session and resource.            *)

(* What a call that turns the record r into q does to the resource u. *)
Stays(r, q, u) ==
    q.promise[u] = r.promise[u] /\ q.runs[u] = r.runs[u] /\ (u \in q.cache <=> u \in r.cache)

Asked(r, q, u) ==
    /\ r.promise[u] = "none" /\ q.promise[u] = "pending"
    /\ q.runs[u] = IF u \in r.cache THEN 1 ELSE 0
    /\ u \in q.cache <=> u \in r.cache

Arrived(r, q, u) ==
    /\ u \in q.cache
    /\ q.promise[u] = r.promise[u]
    /\ q.runs[u] = IF r.promise[u] = "pending" THEN 1 ELSE r.runs[u]

AsksOnly(r, q, us) == \A u \in us : Stays(r, q, u) \/ Asked(r, q, u)

MeetsAll(r, q) == \A u \in Uids : Stays(r, q, u) \/ Asked(r, q, u) \/ Arrived(r, q, u)

\* What has settled was decoded or built.
Begun(r) == \A u \in Uids : r.promise[u] \in {"done", "failed"} => r.runs[u] = 1

LEMMA ResolveTexturesMeets ==
    ASSUME NEW r \in Resolvers, NEW us \in SUBSET Uids, Once(r)
    PROVE  /\ AsksOnly(r, ResolveTextures(r, us), Uids)
           /\ \A u \in Uids \ us : Stays(r, ResolveTextures(r, us), u)
           /\ ResolveTextures(r, us).cache = r.cache
<1> DEFINE q == ResolveTextures(r, us)
<1>1. /\ q.cache = r.cache
      /\ \A u \in Uids :
            IF u \in us /\ r.promise[u] = "none"
            THEN /\ q.promise[u] = "pending"
                 /\ IF u \in r.cache
                    THEN q.runs[u] = r.runs[u] + 1 /\ q.waiters[u] = r.waiters[u]
                    ELSE q.runs[u] = r.runs[u] /\ q.waiters[u] = r.waiters[u] + 1
            ELSE q.promise[u] = r.promise[u] /\ q.runs[u] = r.runs[u] /\ q.waiters[u] = r.waiters[u]
  BY ResolveTexturesFields
<1> HIDE DEF q
<1>2. ASSUME NEW u \in Uids PROVE Stays(r, q, u) \/ (u \in us /\ Asked(r, q, u))
  <2>1. CASE u \in us /\ r.promise[u] = "none"
    <3>1. r.runs[u] = 0
      BY <2>1 DEF Once
    <3> QED
      BY <1>1, <2>1, <3>1 DEF Asked
  <2>2. CASE ~(u \in us /\ r.promise[u] = "none")
    BY <1>1, <2>2 DEF Stays
  <2> QED
    BY <2>1, <2>2
<1> QED
  BY <1>1, <1>2 DEF AsksOnly, q

LEMMA StartBuildMeets ==
    ASSUME NEW r \in Resolvers, NEW m \in Materials, Once(r), r.promise[m] # "none", r.runs[m] = 0
    PROVE  /\ AsksOnly(r, StartBuild(r, m), Uids \ {m})
           /\ StartBuild(r, m).promise[m] = r.promise[m]
           /\ StartBuild(r, m).runs[m] = 1
           /\ StartBuild(r, m).cache = r.cache
<1> DEFINE p == [r EXCEPT !.runs = Plus(@, {m})]
           q == StartBuild(r, m)
<1>1. /\ p \in Resolvers /\ p.cache = r.cache /\ p.waiters = r.waiters /\ p.promise = r.promise
      /\ \A u \in Uids : p.runs[u] = IF u = m THEN 1 ELSE r.runs[u]
  BY DEF Resolvers, Plus, Uids
<1>2. /\ TexturesOf[m] \in SUBSET Uids /\ m \in Uids /\ m \notin TexturesOf[m]
      /\ q = ResolveTextures(p, TexturesOf[m])
  <2>1. TexturesOf[m] \in SUBSET Textures /\ m \notin Textures
    OBVIOUS
  <2> QED
    BY <2>1 DEF StartBuild, Uids
<1> HIDE DEF p, q
<1>3. AsksOnly(p, q, Uids \ {m}) /\ Stays(p, q, m) /\ q.cache = p.cache
  <2>1. p.runs[m] = 1 /\ p.promise[m] # "none"
    BY <1>1, <1>2
  <2>2. \A u \in Uids :
           IF u \in TexturesOf[m] /\ p.promise[u] = "none"
           THEN /\ q.promise[u] = "pending"
                /\ IF u \in p.cache
                   THEN q.runs[u] = p.runs[u] + 1 /\ q.waiters[u] = p.waiters[u]
                   ELSE q.runs[u] = p.runs[u] /\ q.waiters[u] = p.waiters[u] + 1
           ELSE q.promise[u] = p.promise[u] /\ q.runs[u] = p.runs[u] /\ q.waiters[u] = p.waiters[u]
    BY <1>1, <1>2, ResolveTexturesFields
  <2>3. q.cache = p.cache
    BY <1>1, <1>2, ResolveTexturesFields
  <2>4. ASSUME NEW u \in Uids \ {m} PROVE Stays(p, q, u) \/ Asked(p, q, u)
    <3>1. CASE u \in TexturesOf[m] /\ p.promise[u] = "none"
      <4>1. p.runs[u] = 0
        BY <1>1, <3>1, <2>4 DEF Once
      <4> QED
        BY <2>2, <2>3, <3>1, <4>1 DEF Asked
    <3>2. CASE ~(u \in TexturesOf[m] /\ p.promise[u] = "none")
      BY <2>2, <2>3, <3>2 DEF Stays
    <3> QED
      BY <3>1, <3>2
  <2>5. Stays(p, q, m)
    BY <1>2, <2>2, <2>3 DEF Stays
  <2> QED
    BY <2>3, <2>4, <2>5 DEF AsksOnly
<1> QED
  BY <1>1, <1>2, <1>3 DEF AsksOnly, Stays, Asked, q

LEMMA ResolveMaterialMeets ==
    ASSUME NEW r \in Resolvers, NEW m \in Materials, Once(r)
    PROVE  MeetsAll(r, ResolveMaterial(r, m))
<1> DEFINE asked == [r EXCEPT !.promise[m] = "pending"]
           queued == [asked EXCEPT !.waiters = Plus(@, {m})]
           q == ResolveMaterial(r, m)
<1>0. m \in Uids
  BY DEF Uids
<1>1. CASE r.promise[m] # "none"
  <2>1. q = r
    BY <1>1 DEF ResolveMaterial
  <2> QED
    BY <2>1 DEF MeetsAll, Stays
<1>2. CASE r.promise[m] = "none"
  <2>1. /\ asked \in Resolvers /\ asked.cache = r.cache
        /\ asked.runs = r.runs /\ asked.waiters = r.waiters
        /\ \A u \in Uids : asked.promise[u] = IF u = m THEN "pending" ELSE r.promise[u]
    BY <1>0 DEF Resolvers, Status
  <2>2. r.runs[m] = 0 /\ r.waiters[m] = 0
    BY <1>0, <1>2 DEF Once
  <2>3. q = IF m \in r.cache THEN StartBuild(asked, m) ELSE queued
    BY <1>2 DEF ResolveMaterial
  <2>4. queued.cache = asked.cache /\ queued.runs = asked.runs /\ queued.promise = asked.promise
    <3> HIDE DEF asked
    <3> QED
      BY <2>1 DEF Resolvers
  <2> HIDE DEF asked, queued, q
  <2>5. Once(asked) /\ asked.promise[m] # "none" /\ asked.runs[m] = 0
    BY <1>0, <2>1, <2>2 DEF Once
  <2>6. CASE m \in r.cache
    <3>1. /\ AsksOnly(asked, q, Uids \ {m})
          /\ q.promise[m] = "pending" /\ q.runs[m] = 1 /\ q.cache = r.cache
      BY <1>0, <2>1, <2>3, <2>5, <2>6, StartBuildMeets
    <3>2. Asked(r, q, m)
      BY <1>2, <2>6, <3>1 DEF Asked
    <3>3. ASSUME NEW u \in Uids \ {m} PROVE Stays(r, q, u) \/ Asked(r, q, u)
      BY <2>1, <3>1 DEF AsksOnly, Stays, Asked
    <3> QED
      BY <3>2, <3>3 DEF MeetsAll, q
  <2>7. CASE m \notin r.cache
    <3>1. Asked(r, q, m)
      BY <1>0, <1>2, <2>1, <2>2, <2>3, <2>4, <2>7 DEF Asked
    <3>2. ASSUME NEW u \in Uids \ {m} PROVE Stays(r, q, u)
      BY <2>1, <2>3, <2>4, <2>7 DEF Stays
    <3> QED
      BY <3>1, <3>2 DEF MeetsAll, q
  <2> QED
    BY <2>6, <2>7
<1> QED
  BY <1>1, <1>2

LEMMA PutPayloadMeets ==
    ASSUME NEW r \in Resolvers, NEW u \in Uids, Once(r), Awake(r), Begun(r)
    PROVE  MeetsAll(r, PutPayload(r, u))
<1> DEFINE flushed == [r EXCEPT !.cache = @ \cup {u}, !.waiters[u] = 0]
           run == [flushed EXCEPT !.runs[u] = @ + r.waiters[u]]
           q == PutPayload(r, u)
<1>1. /\ flushed.cache = r.cache \cup {u}
      /\ flushed.runs = r.runs /\ flushed.promise = r.promise
      /\ flushed.waiters \in [Uids -> Nat]
      /\ \A v \in Uids : flushed.waiters[v] = IF v = u THEN 0 ELSE r.waiters[v]
  BY DEF Resolvers
<1>2. flushed \in Resolvers
  <2> DEFINE a == [r EXCEPT !.cache = r.cache \cup {u}]
             b == [a EXCEPT !.waiters = flushed.waiters]
  <2> HIDE DEF flushed
  <2>1. a \in Resolvers
    BY DEF Resolvers
  <2>2. b \in Resolvers
    BY <1>1, <2>1 DEF Resolvers
  <2>3. flushed = b
    BY DEF flushed, Resolvers
  <2> QED
    BY <2>2, <2>3
<1>3. q = IF r.waiters[u] = 0 THEN flushed
          ELSE IF u \in Materials THEN StartBuild(flushed, u) ELSE run
  BY DEF PutPayload
<1>4. /\ run.cache = flushed.cache /\ run.promise = flushed.promise
      /\ \A v \in Uids : run.runs[v] = IF v = u THEN flushed.runs[v] + r.waiters[u] ELSE flushed.runs[v]
  <2> HIDE DEF flushed
  <2> QED
    BY <1>2 DEF Resolvers
<1> HIDE DEF flushed, run, q
<1>5. Once(flushed)
  BY <1>1 DEF Once, Resolvers
<1>6. CASE r.waiters[u] = 0
  <2>1. r.promise[u] = "pending" => r.runs[u] = 1
    BY <1>6 DEF Awake, Once, Resolvers
  <2>2. Arrived(r, q, u)
    BY <1>1, <1>3, <1>6, <2>1 DEF Arrived
  <2>3. ASSUME NEW v \in Uids \ {u} PROVE Stays(r, q, v)
    BY <1>1, <1>3, <1>6 DEF Stays
  <2> QED
    BY <2>2, <2>3 DEF MeetsAll, q
<1>7. CASE r.waiters[u] # 0
  <2>1. r.waiters[u] = 1 /\ r.runs[u] = 0 /\ r.promise[u] = "pending"
    BY <1>7 DEF Once, Begun, Resolvers, Status
  <2>2. CASE u \in Materials
    <3>1. flushed.promise[u] # "none" /\ flushed.runs[u] = 0
      BY <1>1, <2>1
    <3>2. /\ AsksOnly(flushed, q, Uids \ {u})
          /\ q.promise[u] = flushed.promise[u] /\ q.runs[u] = 1 /\ q.cache = flushed.cache
      BY <1>2, <1>3, <1>5, <1>7, <2>2, <3>1, StartBuildMeets
    <3>3. Arrived(r, q, u)
      BY <1>1, <2>1, <3>2 DEF Arrived
    <3>4. ASSUME NEW v \in Uids \ {u} PROVE Stays(r, q, v) \/ Asked(r, q, v)
      BY <1>1, <3>2 DEF AsksOnly, Stays, Asked
    <3> QED
      BY <3>3, <3>4 DEF MeetsAll, q
  <2>3. CASE u \notin Materials
    <3>1. Arrived(r, q, u)
      BY <1>1, <1>3, <1>4, <1>7, <2>1, <2>3 DEF Arrived
    <3>2. ASSUME NEW v \in Uids \ {u} PROVE Stays(r, q, v)
      BY <1>1, <1>3, <1>4, <1>7, <2>3 DEF Stays
    <3> QED
      BY <3>1, <3>2 DEF MeetsAll, q
  <2> QED
    BY <2>2, <2>3
<1> QED
  BY <1>6, <1>7

(* The same of the tables. *)
StaysAt(s, u) ==
    /\ promise'[s][u] = promise[s][u] /\ runs'[s][u] = runs[s][u]
    /\ u \in cache'[s] <=> u \in cache[s]

AskedAt(s, u) ==
    /\ promise[s][u] = "none" /\ promise'[s][u] = "pending"
    /\ runs'[s][u] = IF u \in cache[s] THEN 1 ELSE 0
    /\ u \in cache'[s] <=> u \in cache[s]

ArrivedAt(s, u) ==
    /\ u \in cache'[s]
    /\ promise'[s][u] = promise[s][u]
    /\ runs'[s][u] = IF promise[s][u] = "pending" THEN 1 ELSE runs[s][u]

SettledAt(s, u) ==
    /\ promise[s][u] = "pending" /\ runs[s][u] = 1
    /\ promise'[s][u] \in {"done", "failed"} /\ runs'[s][u] = runs[s][u]
    /\ u \in cache'[s] <=> u \in cache[s]

ClearedAt(s, u) ==
    promise'[s][u] = promise[s][u] /\ runs'[s][u] = runs[s][u] /\ u \notin cache'[s]

CallMeets(s) ==
    \A t \in Sessions, u \in Uids :
        StaysAt(t, u) \/ (t = s /\ (AskedAt(t, u) \/ ArrivedAt(t, u)))

\* What has settled was decoded or built, in every session.
AllBegun ==
    \A s \in Sessions, u \in Uids : promise[s][u] \in {"done", "failed"} => runs[s][u] = 1

LEMMA BecomesMeets ==
    ASSUME ResolverInv, NEW s \in Sessions, NEW r \in Resolvers,
           MeetsAll(Now(s), r), Becomes(s, r)
    PROVE  CallMeets(s)
<1>1. /\ cache'[s] = r.cache /\ promise'[s] = r.promise /\ runs'[s] = r.runs
      /\ Now(s).cache = cache[s] /\ Now(s).promise = promise[s] /\ Now(s).runs = runs[s]
  BY DEF Becomes, ResolverInv, ResolverType, Now
<1>2. \A t \in Sessions \ {s} :
         cache'[t] = cache[t] /\ promise'[t] = promise[t] /\ runs'[t] = runs[t]
  BY DEF Becomes, ResolverInv, ResolverType
<1>3. ASSUME NEW u \in Uids PROVE StaysAt(s, u) \/ AskedAt(s, u) \/ ArrivedAt(s, u)
  BY <1>1 DEF MeetsAll, Stays, Asked, Arrived, StaysAt, AskedAt, ArrivedAt
<1>4. ASSUME NEW t \in Sessions \ {s}, NEW u \in Uids PROVE StaysAt(t, u)
  BY <1>2 DEF StaysAt
<1> QED
  BY <1>3, <1>4 DEF CallMeets

\* A call of the session that is open meets, and so do the two ends of its life.
LEMMA CallsMeet ==
    ASSUME ResolverInv, AllBegun, NEW s \in Sessions, NoLostWakeup(s),
           \/ \E u \in Textures : Becomes(s, ResolveTextures(Now(s), {u}))
           \/ \E m \in Materials : AskFor(s, m)
           \/ \E u \in Uids : Arrives(s, u)
    PROVE  CallMeets(s)
<1>1. Now(s) \in Resolvers /\ Once(Now(s)) /\ Awake(Now(s))
  BY NowOk
<1>2. Begun(Now(s))
  BY DEF AllBegun, Begun, Now
<1>3. ASSUME NEW u \in Textures, Becomes(s, ResolveTextures(Now(s), {u})) PROVE CallMeets(s)
  <2>1. {u} \in SUBSET Uids
    BY DEF Uids
  <2>2. ResolveTextures(Now(s), {u}) \in Resolvers
    BY <1>1, <2>1, ResolveTexturesFields
  <2>3. MeetsAll(Now(s), ResolveTextures(Now(s), {u}))
    BY <1>1, <2>1, ResolveTexturesMeets DEF AsksOnly, MeetsAll
  <2> QED
    BY <1>3, <2>2, <2>3, BecomesMeets
<1>4. ASSUME NEW m \in Materials, AskFor(s, m) PROVE CallMeets(s)
  <2>1. ResolveMaterial(Now(s), m) \in Resolvers /\ MeetsAll(Now(s), ResolveMaterial(Now(s), m))
    BY <1>1, ResolveMaterialKeeps, ResolveMaterialMeets
  <2>2. Becomes(s, ResolveMaterial(Now(s), m))
    BY <1>4 DEF AskFor
  <2> QED
    BY <2>1, <2>2, BecomesMeets
<1>5. ASSUME NEW u \in Uids, Arrives(s, u) PROVE CallMeets(s)
  <2>1. PutPayload(Now(s), u) \in Resolvers /\ MeetsAll(Now(s), PutPayload(Now(s), u))
    BY <1>1, <1>2, PutPayloadKeeps, PutPayloadMeets
  <2>2. Becomes(s, PutPayload(Now(s), u))
    BY <1>5 DEF Arrives
  <2> QED
    BY <2>1, <2>2, BecomesMeets
<1> QED
  BY <1>3, <1>4, <1>5

\* What may happen to a resource in one step of the element.
Happens(s, u) ==
    \/ StaysAt(s, u) /\ Life(s)' = Life(s)
    \/ StaysAt(s, u) /\ Life(s) = "new" /\ Life(s)' = "open"
    \/ AskedAt(s, u) /\ Life(s) = "open" /\ Life(s)' = "open"
    \/ ArrivedAt(s, u) /\ Life(s) = "open" /\ Life(s)' = "open"
    \/ SettledAt(s, u) /\ Life(s)' = Life(s)
    \/ ClearedAt(s, u) /\ Life(s) = "open" /\ Life(s)' = "closed"

LEMMA HappensIsStep ==
    ASSUME NEW s \in Sessions, NEW u \in Uids, Happens(s, u)
    PROVE  [Meeting(s, u)!Next]_(Meeting(s, u)!vars)
<1>1. CASE StaysAt(s, u) /\ Life(s)' = Life(s)
  BY <1>1 DEF StaysAt, Meeting!vars
<1>2. CASE StaysAt(s, u) /\ Life(s) = "new" /\ Life(s)' = "open"
  BY <1>2 DEF StaysAt, Meeting!Next, Meeting!Open
<1>3. CASE AskedAt(s, u) /\ Life(s) = "open" /\ Life(s)' = "open"
  BY <1>3 DEF AskedAt, Meeting!Next, Meeting!Ask
<1>4. CASE ArrivedAt(s, u) /\ Life(s) = "open" /\ Life(s)' = "open"
  BY <1>4 DEF ArrivedAt, Meeting!Next, Meeting!Arrive
<1>5. CASE SettledAt(s, u) /\ Life(s)' = Life(s)
  BY <1>5 DEF SettledAt, Meeting!Next, Meeting!Settle
<1>6. CASE ClearedAt(s, u) /\ Life(s) = "open" /\ Life(s)' = "closed"
  BY <1>6 DEF ClearedAt, Meeting!Next, Meeting!Close
<1> QED
  BY <1>1, <1>2, <1>3, <1>4, <1>5, <1>6 DEF Happens

LEMMA HappensKeepsBegun ==
    ASSUME AllBegun, \A s \in Sessions, u \in Uids : Happens(s, u)
    PROVE  AllBegun'
<1> SUFFICES ASSUME NEW s \in Sessions, NEW u \in Uids, promise'[s][u] \in {"done", "failed"}
             PROVE  runs'[s][u] = 1
  BY DEF AllBegun
<1>1. CASE promise'[s][u] = promise[s][u]
  BY <1>1 DEF AllBegun, Happens, StaysAt, AskedAt, ArrivedAt, SettledAt, ClearedAt
<1>2. CASE promise'[s][u] # promise[s][u]
  BY <1>2 DEF Happens, StaysAt, AskedAt, ArrivedAt, SettledAt, ClearedAt
<1> QED
  BY <1>1, <1>2

Everywhere == \A s \in Sessions, u \in Uids : Happens(s, u)

LEMMA LifeStays ==
    ASSUME UNCHANGED <<session, opened>>, NEW s \in Sessions PROVE Life(s)' = Life(s)
BY DEF Life

LEMMA NothingHappens ==
    ASSUME UNCHANGED <<cache, promise, runs, session, opened>> PROVE Everywhere
<1> SUFFICES ASSUME NEW s \in Sessions, NEW u \in Uids PROVE Happens(s, u)
  BY DEF Everywhere
<1> QED
  BY LifeStays DEF Happens, StaysAt

LEMMA CallHappens ==
    ASSUME SessionInv, NEW s \in Sessions, session = s, CallMeets(s), UNCHANGED <<session, opened>>
    PROVE  Everywhere
<1> SUFFICES ASSUME NEW t \in Sessions, NEW u \in Uids PROVE Happens(t, u)
  BY DEF Everywhere
<1>1. Life(t)' = Life(t)
  BY LifeStays
<1>2. Life(s) = "open"
  BY DEF Life, SessionInv, Sessions
<1> QED
  BY <1>1, <1>2 DEF CallMeets, Happens

LEMMA OpensHappens == ASSUME ViewerInv, Connect \/ ConnectedCallback PROVE Everywhere
<1>1. UNCHANGED <<cache, promise, runs>>
  BY DEF Connect, ConnectedCallback, resolverVars
<1>2. CASE UNCHANGED <<session, opened>>
  BY <1>1, <1>2, NothingHappens
<1>3. CASE session = 0 /\ session' = opened + 1 /\ opened' = opened + 1
  <2> SUFFICES ASSUME NEW s \in Sessions, NEW u \in Uids PROVE Happens(s, u)
    BY DEF Everywhere
  <2>1. s \in Nat \ {0} /\ opened \in Nat
    BY DEF Sessions, ViewerInv, SessionInv
  <2>2. Life(s)' = Life(s) \/ (Life(s) = "new" /\ Life(s)' = "open")
    BY <1>3, <2>1 DEF Life
  <2>3. StaysAt(s, u)
    BY <1>1 DEF StaysAt
  <2> QED
    BY <2>2, <2>3 DEF Happens
<1> QED
  BY <1>2, <1>3 DEF Connect, ConnectedCallback, NewSession

LEMMA EndsHappens == ASSUME ViewerInv, DisconnectedCallback \/ DisconnectClient PROVE Everywhere
<1>1. /\ session' = 0 /\ opened' = opened
      /\ IF session = 0 THEN UNCHANGED resolverVars ELSE Closed(session)
  BY DEF DisconnectedCallback, DisconnectClient, CloseClient
<1>2. CASE session = 0
  BY <1>1, <1>2, NothingHappens DEF resolverVars
<1>3. CASE session # 0
  <2>1. PICK s \in Sessions : session = s
    BY <1>3, OpenIsSession DEF ViewerInv
  <2>2. Becomes(s, ClearCache(Now(s))) /\ ResolverType
    BY <1>1, <1>3, <2>1 DEF Closed, ViewerInv, ResolverInv
  <2>3. /\ ClearCache(Now(s)).cache = {} /\ ClearCache(Now(s)).promise = promise[s]
        /\ ClearCache(Now(s)).runs = runs[s]
    BY DEF ClearCache, Now
  <2>4. cache'[s] = {} /\ promise'[s] = promise[s] /\ runs'[s] = runs[s]
    BY <2>2, <2>3 DEF Becomes, ResolverType
  <2>5. \A t \in Sessions \ {s} :
           cache'[t] = cache[t] /\ promise'[t] = promise[t] /\ runs'[t] = runs[t]
    BY <2>2 DEF Becomes, ResolverType
  <2>6. s <= opened /\ s # 0 /\ opened \in Nat /\ s \in Nat
    BY <2>1 DEF ViewerInv, SessionInv, Sessions
  <2>7. ASSUME NEW u \in Uids PROVE Happens(s, u)
    <3>1. ClearedAt(s, u)
      BY <2>4 DEF ClearedAt
    <3>2. Life(s) = "open" /\ Life(s)' = "closed"
      BY <1>1, <2>1, <2>6 DEF Life
    <3> QED
      BY <3>1, <3>2 DEF Happens
  <2>8. ASSUME NEW t \in Sessions \ {s}, NEW u \in Uids PROVE Happens(t, u)
    <3>1. StaysAt(t, u)
      BY <2>5 DEF StaysAt
    <3>2. Life(t)' = Life(t)
      BY <1>1, <2>1 DEF Life, Sessions
    <3> QED
      BY <3>1, <3>2 DEF Happens
  <2> QED
    BY <2>7, <2>8 DEF Everywhere
<1> QED
  BY <1>2, <1>3

LEMMA CommandHappens ==
    ASSUME ViewerInv, AllBegun,
           Geometry \/ \E u \in Textures : SetupTexture(u) \/ SetupLighting(u)
    PROVE  Everywhere
<1>1. session # 0 /\ UNCHANGED <<session, opened>>
  BY DEF Geometry, viewerVars, SetupTexture, SetupLighting, Commanded
<1>2. PICK s \in Sessions : session = s
  BY <1>1, OpenIsSession DEF ViewerInv
<1>3. NoLostWakeup(s) /\ ResolverInv /\ SessionInv
  BY <1>1, <1>2 DEF ViewerInv, WakesUp
<1>4. \/ \E u \in Textures : Becomes(s, ResolveTextures(Now(s), {u}))
      \/ \E m \in Materials : AskFor(s, m)
      \/ \E u \in Uids : Arrives(s, u)
      \/ UNCHANGED <<cache, promise, runs>>
  <2>1. CASE Geometry
    BY <1>2, <2>1 DEF Geometry, FetchFails
  <2>2. CASE \E u \in Textures : SetupTexture(u)
    BY <1>2, <2>2 DEF SetupTexture, ResolveThen, resolverVars
  <2>3. CASE \E u \in Textures : SetupLighting(u)
    BY <1>2, <2>3 DEF SetupLighting, ResolveThen
  <2> QED
    BY <2>1, <2>2, <2>3
<1>5. CASE UNCHANGED <<cache, promise, runs>>
  BY <1>1, <1>5, NothingHappens
<1>6. CASE ~UNCHANGED <<cache, promise, runs>>
  <2>1. CallMeets(s)
    BY <1>3, <1>4, <1>6, CallsMeet
  <2> QED
    BY <1>1, <1>2, <1>3, <2>1, CallHappens
<1> QED
  BY <1>5, <1>6

LEMMA SettleHappens ==
    ASSUME ViewerInv, NEW s \in Sessions, NEW u \in Uids, Decodes(s, u) \/ Builds(s, u)
    PROVE  Everywhere
<1>1. PICK outcome \in {"done", "failed"} :
         /\ Running(s, u) /\ promise' = [promise EXCEPT ![s][u] = outcome]
         /\ UNCHANGED <<cache, runs, session, opened>>
  BY DEF Decodes, TextureSettles, Decoded, Builds, Built, viewerVars
<1>2. /\ promise'[s][u] = outcome /\ promise[s][u] = "pending" /\ runs[s][u] = 1
  <2>1. promise'[s][u] = outcome
    BY <1>1 DEF ViewerInv, ResolverInv, ResolverType
  <2>2. runs[s][u] \in Nat /\ waiters[s][u] \in Nat /\ runs[s][u] + waiters[s][u] <= 1
    BY DEF ViewerInv, ResolverInv, ResolverType, OnceAt
  <2> QED
    BY <1>1, <2>1, <2>2 DEF Running
<1>3. \A t \in Sessions, v \in Uids : (t = s /\ v = u) \/ promise'[t][v] = promise[t][v]
  BY <1>1 DEF ViewerInv, ResolverInv, ResolverType
<1> SUFFICES ASSUME NEW t \in Sessions, NEW v \in Uids PROVE Happens(t, v)
  BY DEF Everywhere
<1>4. Life(t)' = Life(t)
  BY <1>1, LifeStays
<1>5. SettledAt(s, u)
  BY <1>1, <1>2 DEF SettledAt
<1>6. (t = s /\ v = u) \/ StaysAt(t, v)
  BY <1>1, <1>3 DEF StaysAt
<1> QED
  BY <1>4, <1>5, <1>6 DEF Happens

LEMMA StepHappens == ASSUME ViewerInv, AllBegun, [Next]_vars PROVE Everywhere
<1>1. CASE Connect \/ ConnectedCallback
  BY <1>1, OpensHappens
<1>2. CASE DisconnectedCallback \/ DisconnectClient
  BY <1>2, EndsHappens
<1>3. CASE SetupNoLighting \/ \E shown \in {Colour, Empty} : SetupPlain(shown)
  BY <1>3, NothingHappens DEF SetupNoLighting, SetupPlain, Commanded, resolverVars
<1>4. CASE Geometry \/ \E u \in Textures : SetupTexture(u) \/ SetupLighting(u)
  BY <1>4, CommandHappens
<1>5. CASE \E s \in Sessions, u \in Uids : Decodes(s, u) \/ Builds(s, u)
  BY <1>5, SettleHappens
<1>6. CASE UNCHANGED vars
  BY <1>6, NothingHappens DEF vars, resolverVars, viewerVars
<1> QED
  BY <1>1, <1>2, <1>3, <1>4, <1>5, <1>6 DEF Next

LEMMA AlwaysBegun == Spec => []AllBegun
<1>1. Init => AllBegun
  BY DEF Init, ResolverInit, AllBegun
<1>2. ViewerInv /\ AllBegun /\ [Next]_vars => AllBegun'
  BY StepHappens, HappensKeepsBegun DEF Everywhere
<1> QED
  BY <1>1, <1>2, Always, PTL DEF Spec

LEMMA MeetingStarts ==
    ASSUME Init, NEW s \in Sessions, NEW u \in Uids PROVE Meeting(s, u)!Init
<1>1. Life(s) = "new"
  BY DEF Init, Life, Sessions
<1> QED
  BY <1>1 DEF Init, ResolverInit, Meeting!Init

LEMMA MeetingStep ==
    ASSUME ViewerInv, AllBegun, [Next]_vars, NEW s \in Sessions, NEW u \in Uids
    PROVE  [Meeting(s, u)!Next]_(Meeting(s, u)!vars)
BY StepHappens, HappensIsStep DEF Everywhere

(* For every session and resource the waiters of the cache and the tables of the
   resolver implement Rendezvous: one start, in the step in which the second of
   request and payload comes (resources.ts:46-88, cache.ts:62 and 144). *)
THEOREM MeetingCorrect == Spec => \A s \in Sessions, u \in Uids : Meeting(s, u)!Spec
<1>1. ASSUME NEW CONSTANT s \in Sessions, NEW CONSTANT u \in Uids PROVE Spec => Meeting(s, u)!Spec
  <2>1. Init => Meeting(s, u)!Init
    BY MeetingStarts
  <2>2. ViewerInv /\ AllBegun /\ [Next]_vars => [Meeting(s, u)!Next]_(Meeting(s, u)!vars)
    BY MeetingStep
  <2> QED
    BY <2>1, <2>2, Always, AlwaysBegun, PTL DEF Spec, Meeting!Spec
<1> QED
  BY <1>1

(* The same as one action property, which is how TLC checks it. *)
THEOREM StartsCorrect == Spec => StartsWhenMet
<1>1. Init => \A s \in Sessions, u \in Uids : Meeting(s, u)!Init
  BY MeetingStarts
<1>2. ViewerInv /\ AllBegun /\ [Next]_vars
      => [\A s \in Sessions, u \in Uids : [Meeting(s, u)!Next]_(Meeting(s, u)!vars)]_vars
  BY MeetingStep
<1> QED
  BY <1>1, <1>2, Always, AlwaysBegun, PTL DEF Spec, StartsWhenMet

----------------------------------------------------------------------------
(* The safety half of MaterialBuilt: a build waits for decoders that run, or for *)
(* payloads that have not come, and for nothing else.                            *)
OnlyPayloadsAwaited ==
    session # 0 =>
        \A m \in Materials : Running(session, m) =>
            \A u \in TexturesOf[m] :
                Settled(session, u) \/ Running(session, u) \/ u \notin cache[session]

\* Whoever builds a material has asked for all of its textures.
Named(r) ==
    \A m \in Materials : r.runs[m] > 0 => \A u \in TexturesOf[m] : r.promise[u] # "none"

AllNamed ==
    \A s \in Sessions, m \in Materials :
        runs[s][m] > 0 => \A u \in TexturesOf[m] : promise[s][u] # "none"

LEMMA UidsOf ==
    /\ \A m \in Materials : m \in Uids /\ m \notin Textures /\ TexturesOf[m] \subseteq Textures
    /\ \A u \in Textures : u \in Uids
BY DEF Uids

LEMMA ResolveTexturesNames ==
    ASSUME NEW r \in Resolvers, NEW us \in SUBSET Textures
    PROVE  /\ \A m \in Materials : ResolveTextures(r, us).runs[m] = r.runs[m]
           /\ \A u \in Uids : r.promise[u] # "none" => ResolveTextures(r, us).promise[u] # "none"
           /\ \A u \in us : ResolveTextures(r, us).promise[u] # "none"
<1> DEFINE q == ResolveTextures(r, us)
<1>1. us \in SUBSET Uids
  BY UidsOf
<1>2. \A u \in Uids :
         IF u \in us /\ r.promise[u] = "none"
         THEN q.promise[u] = "pending"
         ELSE q.promise[u] = r.promise[u] /\ q.runs[u] = r.runs[u]
  BY <1>1, ResolveTexturesFields
<1> HIDE DEF q
<1> QED
  BY <1>1, <1>2, UidsOf DEF q

LEMMA StartBuildNames ==
    ASSUME NEW r \in Resolvers, NEW m \in Materials, Named(r)
    PROVE  Named(StartBuild(r, m))
<1> DEFINE p == [r EXCEPT !.runs = Plus(@, {m})]
           q == StartBuild(r, m)
<1>1. /\ p \in Resolvers /\ p.promise = r.promise
      /\ \A u \in Uids : p.runs[u] = IF u = m THEN r.runs[u] + 1 ELSE r.runs[u]
  BY DEF Resolvers, Plus, Uids
<1>2. q = ResolveTextures(p, TexturesOf[m]) /\ TexturesOf[m] \in SUBSET Textures
  BY DEF StartBuild
<1> HIDE DEF p, q
<1>3. /\ \A n \in Materials : q.runs[n] = p.runs[n]
      /\ \A u \in Uids : p.promise[u] # "none" => q.promise[u] # "none"
      /\ \A u \in TexturesOf[m] : q.promise[u] # "none"
  BY <1>1, <1>2, ResolveTexturesNames
<1>4. ASSUME NEW n \in Materials, q.runs[n] > 0, NEW u \in TexturesOf[n]
      PROVE  q.promise[u] # "none"
  <2>1. CASE n = m
    BY <1>3, <1>4, <2>1
  <2>2. CASE n # m
    <3>1. r.runs[n] > 0
      BY <1>1, <1>3, <1>4, <2>2, UidsOf
    <3>2. r.promise[u] # "none" /\ u \in Uids
      BY <1>4, <3>1, UidsOf DEF Named
    <3> QED
      BY <1>1, <1>3, <3>2
  <2> QED
    BY <2>1, <2>2
<1> QED
  BY <1>4 DEF Named, q

LEMMA ResolveMaterialNames ==
    ASSUME NEW r \in Resolvers, NEW m \in Materials, Named(r)
    PROVE  Named(ResolveMaterial(r, m))
<1> DEFINE asked == [r EXCEPT !.promise[m] = "pending"]
           queued == [asked EXCEPT !.waiters = Plus(@, {m})]
<1>1. /\ asked \in Resolvers /\ asked.runs = r.runs
      /\ \A u \in Uids : asked.promise[u] = IF u = m THEN "pending" ELSE r.promise[u]
  BY UidsOf DEF Resolvers, Status
<1>2. queued.runs = asked.runs /\ queued.promise = asked.promise
  <2> HIDE DEF asked
  <2> QED
    BY <1>1 DEF Resolvers
<1>3. ResolveMaterial(r, m) \in {r, StartBuild(asked, m), queued}
  BY DEF ResolveMaterial
<1> HIDE DEF asked, queued
<1>4. Named(asked)
  BY <1>1, UidsOf DEF Named
<1>5. Named(queued)
  BY <1>2, <1>4 DEF Named
<1> QED
  BY <1>1, <1>3, <1>4, <1>5, StartBuildNames

LEMMA PutPayloadNames ==
    ASSUME NEW r \in Resolvers, NEW u \in Uids, Named(r)
    PROVE  Named(PutPayload(r, u))
<1> DEFINE flushed == [r EXCEPT !.cache = @ \cup {u}, !.waiters[u] = 0]
           run == [flushed EXCEPT !.runs[u] = @ + r.waiters[u]]
<1>1. flushed.runs = r.runs /\ flushed.promise = r.promise
      /\ flushed.cache \in SUBSET Uids /\ flushed.waiters \in [Uids -> Nat]
  BY DEF Resolvers
<1>2. flushed \in Resolvers
  <2> DEFINE a == [r EXCEPT !.cache = flushed.cache]
             b == [a EXCEPT !.waiters = flushed.waiters]
  <2>3. flushed = b
    BY DEF Resolvers
  <2> HIDE DEF flushed
  <2>1. a \in Resolvers
    BY <1>1 DEF Resolvers
  <2>2. b \in Resolvers
    BY <1>1, <2>1 DEF Resolvers
  <2> QED
    BY <2>2, <2>3
<1>3. PutPayload(r, u) = IF r.waiters[u] = 0 THEN flushed
                         ELSE IF u \in Materials THEN StartBuild(flushed, u) ELSE run
  BY DEF PutPayload
<1>4. /\ run.promise = flushed.promise
      /\ \A v \in Uids : v # u => run.runs[v] = flushed.runs[v]
  <2> HIDE DEF flushed
  <2> QED
    BY <1>2 DEF Resolvers
<1> HIDE DEF flushed, run
<1>5. Named(flushed)
  BY <1>1 DEF Named
<1>6. u \notin Materials => Named(run)
  BY <1>4, <1>5, UidsOf DEF Named
<1> QED
  BY <1>2, <1>3, <1>5, <1>6, StartBuildNames

LEMMA BecomesNames ==
    ASSUME ResolverInv, AllNamed, NEW s \in Sessions, NEW r \in Resolvers,
           Named(r), Becomes(s, r)
    PROVE  AllNamed'
<1>1. promise'[s] = r.promise /\ runs'[s] = r.runs
  BY DEF Becomes, ResolverInv, ResolverType
<1>2. \A t \in Sessions \ {s} : promise'[t] = promise[t] /\ runs'[t] = runs[t]
  BY DEF Becomes, ResolverInv, ResolverType
<1> QED
  BY <1>1, <1>2 DEF AllNamed, Named

\* One of the calls of a session: by the element, by the scene, or by the client
LEMMA CallNames ==
    ASSUME ResolverInv, AllNamed, NEW s \in Sessions,
           \/ \E u \in Textures : Becomes(s, ResolveTextures(Now(s), {u}))
           \/ \E m \in Materials : AskFor(s, m)
           \/ \E u \in Uids : Arrives(s, u)
           \/ Closed(s)
    PROVE  AllNamed'
<1>1. Now(s) \in Resolvers /\ Once(Now(s)) /\ Named(Now(s))
  <2>1. Named(Now(s))
    BY DEF AllNamed, Named, Now
  <2> QED
    BY <2>1, NowOk
<1>2. ASSUME NEW u \in Textures, Becomes(s, ResolveTextures(Now(s), {u})) PROVE AllNamed'
  <2>1. {u} \in SUBSET Textures /\ {u} \in SUBSET Uids
    BY UidsOf
  <2>2. ResolveTextures(Now(s), {u}) \in Resolvers
    BY <1>1, <2>1, ResolveTexturesFields
  <2>3. /\ \A m \in Materials : ResolveTextures(Now(s), {u}).runs[m] = Now(s).runs[m]
        /\ \A v \in Uids : Now(s).promise[v] # "none" => ResolveTextures(Now(s), {u}).promise[v] # "none"
    BY <1>1, <2>1, ResolveTexturesNames
  <2>4. Named(ResolveTextures(Now(s), {u}))
    BY <1>1, <2>3, UidsOf DEF Named
  <2> QED
    BY <1>2, <2>2, <2>4, BecomesNames
<1>3. ASSUME NEW m \in Materials, AskFor(s, m) PROVE AllNamed'
  <2>1. ResolveMaterial(Now(s), m) \in Resolvers /\ Named(ResolveMaterial(Now(s), m))
    BY <1>1, ResolveMaterialKeeps, ResolveMaterialNames
  <2> QED
    BY <1>3, <2>1, BecomesNames DEF AskFor
<1>4. ASSUME NEW u \in Uids, Arrives(s, u) PROVE AllNamed'
  <2>1. PutPayload(Now(s), u) \in Resolvers /\ Named(PutPayload(Now(s), u))
    BY <1>1, PutPayloadKeeps, PutPayloadNames
  <2> QED
    BY <1>4, <2>1, BecomesNames DEF Arrives
<1>5. CASE Closed(s)
  <2>1. ClearCache(Now(s)) \in Resolvers
    BY <1>1, ClearCacheKeeps
  <2>2. ClearCache(Now(s)).runs = Now(s).runs /\ ClearCache(Now(s)).promise = Now(s).promise
    BY <1>1 DEF ClearCache, Resolvers
  <2>3. Named(ClearCache(Now(s)))
    BY <1>1, <2>2 DEF Named
  <2> QED
    BY <1>5, <2>1, <2>3, BecomesNames DEF Closed
<1> QED
  BY <1>2, <1>3, <1>4, <1>5

LEMMA NamesStep == ASSUME ViewerInv, AllNamed, [Next]_vars PROVE AllNamed'
<1>0. ResolverInv
  BY DEF ViewerInv
<1>1. ASSUME UNCHANGED <<promise, runs>> PROVE AllNamed'
  BY <1>1 DEF AllNamed
<1>2. ASSUME NEW s \in Sessions, session = s,
             \/ \E u \in Textures : Becomes(s, ResolveTextures(Now(s), {u}))
             \/ \E m \in Materials : AskFor(s, m)
             \/ \E u \in Uids : Arrives(s, u)
             \/ Closed(s)
      PROVE  AllNamed'
  BY <1>0, <1>2, CallNames
<1>3. CASE Connect \/ ConnectedCallback
  BY <1>1, <1>3 DEF Connect, ConnectedCallback, resolverVars
<1>4. CASE DisconnectedCallback \/ DisconnectClient
  <2>1. IF session = 0 THEN UNCHANGED resolverVars ELSE Closed(session)
    BY <1>4 DEF DisconnectedCallback, DisconnectClient, CloseClient
  <2>2. CASE session = 0
    BY <1>1, <2>1, <2>2 DEF resolverVars
  <2>3. CASE session # 0
    BY <1>2, <2>1, <2>3, OpenIsSession DEF ViewerInv
  <2> QED
    BY <2>2, <2>3
<1>5. CASE SetupNoLighting \/ \E shown \in {Colour, Empty} : SetupPlain(shown)
  BY <1>1, <1>5 DEF SetupNoLighting, SetupPlain, resolverVars
<1>6. CASE Geometry \/ \E u \in Textures : SetupTexture(u) \/ SetupLighting(u)
  <2>1. session # 0
    BY <1>6 DEF Geometry, SetupTexture, SetupLighting, Commanded
  <2>2. PICK s \in Sessions : session = s
    BY <2>1, OpenIsSession DEF ViewerInv
  <2>3. \/ \E u \in Textures : Becomes(s, ResolveTextures(Now(s), {u}))
        \/ \E m \in Materials : AskFor(s, m)
        \/ \E u \in Uids : Arrives(s, u)
        \/ UNCHANGED <<promise, runs>>
    <3>1. CASE Geometry
      BY <2>2, <3>1 DEF Geometry, FetchFails
    <3>2. CASE \E u \in Textures : SetupTexture(u)
      BY <2>2, <3>2 DEF SetupTexture, ResolveThen, resolverVars
    <3>3. CASE \E u \in Textures : SetupLighting(u)
      BY <2>2, <3>3 DEF SetupLighting, ResolveThen
    <3> QED
      BY <1>6, <3>1, <3>2, <3>3
  <2> QED
    BY <1>1, <1>2, <2>2, <2>3
<1>7. ASSUME NEW s \in Sessions, NEW u \in Uids, Decodes(s, u) \/ Builds(s, u)
      PROVE  AllNamed'
  <2>1. PICK outcome \in {"done", "failed"} :
           promise' = [promise EXCEPT ![s][u] = outcome] /\ runs' = runs
    BY <1>7 DEF Decodes, TextureSettles, Decoded, Builds, Built
  <2>2. \A t \in Sessions, v \in Uids : promise'[t][v] \in {promise[t][v], "done", "failed"}
    BY <1>0, <2>1 DEF ResolverInv, ResolverType
  <2> QED
    BY <2>1, <2>2, UidsOf DEF AllNamed
<1>8. CASE UNCHANGED vars
  BY <1>1, <1>8 DEF vars, resolverVars
<1> QED
  BY <1>3, <1>4, <1>5, <1>6, <1>7, <1>8 DEF Next

(* While its session lasts, a material whose payload has come is held up only by
   textures that are being decoded or whose payload has not come: each of them has
   been asked for, and who asks is woken (resources.ts:46-60, 95-135). *)
THEOREM BuildsCorrect == Spec => []OnlyPayloadsAwaited
<1>1. Init => AllNamed
  BY UidsOf DEF Init, ResolverInit, AllNamed
<1>2. ViewerInv /\ AllNamed /\ [Next]_vars => AllNamed'
  BY NamesStep
<1>3. ViewerInv /\ AllNamed => OnlyPayloadsAwaited
  <2> SUFFICES ASSUME ViewerInv, AllNamed, session # 0, NEW m \in Materials,
                      Running(session, m), NEW u \in TexturesOf[m]
               PROVE  Settled(session, u) \/ Running(session, u) \/ u \notin cache[session]
    BY DEF OnlyPayloadsAwaited
  <2>1. PICK s \in Sessions : session = s
    BY OpenIsSession DEF ViewerInv
  <2>2. u \in Uids /\ promise[s][u] # "none"
    BY <2>1, UidsOf DEF AllNamed, Running
  <2>3. promise[s][u] \in Status /\ runs[s][u] \in Nat
    BY <2>2 DEF ViewerInv, ResolverInv, ResolverType
  <2>4. promise[s][u] = "pending" /\ runs[s][u] = 0 => u \notin cache[s]
    BY <2>1, <2>2 DEF ViewerInv, WakesUp, NoLostWakeup, Sessions
  <2> QED
    BY <2>1, <2>2, <2>3, <2>4 DEF Settled, Running, Status
<1> QED
  BY <1>1, <1>2, <1>3, Always, PTL DEF Spec
=============================================================================

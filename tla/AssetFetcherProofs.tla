------------------------- MODULE AssetFetcherProofs -------------------------
(***************************************************************************)
(* What holds of AssetFetcher for any URLs, calls, fetches and clients.    *)
(***************************************************************************)
EXTENDS AssetFetcher, FiniteSetTheorems, TLAPS

(* One fetch on record, and one forgotten fetch for each clear(), at most. *)
Recorded(u) == IF inFlight[u] = NoFetch THEN 0 ELSE 1

Counted ==
    \A u \in Urls :
        /\ IsFiniteSet(Outstanding(u))
        /\ Cardinality(Outstanding(u)) <= clears + Recorded(u)

----------------------------------------------------------------------------
(* The type invariant. *)

(* TypeOK is the shape of the state, and what calls and fetches carry when they
   have come that far. *)
Shape ==
    /\ cache \in [Urls -> Versions]
    /\ inFlight \in [Urls -> Fetches \cup {NoFetch}]
    /\ fetch \in [Fetches -> [url : Urls, version : Versions,
                              stage : {"unused", "requested", "responded", "done"}]]
    /\ call \in [Calls -> [url : Urls, version : Versions,
                           stage : {"idle", "waiting", "answered", "failed"},
                           fetch : Fetches \cup {NoFetch}]]
    /\ clients \in 1..MaxClients
    /\ sessions \in 0..clients
    /\ clears \in Nat
    /\ published \in [Urls -> Versions \ {NoAsset}]
    /\ newest \in [Urls -> Versions]

Carried ==
    /\ \A f \in Fetches : fetch[f].stage = "responded" => fetch[f].version # NoAsset
    /\ \A c \in Calls :
          /\ call[c].stage = "waiting" => call[c].fetch # NoFetch
          /\ call[c].stage = "answered" => call[c].version # NoAsset

LEMMA ShapeStep == TypeOK /\ [Next]_vars => Shape'
<1> SUFFICES ASSUME TypeOK, [Next]_vars
             PROVE  Shape'
  OBVIOUS
<1> USE FetchAssumption DEF NoAsset, Versions, Later, users
<1>1. ASSUME NEW c \in Calls, NEW u \in Urls, GetCached(c, u) PROVE Shape'
  BY <1>1 DEF GetCached, Asks, TypeOK, Shape
<1>2. ASSUME NEW c \in Calls, NEW u \in Urls, GetPending(c, u) PROVE Shape'
  BY <1>2 DEF GetPending, Asks, TypeOK, Shape
<1>3. ASSUME NEW c \in Calls, NEW u \in Urls, GetStart(c, u) PROVE Shape'
  BY <1>3 DEF GetStart, Asks, TypeOK, Shape
<1>4. ASSUME NEW f \in Fetches, Respond(f) PROVE Shape'
  BY <1>4 DEF Respond, TypeOK, Shape
<1>5. ASSUME NEW f \in Fetches, NEW stage \in {"answered", "failed"}, Settle(f, stage)
      PROVE  /\ fetch' \in [Fetches -> [url : Urls, version : Versions,
                              stage : {"unused", "requested", "responded", "done"}]]
             /\ call' \in [Calls -> [url : Urls, version : Versions,
                              stage : {"idle", "waiting", "answered", "failed"},
                              fetch : Fetches \cup {NoFetch}]]
  <2>1. /\ fetch' = [fetch EXCEPT ![f].stage = "done"]
        /\ fetch[f].version \in Nat
    BY <1>5 DEF Settle, TypeOK, Shape
  <2>2. ASSUME NEW c \in Calls
        PROVE  call'[c] \in [url : Urls, version : Versions,
                             stage : {"idle", "waiting", "answered", "failed"},
                             fetch : Fetches \cup {NoFetch}]
    <3>1. call[c] \in [url : Urls, version : Versions,
                       stage : {"idle", "waiting", "answered", "failed"},
                       fetch : Fetches \cup {NoFetch}]
      BY DEF TypeOK, Shape
    <3>2. \/ call'[c] = call[c]
          \/ call'[c] = [call[c] EXCEPT !.stage = stage, !.version = fetch[f].version]
          \/ call'[c] = [call[c] EXCEPT !.stage = stage, !.version = 0]
      BY <1>5 DEF Settle
    <3>3. \A v \in Nat : [call[c] EXCEPT !.stage = stage, !.version = v]
                          \in [url : Urls, version : Versions,
                              stage : {"idle", "waiting", "answered", "failed"},
                              fetch : Fetches \cup {NoFetch}]
      BY <3>1
    <3> QED
      BY <2>1, <3>1, <3>2, <3>3
  <2>3. call' = [c \in Calls |-> call'[c]]
    BY <1>5 DEF Settle
  <2> QED
    BY <2>1, <2>2, <2>3 DEF TypeOK, Shape
<1>6. ASSUME NEW f \in Fetches, Complete(f) PROVE Shape'
  BY <1>5, <1>6 DEF Complete, TypeOK, Shape
<1>7. ASSUME NEW f \in Fetches, Fail(f) PROVE Shape'
  BY <1>5, <1>7 DEF Fail, TypeOK, Shape
<1>8. ASSUME NEW u \in Urls, Invalidate(u) \/ Publish(u) PROVE Shape'
  BY <1>8 DEF Invalidate, Publish, TypeOK, Shape
<1>9. CASE Clear
  BY <1>9 DEF Clear, Closing, TypeOK, Shape
<1>10. CASE UNCHANGED vars
  BY <1>10 DEF vars, TypeOK, Shape
<1> QED
  BY <1>1, <1>2, <1>3, <1>4, <1>6, <1>7, <1>8, <1>9, <1>10 DEF Next

LEMMA CarriedStep == TypeOK /\ [Next]_vars => Carried'
<1> SUFFICES ASSUME TypeOK, [Next]_vars
             PROVE  Carried'
  OBVIOUS
<1> USE FetchAssumption DEF users
<1>1. ASSUME NEW c \in Calls, NEW u \in Urls, NEW stage, NEW f, NEW version,
             Asks(c, u, stage, f, version),
             stage = "waiting" => f # NoFetch, stage = "answered" => version # NoAsset,
             \A g \in Fetches : fetch'[g].stage = "responded" => fetch'[g] = fetch[g]
      PROVE  Carried'
  BY <1>1 DEF Asks, TypeOK, Carried
<1>2. ASSUME NEW c \in Calls, NEW u \in Urls, GetCached(c, u) \/ GetPending(c, u)
      PROVE  Carried'
  BY <1>1, <1>2 DEF GetCached, GetPending
<1>3. ASSUME NEW c \in Calls, NEW u \in Urls, GetStart(c, u) PROVE Carried'
  <2>1. PICK f \in Fetches :
          /\ fetch' = [fetch EXCEPT ![f] = [url |-> u, version |-> NoAsset,
                                            stage |-> "requested"]]
          /\ Asks(c, u, "waiting", f, NoAsset)
    BY <1>3 DEF GetStart
  <2>2. \A g \in Fetches : fetch'[g].stage = "responded" => fetch'[g] = fetch[g]
    BY <2>1 DEF TypeOK
  <2> QED
    BY <1>1, <2>1, <2>2
<1>4. ASSUME NEW f \in Fetches, Respond(f) PROVE Carried'
  BY <1>4 DEF Respond, TypeOK, Carried
<1>5. ASSUME NEW f \in Fetches, NEW stage \in {"answered", "failed"}, Settle(f, stage),
             stage = "answered" => fetch[f].version # NoAsset
      PROVE  Carried'
  <2>1. \A g \in Fetches : fetch'[g].stage = "responded" => fetch'[g].version # NoAsset
    BY <1>5 DEF Settle, TypeOK
  <2>2. ASSUME NEW c \in Calls
        PROVE  /\ call'[c].stage = "waiting" => call'[c].fetch # NoFetch
               /\ call'[c].stage = "answered" => call'[c].version # NoAsset
    <3>1. call[c] \in [url : Urls, version : Versions,
                       stage : {"idle", "waiting", "answered", "failed"},
                       fetch : Fetches \cup {NoFetch}]
      BY DEF TypeOK
    <3>2. call'[c] = IF call[c].stage = "waiting" /\ call[c].fetch = f
                     THEN [call[c] EXCEPT !.stage = stage,
                                          !.version = IF stage = "answered"
                                                      THEN fetch[f].version ELSE NoAsset]
                     ELSE call[c]
      BY <1>5 DEF Settle
    <3>3. CASE call'[c] = call[c]
      BY <3>3 DEF TypeOK
    <3>4. CASE call'[c] = [call[c] EXCEPT !.stage = stage,
                                          !.version = IF stage = "answered"
                                                      THEN fetch[f].version ELSE NoAsset]
      BY <1>5, <3>1, <3>4
    <3> QED
      BY <3>2, <3>3, <3>4
  <2> QED
    BY <2>1, <2>2 DEF Carried
<1>6. ASSUME NEW f \in Fetches, Complete(f) PROVE Carried'
  BY <1>5, <1>6 DEF Complete, TypeOK
<1>7. ASSUME NEW f \in Fetches, Fail(f) PROVE Carried'
  BY <1>5, <1>7 DEF Fail
<1>8. ASSUME UNCHANGED <<fetch, call>> PROVE Carried'
  BY <1>8 DEF TypeOK, Carried
<1> QED
  BY <1>2, <1>3, <1>4, <1>6, <1>7, <1>8 DEF Next, Invalidate, Publish, Clear, vars

LEMMA TypeStep == TypeOK /\ [Next]_vars => TypeOK'
<1>1. (Shape /\ Carried)' => TypeOK'
  BY DEF Shape, Carried, TypeOK
<1> QED
  BY <1>1, ShapeStep, CarriedStep

(* Every state of every run has its type. *)
THEOREM TypeCorrect == Spec => []TypeOK
<1>1. Init => TypeOK
  BY FetchAssumption DEF Init, TypeOK, NoAsset, Versions
<1> QED
  BY <1>1, TypeStep, PTL DEF Spec

----------------------------------------------------------------------------
(* Counting the outstanding fetches. *)

(* A fetch that ends leaves the outstanding ones of its URL, and no others. *)
LEMMA EndedFetch ==
    ASSUME TypeOK, NEW f \in Fetches, fetch[f].stage \in {"requested", "responded"},
           fetch' = [fetch EXCEPT ![f].stage = "done"], NEW u \in Urls
    PROVE  Outstanding(u)' = Outstanding(u) \ (IF u = fetch[f].url THEN {f} ELSE {})
BY DEF Outstanding, TypeOK

(* A fetch that starts joins those of its URL. *)
LEMMA StartedFetch ==
    ASSUME TypeOK, NEW f \in Fetches, fetch[f].stage = "unused", NEW u \in Urls,
           fetch' = [fetch EXCEPT ![f] = [url |-> u, version |-> NoAsset,
                                          stage |-> "requested"]], NEW w \in Urls
    PROVE  Outstanding(w)' = Outstanding(w) \cup (IF w = u THEN {f} ELSE {})
BY DEF Outstanding, TypeOK, NoAsset, Versions

LEMMA CountedStep == TypeOK /\ Counted /\ [Next]_vars => Counted'
<1> SUFFICES ASSUME TypeOK, Counted, [Next]_vars
             PROVE  Counted'
  OBVIOUS
<1> USE DEF users
<1>0. /\ clears \in Nat
      /\ \A u \in Urls : Cardinality(Outstanding(u)) \in Nat
  BY FetchAssumption, FS_CardinalityType DEF TypeOK, Counted
<1>1. ASSUME NEW c \in Calls, NEW u \in Urls, GetCached(c, u) \/ GetPending(c, u)
      PROVE  Counted'
  BY <1>1 DEF GetCached, GetPending, Asks, Counted, Recorded, Outstanding
<1>2. ASSUME NEW c \in Calls, NEW u \in Urls, GetStart(c, u) PROVE Counted'
  <2>1. PICK f \in Fetches :
          /\ fetch[f].stage = "unused"
          /\ fetch' = [fetch EXCEPT ![f] = [url |-> u, version |-> NoAsset,
                                            stage |-> "requested"]]
          /\ inFlight' = [inFlight EXCEPT ![u] = f]
    BY <1>2 DEF GetStart
  <2> SUFFICES ASSUME NEW w \in Urls
               PROVE  /\ IsFiniteSet(Outstanding(w)')
                      /\ Cardinality(Outstanding(w)')
                           <= clears' + Recorded(w)'
    BY DEF Counted
  <2>2. clears' = clears /\ inFlight[u] = NoFetch
    BY <1>2 DEF GetStart, Asks, users
  <2>3. Outstanding(w)' = Outstanding(w) \cup (IF w = u THEN {f} ELSE {})
    BY <2>1, StartedFetch
  <2>4. CASE w = u
    <3>1. Outstanding(w)' = Outstanding(w) \cup {f}
      BY <2>3, <2>4
    <3>2. /\ IsFiniteSet(Outstanding(w)')
          /\ Cardinality(Outstanding(w)') <= Cardinality(Outstanding(w)) + 1
      <4>1. IsFiniteSet(Outstanding(w)) /\ Cardinality(Outstanding(w)) \in Nat
        BY <1>0 DEF Counted
      <4>2. /\ IsFiniteSet(Outstanding(w) \cup {f})
            /\ \/ Cardinality(Outstanding(w) \cup {f}) = Cardinality(Outstanding(w))
               \/ Cardinality(Outstanding(w) \cup {f}) = Cardinality(Outstanding(w)) + 1
        BY <4>1, FS_AddElement
      <4> QED
        BY <3>1, <4>1, <4>2
    <3>3. Recorded(w)' = 1 /\ Recorded(w) = 0
      BY <2>1, <2>2, <2>4, FetchAssumption DEF Recorded, TypeOK
    <3>4. Cardinality(Outstanding(w)) <= clears
      BY <1>0, <3>3 DEF Counted
    <3>5. Cardinality(Outstanding(w)') \in Nat
      BY <3>2, FS_CardinalityType
    <3> QED
      BY <1>0, <2>2, <3>2, <3>3, <3>4, <3>5
  <2>5. CASE w # u
    BY <2>1, <2>2, <2>3, <2>5 DEF Counted, Recorded, TypeOK
  <2> QED
    BY <2>4, <2>5
<1>3. ASSUME NEW f \in Fetches, Respond(f) PROVE Counted'
  <2>1. \A u \in Urls : Outstanding(u)' = Outstanding(u)
    BY <1>3 DEF Respond, Outstanding, TypeOK
  <2> QED
    BY <1>3, <2>1 DEF Respond, Counted, Recorded
<1>4. ASSUME NEW f \in Fetches, Complete(f) \/ Fail(f) PROVE Counted'
  <2>1. /\ fetch[f].stage \in {"requested", "responded"}
        /\ fetch' = [fetch EXCEPT ![f].stage = "done"]
        /\ inFlight' = [inFlight EXCEPT ![fetch[f].url] = NoFetch]
        /\ clears' = clears
    BY <1>4 DEF Complete, Fail, Settle
  <2> SUFFICES ASSUME NEW w \in Urls
               PROVE  /\ IsFiniteSet(Outstanding(w)')
                      /\ Cardinality(Outstanding(w)')
                           <= clears' + Recorded(w)'
    BY DEF Counted
  <2>2. Outstanding(w)' = Outstanding(w) \ (IF w = fetch[f].url THEN {f} ELSE {})
    BY <2>1, EndedFetch
  <2>3. CASE w = fetch[f].url
    <3>1. Outstanding(w)' = Outstanding(w) \ {f} /\ f \in Outstanding(w)
      BY <2>1, <2>2, <2>3 DEF Outstanding
    <3>2. /\ IsFiniteSet(Outstanding(w)')
          /\ Cardinality(Outstanding(w)') = Cardinality(Outstanding(w)) - 1
      BY <3>1, FS_RemoveElement DEF Counted
    <3>3. Recorded(w)' = 0 /\ Recorded(w) \in {0, 1}
      BY <2>1, <2>3 DEF Recorded, TypeOK
    <3> QED
      BY <1>0, <2>1, <3>2, <3>3 DEF Counted
  <2>4. CASE w # fetch[f].url
    BY <2>1, <2>2, <2>4 DEF Counted, Recorded, TypeOK
  <2> QED
    BY <2>3, <2>4
<1>5. ASSUME NEW u \in Urls, Invalidate(u) \/ Publish(u) PROVE Counted'
  BY <1>5 DEF Invalidate, Publish, Counted, Recorded, Outstanding
<1>6. CASE Clear
  <2> SUFFICES ASSUME NEW w \in Urls
               PROVE  /\ IsFiniteSet(Outstanding(w)')
                      /\ Cardinality(Outstanding(w)')
                           <= clears' + Recorded(w)'
    BY DEF Counted
  <2>1. Outstanding(w)' = Outstanding(w) /\ clears' = clears + 1
    BY <1>6 DEF Clear, Closing, Outstanding
  <2>2. Recorded(w) \in {0, 1} /\ Recorded(w)' = 0
    BY <1>6 DEF Clear, Recorded
  <2> QED
    BY <1>0, <2>1, <2>2 DEF Counted
<1>7. CASE UNCHANGED vars
  BY <1>7 DEF vars, Counted, Recorded, Outstanding
<1> QED
  BY <1>1, <1>2, <1>3, <1>4, <1>5, <1>6, <1>7 DEF Next

(* The fetches of a URL that are outstanding exceed one by no more than the calls
   of clear(), however many clients and calls and however slow the network. *)
THEOREM FlightsCorrect == Spec => []FlightsBounded
<1>1. Init => Counted
  <2> SUFFICES ASSUME Init, NEW u \in Urls
               PROVE  /\ IsFiniteSet(Outstanding(u))
                      /\ Cardinality(Outstanding(u))
                           <= clears + Recorded(u)
    BY DEF Counted
  <2>1. Outstanding(u) = {}
    BY DEF Init, Outstanding
  <2> QED
    BY <2>1, FS_EmptySet, FetchAssumption DEF Init, Recorded
<1>2. TypeOK /\ Counted => FlightsBounded
  <2> SUFFICES ASSUME TypeOK, Counted, NEW u \in Urls
               PROVE  Cardinality(Outstanding(u)) <= 1 + clears
    BY DEF FlightsBounded
  <2>1. Cardinality(Outstanding(u)) \in Nat /\ clears \in Nat
    BY FS_CardinalityType DEF TypeOK, Counted
  <2>2. Recorded(u) \in {0, 1}
    BY DEF Recorded
  <2> QED
    BY <2>1, <2>2, FetchAssumption DEF Counted
<1> QED
  BY <1>1, <1>2, TypeCorrect, CountedStep, PTL DEF Spec

----------------------------------------------------------------------------
(* With one client, the fetcher shares its fetches. *)

Live == {"requested", "responded"}

(* The fetch outstanding for a URL is unique, on record while the session is
   open, and the one that every get() waiting for the URL awaits. *)
OnePerUrl ==
    \A f, g \in Fetches :
        /\ fetch[f].stage \in Live /\ fetch[g].stage \in Live
        /\ fetch[f].url = fetch[g].url
        => f = g

OnRecord ==
    /\ \A f \in Fetches : fetch[f].stage \in Live /\ sessions > 0
                           => inFlight[fetch[f].url] = f
    /\ \A u \in Urls : inFlight[u] # NoFetch
                           => fetch[inFlight[u]].stage \in Live /\ fetch[inFlight[u]].url = u

Awaited ==
    \A c \in Calls :
        call[c].stage = "waiting" =>
            /\ call[c].fetch \in Fetches
            /\ fetch[call[c].fetch].stage \in Live
            /\ fetch[call[c].fetch].url = call[c].url

Single == OnePerUrl /\ OnRecord /\ Awaited

LEMMA SingleStep ==
    ASSUME clients = 1, TypeOK, Single, [Next]_vars
    PROVE  Single'
<1> USE FetchAssumption DEF Live, users
<1>1. ASSUME NEW c \in Calls, NEW u \in Urls, GetCached(c, u) PROVE Single'
  BY <1>1 DEF GetCached, Asks, Single, OnePerUrl, OnRecord, Awaited, TypeOK
<1>2. ASSUME NEW c \in Calls, NEW u \in Urls, GetPending(c, u) PROVE Single'
  BY <1>2 DEF GetPending, Asks, Single, OnePerUrl, OnRecord, Awaited, TypeOK
<1>3. ASSUME NEW c \in Calls, NEW u \in Urls, GetStart(c, u) PROVE Single'
  <2>1. PICK f \in Fetches :
          /\ fetch[f].stage = "unused"
          /\ fetch' = [fetch EXCEPT ![f] = [url |-> u, version |-> NoAsset,
                                            stage |-> "requested"]]
          /\ inFlight' = [inFlight EXCEPT ![u] = f]
          /\ call' = [call EXCEPT ![c] = [url |-> u, version |-> NoAsset, stage |-> "waiting",
                                          fetch |-> f]]
    BY <1>3 DEF GetStart, Asks
  <2>2. sessions > 0 /\ inFlight[u] = NoFetch /\ UNCHANGED sessions
    BY <1>3 DEF GetStart, Asks, users
  <2>3. \A g \in Fetches : fetch[g].stage \in Live => fetch[g].url # u
    BY <2>2 DEF Single, OnRecord
  <2>4. OnePerUrl'
    BY <2>1, <2>3 DEF Single, OnePerUrl, TypeOK
  <2>5. OnRecord'
    BY <2>1, <2>2, <2>3 DEF Single, OnRecord, TypeOK
  <2>6. Awaited'
    BY <2>1 DEF Single, Awaited, TypeOK
  <2> QED
    BY <2>4, <2>5, <2>6 DEF Single
<1>4. ASSUME NEW f \in Fetches, Respond(f) PROVE Single'
  BY <1>4 DEF Respond, Single, OnePerUrl, OnRecord, Awaited, TypeOK
<1>5. ASSUME NEW f \in Fetches, NEW stage \in {"answered", "failed"},
             fetch[f].stage \in Live, Settle(f, stage),
             inFlight' = [inFlight EXCEPT ![fetch[f].url] = NoFetch],
             UNCHANGED sessions
      PROVE  Single'
  <2>1. fetch' = [fetch EXCEPT ![f].stage = "done"]
    BY <1>5 DEF Settle
  <2>2. OnePerUrl'
    BY <2>1 DEF Single, OnePerUrl, TypeOK
  <2>3. OnRecord'
    BY <1>5, <2>1 DEF Single, OnePerUrl, OnRecord, TypeOK
  <2>4. Awaited'
    <3> SUFFICES ASSUME NEW c \in Calls, call'[c].stage = "waiting"
                 PROVE  /\ call'[c].fetch \in Fetches
                        /\ fetch'[call'[c].fetch].stage \in Live
                        /\ fetch'[call'[c].fetch].url = call'[c].url
      BY DEF Awaited
    <3>1. call[c] \in [url : Urls, version : Versions,
                       stage : {"idle", "waiting", "answered", "failed"},
                       fetch : Fetches \cup {NoFetch}]
      BY DEF TypeOK
    <3>2. call'[c] = IF call[c].stage = "waiting" /\ call[c].fetch = f
                     THEN [call[c] EXCEPT !.stage = stage,
                                          !.version = IF stage = "answered"
                                                      THEN fetch[f].version ELSE NoAsset]
                     ELSE call[c]
      BY <1>5 DEF Settle
    <3>3. call'[c] = call[c] /\ call[c].fetch # f
      BY <3>1, <3>2
    <3> QED
      BY <2>1, <3>3 DEF Single, Awaited, TypeOK
  <2> QED
    BY <2>2, <2>3, <2>4 DEF Single
<1>6. ASSUME NEW f \in Fetches, Complete(f) \/ Fail(f) PROVE Single'
  BY <1>5, <1>6 DEF Complete, Fail
<1>7. ASSUME NEW u \in Urls, Invalidate(u) \/ Publish(u) PROVE Single'
  BY <1>7 DEF Invalidate, Publish, Single, OnePerUrl, OnRecord, Awaited
<1>8. CASE Clear
  BY <1>8 DEF Clear, Closing, Single, OnePerUrl, OnRecord, Awaited, TypeOK
<1>9. CASE UNCHANGED vars
  BY <1>9 DEF vars, Single, OnePerUrl, OnRecord, Awaited
<1> QED
  BY <1>1, <1>2, <1>3, <1>4, <1>6, <1>7, <1>8, <1>9 DEF Next

(* The state of SingleFlight that a state of AssetFetcher stands for. *)
Flying == {u \in Urls : Outstanding(u) # {}}
Held   == {u \in Urls : cache[u] # NoAsset}
Asked  == [c \in Calls |-> [url |-> call[c].url, stage |-> call[c].stage]]

LEMMA AbstractInit == Init => Shared!Init
<1> SUFFICES ASSUME Init
             PROVE  Shared!Init
  OBVIOUS
<1>1. Flying = {} /\ Held = {}
  BY DEF Init, Flying, Held, Outstanding
<1>2. Asked \in [Calls -> [url : Urls, stage : {"idle"}]]
  BY DEF Init, Asked
<1> QED
  BY <1>1, <1>2 DEF Shared!Init, Flying, Held, Asked

LEMMA AbstractStep ==
    ASSUME clients = 1, TypeOK, Single, [Next]_vars
    PROVE  [Shared!Next]_(Shared!vars)
<1> USE FetchAssumption
<1>1. ASSUME NEW c \in Calls, NEW u \in Urls, GetCached(c, u) PROVE Shared!Ask(c, u)
  <2>1. Flying' = Flying /\ Held' = Held /\ u \in Held
    BY <1>1 DEF GetCached, Flying, Held, Outstanding
  <2>2. call' = [call EXCEPT ![c] = [url |-> u, version |-> cache[u], stage |-> "answered",
                                    fetch |-> NoFetch]]
    BY <1>1 DEF GetCached, Asks
  <2>3. Asked' = [Asked EXCEPT ![c] = [url |-> u, stage |-> "answered"]]
    BY <2>2 DEF Asked, TypeOK
  <2>4. Asked[c].stage = "idle"
    BY <1>1 DEF GetCached, Asks, Asked
  <2> QED
    BY <2>1, <2>3, <2>4 DEF Shared!Ask, Flying, Held, Asked
<1>2. ASSUME NEW c \in Calls, NEW u \in Urls, GetPending(c, u) PROVE Shared!Ask(c, u)
  <2>1. Flying' = Flying /\ Held' = Held /\ u \notin Held
    BY <1>2 DEF GetPending, Flying, Held, Outstanding
  <2>2. inFlight[u] \in Outstanding(u)
    BY <1>2 DEF GetPending, Single, OnRecord, Live, Outstanding, TypeOK
  <2>3. call' = [call EXCEPT ![c] = [url |-> u, version |-> NoAsset, stage |-> "waiting",
                                    fetch |-> inFlight[u]]]
    BY <1>2 DEF GetPending, Asks
  <2>4. Asked' = [Asked EXCEPT ![c] = [url |-> u, stage |-> "waiting"]]
    BY <2>3 DEF Asked, TypeOK
  <2>5. Asked[c].stage = "idle" /\ u \in Flying
    BY <1>2, <2>2 DEF GetPending, Asks, Asked, Flying
  <2>6. Flying' = Flying \cup {u}
    BY <2>1, <2>5
  <2> QED
    BY <2>1, <2>4, <2>5, <2>6 DEF Shared!Ask, Flying, Held, Asked
<1>3. ASSUME NEW c \in Calls, NEW u \in Urls, GetStart(c, u) PROVE Shared!Ask(c, u)
  <2>1. PICK f \in Fetches :
          /\ fetch[f].stage = "unused"
          /\ fetch' = [fetch EXCEPT ![f] = [url |-> u, version |-> NoAsset,
                                            stage |-> "requested"]]
          /\ call' = [call EXCEPT ![c] = [url |-> u, version |-> NoAsset, stage |-> "waiting",
                                          fetch |-> f]]
    BY <1>3 DEF GetStart, Asks
  <2>2. Held' = Held /\ u \notin Held
    BY <1>3 DEF GetStart, Held
  <2>3. \A w \in Urls : Outstanding(w)' = Outstanding(w) \cup (IF w = u THEN {f} ELSE {})
    BY <2>1, StartedFetch
  <2>4. Flying' = Flying \cup {u}
    BY <2>3 DEF Flying
  <2>5. Asked' = [Asked EXCEPT ![c] = [url |-> u, stage |-> "waiting"]]
    BY <2>1 DEF Asked, TypeOK
  <2>6. Asked[c].stage = "idle"
    BY <1>3 DEF GetStart, Asks, Asked
  <2> QED
    BY <2>2, <2>4, <2>5, <2>6 DEF Shared!Ask, Flying, Held, Asked
<1>4. ASSUME NEW f \in Fetches, Respond(f) PROVE UNCHANGED Shared!vars
  <2>2. \A u \in Urls : Outstanding(u)' = Outstanding(u)
    BY <1>4 DEF Respond, Outstanding, TypeOK
  <2>3. Flying' = Flying
    BY <2>2 DEF Flying
  <2>4. Held' = Held /\ Asked' = Asked
    BY <1>4 DEF Respond, Held, Asked
  <2>1. Flying' = Flying /\ Held' = Held /\ Asked' = Asked
    BY <2>3, <2>4
  <2> QED
    BY <2>1 DEF Shared!vars, Flying, Held, Asked
<1>5. ASSUME NEW f \in Fetches, NEW stage \in {"answered", "failed"},
             fetch[f].stage \in Live, Settle(f, stage),
             cache' = IF stage = "answered"
                      THEN [cache EXCEPT ![fetch[f].url] = fetch[f].version] ELSE cache,
             stage = "answered" => fetch[f].version # 0
      PROVE  Shared!Land(fetch[f].url, stage)
  <2>1. fetch' = [fetch EXCEPT ![f].stage = "done"] /\ fetch[f].url \in Urls
    BY <1>5 DEF Settle, TypeOK
  <2>2. PICK u \in Urls : u = fetch[f].url
    BY <2>1
  <2>3. \A w \in Urls : Outstanding(w)' = Outstanding(w) \ (IF w = u THEN {f} ELSE {})
    BY <1>5, <2>1, <2>2, EndedFetch DEF Live
  <2>4. Outstanding(u) = {f}
    BY <1>5, <2>2 DEF Single, OnePerUrl, Live, Outstanding
  <2>5. u \in Flying /\ Flying' = Flying \ {u}
    BY <2>3, <2>4 DEF Flying
  <2>6. Held' = IF stage = "answered" THEN Held \cup {u} ELSE Held
    BY <1>5, <2>2 DEF Held, NoAsset, TypeOK
  <2>7. ASSUME NEW c \in Calls
        PROVE  [url |-> call'[c].url, stage |-> call'[c].stage]
                 = IF call[c].url = u /\ call[c].stage = "waiting"
                   THEN [url |-> u, stage |-> stage]
                   ELSE [url |-> call[c].url, stage |-> call[c].stage]
    <3>1. call[c] \in [url : Urls, version : Versions,
                       stage : {"idle", "waiting", "answered", "failed"},
                       fetch : Fetches \cup {NoFetch}]
      BY DEF TypeOK
    <3>2. call'[c] = IF call[c].stage = "waiting" /\ call[c].fetch = f
                     THEN [call[c] EXCEPT !.stage = stage,
                                          !.version = IF stage = "answered"
                                                      THEN fetch[f].version ELSE NoAsset]
                     ELSE call[c]
      BY <1>5 DEF Settle
    <3>3. call[c].stage = "waiting" => (call[c].fetch = f <=> call[c].url = u)
      BY <1>5, <2>2 DEF Single, OnePerUrl, Awaited
    <3>4. CASE call[c].stage = "waiting" /\ call[c].url = u
      BY <3>1, <3>2, <3>3, <3>4
    <3>5. CASE ~(call[c].stage = "waiting" /\ call[c].url = u)
      BY <3>2, <3>3, <3>5
    <3> QED
      BY <3>4, <3>5
  <2>8. Asked' = [c \in Calls |-> IF Asked[c].url = u /\ Asked[c].stage = "waiting"
                                  THEN [url |-> u, stage |-> stage] ELSE Asked[c]]
    BY <2>7 DEF Asked
  <2> QED
    BY <2>2, <2>5, <2>6, <2>8 DEF Shared!Land, Flying, Held, Asked
<1>6. ASSUME NEW f \in Fetches, Complete(f)
      PROVE  \E u \in Urls : Shared!Land(u, "answered")
  <2>1. fetch[f].url \in Urls /\ fetch[f].version # 0
    BY <1>6 DEF Complete, TypeOK, NoAsset
  <2> QED
    BY <1>5, <1>6, <2>1 DEF Complete, Live
<1>7. ASSUME NEW f \in Fetches, Fail(f)
      PROVE  \E u \in Urls : Shared!Land(u, "failed")
  <2>1. fetch[f].url \in Urls
    BY DEF TypeOK
  <2> QED
    BY <1>5, <1>7, <2>1 DEF Fail, Live
<1>8. ASSUME NEW u \in Urls, Invalidate(u) PROVE Shared!Forget({u})
  <2>1. Flying' = Flying /\ Held' = Held \ {u} /\ Asked' = Asked
    BY <1>8 DEF Invalidate, Flying, Held, Asked, Outstanding, TypeOK
  <2> QED
    BY <2>1 DEF Shared!Forget, Flying, Held, Asked
<1>9. ASSUME NEW u \in Urls, Publish(u) PROVE UNCHANGED Shared!vars
  <2>1. Flying' = Flying /\ Held' = Held /\ Asked' = Asked
    BY <1>9 DEF Publish, Flying, Held, Asked, Outstanding
  <2> QED
    BY <2>1 DEF Shared!vars, Flying, Held, Asked
<1>10. CASE Clear
  <2>1. Flying' = Flying /\ Held' = Held \ Urls /\ Asked' = Asked
    BY <1>10 DEF Clear, Flying, Held, Asked, Outstanding
  <2>2. Shared!Forget(Urls)
    BY <2>1 DEF Shared!Forget, Flying, Held, Asked
  <2> QED
    BY <2>2 DEF Shared!Next
<1>11. CASE UNCHANGED vars
  <2>1. Flying' = Flying /\ Held' = Held /\ Asked' = Asked
    BY <1>11 DEF vars, Flying, Held, Asked, Outstanding
  <2> QED
    BY <2>1 DEF Shared!vars, Flying, Held, Asked
<1> QED
  BY <1>1, <1>2, <1>3, <1>4, <1>6, <1>7, <1>8, <1>9, <1>10, <1>11 DEF Next, Shared!Next

(* Used by one client, the fetcher is Single. *)
Alone == clients = 1 => Single

LEMMA AloneInit == Init => Alone
BY FetchAssumption DEF Init, Alone, Single, OnePerUrl, OnRecord, Awaited, Live

LEMMA SameClients == [Next]_vars => clients' = clients
BY DEF Next, GetCached, GetPending, GetStart, Asks, Respond, Complete, Fail, Invalidate,
       Publish, Clear, Closing, vars, users

LEMMA AloneStep == TypeOK /\ Alone /\ [Next]_vars => Alone'
BY SingleStep, SameClients DEF Alone

(* A fetcher used by one client implements SingleFlight: concurrent requests for one
   URL share one fetch, however often the client is closed. *)
THEOREM SharingCorrect == Spec => SharesOneFetch
<1>1. TypeOK /\ Alone /\ [Next]_vars =>
        [clients = 1 => [Shared!Next]_(Shared!vars)]_vars
  BY AbstractStep DEF Alone
<1> QED
  BY <1>1, AbstractInit, AloneInit, AloneStep, TypeCorrect, PTL DEF Spec, SharesOneFetch

----------------------------------------------------------------------------
(* With one client, the fetcher never goes back. *)

(* What is cached or has arrived is no older than what any get() returned, and
   nothing is cached for a URL that is being fetched. *)
Recent ==
    /\ \A u \in Urls : newest[u] <= published[u]
    /\ \A u \in Urls : cache[u] # NoAsset => newest[u] <= cache[u] /\ cache[u] <= published[u]
    /\ \A f \in Fetches : fetch[f].stage \in Live => cache[fetch[f].url] = NoAsset
    /\ \A f \in Fetches :
           fetch[f].stage = "responded" =>
               /\ newest[fetch[f].url] <= fetch[f].version
               /\ fetch[f].version <= published[fetch[f].url]

LEMMA RecentStep ==
    ASSUME clients = 1, TypeOK, Single, Recent, [Next]_vars
    PROVE  Recent'
<1> USE FetchAssumption DEF Live, NoAsset, Versions
<1>1. ASSUME NEW c \in Calls, NEW u \in Urls, GetCached(c, u) PROVE Recent'
  <2>1. newest[u] <= cache[u] /\ cache[u] \in Nat /\ newest[u] \in Nat
    BY <1>1 DEF GetCached, Recent, TypeOK
  <2>2. /\ newest' = [newest EXCEPT ![u] = cache[u]]
        /\ UNCHANGED <<cache, fetch, published>>
    <3>1. Later(newest[u], cache[u]) = cache[u]
      BY <2>1 DEF Later
    <3>2. newest' = [newest EXCEPT ![u] = Later(newest[u], cache[u])]
      BY <1>1 DEF GetCached, TypeOK
    <3> QED
      BY <1>1, <3>1, <3>2 DEF GetCached
  <2>3. \A f \in Fetches : fetch[f].stage = "responded" => fetch[f].url # u
    BY <1>1 DEF GetCached, Recent
  <2> QED
    BY <1>1, <2>1, <2>2, <2>3 DEF GetCached, Recent, TypeOK
<1>2. ASSUME NEW c \in Calls, NEW u \in Urls, GetPending(c, u) PROVE Recent'
  BY <1>2 DEF GetPending, Recent
<1>3. ASSUME NEW c \in Calls, NEW u \in Urls, GetStart(c, u) PROVE Recent'
  BY <1>3 DEF GetStart, Recent, TypeOK
<1>4. ASSUME NEW f \in Fetches, Respond(f) PROVE Recent'
  BY <1>4 DEF Respond, Recent, TypeOK
<1>5. ASSUME NEW f \in Fetches, Complete(f) PROVE Recent'
  <2>1. PICK u \in Urls : u = fetch[f].url
    BY DEF TypeOK
  <2>2. PICK v \in Nat : v = fetch[f].version
    BY DEF TypeOK
  <2>3. /\ fetch[f].stage = "responded"
        /\ newest[u] <= v /\ v <= published[u]
        /\ \A w \in Urls : newest[w] \in Nat /\ published[w] \in Nat
    BY <1>5, <2>1, <2>2 DEF Complete, Recent, TypeOK
  <2>4. /\ fetch' = [fetch EXCEPT ![f].stage = "done"]
        /\ cache' = [cache EXCEPT ![u] = v]
        /\ newest' = [newest EXCEPT ![u] = v]
        /\ published' = published
    <3>1. Later(newest[u], v) = v
      BY <2>3 DEF Later
    <3>2. newest' = [newest EXCEPT ![u] = Later(newest[u], v)]
      BY <1>5, <2>1, <2>2 DEF Complete, TypeOK
    <3> QED
      BY <1>5, <2>1, <2>2, <3>1, <3>2 DEF Complete, Settle
  <2>5. \A g \in Fetches : g # f /\ fetch[g].stage \in Live => fetch[g].url # u
    BY <2>1, <2>3 DEF Single, OnePerUrl
  <2>6. \A w \in Urls : newest'[w] <= published'[w]
    BY <2>3, <2>4 DEF Recent, TypeOK
  <2>7. \A w \in Urls : cache'[w] # 0 => newest'[w] <= cache'[w] /\ cache'[w] <= published'[w]
    BY <2>3, <2>4 DEF Recent, TypeOK
  <2>8. \A g \in Fetches :
            /\ fetch'[g].url = fetch[g].url /\ fetch'[g].version = fetch[g].version
            /\ fetch'[g].stage \in Live => g # f /\ fetch'[g].stage = fetch[g].stage
    BY <2>4 DEF TypeOK
  <2> QED
    BY <2>4, <2>5, <2>6, <2>7, <2>8 DEF Recent, TypeOK
<1>6. ASSUME NEW f \in Fetches, Fail(f) PROVE Recent'
  BY <1>6 DEF Fail, Settle, Recent, TypeOK
<1>7. ASSUME NEW u \in Urls, Invalidate(u) \/ Publish(u) PROVE Recent'
  BY <1>7 DEF Invalidate, Publish, Recent, TypeOK
<1>8. CASE Clear
  BY <1>8 DEF Clear, Recent, TypeOK
<1>9. CASE UNCHANGED vars
  BY <1>9 DEF vars, Recent
<1> QED
  BY <1>1, <1>2, <1>3, <1>4, <1>5, <1>6, <1>7, <1>8, <1>9 DEF Next

LEMMA AnswerStep ==
    ASSUME clients = 1, TypeOK, Single, Recent, [Next]_vars, NEW c \in Calls,
           call[c].stage # "answered", call'[c].stage = "answered"
    PROVE  call'[c].version >= newest[call'[c].url]
<1> USE FetchAssumption DEF Live, NoAsset, Versions
<1>0. call[c] \in [url : Urls, version : Nat,
                   stage : {"idle", "waiting", "answered", "failed"},
                   fetch : Fetches \cup {NoFetch}]
  BY DEF TypeOK
<1>1. ASSUME NEW d \in Calls, NEW u \in Urls, GetCached(d, u)
      PROVE  call'[c].version >= newest[call'[c].url]
  <2>1. call' = [call EXCEPT ![d] = [url |-> u, version |-> cache[u], stage |-> "answered",
                                    fetch |-> NoFetch]]
    BY <1>1 DEF GetCached, Asks
  <2>2. call'[c].url = u /\ call'[c].version = cache[u]
    BY <2>1 DEF TypeOK
  <2> QED
    BY <1>1, <2>2 DEF GetCached, Recent, TypeOK
<1>2. ASSUME NEW d \in Calls, NEW u \in Urls, GetPending(d, u) \/ GetStart(d, u)
      PROVE  FALSE
  <2>1. PICK f \in Fetches \cup {NoFetch} :
          call' = [call EXCEPT ![d] = [url |-> u, version |-> NoAsset, stage |-> "waiting",
                                      fetch |-> f]]
    BY <1>2 DEF GetPending, GetStart, Asks, TypeOK
  <2>2. call'[c] = call[c] \/ call'[c].stage = "waiting"
    BY <2>1 DEF TypeOK
  <2> QED
    BY <2>2
<1>3. ASSUME NEW f \in Fetches, NEW stage \in {"answered", "failed"}, Settle(f, stage)
      PROVE  stage = "answered" /\ call[c].stage = "waiting" /\ call[c].fetch = f
             /\ call'[c].url = call[c].url /\ call'[c].version = fetch[f].version
  <2>1. call'[c] = IF call[c].stage = "waiting" /\ call[c].fetch = f
                   THEN [call[c] EXCEPT !.stage = stage,
                                        !.version = IF stage = "answered"
                                                    THEN fetch[f].version ELSE NoAsset]
                   ELSE call[c]
    BY <1>3 DEF Settle
  <2> QED
    BY <1>0, <2>1
<1>4. ASSUME NEW f \in Fetches, Complete(f)
      PROVE  call'[c].version >= newest[call'[c].url]
  <2>1. fetch[f].stage = "responded" /\ Settle(f, "answered")
    BY <1>4 DEF Complete
  <2>2. call[c].url = fetch[f].url
    BY <1>3, <2>1 DEF Single, Awaited
  <2>3. newest[fetch[f].url] <= fetch[f].version
    BY <2>1 DEF Recent
  <2>4. newest[fetch[f].url] \in Nat /\ fetch[f].version \in Nat
    BY DEF TypeOK
  <2> QED
    BY <1>3, <2>1, <2>2, <2>3, <2>4
<1>5. ASSUME NEW f \in Fetches, Fail(f) PROVE FALSE
  BY <1>3, <1>5 DEF Fail
<1>6. ASSUME call' = call PROVE FALSE
  BY <1>6
<1> QED
  BY <1>1, <1>2, <1>4, <1>5, <1>6 DEF Next, Respond, Invalidate, Publish, Clear, vars

(* A get() of a fetcher used by one client never returns content older than what
   an earlier get() of the URL returned. *)
THEOREM ForwardCorrect == Spec => NoRegress
<1> DEFINE Forward ==
      clients = 1 => \A c \in Calls :
          call[c].stage # "answered" /\ call'[c].stage = "answered" =>
              call'[c].version >= newest[call'[c].url]
           Ahead == clients = 1 => Recent
<1>1. Init => Ahead
  BY DEF Init, Recent, Live, NoAsset
<1>2. TypeOK /\ Alone /\ Ahead /\ [Next]_vars => Ahead'
  BY RecentStep, SameClients DEF Alone
<1>3. TypeOK /\ Alone /\ Ahead /\ [Next]_vars => [Forward]_vars
  BY AnswerStep DEF Alone
<1> QED
  BY <1>1, <1>2, <1>3, AloneInit, AloneStep, TypeCorrect, PTL DEF Spec, NoRegress

----------------------------------------------------------------------------
(* The safety half of CallsSettle, for any number of clients. *)

EntriesLive ==
    \A u \in Urls : inFlight[u] # NoFetch =>
        /\ inFlight[u] \in Fetches
        /\ fetch[inFlight[u]].stage \in Live
        /\ fetch[inFlight[u]].url = u

LEMMA AwaitedStep ==
    ASSUME TypeOK, EntriesLive, Awaited, [Next]_vars
    PROVE  EntriesLive' /\ Awaited'
<1> USE FetchAssumption DEF Live
<1>1. ASSUME NEW c \in Calls, NEW u \in Urls, GetCached(c, u) \/ GetPending(c, u)
      PROVE  EntriesLive' /\ Awaited'
  BY <1>1 DEF GetCached, GetPending, Asks, EntriesLive, Awaited, TypeOK
<1>2. ASSUME NEW c \in Calls, NEW u \in Urls, GetStart(c, u)
      PROVE  EntriesLive' /\ Awaited'
  <2>1. PICK f \in Fetches :
          /\ fetch[f].stage = "unused"
          /\ fetch' = [fetch EXCEPT ![f] = [url |-> u, version |-> NoAsset,
                                            stage |-> "requested"]]
          /\ inFlight' = [inFlight EXCEPT ![u] = f]
          /\ call' = [call EXCEPT ![c] = [url |-> u, version |-> NoAsset, stage |-> "waiting",
                                          fetch |-> f]]
    BY <1>2 DEF GetStart, Asks
  <2>2. EntriesLive'
    BY <2>1 DEF EntriesLive, TypeOK
  <2>3. Awaited'
    BY <2>1 DEF Awaited, TypeOK
  <2> QED
    BY <2>2, <2>3
<1>3. ASSUME NEW f \in Fetches, Respond(f) PROVE EntriesLive' /\ Awaited'
  BY <1>3 DEF Respond, EntriesLive, Awaited, TypeOK
<1>4. ASSUME NEW f \in Fetches, NEW stage \in {"answered", "failed"}, Settle(f, stage),
             inFlight' = [inFlight EXCEPT ![fetch[f].url] = NoFetch]
      PROVE  EntriesLive' /\ Awaited'
  <2>1. fetch' = [fetch EXCEPT ![f].stage = "done"]
    BY <1>4 DEF Settle
  <2>2. EntriesLive'
    BY <1>4, <2>1 DEF EntriesLive, TypeOK
  <2>3. ASSUME NEW c \in Calls, call'[c].stage = "waiting"
        PROVE  call'[c] = call[c] /\ call[c].fetch # f
    <3>1. call[c] \in [url : Urls, version : Versions,
                       stage : {"idle", "waiting", "answered", "failed"},
                       fetch : Fetches \cup {NoFetch}]
      BY DEF TypeOK
    <3>2. call'[c] = IF call[c].stage = "waiting" /\ call[c].fetch = f
                     THEN [call[c] EXCEPT !.stage = stage,
                                          !.version = IF stage = "answered"
                                                      THEN fetch[f].version ELSE NoAsset]
                     ELSE call[c]
      BY <1>4 DEF Settle
    <3> QED
      BY <2>3, <3>1, <3>2
  <2>4. Awaited'
    BY <2>1, <2>3 DEF Awaited, TypeOK
  <2> QED
    BY <2>2, <2>4
<1>5. ASSUME NEW f \in Fetches, Complete(f) \/ Fail(f) PROVE EntriesLive' /\ Awaited'
  BY <1>4, <1>5 DEF Complete, Fail
<1>6. ASSUME NEW u \in Urls, Invalidate(u) \/ Publish(u) PROVE EntriesLive' /\ Awaited'
  BY <1>6 DEF Invalidate, Publish, EntriesLive, Awaited
<1>7. CASE Clear
  BY <1>7 DEF Clear, EntriesLive, Awaited
<1>8. CASE UNCHANGED vars
  BY <1>8 DEF vars, EntriesLive, Awaited
<1> QED
  BY <1>1, <1>2, <1>3, <1>5, <1>6, <1>7, <1>8 DEF Next

(* A get() that waits, waits for a fetch of its URL that the network has not
   finished: also when a clear() forgot that fetch, or when a forgotten fetch of
   the URL ended and deleted the entry of the one that waits (http/assets.ts:49-64,
   83-86).  Nobody is left waiting for what has already ended. *)
THEOREM AwaitedCorrect == Spec => []Awaited
<1>1. Init => EntriesLive /\ Awaited
  BY DEF Init, EntriesLive, Awaited
<1> QED
  BY <1>1, AwaitedStep, TypeCorrect, PTL DEF Spec
=============================================================================

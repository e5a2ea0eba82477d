-------------------------- MODULE SceneGraphProofs --------------------------
(***************************************************************************)
(* Proofs about SceneGraph, for every set of nodes and entries, any number *)
(* of re-applications and any order of payloads, removals and resolutions. *)
(***************************************************************************)
EXTENDS SceneGraph, TLAPS

USE SceneAssumption

(* The server never moves a node to another parent. *)
FixedHierarchy == \A u \in Uids : \A p, q \in Parents[u] : p = q

(* An entry serves one node, and none before it is used. *)
Owned ==
    /\ \A u \in Mounted : owner[mounted[u]] = u
    /\ \A e \in Entries : owner[e] = NoUid => place[e] = Nowhere
    /\ \A e \in Entries : owner[e] = NoUid => gen[e] = 0

(* Every mounted node that hangs under the root for want of its parent is parked
   for that parent, and only mounted nodes whose parent is not mounted are. *)
Parking ==
    /\ \A u \in Mounted : parentId[mounted[u]] \in Parents[u]
    /\ \A u \in Mounted :
           /\ parentId[mounted[u]] # NoUid
           /\ parentId[mounted[u]] \notin Mounted
           /\ place[mounted[u]] = Root
           => u \in orphans[parentId[mounted[u]]]
    /\ \A p \in Uids : \A u \in orphans[p] :
           /\ u \in Mounted
           /\ parentId[mounted[u]] = p
           /\ p \notin Mounted

----------------------------------------------------------------------------
(* The parts of a node payload that keep their types. *)

LEMMA ApplyType ==
    ASSUME TypeOK, NEW e \in Entries, NEW u \in Uids, NEW p \in Uids \cup {NoUid}
    PROVE  /\ Adopted(e, u, Reparented(e, p)) \in [Entries -> Entries \cup {Root, Nowhere}]
           /\ [Parked(e, u, p) EXCEPT ![u] = {}] \in [Uids -> SUBSET Uids]
<1>1. ObjectFor(p) \in Entries \cup {Root}
  BY DEF ObjectFor, TypeOK
<1>2. Reparented(e, p) \in [Entries -> Entries \cup {Root, Nowhere}]
  BY <1>1 DEF Reparented, TypeOK
<1>3. Parked(e, u, p) \in [Uids -> SUBSET Uids]
  BY DEF Parked, TypeOK
<1> QED
  BY <1>2, <1>3 DEF Adopted

(* Every state of every run has its type. *)
THEOREM TypeCorrect == Spec => []TypeOK
<1>1. Init => TypeOK
  BY DEF Init, TypeOK, NoRig, Groups
<1>2. TypeOK /\ [Next]_vars => TypeOK'
  <2> SUFFICES ASSUME TypeOK, [Next]_vars PROVE TypeOK'
    OBVIOUS
  <2>1. ASSUME NEW u \in Uids, NEW p \in Uids \cup {NoUid}, NEW mesh \in BOOLEAN,
               ApplyNode(u, p, mesh)
        PROVE  TypeOK'
    <3>1. PICK e \in Entries :
              /\ mounted' = [mounted EXCEPT ![u] = e]
              /\ owner' = [owner EXCEPT ![e] = u]
              /\ parentId' = [parentId EXCEPT ![e] = p]
              /\ place' = Adopted(e, u, Reparented(e, p))
              /\ orphans' = [Parked(e, u, p) EXCEPT ![u] = {}]
              /\ UpdateVisual(e, mesh)
              /\ nodes' = nodes \cup {u}
              /\ UNCHANGED <<rig, attached, session>>
      BY <2>1 DEF ApplyNode
    <3>2. place' \in [Entries -> Entries \cup {Root, Nowhere}] /\ orphans' \in [Uids -> SUBSET Uids]
      BY <3>1, ApplyType
    <3>3. gen' \in [Entries -> Nat] /\ visual' \in [Entries -> Nat] /\ pending' \subseteq Groups
      BY <3>1 DEF UpdateVisual, TypeOK, Groups
    <3> QED
      BY <3>1, <3>2, <3>3 DEF TypeOK
  <2>2. ASSUME NEW u \in Uids, RemoveNode(u) PROVE TypeOK'
    BY <2>2 DEF RemoveNode, Removable, Mounted, TypeOK
  <2>3. ASSUME NEW g \in pending, NEW skinned \in BOOLEAN, Populate(g, skinned) PROVE TypeOK'
    BY <2>3 DEF Populate, graph, TypeOK, Groups
  <2>4. ASSUME NEW g \in pending, PopulateFailed(g) PROVE TypeOK'
    BY <2>4 DEF PopulateFailed, graph, TypeOK
  <2>5. CASE Disconnect
    BY <2>5 DEF Disconnect, TypeOK
  <2>6. CASE DisconnectClient
    BY <2>6 DEF DisconnectClient, graph, TypeOK
  <2>7. CASE UNCHANGED vars
    BY <2>7 DEF vars, graph, TypeOK
  <2> QED
    BY <2>1, <2>2, <2>3, <2>4, <2>5, <2>6, <2>7 DEF Next
<1> QED
  BY <1>1, <1>2, PTL DEF Spec

----------------------------------------------------------------------------
(* What ApplyNode does, with the entry it is about. *)

Applied(u, p, mesh, e) ==
    /\ attached /\ session = "open"
    /\ p \in Parents[u]
    /\ IF u \in Mounted THEN e = mounted[u] ELSE owner[e] = NoUid
    /\ mounted' = [mounted EXCEPT ![u] = e]
    /\ owner' = [owner EXCEPT ![e] = u]
    /\ parentId' = [parentId EXCEPT ![e] = p]
    /\ p # u
    /\ place' = Adopted(e, u, Reparented(e, p))
    /\ orphans' = [Parked(e, u, p) EXCEPT ![u] = {}]
    /\ UpdateVisual(e, mesh)
    /\ nodes' = nodes \cup {u}
    /\ UNCHANGED <<rig, attached, session>>

LEMMA ApplyApplied ==
    ASSUME TypeOK, NEW u \in Uids, NEW p \in Uids \cup {NoUid}, NEW mesh \in BOOLEAN,
           ApplyNode(u, p, mesh)
    PROVE  \E e \in Entries : Applied(u, p, mesh, e)
<1>1. PICK e \in Entries :
          /\ attached /\ session = "open"
          /\ p \in Parents[u]
          /\ IF u \in Mounted THEN e = mounted[u] ELSE owner[e] = NoUid
          /\ mounted' = [mounted EXCEPT ![u] = e]
          /\ owner' = [owner EXCEPT ![e] = u]
          /\ parentId' = [parentId EXCEPT ![e] = p]
          /\ Acyclic(Mounted', LAMBDA x : parentId'[mounted'[x]])
          /\ place' = Adopted(e, u, Reparented(e, p))
          /\ orphans' = [Parked(e, u, p) EXCEPT ![u] = {}]
          /\ UpdateVisual(e, mesh)
          /\ nodes' = nodes \cup {u}
          /\ UNCHANGED <<rig, attached, session>>
  BY DEF ApplyNode
<1>2. mounted'[u] = e /\ parentId'[e] = p /\ e # NoEntry
  BY <1>1 DEF TypeOK
<1>3. {u} \in SUBSET Mounted' /\ {u} # {}
  BY <1>2 DEF Mounted
<1>4. \A S \in SUBSET Mounted' : S # {} => \E x \in S : parentId'[mounted'[x]] \notin S
  BY <1>1 DEF Acyclic
<1>5. p # u
  BY <1>2, <1>3, <1>4
<1> QED
  BY <1>1, <1>5 DEF Applied

----------------------------------------------------------------------------
(* Entries and their nodes. *)

LEMMA OwnedStep == TypeOK /\ Owned /\ [Next]_vars => Owned'
<1> SUFFICES ASSUME TypeOK, Owned, [Next]_vars PROVE Owned'
  OBVIOUS
<1> USE DEF TypeOK, Owned, Mounted
<1>1. ASSUME NEW u \in Uids, NEW p \in Uids \cup {NoUid}, NEW mesh \in BOOLEAN,
             ApplyNode(u, p, mesh)
      PROVE  Owned'
  <2>1. PICK e \in Entries : Applied(u, p, mesh, e)
    BY <1>1, ApplyApplied
  <2>2. /\ mounted' = [mounted EXCEPT ![u] = e]
        /\ owner' = [owner EXCEPT ![e] = u]
        /\ gen' = [gen EXCEPT ![e] = @ + 1]
        /\ IF u \in Mounted THEN e = mounted[u] ELSE owner[e] = NoUid
    BY <2>1 DEF Applied, UpdateVisual
  <2>3. \A v \in Mounted' : owner'[mounted'[v]] = v
    BY <2>2
  <2>4. ASSUME NEW x \in Entries, owner'[x] = NoUid PROVE place'[x] = Nowhere /\ gen'[x] = 0
    <3>1. x # e /\ owner[x] = NoUid
      BY <2>2, <2>4
    <3>2. \A c \in Mounted : mounted[c] # x
      BY <3>1
    <3>3. place'[x] = Reparented(e, p)[x] \/ (\E c \in orphans[u] : mounted[c] = x)
      BY <2>1 DEF Applied, Adopted
    <3>4. \A c \in orphans[u] : mounted[c] # x
      BY <3>2
    <3>5. Reparented(e, p)[x] = place[x]
      BY <3>1 DEF Reparented
    <3> QED
      BY <2>2, <3>1, <3>3, <3>4, <3>5
  <2> QED
    BY <2>3, <2>4
<1>2. ASSUME NEW u \in Uids, RemoveNode(u) PROVE Owned'
  BY <1>2 DEF RemoveNode, Removable
<1>3. ASSUME NEW g \in pending, NEW skinned \in BOOLEAN, Populate(g, skinned) PROVE Owned'
  BY <1>3 DEF Populate, graph
<1>4. ASSUME NEW g \in pending, PopulateFailed(g) PROVE Owned'
  BY <1>4 DEF PopulateFailed, graph
<1>5. CASE Disconnect
  BY <1>5 DEF Disconnect
<1>6. CASE DisconnectClient
  BY <1>6 DEF DisconnectClient, graph
<1>7. CASE UNCHANGED vars
  BY <1>7 DEF vars, graph
<1> QED
  BY <1>1, <1>2, <1>3, <1>4, <1>5, <1>6, <1>7 DEF Next

LEMMA OwnedCorrect == Spec => []Owned
<1>1. Init => Owned
  BY DEF Init, Owned, Mounted
<1> QED
  BY <1>1, OwnedStep, TypeCorrect, PTL DEF Spec

----------------------------------------------------------------------------
(* The hierarchy under a server that keeps it fixed. *)

Hierarchy == Parking /\ Wired

LEMMA ApplyHierarchy ==
    ASSUME FixedHierarchy, TypeOK, Owned, Hierarchy,
           NEW u \in Uids, NEW p \in Uids \cup {NoUid}, NEW mesh \in BOOLEAN,
           ApplyNode(u, p, mesh)
    PROVE  Hierarchy'
<1>1. PICK e \in Entries : Applied(u, p, mesh, e)
  BY ApplyApplied
<1>2. /\ mounted' = [mounted EXCEPT ![u] = e]
      /\ owner' = [owner EXCEPT ![e] = u]
      /\ parentId' = [parentId EXCEPT ![e] = p]
      /\ place' = Adopted(e, u, Reparented(e, p))
      /\ orphans' = [Parked(e, u, p) EXCEPT ![u] = {}]
      /\ p # u /\ p \in Parents[u]
      /\ IF u \in Mounted THEN e = mounted[u] ELSE owner[e] = NoUid
  BY <1>1 DEF Applied
<1>3. Mounted' = Mounted \cup {u} /\ mounted'[u] = e /\ parentId'[e] = p
  BY <1>2 DEF Mounted, TypeOK
<1>4. \A v \in Mounted \ {u} : mounted[v] # e
  BY <1>2 DEF Owned, Mounted, TypeOK
<1>5. \A v \in Mounted \ {u} :
          mounted'[v] = mounted[v] /\ parentId'[mounted'[v]] = parentId[mounted[v]]
  BY <1>2, <1>4 DEF Mounted, TypeOK
<1>6. u \notin orphans[u] /\ (u \in Mounted => orphans[u] = {})
  BY DEF Hierarchy, Parking, TypeOK
<1>7. Kept(e, p) => u \in Mounted
  BY <1>2 DEF Kept, Owned
<1>8. u \in Mounted => parentId[e] = p
  BY <1>2 DEF FixedHierarchy, Hierarchy, Parking
<1>9. place'[e] = IF Kept(e, p) THEN place[e] ELSE ObjectFor(p)
  <2>1. \A c \in orphans[u] : mounted[c] # e
    BY <1>4, <1>6 DEF Hierarchy, Parking
  <2>2. place'[e] = Reparented(e, p)[e]
    BY <1>2, <2>1 DEF Adopted
  <2> QED
    BY <2>2 DEF Reparented, TypeOK
<1>10. ASSUME NEW v \in Mounted \ {u}
       PROVE  place'[mounted[v]] = IF v \in orphans[u] THEN e ELSE place[mounted[v]]
  <2> DEFINE x == mounted[v]
  <2>1. x \in Entries /\ x # e
    BY <1>4 DEF Mounted, TypeOK
  <2>2. Reparented(e, p)[x] = place[x]
    BY <2>1 DEF Reparented, TypeOK
  <2>3. place'[x] = IF \E c \in orphans[u] : mounted[c] = x THEN e ELSE place[x]
    BY <1>2, <2>1, <2>2 DEF Adopted
  <2>4. (\E c \in orphans[u] : mounted[c] = x) <=> v \in orphans[u]
    BY DEF Hierarchy, Parking, Owned
  <2> QED
    BY <2>3, <2>4
<1>11. Parking'
  <2>1. \A v \in Mounted' : parentId'[mounted'[v]] \in Parents[v]
    BY <1>2, <1>3, <1>5 DEF Hierarchy, Parking
  <2>2. ASSUME NEW v \in Mounted', parentId'[mounted'[v]] # NoUid,
               parentId'[mounted'[v]] \notin Mounted', place'[mounted'[v]] = Root
        PROVE  v \in orphans'[parentId'[mounted'[v]]]
    <3>1. CASE v = u
      <4>1. p # NoUid /\ p \in Uids /\ p \notin Mounted /\ p # u /\ place'[e] = Root
        BY <2>2, <3>1, <1>2, <1>3
      <4>2. Kept(e, p) => u \in orphans[p]
        BY <4>1, <1>2, <1>7, <1>8, <1>9 DEF Hierarchy, Parking
      <4>3. u \in Parked(e, u, p)[p]
        BY <4>1, <4>2 DEF Parked, TypeOK
      <4>4. orphans'[p] = Parked(e, u, p)[p]
        BY <1>2, <4>1 DEF Parked, TypeOK
      <4> QED
        BY <3>1, <4>3, <4>4, <1>3
    <3>2. CASE v # u
      <4> DEFINE q == parentId[mounted[v]]
      <4>1. v \in Mounted \ {u} /\ parentId'[mounted'[v]] = q /\ mounted'[v] = mounted[v]
        BY <3>2, <1>3, <1>5
      <4>2. q \in Uids /\ q # u /\ q \notin Mounted
        BY <4>1, <2>2, <1>3 DEF TypeOK, Mounted
      <4>3. place[mounted[v]] = Root
        BY <4>1, <2>2, <1>10
      <4>4. v \in orphans[q]
        BY <4>1, <4>2, <4>3 DEF Hierarchy, Parking
      <4>5. orphans'[q] = Parked(e, u, p)[q] /\ orphans[q] \subseteq Parked(e, u, p)[q]
        BY <1>2, <4>2 DEF Parked, TypeOK
      <4> QED
        BY <4>1, <4>4, <4>5
    <3> QED
      BY <3>1, <3>2
  <2>3. ASSUME NEW q \in Uids, NEW v \in orphans'[q]
        PROVE  v \in Mounted' /\ parentId'[mounted'[v]] = q /\ q \notin Mounted'
    <3>1. q # u
      BY <1>2, <2>3 DEF Parked, TypeOK
    <3>2. v \in Parked(e, u, p)[q]
      BY <1>2, <2>3, <3>1 DEF Parked, TypeOK
    <3>3. v \in orphans[q] \/ (v = u /\ q = p /\ p \notin Mounted)
      BY <3>2, <2>3 DEF Parked, TypeOK
    <3>4. CASE v \in orphans[q]
      <4>1. v \in Mounted /\ parentId[mounted[v]] = q /\ q \notin Mounted
        BY <3>4, <2>3 DEF Hierarchy, Parking
      <4>2. CASE v # u
        BY <4>1, <4>2, <3>1, <1>3, <1>5
      <4>3. CASE v = u
        BY <4>1, <4>3, <3>1, <1>2, <1>3, <1>8
      <4> QED
        BY <4>2, <4>3
    <3>5. CASE v = u /\ q = p /\ p \notin Mounted
      BY <3>5, <3>1, <1>3
    <3> QED
      BY <3>3, <3>4, <3>5
  <2> QED
    BY <2>1, <2>2, <2>3 DEF Parking
<1>12. Wired'
  <2>1. \A q \in (Uids \cup {NoUid}) \ {u} : ObjectFor(q)' = ObjectFor(q)
    BY <1>2 DEF ObjectFor, TypeOK
  <2>2. ObjectFor(u)' = e
    BY <1>3, e \in Entries DEF ObjectFor
  <2>3. \A q \in Uids : Former(q) \subseteq Former(q)'
    BY <1>2 DEF Former, Owned, Mounted, TypeOK
  <2>4. ASSUME NEW v \in Mounted', NEW x, x = mounted'[v], NEW q, q = parentId'[x]
        PROVE  place'[x] = ObjectFor(q)' \/ (q \in Uids \ Anchored /\ place'[x] \in Former(q)')
    <3>1. CASE v = u
      <4>1. x = e /\ q = p /\ ObjectFor(q)' = ObjectFor(p)
        BY <3>1, <2>1, <2>4, <1>2, <1>3
      <4>2. CASE Kept(e, p)
        <5>1. \/ place[e] = ObjectFor(p)
              \/ p \in Uids \ Anchored /\ place[e] \in Former(p)
          BY <4>2, <1>2, <1>7, <1>8 DEF Hierarchy, Wired
        <5> QED
          BY <5>1, <4>1, <4>2, <1>9, <2>3
      <4>3. CASE ~Kept(e, p)
        BY <4>1, <4>3, <1>9
      <4> QED
        BY <4>2, <4>3
    <3>2. CASE v # u
      <4>1. v \in Mounted \ {u} /\ x = mounted[v] /\ q = parentId[x] /\ x \in Entries
        BY <3>2, <2>4, <1>3, <1>5 DEF Mounted, TypeOK
      <4>2. q \in Uids \cup {NoUid}
        BY <4>1 DEF TypeOK
      <4>3. place[x] = ObjectFor(q) \/ (q \in Uids \ Anchored /\ place[x] \in Former(q))
        BY <4>1 DEF Hierarchy, Wired
      <4>4. CASE v \in orphans[u]
        BY <4>1, <4>4, <1>10, <2>2 DEF Hierarchy, Parking
      <4>5. CASE v \notin orphans[u]
        <5>1. place'[x] = place[x]
          BY <4>1, <4>5, <1>10
        <5>2. CASE q \in Uids \ Anchored /\ place[x] \in Former(q)
          BY <5>1, <5>2, <2>3
        <5>3. CASE q # u /\ place[x] = ObjectFor(q)
          BY <4>2, <5>1, <5>3, <2>1
        <5>4. CASE q = u /\ place[x] = ObjectFor(q)
          <6>1. u \notin Mounted => place[x] = Root
            BY <5>4 DEF ObjectFor, Mounted
          <6>2. u \in Mounted
            <7>1. parentId[mounted[v]] = u /\ u # NoUid /\ v \in Mounted
              BY <4>1, <5>4
            <7>2. u \notin Mounted /\ place[mounted[v]] = Root => v \in orphans[u]
              BY <7>1 DEF Hierarchy, Parking
            <7> QED
              BY <4>1, <4>5, <6>1, <7>2
          <6>3. place[x] = e
            BY <5>4, <6>2, <1>2 DEF ObjectFor, Mounted
          <6> QED
            BY <5>1, <5>4, <6>3, <2>2
        <5> QED
          BY <4>3, <5>2, <5>3, <5>4
      <4> QED
        BY <4>4, <4>5
    <3> QED
      BY <3>1, <3>2
  <2> QED
    BY <2>4 DEF Wired
<1> QED
  BY <1>11, <1>12 DEF Hierarchy

LEMMA RemoveHierarchy ==
    ASSUME TypeOK, Owned, Hierarchy, NEW u \in Uids, RemoveNode(u)
    PROVE  Hierarchy'
<1>1. /\ mounted' = [mounted EXCEPT ![u] = NoEntry]
      /\ place' = [place EXCEPT ![mounted[u]] = Nowhere]
      /\ orphans' = [q \in Uids |-> orphans[q] \ {u}]
      /\ parentId' = parentId /\ owner' = owner
      /\ u \in Mounted
      /\ u \in Anchored => \A c \in Mounted : parentId[mounted[c]] # u
  BY DEF RemoveNode, Removable
<1>2. Mounted' = Mounted \ {u} /\ \A v \in Mounted' : mounted'[v] = mounted[v]
  BY <1>1 DEF Mounted, TypeOK
<1>3. \A v \in Mounted' : place'[mounted'[v]] = place[mounted[v]]
  BY <1>1, <1>2 DEF Owned, Mounted, TypeOK
<1>4. \A q \in Uids : Former(q) \subseteq Former(q)'
  BY <1>1 DEF Former, TypeOK
<1>5. mounted[u] \in Entries /\ ObjectFor(u) = mounted[u] /\ mounted[u] \in Former(u)'
  BY <1>1 DEF Former, ObjectFor, Owned, Mounted, TypeOK
<1>6. ASSUME NEW v \in Mounted', parentId[mounted[v]] = u
      PROVE  u \notin Anchored /\ place[mounted[v]] \in Former(u)'
  <2>1. u \notin Anchored
    BY <1>1, <1>2, <1>6
  <2>2. place[mounted[v]] = mounted[u] \/ place[mounted[v]] \in Former(u)
    BY <1>2, <1>5, <1>6 DEF Hierarchy, Wired
  <2> QED
    BY <2>1, <2>2, <1>4, <1>5
<1>7. Parking'
  <2>1. ASSUME NEW v \in Mounted', place[mounted[v]] = Root
        PROVE  parentId[mounted[v]] # u
    BY <1>6, <2>1 DEF Former
  <2> QED
    BY <1>1, <1>2, <1>3, <2>1 DEF Hierarchy, Parking, Mounted, TypeOK
<1>8. ASSUME NEW v \in Mounted', NEW x, x = mounted'[v], NEW q, q = parentId'[x]
      PROVE  place'[x] = ObjectFor(q)' \/ (q \in Uids \ Anchored /\ place'[x] \in Former(q)')
  <2>1. v \in Mounted /\ x = mounted[v] /\ q = parentId[x] /\ place'[x] = place[x]
    BY <1>1, <1>2, <1>3, <1>8
  <2>2. CASE q = u
    BY <2>1, <2>2, <1>6
  <2>3. CASE q # u
    <3>1. ObjectFor(q)' = ObjectFor(q)
      BY <1>1, <2>1, <2>3 DEF ObjectFor, Mounted, TypeOK
    <3>2. place[x] = ObjectFor(q) \/ (q \in Uids \ Anchored /\ place[x] \in Former(q))
      BY <2>1 DEF Hierarchy, Wired
    <3> QED
      BY <2>1, <3>1, <3>2, <1>4
  <2> QED
    BY <2>2, <2>3
<1> QED
  BY <1>7, <1>8 DEF Hierarchy, Wired

(* Whatever the order in which nodes and their parents arrive, are sent again and
   are removed, a fixed hierarchy is the one the objects form. *)
THEOREM WiredCorrect == FixedHierarchy /\ Spec => []Wired
<1> SUFFICES ASSUME FixedHierarchy PROVE Spec => []Wired
  OBVIOUS
<1>1. Init => Hierarchy
  BY DEF Init, Hierarchy, Parking, Wired, Mounted
<1>2. TypeOK /\ Owned /\ Hierarchy /\ [Next]_vars => Hierarchy'
  <2> SUFFICES ASSUME TypeOK, Owned, Hierarchy, [Next]_vars PROVE Hierarchy'
    OBVIOUS
  <2>1. CASE UNCHANGED graph
    BY <2>1 DEF graph, Hierarchy, Parking, Wired, Mounted, ObjectFor, Former
  <2>2. ASSUME NEW u \in Uids, NEW p \in Uids \cup {NoUid}, NEW mesh \in BOOLEAN,
               ApplyNode(u, p, mesh)
        PROVE  Hierarchy'
    BY <2>2, ApplyHierarchy
  <2>3. ASSUME NEW u \in Uids, RemoveNode(u) PROVE Hierarchy'
    BY <2>3, RemoveHierarchy
  <2>4. ASSUME NEW g \in pending, NEW skinned \in BOOLEAN, Populate(g, skinned) PROVE Hierarchy'
    BY <2>1, <2>4 DEF Populate
  <2>5. ASSUME NEW g \in pending, PopulateFailed(g) PROVE Hierarchy'
    BY <2>1, <2>5 DEF PopulateFailed
  <2>6. CASE Disconnect
    BY <2>6 DEF Disconnect, Hierarchy, Parking, Wired, Mounted
  <2>7. CASE DisconnectClient
    BY <2>1, <2>7 DEF DisconnectClient
  <2>8. CASE UNCHANGED vars
    BY <2>1, <2>8 DEF vars
  <2> QED
    BY <2>2, <2>3, <2>4, <2>5, <2>6, <2>7, <2>8 DEF Next
<1>3. Hierarchy => Wired
  BY DEF Hierarchy
<1> QED
  BY <1>1, <1>2, <1>3, TypeCorrect, OwnedCorrect, PTL DEF Spec

----------------------------------------------------------------------------
(* Rigs.  A populate can only take effect on an entry that is mounted, and no rig
   is ahead of its entry's generation. *)

Rigging ==
    /\ \A g \in pending : owner[g.entry] \in Uids /\ g.gen <= gen[g.entry]
    /\ attached => \A g \in pending :
                       gen[g.entry] = g.gen => mounted[owner[g.entry]] = g.entry
    /\ \A u \in Uids : rig[u] # NoRig =>
           /\ rig[u] \in Groups
           /\ rig[u].gen <= gen[rig[u].entry]
           /\ owner[rig[u].entry] = u
    /\ RigIsLive

LEMMA GroupParts ==
    /\ \A g \in Groups : g.entry \in Entries /\ g.gen \in Nat /\ g # NoRig
    /\ NoRig.entry = NoEntry /\ NoRig.gen = 0
  BY DEF Groups, NoRig

LEMMA ApplyRigging ==
    ASSUME TypeOK, Owned, Rigging,
           NEW u \in Uids, NEW p \in Uids \cup {NoUid}, NEW mesh \in BOOLEAN,
           ApplyNode(u, p, mesh)
    PROVE  Rigging'
<1>1. PICK e \in Entries : Applied(u, p, mesh, e)
  BY ApplyApplied
<1>2. /\ mounted' = [mounted EXCEPT ![u] = e]
      /\ owner' = [owner EXCEPT ![e] = u]
      /\ gen' = [gen EXCEPT ![e] = @ + 1]
      /\ pending' = IF mesh THEN pending \cup {[entry |-> e, gen |-> gen[e] + 1]} ELSE pending
      /\ rig' = rig /\ attached' = attached /\ attached
      /\ IF u \in Mounted THEN e = mounted[u] ELSE owner[e] = NoUid
  BY <1>1 DEF Applied, UpdateVisual
<1>3. /\ mounted'[u] = e /\ owner'[e] = u /\ gen[e] \in Nat /\ gen'[e] = gen[e] + 1
      /\ \A v \in Uids \ {u} : mounted'[v] = mounted[v]
      /\ \A x \in Entries \ {e} : owner'[x] = owner[x] /\ gen'[x] = gen[x]
  BY <1>2 DEF TypeOK
<1>4. u \in Mounted => owner[e] = u
  BY <1>2 DEF Owned
<1>5. ASSUME NEW g \in pending'
      PROVE  /\ owner'[g.entry] \in Uids /\ g.gen <= gen'[g.entry]
             /\ gen'[g.entry] = g.gen => mounted'[owner'[g.entry]] = g.entry
  <2>1. CASE g = [entry |-> e, gen |-> gen[e] + 1]
    BY <2>1, <1>3
  <2>2. CASE g \in pending
    <3>1. g.entry \in Entries /\ g.gen \in Nat
      BY <2>2, GroupParts DEF TypeOK
    <3>2. owner[g.entry] \in Uids /\ g.gen <= gen[g.entry]
      BY <2>2 DEF Rigging
    <3>3. gen[g.entry] = g.gen => mounted[owner[g.entry]] = g.entry
      BY <2>2, <1>2 DEF Rigging
    <3>4. CASE g.entry = e
      BY <3>1, <3>2, <3>4, <1>3
    <3>5. CASE g.entry # e
      <4>1. owner[g.entry] = u => mounted[u] # g.entry
        BY <3>1, <3>5, <1>2, <1>4 DEF Mounted
      <4> QED
        BY <3>1, <3>2, <3>3, <3>5, <4>1, <1>3
    <3> QED
      BY <3>4, <3>5
  <2> QED
    BY <2>1, <2>2, <1>2
<1>6. ASSUME NEW v \in Uids, rig'[v] # NoRig
      PROVE  /\ rig'[v] \in Groups
             /\ rig'[v].gen <= gen'[rig'[v].entry]
             /\ owner'[rig'[v].entry] = v
             /\ mounted'[v] = rig'[v].entry
  <2>1. rig[v] \in Groups /\ rig[v].gen <= gen[rig[v].entry] /\ owner[rig[v].entry] = v
        /\ mounted[v] = rig[v].entry
    BY <1>2, <1>6 DEF Rigging, RigIsLive
  <2>2. rig[v].entry \in Entries /\ rig[v].gen \in Nat /\ v \in Mounted
    BY <2>1, GroupParts DEF Mounted
  <2>3. v = u => rig[v].entry = e
    BY <2>1, <2>2, <1>2
  <2>4. v # u => rig[v].entry # e
    BY <2>1, <2>2, <1>2, <1>4
  <2> QED
    BY <2>1, <2>2, <2>3, <2>4, <1>2, <1>3
<1> QED
  BY <1>5, <1>6 DEF Rigging, RigIsLive

LEMMA RiggingStep == TypeOK /\ Owned /\ Rigging /\ [Next]_vars => Rigging'
<1> SUFFICES ASSUME TypeOK, Owned, Rigging, [Next]_vars PROVE Rigging'
  OBVIOUS
<1>1. ASSUME NEW u \in Uids, NEW p \in Uids \cup {NoUid}, NEW mesh \in BOOLEAN,
             ApplyNode(u, p, mesh)
      PROVE  Rigging'
  BY <1>1, ApplyRigging
<1>2. ASSUME NEW u \in Uids, RemoveNode(u) PROVE Rigging'
  <2> DEFINE e == mounted[u]
  <2>1. /\ mounted' = [mounted EXCEPT ![u] = NoEntry]
        /\ gen' = [gen EXCEPT ![e] = @ + 1]
        /\ rig' = [rig EXCEPT ![u] = NoRig]
        /\ pending' = pending /\ owner' = owner /\ attached' = attached /\ attached
        /\ e \in Entries /\ owner[e] = u
    BY <1>2 DEF RemoveNode, Removable, Mounted, Owned, TypeOK
  <2>2. /\ gen[e] \in Nat /\ gen'[e] = gen[e] + 1
        /\ \A x \in Entries \ {e} : gen'[x] = gen[x]
        /\ \A v \in Uids \ {u} : mounted'[v] = mounted[v] /\ rig'[v] = rig[v]
        /\ rig'[u] = NoRig
    BY <2>1 DEF TypeOK
  <2>3. ASSUME NEW g \in pending
        PROVE  /\ owner[g.entry] \in Uids /\ g.gen <= gen'[g.entry]
               /\ gen'[g.entry] = g.gen => mounted'[owner[g.entry]] = g.entry
    <3>1. g.entry \in Entries /\ g.gen \in Nat
      BY GroupParts DEF TypeOK
    <3>2. /\ owner[g.entry] \in Uids /\ g.gen <= gen[g.entry]
          /\ gen[g.entry] = g.gen => mounted[owner[g.entry]] = g.entry
      BY <2>1 DEF Rigging
    <3>3. CASE g.entry = e
      BY <3>1, <3>2, <3>3, <2>2
    <3>4. CASE g.entry # e
      BY <3>1, <3>2, <3>4, <2>1, <2>2
    <3> QED
      BY <3>3, <3>4
  <2>4. ASSUME NEW v \in Uids, rig'[v] # NoRig
        PROVE  /\ rig'[v] \in Groups
               /\ rig'[v].gen <= gen'[rig'[v].entry]
               /\ owner[rig'[v].entry] = v
               /\ mounted'[v] = rig'[v].entry
    <3>1. v # u /\ rig'[v] = rig[v]
      BY <2>2, <2>4
    <3>2. /\ rig[v] \in Groups /\ rig[v].gen <= gen[rig[v].entry]
          /\ owner[rig[v].entry] = v /\ mounted[v] = rig[v].entry
      BY <2>1, <2>4, <3>1 DEF Rigging, RigIsLive
    <3>3. rig[v].entry \in Entries /\ rig[v].entry # e
      BY <2>1, <3>1, <3>2, GroupParts
    <3> QED
      BY <2>2, <3>1, <3>2, <3>3
  <2> QED
    BY <2>1, <2>3, <2>4 DEF Rigging, RigIsLive
<1>3. ASSUME NEW g \in pending, NEW skinned \in BOOLEAN, Populate(g, skinned) PROVE Rigging'
  <2> DEFINE u == owner[g.entry]
  <2>1. /\ pending' = pending \ {g} /\ mounted' = mounted /\ owner' = owner
        /\ gen' = gen /\ attached' = attached
    BY <1>3 DEF Populate, graph
  <2>2. g \in Groups /\ u \in Uids
    BY DEF TypeOK, Rigging
  <2>3. CASE rig' = rig
    BY <2>1, <2>3 DEF Rigging, RigIsLive
  <2>4. CASE rig' = [rig EXCEPT ![u] = g] /\ gen[g.entry] = g.gen
    <3>1. rig'[u] = g /\ \A v \in Uids \ {u} : rig'[v] = rig[v]
      BY <2>2, <2>4 DEF TypeOK
    <3>2. g.gen <= gen[g.entry] /\ (attached => mounted[u] = g.entry)
      BY <2>4 DEF Rigging
    <3> QED
      BY <2>1, <2>2, <3>1, <3>2 DEF Rigging, RigIsLive
  <2> QED
    BY <1>3, <2>3, <2>4 DEF Populate
<1>4. ASSUME NEW g \in pending, PopulateFailed(g) PROVE Rigging'
  BY <1>4 DEF PopulateFailed, graph, Rigging, RigIsLive
<1>5. CASE Disconnect
  BY <1>5 DEF Disconnect, Rigging, RigIsLive
<1>6. CASE DisconnectClient
  BY <1>6 DEF DisconnectClient, graph, Rigging, RigIsLive
<1>7. CASE UNCHANGED vars
  BY <1>7 DEF vars, graph, Rigging, RigIsLive
<1> QED
  BY <1>1, <1>2, <1>3, <1>4, <1>5, <1>6, <1>7 DEF Next

(* A mesh that resolves late never gives a rig to a node that has gone or come
   again in the meantime. *)
THEOREM RigCorrect == Spec => []RigIsLive
<1>1. Init => Rigging
  BY DEF Init, Rigging, RigIsLive
<1>2. Rigging => RigIsLive
  BY DEF Rigging
<1> QED
  BY <1>1, <1>2, RiggingStep, TypeCorrect, OwnedCorrect, PTL DEF Spec

(* A mesh that resolves late never takes the rig of one applied after it. *)
THEOREM RigOrderCorrect == Spec => RigNeverRegresses
<1> DEFINE Forward == \A u \in Uids : rig'[u].entry = rig[u].entry => rig'[u].gen >= rig[u].gen
<1>1. Init => Rigging
  BY DEF Init, Rigging, RigIsLive
<1>2. TypeOK /\ Rigging /\ [Next]_vars => [Forward]_vars
  <2> SUFFICES ASSUME TypeOK, Rigging, [Next]_vars, NEW v \in Uids,
                      rig'[v].entry = rig[v].entry
               PROVE  rig'[v].gen >= rig[v].gen
    OBVIOUS
  <2>1. rig[v].gen \in Nat
    BY GroupParts DEF TypeOK
  <2>2. CASE rig'[v] = rig[v]
    BY <2>1, <2>2
  <2>3. ASSUME NEW u \in Uids, RemoveNode(u) PROVE rig'[v].gen >= rig[v].gen
    <3>1. rig'[v] = rig[v] \/ rig'[v] = NoRig
      BY <2>3 DEF RemoveNode, TypeOK
    <3>2. rig'[v] = NoRig => rig[v] = NoRig
      BY GroupParts DEF TypeOK
    <3> QED
      BY <2>1, <3>1, <3>2
  <2>4. ASSUME NEW g \in pending, NEW skinned \in BOOLEAN, Populate(g, skinned)
        PROVE  rig'[v].gen >= rig[v].gen
    <3>1. rig'[v] = rig[v] \/ (rig'[v] = g /\ gen[g.entry] = g.gen)
      BY <2>4 DEF Populate, TypeOK
    <3>2. CASE rig'[v] = g /\ gen[g.entry] = g.gen
      <4>1. g \in Groups /\ g.gen \in Nat
        BY GroupParts DEF TypeOK
      <4>2. rig[v] # NoRig
        BY <3>2, <4>1, GroupParts
      <4>3. rig[v].gen <= gen[rig[v].entry] /\ rig[v].entry = g.entry
        BY <3>2, <4>2 DEF Rigging
      <4> QED
        BY <2>1, <3>2, <4>1, <4>3
    <3> QED
      BY <2>2, <3>1, <3>2
  <2>5. CASE Disconnect
    <3>1. rig'[v] = NoRig
      BY <2>5 DEF Disconnect
    <3>2. rig[v] = NoRig
      BY <3>1, GroupParts DEF TypeOK
    <3> QED
      BY <2>1, <3>1, <3>2
  <2>6. ASSUME NEW u \in Uids, NEW p \in Uids \cup {NoUid}, NEW mesh \in BOOLEAN,
               ApplyNode(u, p, mesh)
        PROVE  rig'[v].gen >= rig[v].gen
    BY <2>2, <2>6 DEF ApplyNode
  <2>7. ASSUME NEW g \in pending, PopulateFailed(g) PROVE rig'[v].gen >= rig[v].gen
    BY <2>2, <2>7 DEF PopulateFailed
  <2>8. CASE DisconnectClient \/ UNCHANGED vars
    BY <2>2, <2>8 DEF DisconnectClient, vars
  <2> QED
    BY <2>3, <2>4, <2>5, <2>6, <2>7, <2>8 DEF Next
<1> QED
  BY <1>1, <1>2, RiggingStep, TypeCorrect, OwnedCorrect, PTL DEF Spec, RigNeverRegresses
=============================================================================

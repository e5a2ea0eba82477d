----------------------------- MODULE SceneGraph -----------------------------
(***************************************************************************)
(* The scene graph that SceneAdapter (scene/adapter.ts) keeps from the     *)
(* node payloads of the geometry channel, with the rigs it registers in    *)
(* AnimationController and the node table of the ResourceCache.            *)
(*                                                                         *)
(* A MountedNode and its THREE object are one entry.  Entries are used     *)
(* once: a node that is removed and sent again gets a new one, and what    *)
(* hung under the old object still hangs there.  Transforms and names are  *)
(* left out; a component is a mesh or something else, and whether a mesh   *)
(* is skinned is seen when it resolves.                                    *)
(*                                                                         *)
(* Assumed of the server: the hierarchy it declares has no cycle.          *)
(***************************************************************************)
EXTENDS Naturals

CONSTANTS
    Uids,          \* node uids
    Entries,       \* MountedNode objects
    NoUid,         \* the uid 0n
    NoEntry,       \* a node that is not mounted
    Root,          \* the adapter's root group
    Nowhere,       \* the parent of a detached object
    Parents,       \* the parents the server may declare for each node
    MeshNodes,     \* nodes whose component may be a mesh
    Anchored,      \* nodes that the server removes only after their children
    MaxGeneration  \* bound on the payloads applied to an entry

ASSUME SceneAssumption ==
    /\ NoUid \notin Uids
    /\ Entries \cap {NoEntry, Root, Nowhere} = {}
    /\ NoEntry # Root /\ NoEntry # Nowhere /\ Root # Nowhere
    /\ Parents \in [Uids -> SUBSET (Uids \cup {NoUid})]
    /\ MeshNodes \subseteq Uids
    /\ Anchored \subseteq Uids
    /\ MaxGeneration \in Nat

VARIABLES
    mounted,   \* SceneAdapter.mounted
    owner,     \* MountedNode.uid; NoUid until the entry is used
    parentId,  \* MountedNode.parentId
    place,     \* object.parent
    gen,       \* MountedNode.visualGeneration
    visual,    \* the generation whose mesh group is MountedNode.visual, or 0
    orphans,   \* SceneAdapter.orphans
    pending,   \* calls of populateMesh awaiting the resolver
    rig,       \* AnimationController.rigs: the mesh group a rig is bound to
    nodes,     \* ResourceCache.nodes
    attached,  \* the adapter is subscribed to the cache
    session    \* the client's session: "open" or "closed"

graph == <<mounted, owner, parentId, place, orphans>>
vars == <<graph, gen, visual, pending, rig, nodes, attached, session>>

Groups == [entry : Entries, gen : Nat]
NoRig  == [entry |-> NoEntry, gen |-> 0]

TypeOK ==
    /\ mounted \in [Uids -> Entries \cup {NoEntry}]
    /\ owner \in [Entries -> Uids \cup {NoUid}]
    /\ parentId \in [Entries -> Uids \cup {NoUid}]
    /\ place \in [Entries -> Entries \cup {Root, Nowhere}]
    /\ gen \in [Entries -> Nat]
    /\ visual \in [Entries -> Nat]
    /\ orphans \in [Uids -> SUBSET Uids]
    /\ pending \subseteq Groups
    /\ rig \in [Uids -> Groups \cup {NoRig}]
    /\ nodes \subseteq Uids
    /\ attached \in BOOLEAN
    /\ session \in {"open", "closed"}

Init ==
    /\ mounted = [u \in Uids |-> NoEntry]
    /\ owner = [e \in Entries |-> NoUid]
    /\ parentId = [e \in Entries |-> NoUid]
    /\ place = [e \in Entries |-> Nowhere]
    /\ gen = [e \in Entries |-> 0]
    /\ visual = [e \in Entries |-> 0]
    /\ orphans = [u \in Uids |-> {}]
    /\ pending = {}
    /\ rig = [u \in Uids |-> NoRig]
    /\ nodes = {}
    /\ attached = TRUE
    /\ session = "open"

Mounted == {u \in Uids : mounted[u] # NoEntry}

(* Following up from any node of the set leaves the set. *)
Acyclic(set, up(_)) ==
    \A S \in SUBSET set : S # {} => \E x \in S : up(x) \notin S

----------------------------------------------------------------------------
(* A Node payload: put() and applyNode. *)

(* Where reparent puts an object whose declared parent is p. *)
ObjectFor(p) == IF p # NoUid /\ mounted[p] # NoEntry THEN mounted[p] ELSE Root

(* reparent(entry, p): nothing when the parent is the one it has. *)
Kept(e, p) == parentId[e] = p /\ place[e] # Nowhere

ReparentedUnguarded(e, p) ==
    [place EXCEPT ![e] = IF p = NoUid THEN Root ELSE mounted[p]]

Reparented(e, p) ==
    IF Kept(e, p) THEN place ELSE [place EXCEPT ![e] = ObjectFor(p)]

Parked(e, u, p) ==
    IF Kept(e, p) \/ p = NoUid \/ p \in Mounted
    THEN orphans
    ELSE [orphans EXCEPT ![p] = @ \cup {u}]

(* adoptOrphans(u): the nodes parked for u move under its entry e. *)
NoneAdopted(e, u, places) == places

Adopted(e, u, places) ==
    [x \in Entries |-> IF \E c \in orphans[u] : mounted[c] = x THEN e ELSE places[x]]

(* updateVisual(entry, payload): a mesh starts a populateMesh. *)
UpdateVisual(e, mesh) ==
    /\ gen' = [gen EXCEPT ![e] = @ + 1]
    /\ visual' = [visual EXCEPT ![e] = IF mesh THEN gen[e] + 1 ELSE 0]
    /\ pending' = IF mesh THEN pending \cup {[entry |-> e, gen |-> gen[e] + 1]}
                          ELSE pending

ApplyNode(u, p, mesh) ==
    \E e \in Entries :
        /\ attached /\ session = "open"
        /\ p \in Parents[u]
        /\ mesh => u \in MeshNodes
        /\ IF u \in Mounted THEN e = mounted[u] ELSE owner[e] = NoUid
        /\ gen[e] < MaxGeneration
        /\ mounted' = [mounted EXCEPT ![u] = e]
        /\ owner' = [owner EXCEPT ![e] = u]
        /\ parentId' = [parentId EXCEPT ![e] = p]
        /\ Acyclic(Mounted', LAMBDA x : parentId'[mounted'[x]])
        /\ place' = Adopted(e, u, Reparented(e, p))
        /\ orphans' = [Parked(e, u, p) EXCEPT ![u] = {}]
        /\ UpdateVisual(e, mesh)
        /\ nodes' = nodes \cup {u}
        /\ UNCHANGED <<rig, attached, session>>

----------------------------------------------------------------------------
(* RemoveNodes, for one of its uids: removeNode, AnimationController.removeNode
   and ResourceCache.removeNode. *)

Removable(u) ==
    /\ attached /\ session = "open"
    /\ u \in Mounted
    /\ u \in Anchored => \A c \in Mounted : parentId[mounted[c]] # u

RemoveNodeUnbumped(u) ==
    /\ Removable(u)
    /\ mounted' = [mounted EXCEPT ![u] = NoEntry]
    /\ place' = [place EXCEPT ![mounted[u]] = Nowhere]
    /\ orphans' = [p \in Uids |-> orphans[p] \ {u}]
    /\ rig' = [rig EXCEPT ![u] = NoRig]
    /\ nodes' = nodes \ {u}
    /\ UNCHANGED <<owner, parentId, gen, visual, pending, attached, session>>

RemoveNode(u) ==
    /\ Removable(u)
    /\ gen' = [gen EXCEPT ![mounted[u]] = @ + 1]
    /\ mounted' = [mounted EXCEPT ![u] = NoEntry]
    /\ place' = [place EXCEPT ![mounted[u]] = Nowhere]
    /\ orphans' = [p \in Uids |-> orphans[p] \ {u}]
    /\ rig' = [rig EXCEPT ![u] = NoRig]
    /\ nodes' = nodes \ {u}
    /\ UNCHANGED <<owner, parentId, visual, pending, attached, session>>

----------------------------------------------------------------------------
(* populateMesh resumes.  It gives up when the entry was re-applied or removed
   while it waited; a skinned mesh registers its rig, in place of the one the
   node had. *)

PopulateIfMounted(g, skinned) ==
    /\ g \in pending
    /\ pending' = pending \ {g}
    /\ rig' = IF skinned /\ mounted[owner[g.entry]] = g.entry
              THEN [rig EXCEPT ![owner[g.entry]] = g]
              ELSE rig
    /\ UNCHANGED <<graph, gen, visual, nodes, attached, session>>

Populate(g, skinned) ==
    /\ g \in pending
    /\ pending' = pending \ {g}
    /\ rig' = IF skinned /\ gen[g.entry] = g.gen /\ visual[g.entry] = g.gen
              THEN [rig EXCEPT ![owner[g.entry]] = g]
              ELSE rig
    /\ UNCHANGED <<graph, gen, visual, nodes, attached, session>>

(* A mesh or material rejects. *)
PopulateFailed(g) ==
    /\ g \in pending
    /\ pending' = pending \ {g}
    /\ UNCHANGED <<graph, gen, visual, rig, nodes, attached, session>>

----------------------------------------------------------------------------
(* TeleportViewerElement.disconnectedCallback: detach(), clear(), dispose() and
   close(). *)
Disconnect ==
    /\ attached
    /\ attached' = FALSE
    /\ place' = [e \in Entries |-> IF \E u \in Uids : mounted[u] = e
                                   THEN Nowhere ELSE place[e]]
    /\ mounted' = [u \in Uids |-> NoEntry]
    /\ orphans' = [u \in Uids |-> {}]
    /\ rig' = [u \in Uids |-> NoRig]
    /\ nodes' = {}
    /\ session' = "closed"
    /\ UNCHANGED <<owner, parentId, gen, visual, pending>>

(* TeleportViewerElement.disconnectClient: close(), and the adapter stays. *)
DisconnectClient ==
    /\ session = "open"
    /\ session' = "closed"
    /\ nodes' = {}
    /\ UNCHANGED <<graph, gen, visual, pending, rig, attached>>

Next ==
    \/ \E u \in Uids, p \in Uids \cup {NoUid}, mesh \in BOOLEAN : ApplyNode(u, p, mesh)
    \/ \E u \in Uids : RemoveNode(u)
    \/ \E g \in pending : PopulateFailed(g) \/ \E skinned \in BOOLEAN : Populate(g, skinned)
    \/ Disconnect
    \/ DisconnectClient

Spec == Init /\ [][Next]_vars

----------------------------------------------------------------------------
(* Properties.                                                             *)

(* The objects node p had before it was removed. *)
Former(p) == {e \in Entries : owner[e] = p /\ mounted[p] # e}

(* Under a server that never moves a node to another parent, every mounted node
   hangs where its payload says, in whatever order nodes arrive, go and come
   again: under its parent's object, under the root until that parent is mounted,
   or, when the parent was removed before it, under the object that the parent
   had then, never under another's (adapter.ts:4-5, 60, 271-316). *)
Wired ==
    \A u \in Mounted :
        LET e == mounted[u]
            p == parentId[e]
        IN  place[e] = ObjectFor(p) \/ (p \in Uids \ Anchored /\ place[e] \in Former(p))

(* A rig belongs to the entry its node is mounted as: a mesh that resolves
   late never gives a rig to a node that was removed, or removed and sent
   again, in the meantime (adapter.ts:230-235, 308-313). *)
RigIsLive ==
    attached => \A u \in Uids : rig[u] # NoRig => mounted[u] = rig[u].entry

(* Of two meshes applied to a node, the one that resolves last does not win
   over the one that was applied last (adapter.ts:36-37). *)
RigNeverRegresses ==
    [][\A u \in Uids : rig'[u].entry = rig[u].entry => rig'[u].gen >= rig[u].gen]_vars

(* The objects of the scene form a tree: what adapter.ts:5 calls the
   parent/child wiring of a hierarchy that has no cycle itself. *)
SceneIsTree == Acyclic({mounted[u] : u \in Mounted}, LAMBDA e : place[e])
=============================================================================

-------------------------- MODULE ResourceDelivery --------------------------
(***************************************************************************)
(* What TeleportClient does with the resources of the geometry channel:    *)
(* cache what arrives, fetch what pointers name, decode clips, and tell    *)
(* the server what was received or lost (client.ts:286-420, with put() and *)
(* clear() of scene/cache.ts).                                             *)
(*                                                                         *)
(* A resource is inline, a texture or mesh pointer, or an animation        *)
(* pointer.  Acknowledgements are batched behind a timer; the batch is a   *)
(* count per uid, as its order tells nothing.  Each delivery of a pointer  *)
(* starts a promise chain of its own; how AssetFetcher shares fetches      *)
(* between them is the subject of AssetFetcher.  Nodes are resources here; *)
(* RemoveNodes and unknown chunks are never acknowledged and left out.     *)
(***************************************************************************)
EXTENDS Naturals

CONSTANTS
    Uids,          \* resource uids
    Kind,          \* what the server sends for each uid
    MaxDeliveries  \* bound on how often a uid is sent

Kinds == {"inline", "pointer", "animation"}

ASSUME DeliveryAssumption == /\ Kind \in [Uids -> Kinds]
                             /\ MaxDeliveries \in Nat

VARIABLES
    hasDecoder, \* options.animationDecoder is set
    faulty,     \* a listener of the host may throw
    cached,     \* uids whose payload is in the ResourceCache
    pointers,   \* uids in ResourceCache.pendingPointers
    registered, \* uids whose clip was handed to the animation listeners
    fetching,   \* chains awaiting AssetFetcher.get, per uid
    decoding,   \* chains awaiting the animation decoder, per uid
    batch,      \* receivedBatch: occurrences of each uid
    timer,      \* receivedFlushHandle is set
    link,       \* sendReliable would find an open transport
    closed,     \* close() has run
    delivered,  \* history: chunks delivered, per uid
    acked,      \* history: acknowledgements sent, per uid
    lost,       \* history: ResourceLost messages sent, per uid
    unsent,     \* history: verdicts that sendReliable threw away, per uid
    swallowed   \* history: chunks a listener's exception left without a verdict

options   == <<hasDecoder, faulty>>
resources == <<cached, pointers, registered>>
chains    == <<fetching, decoding>>
verdicts  == <<delivered, acked, lost, unsent, swallowed>>
vars == <<options, resources, chains, batch, timer, link, closed, verdicts>>

Counts == [Uids -> Nat]
None   == [u \in Uids |-> 0]

(* The uids that are fetched: a clip only for a decoder to decode it. *)
Fetched(u) == Kind[u] = "pointer" \/ (Kind[u] = "animation" /\ hasDecoder)

TypeOK ==
    /\ hasDecoder \in BOOLEAN
    /\ faulty \in BOOLEAN
    /\ cached \subseteq Uids
    /\ pointers \subseteq Uids
    /\ registered \subseteq Uids
    /\ fetching \in Counts
    /\ decoding \in Counts
    /\ batch \in Counts
    /\ timer \in BOOLEAN
    /\ link \in BOOLEAN
    /\ closed \in BOOLEAN
    /\ delivered \in Counts
    /\ acked \in Counts
    /\ lost \in Counts
    /\ unsent \in Counts
    /\ swallowed \in Counts
    /\ \A u \in Uids :
          /\ fetching[u] > 0 => Fetched(u)
          /\ decoding[u] > 0 => Kind[u] = "animation" /\ hasDecoder

Init ==
    /\ hasDecoder \in BOOLEAN
    /\ faulty \in BOOLEAN
    /\ cached = {} /\ pointers = {} /\ registered = {}
    /\ fetching = None /\ decoding = None
    /\ batch = None
    /\ timer = FALSE
    /\ link = TRUE
    /\ closed = FALSE
    /\ delivered = None /\ acked = None /\ lost = None
    /\ unsent = None /\ swallowed = None

Inc(counts, u) == [counts EXCEPT ![u] = @ + 1]
Dec(counts, u) == [counts EXCEPT ![u] = @ - 1]

----------------------------------------------------------------------------
(* Telling the server. *)

(* queueReceived(uid): the first of a batch sets the timer. *)
QueueReceivedOnce(u) ==
    /\ batch' = Inc(batch, u)
    /\ timer' = (timer \/ (batch = None /\ acked = None))

QueueReceived(u) ==
    /\ batch' = Inc(batch, u)
    /\ timer' = TRUE

(* The error listeners, then sendReliable(buildResourceLost([uid])), at the end of a
   promise chain: a throw of either is an unhandled rejection, and the notice is
   gone. *)
SendLost(u) ==
    \/ /\ faulty
       /\ swallowed' = Inc(swallowed, u)
       /\ UNCHANGED <<lost, unsent>>
    \/ /\ link
       /\ lost' = Inc(lost, u)
       /\ UNCHANGED <<unsent, swallowed>>
    \/ /\ ~link
       /\ unsent' = Inc(unsent, u)
       /\ UNCHANGED <<lost, swallowed>>

(* flushReceived: the batch is emptied before sending it is tried. *)
Flush ==
    /\ timer
    /\ timer' = FALSE
    /\ batch' = None
    /\ IF link
       THEN /\ acked' = [u \in Uids |-> acked[u] + batch[u]]
            /\ UNCHANGED unsent
       ELSE /\ unsent' = [u \in Uids |-> unsent[u] + batch[u]]
            /\ UNCHANGED acked
    /\ UNCHANGED <<options, resources, chains, link, closed, delivered,
                   lost, swallowed>>

----------------------------------------------------------------------------
(* handleGeometryChunk.  A payload listener (the scene adapter, the host) may *)
(* throw: the exception leaves the handler and the rest of it is skipped.     *)

Deliver(u, kind) ==
    /\ ~closed
    /\ Kind[u] = kind
    /\ delivered[u] < MaxDeliveries
    /\ delivered' = Inc(delivered, u)

InlineChunk(u, throws) ==
    /\ Deliver(u, "inline")
    /\ cached' = cached \cup {u}
    /\ IF throws
       THEN swallowed' = Inc(swallowed, u) /\ UNCHANGED <<batch, timer>>
       ELSE QueueReceived(u) /\ UNCHANGED swallowed
    /\ UNCHANGED <<options, pointers, registered, chains, link, closed,
                   acked, lost, unsent>>

PointerChunk(u, throws) ==
    /\ Deliver(u, "pointer")
    /\ pointers' = pointers \cup {u}
    /\ IF throws
       THEN swallowed' = Inc(swallowed, u) /\ UNCHANGED fetching
       ELSE fetching' = Inc(fetching, u) /\ UNCHANGED swallowed
    /\ UNCHANGED <<options, cached, registered, decoding, batch, timer,
                   link, closed, acked, lost, unsent>>

(* fetchAnimation: without a decoder the clip is acknowledged unplayed. *)
AnimationChunkUndecoded(u, throws) ==
    /\ Deliver(u, "animation")
    /\ IF throws
       THEN swallowed' = Inc(swallowed, u) /\ UNCHANGED fetching
       ELSE fetching' = Inc(fetching, u) /\ UNCHANGED swallowed
    /\ UNCHANGED <<options, resources, decoding, batch, timer, link, closed,
                   acked, lost, unsent>>

AnimationChunk(u, throws) ==
    /\ Deliver(u, "animation")
    /\ IF throws
       THEN swallowed' = Inc(swallowed, u) /\ UNCHANGED <<fetching, batch, timer>>
       ELSE /\ UNCHANGED swallowed
            /\ IF hasDecoder
               THEN fetching' = Inc(fetching, u) /\ UNCHANGED <<batch, timer>>
               ELSE QueueReceived(u) /\ UNCHANGED fetching
    /\ UNCHANGED <<options, resources, decoding, link, closed, acked,
                   lost, unsent>>

----------------------------------------------------------------------------
(* The promise chains of fetchPointer and fetchAnimation.  close() does not *)
(* reach them.                                                              *)

(* The asset has arrived in a format the client knows: cache it, tell the
   listeners, acknowledge it; a listener's exception lands in the catch. *)
PointerFetched(u, throws) ==
    /\ Kind[u] = "pointer"
    /\ fetching[u] > 0
    /\ fetching' = Dec(fetching, u)
    /\ cached' = cached \cup {u}
    /\ IF throws
       THEN SendLost(u) /\ UNCHANGED <<batch, timer>>
       ELSE QueueReceived(u) /\ UNCHANGED <<lost, unsent, swallowed>>
    /\ UNCHANGED <<options, pointers, registered, decoding, link, closed,
                   delivered, acked>>

(* The asset is in no format the client knows. *)
PointerUnrecognisedTwice(u) ==
    /\ Kind[u] = "pointer"
    /\ fetching[u] > 0
    /\ fetching' = Dec(fetching, u)
    /\ SendLost(u)
    /\ QueueReceived(u)
    /\ UNCHANGED <<options, resources, decoding, link, closed, delivered,
                   acked>>

PointerUnrecognised(u) ==
    /\ Kind[u] = "pointer"
    /\ fetching[u] > 0
    /\ fetching' = Dec(fetching, u)
    /\ SendLost(u)
    /\ UNCHANGED <<options, resources, decoding, batch, timer, link,
                   closed, delivered, acked>>

(* assets.get rejects *)
FetchFailed(u) ==
    /\ fetching[u] > 0
    /\ fetching' = Dec(fetching, u)
    /\ SendLost(u)
    /\ UNCHANGED <<options, resources, decoding, batch, timer, link,
                   closed, delivered, acked>>

ClipFetchedAcked(u) ==
    /\ Kind[u] = "animation"
    /\ fetching[u] > 0
    /\ fetching' = Dec(fetching, u)
    /\ decoding' = decoding
    /\ QueueReceived(u)
    /\ UNCHANGED <<options, resources, link, closed, delivered, acked,
                   lost, unsent, swallowed>>

ClipFetched(u) ==
    /\ Kind[u] = "animation"
    /\ fetching[u] > 0
    /\ fetching' = Dec(fetching, u)
    /\ decoding' = Inc(decoding, u)
    /\ UNCHANGED <<options, resources, batch, timer, link, closed, verdicts>>

(* The clip is decoded and registered, and only then acknowledged. *)
ClipDecoded(u) ==
    /\ decoding[u] > 0
    /\ decoding' = Dec(decoding, u)
    /\ registered' = registered \cup {u}
    /\ QueueReceived(u)
    /\ UNCHANGED <<options, cached, pointers, fetching, link, closed,
                   delivered, acked, lost, unsent, swallowed>>

(* The decoder rejects, there is no clip, or a listener throws. *)
ClipFailed(u) ==
    /\ decoding[u] > 0
    /\ decoding' = Dec(decoding, u)
    /\ SendLost(u)
    /\ UNCHANGED <<options, resources, fetching, batch, timer, link,
                   closed, delivered, acked>>

----------------------------------------------------------------------------
(* The transports under sendReliable come and go until close(). *)
LinkChange ==
    /\ ~closed
    /\ link' = ~link
    /\ UNCHANGED <<options, resources, chains, batch, timer, closed,
                   verdicts>>

(* MUTANT of Close: the transports are left to go down by themselves *)
CloseKeepsLink ==
    /\ timer' = FALSE
    /\ cached' = {}
    /\ pointers' = {}
    /\ closed' = TRUE
    /\ UNCHANGED <<options, registered, chains, batch, link, verdicts>>

(* TeleportClient.close: the timer is cancelled, the caches emptied, the batch
   left as it is. *)
Close ==
    /\ timer' = FALSE
    /\ link' = FALSE
    /\ cached' = {}
    /\ pointers' = {}
    /\ closed' = TRUE
    /\ UNCHANGED <<options, registered, chains, batch, verdicts>>

Throws == IF faulty THEN BOOLEAN ELSE {FALSE}

Chunk(u) ==
    \E throws \in Throws :
        InlineChunk(u, throws) \/ PointerChunk(u, throws) \/ AnimationChunk(u, throws)

FetchSettles(u) ==
    \/ \E throws \in Throws : PointerFetched(u, throws)
    \/ PointerUnrecognised(u)
    \/ FetchFailed(u)
    \/ ClipFetched(u)

DecodeSettles(u) == ClipDecoded(u) \/ ClipFailed(u)

Next ==
    \/ \E u \in Uids : Chunk(u) \/ FetchSettles(u) \/ DecodeSettles(u)
    \/ Flush
    \/ LinkChange
    \/ Close

Spec == Init /\ [][Next]_vars

(* Timers fire, and every fetch and every decode settles. *)
FairSpec ==
    /\ Spec
    /\ WF_vars(Flush)
    /\ \A u \in Uids : WF_vars(FetchSettles(u)) /\ WF_vars(DecodeSettles(u))

----------------------------------------------------------------------------
(* Properties.                                                             *)

(* Every chunk delivered is in exactly one place: awaiting its asset, being
   decoded, in the batch, or disposed of by one verdict; or by the exception of a
   listener, and only where there is one.  No path of handlers, catches and
   exceptions answers twice or forgets (client.ts:296-325, 340-372, 388-420). *)
Accounted ==
    \A u \in Uids :
        /\ delivered[u] = fetching[u] + decoding[u] + batch[u]
                          + acked[u] + lost[u] + unsent[u] + swallowed[u]
        /\ swallowed[u] > 0 => faulty

(* A resource the server may take as received is one the client can use: its
   payload is cached, or its clip registered with the players (client.ts:
   375-379).  Without a decoder clips are acknowledged as documented. *)
Usable(u) ==
    CASE Kind[u] = "animation" -> hasDecoder => u \in registered
      [] OTHER                 -> u \in cached

AckMeansUsable ==
    \A u \in Uids : ~closed /\ batch[u] + acked[u] > 0 => Usable(u)

(* To the server the client is Reception, of each resource: no chunk is answered
   twice, or forgotten while it can be answered unless a listener throws, none is
   answered as received before it can be used, and none after close(), whatever is
   still being fetched, decoded or batched then (client.ts:123-136, 401-420). *)
Reach == IF closed THEN "closed" ELSE IF link THEN "up" ELSE "down"
Owed(u) == fetching[u] + decoding[u] + batch[u]

Answer(u) == INSTANCE Reception WITH
    reach <- Reach, owed <- Owed(u), received <- acked[u], lost <- lost[u], usable <- Usable(u)

AnswersOnce ==
    /\ \A u \in Uids : Answer(u)!Init
    /\ [][\A u \in Uids : [Answer(u)!Next]_(Answer(u)!vars)]_vars

(* Each delivery is decided in the end: nothing stays in a chain or in the batch
   of an open client. *)
Settled(u) == fetching[u] = 0 /\ decoding[u] = 0 /\ batch[u] = 0

VerdictReached == \A u \in Uids : ~Settled(u) ~> Settled(u) \/ closed
=============================================================================

----------------------- MODULE ResourceDeliveryProofs -----------------------
(***************************************************************************)
(* Proofs about ResourceDelivery, for every set of resources, every mix of *)
(* kinds and every number of deliveries.  The invariants that the runs     *)
(* check are inductive once TypeOK is at hand.                             *)
(***************************************************************************)
EXTENDS ResourceDelivery, TLAPS

(* Counting one more or one less leaves a count, and touches one uid only. *)
LEMMA IncCounts ==
    ASSUME NEW c \in Counts, NEW u \in Uids
    PROVE  /\ Inc(c, u) \in Counts
           /\ Inc(c, u)[u] = c[u] + 1
           /\ \A v \in Uids \ {u} : Inc(c, u)[v] = c[v]
    BY DEF Inc, Counts

LEMMA DecCounts ==
    ASSUME NEW c \in Counts, NEW u \in Uids, c[u] > 0
    PROVE  /\ Dec(c, u) \in Counts
           /\ Dec(c, u)[u] = c[u] - 1
           /\ \A v \in Uids \ {u} : Dec(c, u)[v] = c[v]
    BY DEF Dec, Counts

LEMMA NoneCounts == None \in Counts /\ \A u \in Uids : None[u] = 0
    BY DEF None, Counts

(* Only a host whose listeners throw makes a handler throw. *)
LEMMA Throwing ==
    ASSUME NEW throws \in Throws PROVE throws \in BOOLEAN /\ (throws => faulty)
<1>1. CASE faulty
  BY <1>1 DEF Throws
<1>2. CASE ~faulty
  BY <1>2 DEF Throws
<1> QED
  BY <1>1, <1>2

----------------------------------------------------------------------------

(* Type correctness: in particular no chain settles more often than it started. *)
THEOREM TypeCorrect == Spec => []TypeOK
<1>1. Init => TypeOK
  <2>1. None \in Counts /\ \A u \in Uids : ~(None[u] > 0)
    BY NoneCounts
  <2> QED
    BY <2>1 DEF Init, TypeOK
<1>2. TypeOK /\ [Next]_vars => TypeOK'
  <2> SUFFICES ASSUME TypeOK, [Next]_vars PROVE TypeOK'
    OBVIOUS
  <2> USE DEF TypeOK, Fetched, options, resources, chains, verdicts
  <2>1. ASSUME NEW u \in Uids, QueueReceived(u) PROVE batch' \in Counts /\ timer' \in BOOLEAN
    BY <2>1, IncCounts DEF QueueReceived
  <2>2. ASSUME NEW u \in Uids, SendLost(u) PROVE /\ lost' \in Counts /\ unsent' \in Counts
                                                 /\ swallowed' \in Counts
    BY <2>2, IncCounts DEF SendLost
  <2>3. ASSUME NEW u \in Uids, NEW kind, Deliver(u, kind) PROVE delivered' \in Counts
    BY <2>3, IncCounts DEF Deliver
  <2>4. ASSUME NEW u \in Uids, NEW throws \in BOOLEAN, throws => faulty,
               InlineChunk(u, throws)
        PROVE TypeOK'
    BY <2>1, <2>3, <2>4, IncCounts DEF InlineChunk
  <2>5. ASSUME NEW u \in Uids, NEW throws \in BOOLEAN, throws => faulty,
               PointerChunk(u, throws)
        PROVE TypeOK'
    <3>1. /\ \A v \in Uids : fetching'[v] > 0 => Fetched(v)
          /\ fetching' \in Counts /\ swallowed' \in Counts
      BY <2>5, IncCounts DEF PointerChunk, Deliver
    <3> QED
      BY <2>3, <2>5, <3>1 DEF PointerChunk
  <2>6. ASSUME NEW u \in Uids, NEW throws \in BOOLEAN, throws => faulty,
               AnimationChunk(u, throws)
        PROVE TypeOK'
    <3>1. CASE throws
      BY <2>3, <2>6, <3>1, IncCounts DEF AnimationChunk
    <3>2. CASE ~throws /\ hasDecoder
      <4>1. /\ \A v \in Uids : fetching'[v] > 0 => Fetched(v)
            /\ fetching' \in Counts
        <5>1. fetching' = Inc(fetching, u) /\ Fetched(u)
          BY <2>6, <3>2 DEF AnimationChunk, Deliver
        <5> QED
          BY <5>1, IncCounts
      <4> QED
        BY <2>3, <2>6, <3>2, <4>1 DEF AnimationChunk
    <3>3. CASE ~throws /\ ~hasDecoder
      BY <2>1, <2>3, <2>6, <3>3 DEF AnimationChunk
    <3> QED
      BY <3>1, <3>2, <3>3
  <2>7. ASSUME NEW u \in Uids, NEW throws \in BOOLEAN, throws => faulty,
               PointerFetched(u, throws)
        PROVE TypeOK'
    BY <2>1, <2>2, <2>7, DecCounts DEF PointerFetched
  <2>8. ASSUME NEW u \in Uids, PointerUnrecognised(u) PROVE TypeOK'
    BY <2>2, <2>8, DecCounts DEF PointerUnrecognised
  <2>9. ASSUME NEW u \in Uids, FetchFailed(u) PROVE TypeOK'
    BY <2>2, <2>9, DecCounts DEF FetchFailed
  <2>10. ASSUME NEW u \in Uids, ClipFetched(u) PROVE TypeOK'
    <3>1. /\ fetching' = Dec(fetching, u) /\ decoding' = Inc(decoding, u)
          /\ fetching[u] > 0 /\ Kind[u] = "animation" /\ hasDecoder
      BY <2>10 DEF ClipFetched
    <3>2. /\ fetching' \in Counts /\ decoding' \in Counts
          /\ \A v \in Uids : fetching'[v] > 0 => Fetched(v)
          /\ \A v \in Uids : decoding'[v] > 0 => Kind[v] = "animation" /\ hasDecoder
      <4>1. fetching' \in Counts /\ decoding' \in Counts
        BY <3>1, IncCounts, DecCounts
      <4>2. ASSUME NEW v \in Uids
            PROVE  /\ fetching'[v] > 0 => fetching[v] > 0
                   /\ decoding'[v] > 0 => v = u \/ decoding[v] > 0
        BY <3>1 DEF Counts, Inc, Dec
      <4> QED
        BY <3>1, <4>1, <4>2
    <3> QED
      BY <2>10, <3>2 DEF ClipFetched
  <2>11. ASSUME NEW u \in Uids, ClipDecoded(u) PROVE TypeOK'
    BY <2>1, <2>11, DecCounts DEF ClipDecoded
  <2>12. ASSUME NEW u \in Uids, ClipFailed(u) PROVE TypeOK'
    BY <2>2, <2>12, DecCounts DEF ClipFailed
  <2>13. CASE Flush
    <3>1. [u \in Uids |-> acked[u] + batch[u]] \in Counts
      BY DEF Counts
    <3>2. [u \in Uids |-> unsent[u] + batch[u]] \in Counts
      BY DEF Counts
    <3> QED
      BY <2>13, <3>1, <3>2, NoneCounts DEF Flush
  <2>14. CASE LinkChange \/ Close
    BY <2>14 DEF LinkChange, Close
  <2>15. CASE UNCHANGED vars
    BY <2>15 DEF vars
  <2> QED
    BY <2>4, <2>5, <2>6, <2>7, <2>8, <2>9, <2>10, <2>11, <2>12, <2>13, <2>14, <2>15,
       Throwing
    DEF Next, Chunk, FetchSettles, DecodeSettles
<1> QED
  BY <1>1, <1>2, PTL DEF Spec

----------------------------------------------------------------------------

(* Each delivered chunk is in exactly one place: it enters with delivered, and
   every later step moves it from one place to another. *)
THEOREM AccountedCorrect == Spec => []Accounted
<1>1. Init => Accounted
  <2>1. ASSUME NEW v \in Uids, Init
        PROVE  /\ delivered[v] = fetching[v] + decoding[v] + batch[v]
                                 + acked[v] + lost[v] + unsent[v] + swallowed[v]
               /\ swallowed[v] > 0 => faulty
    <3>1. None[v] = 0 /\ 0 = 0 + 0 + 0 + 0 + 0 + 0 + 0
      BY NoneCounts
    <3> QED
      BY <2>1, <3>1 DEF Init
  <2> QED
    BY <2>1 DEF Accounted
<1>2. TypeOK /\ Accounted /\ [Next]_vars => Accounted'
  <2> SUFFICES ASSUME TypeOK, Accounted, [Next]_vars, NEW v \in Uids
               PROVE (/\ delivered[v] = fetching[v] + decoding[v] + batch[v]
                            + acked[v] + lost[v] + unsent[v] + swallowed[v]
                      /\ swallowed[v] > 0 => faulty)'
    BY DEF Accounted
  <2> DEFINE Sum == /\ delivered[v] = fetching[v] + decoding[v] + batch[v]
                         + acked[v] + lost[v] + unsent[v] + swallowed[v]
                    /\ swallowed[v] > 0 => faulty
  <2> USE DEF TypeOK, Counts, options, resources, chains, verdicts
  <2>1. Sum
    BY DEF Accounted
  <2>4. ASSUME NEW u \in Uids, NEW throws \in BOOLEAN, throws => faulty,
               InlineChunk(u, throws)
        PROVE Sum'
    BY <2>1, <2>4 DEF InlineChunk, Deliver, QueueReceived, Inc
  <2>5. ASSUME NEW u \in Uids, NEW throws \in BOOLEAN, throws => faulty,
               PointerChunk(u, throws)
        PROVE Sum'
    BY <2>1, <2>5 DEF PointerChunk, Deliver, Inc
  <2>6. ASSUME NEW u \in Uids, NEW throws \in BOOLEAN, throws => faulty,
               AnimationChunk(u, throws)
        PROVE Sum'
    BY <2>1, <2>6 DEF AnimationChunk, Deliver, QueueReceived, Inc
  <2>7. ASSUME NEW u \in Uids, NEW throws \in BOOLEAN, throws => faulty,
               PointerFetched(u, throws)
        PROVE Sum'
    BY <2>1, <2>7 DEF PointerFetched, QueueReceived, SendLost, Inc, Dec
  <2>8. ASSUME NEW u \in Uids, PointerUnrecognised(u) PROVE Sum'
    BY <2>1, <2>8 DEF PointerUnrecognised, SendLost, Inc, Dec
  <2>9. ASSUME NEW u \in Uids, FetchFailed(u) PROVE Sum'
    BY <2>1, <2>9 DEF FetchFailed, SendLost, Inc, Dec
  <2>10. ASSUME NEW u \in Uids, ClipFetched(u) PROVE Sum'
    BY <2>1, <2>10 DEF ClipFetched, Inc, Dec
  <2>11. ASSUME NEW u \in Uids, ClipDecoded(u) PROVE Sum'
    BY <2>1, <2>11 DEF ClipDecoded, QueueReceived, Inc, Dec
  <2>12. ASSUME NEW u \in Uids, ClipFailed(u) PROVE Sum'
    BY <2>1, <2>12 DEF ClipFailed, SendLost, Inc, Dec
  <2>13. CASE Flush
    BY <2>1, <2>13, NoneCounts DEF Flush
  <2>14. CASE LinkChange \/ Close
    BY <2>1, <2>14 DEF LinkChange, Close
  <2>15. CASE UNCHANGED vars
    BY <2>1, <2>15 DEF vars
  <2> QED
    BY <2>4, <2>5, <2>6, <2>7, <2>8, <2>9, <2>10, <2>11, <2>12, <2>13, <2>14, <2>15,
       Throwing
    DEF Next, Chunk, FetchSettles, DecodeSettles
<1> QED
  BY <1>1, <1>2, TypeCorrect, PTL DEF Spec

----------------------------------------------------------------------------
(* AckMeansUsable. *)

(* The server is never told of a resource the client cannot use: a uid enters the
   batch only in the step that made it usable, and only close() takes a payload
   away. *)
THEOREM AckCorrect == Spec => []AckMeansUsable
<1>1. Init => AckMeansUsable
  BY NoneCounts DEF Init, AckMeansUsable
<1>2. TypeOK /\ AckMeansUsable /\ [Next]_vars => AckMeansUsable'
  <2> SUFFICES ASSUME TypeOK, AckMeansUsable, [Next]_vars, NEW v \in Uids
               PROVE (~closed /\ batch[v] + acked[v] > 0 => Usable(v))'
    BY DEF AckMeansUsable
  <2> DEFINE Backed == ~closed /\ batch[v] + acked[v] > 0 => Usable(v)
  <2> USE DEF TypeOK, Counts, options, resources, chains, verdicts, Usable
  <2>1. Backed
    BY DEF AckMeansUsable
  <2>4. ASSUME NEW u \in Uids, NEW throws \in BOOLEAN, throws => faulty,
               InlineChunk(u, throws)
        PROVE Backed'
    BY <2>1, <2>4 DEF InlineChunk, Deliver, QueueReceived, Inc
  <2>5. ASSUME NEW u \in Uids, NEW throws \in BOOLEAN, throws => faulty,
               PointerChunk(u, throws)
        PROVE Backed'
    BY <2>1, <2>5 DEF PointerChunk, Deliver, Inc
  <2>6. ASSUME NEW u \in Uids, NEW throws \in BOOLEAN, throws => faulty,
               AnimationChunk(u, throws)
        PROVE Backed'
    <3>1. CASE throws \/ hasDecoder
      BY <2>1, <2>6, <3>1 DEF AnimationChunk, Deliver
    <3>2. CASE ~throws /\ ~hasDecoder
      BY <2>1, <2>6, <3>2 DEF AnimationChunk, Deliver, QueueReceived, Inc
    <3> QED
      BY <3>1, <3>2
  <2>7. ASSUME NEW u \in Uids, NEW throws \in BOOLEAN, throws => faulty,
               PointerFetched(u, throws)
        PROVE Backed'
    BY <2>1, <2>7 DEF PointerFetched, QueueReceived, SendLost, Inc
  <2>8. ASSUME NEW u \in Uids, PointerUnrecognised(u) PROVE Backed'
    BY <2>1, <2>8 DEF PointerUnrecognised
  <2>9. ASSUME NEW u \in Uids, FetchFailed(u) PROVE Backed'
    BY <2>1, <2>9 DEF FetchFailed
  <2>10. ASSUME NEW u \in Uids, ClipFetched(u) PROVE Backed'
    BY <2>1, <2>10 DEF ClipFetched
  <2>11. ASSUME NEW u \in Uids, ClipDecoded(u) PROVE Backed'
    BY <2>1, <2>11 DEF ClipDecoded, QueueReceived, Inc
  <2>12. ASSUME NEW u \in Uids, ClipFailed(u) PROVE Backed'
    BY <2>1, <2>12 DEF ClipFailed
  <2>13. CASE Flush
    <3>1. batch'[v] = 0 /\ (acked'[v] = acked[v] \/ acked'[v] = acked[v] + batch[v])
      BY <2>13 DEF Flush, None
    <3>2. Usable(v)' = Usable(v) /\ closed' = closed
      BY <2>13 DEF Flush
    <3>3. batch[v] \in Nat /\ acked[v] \in Nat
      OBVIOUS
    <3> QED
      BY <2>1, <3>1, <3>2, <3>3
  <2>14. CASE LinkChange \/ Close
    BY <2>1, <2>14 DEF LinkChange, Close
  <2>15. CASE UNCHANGED vars
    BY <2>1, <2>15 DEF vars
  <2> QED
    BY <2>4, <2>5, <2>6, <2>7, <2>8, <2>9, <2>10, <2>11, <2>12, <2>13, <2>14, <2>15,
       Throwing
    DEF Next, Chunk, FetchSettles, DecodeSettles
<1> QED
  BY <1>1, <1>2, TypeCorrect, PTL DEF Spec

----------------------------------------------------------------------------

(* While the client is open, a queued acknowledgement has a timer coming for it:
   no interleaving of flushes with new arrivals strands one (client.ts:401-411). *)
BatchHasTimer == ~closed /\ batch # None => timer

(* A queued acknowledgement has a timer coming for it: only a flush or close()
   clears the timer, and a flush empties the batch in the same step. *)
THEOREM TimerCorrect == Spec => []BatchHasTimer
<1>1. Init => BatchHasTimer
  BY DEF Init, BatchHasTimer
<1>2. BatchHasTimer /\ [Next]_vars => BatchHasTimer'
  <2> SUFFICES ASSUME BatchHasTimer, [Next]_vars PROVE BatchHasTimer'
    OBVIOUS
  <2> USE DEF BatchHasTimer
  <2>1. ASSUME NEW u \in Uids, QueueReceived(u) PROVE BatchHasTimer'
    BY <2>1 DEF QueueReceived
  <2>2. CASE UNCHANGED <<batch, timer, closed>>
    BY <2>2
  <2>3. ASSUME NEW u \in Uids, Chunk(u) PROVE BatchHasTimer'
    BY <2>1, <2>2, <2>3 DEF Chunk, InlineChunk, PointerChunk, AnimationChunk
  <2>4. ASSUME NEW u \in Uids, FetchSettles(u) PROVE BatchHasTimer'
    BY <2>1, <2>2, <2>4
    DEF FetchSettles, PointerFetched, PointerUnrecognised, FetchFailed, ClipFetched
  <2>5. ASSUME NEW u \in Uids, DecodeSettles(u) PROVE BatchHasTimer'
    BY <2>1, <2>2, <2>5 DEF DecodeSettles, ClipDecoded, ClipFailed
  <2>6. CASE Flush \/ LinkChange \/ Close
    BY <2>6 DEF Flush, LinkChange, Close
  <2>7. CASE UNCHANGED vars
    BY <2>2, <2>7 DEF vars
  <2> QED
    BY <2>3, <2>4, <2>5, <2>6, <2>7 DEF Next
<1> QED
  BY <1>1, <1>2, PTL DEF Spec

----------------------------------------------------------------------------
(* ResourceDelivery implements Reception, for each resource.               *)

\* close() leaves no transport, and none comes after it.
Unreachable == closed => ~link

LEMMA UnreachableCorrect == Spec => []Unreachable
<1>1. Init => Unreachable
  BY DEF Init, Unreachable
<1>2. Unreachable /\ [Next]_vars => Unreachable'
  <2> SUFFICES ASSUME Unreachable, [Next]_vars PROVE Unreachable'
    OBVIOUS
  <2>1. CASE UNCHANGED <<link, closed>>
    BY <2>1 DEF Unreachable
  <2>2. CASE LinkChange \/ Close
    BY <2>2 DEF LinkChange, Close, Unreachable
  <2>3. CASE \E u \in Uids : Chunk(u)
    BY <2>1, <2>3 DEF Chunk, InlineChunk, PointerChunk, AnimationChunk
  <2>4. CASE \E u \in Uids : FetchSettles(u)
    BY <2>1, <2>4 DEF FetchSettles, PointerFetched, PointerUnrecognised, FetchFailed, ClipFetched
  <2>5. CASE \E u \in Uids : DecodeSettles(u)
    BY <2>1, <2>5 DEF DecodeSettles, ClipDecoded, ClipFailed
  <2>6. CASE Flush \/ UNCHANGED vars
    BY <2>1, <2>6 DEF Flush, vars
  <2> QED
    BY <2>2, <2>3, <2>4, <2>5, <2>6 DEF Next
<1> QED
  BY <1>1, <1>2, PTL DEF Spec

AnswerInv == TypeOK /\ AckMeansUsable /\ Unreachable

LEMMA AnswerInvCorrect == Spec => []AnswerInv
<1>1. TypeOK /\ AckMeansUsable /\ Unreachable => AnswerInv
  BY DEF AnswerInv
<1> QED
  BY <1>1, TypeCorrect, AckCorrect, UnreachableCorrect, PTL

(* What a step does to the answers that are due for v, as Reception sees it. *)
Told(v) == UNCHANGED <<acked[v], lost[v]>>
Stays(v) == Usable(v) => Usable(v)'
Unmoved == UNCHANGED <<closed, link, faulty>>

Taken(v)     == ~closed /\ Unmoved /\ Told(v) /\ Stays(v) /\ Owed(v)' = Owed(v) + 1
Swallowed(v) == /\ faulty /\ Unmoved /\ Told(v) /\ Stays(v)
                /\ \/ ~closed /\ Owed(v)' = Owed(v)
                   \/ Owed(v) > 0 /\ Owed(v)' = Owed(v) - 1
Prepared(v)  == Unmoved /\ Told(v) /\ Owed(v)' = Owed(v) /\ Usable(v)'
ToldLost(v)  == /\ link /\ Unmoved /\ Stays(v) /\ Owed(v) > 0 /\ Owed(v)' = Owed(v) - 1
                /\ lost'[v] = lost[v] + 1 /\ acked'[v] = acked[v]
Forgotten(v) == ~link /\ Unmoved /\ Told(v) /\ Stays(v) /\ \E n \in 1..Owed(v) : Owed(v)' = Owed(v) - n
Idle(v)      == Unmoved /\ Told(v) /\ Owed(v)' = Owed(v) /\ (Usable(v)' <=> Usable(v))

Answered(v) == \/ Taken(v) \/ Swallowed(v) \/ Prepared(v)
               \/ ToldLost(v) \/ Forgotten(v) \/ Idle(v)

LEMMA UsableBoolean == ASSUME NEW v \in Uids PROVE Usable(v) \in BOOLEAN /\ Usable(v)' \in BOOLEAN
<1>1. CASE Kind[v] = "animation"
  <2>1. /\ Usable(v) = (hasDecoder => v \in registered)
        /\ Usable(v)' = (hasDecoder' => v \in registered')
    BY <1>1 DEF Usable
  <2> QED
    BY <2>1
<1>2. CASE Kind[v] # "animation"
  <2>1. Usable(v) = (v \in cached) /\ Usable(v)' = (v \in cached')
    BY <1>2 DEF Usable
  <2> QED
    BY <2>1
<1> QED
  BY <1>1, <1>2

LEMMA AnsweredIsStep ==
    ASSUME AnswerInv, NEW v \in Uids, Answered(v)
    PROVE  [Answer(v)!Next]_(Answer(v)!vars)
<1>1. Usable(v) \in BOOLEAN /\ Usable(v)' \in BOOLEAN
  BY UsableBoolean
<1>2. /\ link \in BOOLEAN /\ closed \in BOOLEAN /\ (closed => ~link)
      /\ Unmoved => Reach' = Reach
      /\ Reach = "up" <=> link
      /\ Reach # "closed" <=> ~closed
      /\ Unmoved => faulty' = faulty
  BY DEF AnswerInv, TypeOK, Unreachable, Reach, Unmoved
<1>3. CASE Taken(v)
  BY <1>1, <1>2, <1>3 DEF Taken, Told, Stays, Answer!Next, Answer!Take, Answer!Keeps
<1>8. CASE Swallowed(v)
  BY <1>1, <1>2, <1>8 DEF Swallowed, Told, Stays, Answer!Next, Answer!Swallow, Answer!Keeps
<1>4. CASE Prepared(v)
  BY <1>1, <1>2, <1>4 DEF Prepared, Told, Answer!Next, Answer!Prepare
<1>5. CASE ToldLost(v)
  BY <1>1, <1>2, <1>5 DEF ToldLost, Stays, Answer!Next, Answer!TellLost, Answer!Keeps
<1>6. CASE Forgotten(v)
  BY <1>1, <1>2, <1>6 DEF Forgotten, Told, Stays, Answer!Next, Answer!Forget, Answer!Keeps
<1>7. CASE Idle(v)
  BY <1>1, <1>2, <1>7 DEF Idle, Told, Answer!vars
<1> QED
  BY <1>3, <1>4, <1>5, <1>6, <1>7, <1>8 DEF Answered

LEMMA ChunkAnswered ==
    ASSUME TypeOK, NEW u \in Uids, Chunk(u), NEW v \in Uids PROVE Answered(v)
<1> USE DEF TypeOK, Counts, Told, Stays, Unmoved, Owed, Usable, Deliver, QueueReceived, Inc,
            options, resources, chains
<1> DEFINE Shape ==
      /\ Unmoved /\ Told(v) /\ Stays(v) /\ ~closed
      /\ IF v = u THEN Owed(v)' = Owed(v) + 1 \/ (faulty /\ Owed(v)' = Owed(v))
                  ELSE Owed(v)' = Owed(v) /\ (Usable(v)' <=> Usable(v))
<1>1. ASSUME NEW throws \in BOOLEAN, throws => faulty, InlineChunk(u, throws) PROVE Shape
  BY <1>1 DEF InlineChunk
<1>2. ASSUME NEW throws \in BOOLEAN, throws => faulty, PointerChunk(u, throws) PROVE Shape
  BY <1>2 DEF PointerChunk
<1>3. ASSUME NEW throws \in BOOLEAN, throws => faulty, AnimationChunk(u, throws) PROVE Shape
  BY <1>3 DEF AnimationChunk
<1>4. Shape
  BY <1>1, <1>2, <1>3, Throwing DEF Chunk
<1> HIDE DEF Told, Stays, Unmoved, Owed, Usable
<1> QED
  BY <1>4 DEF Answered, Taken, Swallowed, Idle

(* One chunk of u is answered as lost, or its notice finds no transport, or a listener
   throws before there is one. *)
LEMMA LostAnswered ==
    ASSUME TypeOK, NEW u \in Uids, SendLost(u), NEW v \in Uids, Unmoved, Stays(v),
           acked' = acked, Owed(u) > 0, Owed(u)' = Owed(u) - 1,
           v # u => (Owed(v)' = Owed(v) /\ (Usable(v)' <=> Usable(v)))
    PROVE  Answered(v)
<1>1. Owed(v) \in Nat
  BY DEF TypeOK, Counts, Owed
<1>2. CASE v = u /\ link /\ lost' = Inc(lost, u)
  BY <1>2 DEF TypeOK, Counts, Inc, Answered, ToldLost
<1>3. CASE v = u /\ ~link /\ lost' = lost
  <2>1. 1 \in 1..Owed(v)
    BY <1>1, <1>3
  <2> QED
    BY <1>3, <2>1 DEF Answered, Forgotten, Told
<1>5. CASE v = u /\ faulty /\ lost' = lost
  BY <1>5 DEF Answered, Swallowed, Told
<1>4. CASE v # u
  BY <1>4 DEF TypeOK, Counts, SendLost, Inc, Answered, Idle, Told
<1> QED
  BY <1>2, <1>3, <1>4, <1>5 DEF SendLost

LEMMA FetchAnswered ==
    ASSUME TypeOK, NEW u \in Uids, FetchSettles(u), NEW v \in Uids PROVE Answered(v)
<1> USE DEF TypeOK, Counts, Owed, Inc, Dec, options, resources, chains
<1>1. ASSUME NEW throws \in BOOLEAN, throws => faulty, PointerFetched(u, throws) PROVE Answered(v)
  <2>1. Unmoved /\ Stays(v) /\ acked' = acked
    BY <1>1 DEF PointerFetched, Unmoved, Stays, Usable
  <2>2. v # u => (Usable(v)' <=> Usable(v))
    BY <1>1 DEF PointerFetched, Usable
  <2>3. CASE throws
    <3>1. /\ Owed(u) > 0 /\ Owed(u)' = Owed(u) - 1
          /\ v # u => Owed(v)' = Owed(v)
      BY <1>1, <2>3 DEF PointerFetched
    <3>2. SendLost(u)
      BY <1>1, <2>3 DEF PointerFetched
    <3> QED
      BY <2>1, <2>2, <3>1, <3>2, LostAnswered
  <2>4. CASE ~throws
    <3>1. Owed(v)' = Owed(v) /\ Told(v)
      BY <1>1, <2>4 DEF PointerFetched, QueueReceived, Told
    <3>2. v = u => Usable(v)'
      BY <1>1 DEF PointerFetched, Usable
    <3> QED
      BY <2>1, <2>2, <3>1, <3>2 DEF Answered, Prepared, Idle
  <2> QED
    BY <2>3, <2>4
<1>2. CASE PointerUnrecognised(u) \/ FetchFailed(u)
  <2>1. Unmoved /\ (Usable(v)' <=> Usable(v)) /\ acked' = acked /\ SendLost(u)
    BY <1>2 DEF PointerUnrecognised, FetchFailed, Unmoved, Usable
  <2>2. /\ Owed(u) > 0 /\ Owed(u)' = Owed(u) - 1
        /\ v # u => Owed(v)' = Owed(v)
    BY <1>2 DEF PointerUnrecognised, FetchFailed
  <2> QED
    BY <2>1, <2>2, LostAnswered DEF Stays
<1>3. CASE ClipFetched(u)
  <2>1. Owed(v)' = Owed(v)
    BY <1>3 DEF ClipFetched
  <2>2. Unmoved /\ Told(v) /\ (Usable(v)' <=> Usable(v))
    BY <1>3 DEF ClipFetched, Unmoved, Told, Usable, verdicts
  <2> QED
    BY <2>1, <2>2 DEF Answered, Idle
<1> QED
  BY <1>1, <1>2, <1>3, Throwing DEF FetchSettles

LEMMA DecodeAnswered ==
    ASSUME TypeOK, NEW u \in Uids, DecodeSettles(u), NEW v \in Uids PROVE Answered(v)
<1> USE DEF TypeOK, Counts, Owed, Inc, Dec, options, resources, chains
<1>1. CASE ClipDecoded(u)
  <2>1. Owed(v)' = Owed(v)
    BY <1>1 DEF ClipDecoded, QueueReceived
  <2>2. Unmoved /\ Told(v)
    BY <1>1 DEF ClipDecoded, Unmoved, Told
  <2>3. IF v = u THEN Usable(v)' ELSE (Usable(v)' <=> Usable(v))
    BY <1>1 DEF ClipDecoded, Usable
  <2> QED
    BY <2>1, <2>2, <2>3 DEF Answered, Prepared, Idle
<1>2. CASE ClipFailed(u)
  <2>1. Unmoved /\ (Usable(v)' <=> Usable(v)) /\ acked' = acked /\ SendLost(u)
    BY <1>2 DEF ClipFailed, Unmoved, Usable
  <2>2. /\ Owed(u) > 0 /\ Owed(u)' = Owed(u) - 1
        /\ v # u => Owed(v)' = Owed(v)
    BY <1>2 DEF ClipFailed
  <2> QED
    BY <2>1, <2>2, LostAnswered DEF Stays
<1> QED
  BY <1>1, <1>2 DEF DecodeSettles

(* The batch goes out in one message, or is dropped when there is no transport. *)
LEMMA FlushAnswered ==
    ASSUME AnswerInv, Flush, NEW v \in Uids PROVE [Answer(v)!Next]_(Answer(v)!vars)
<1> USE DEF AnswerInv, TypeOK, Counts
<1>1. /\ Owed(v) \in Nat /\ batch[v] \in 0..Owed(v) /\ Owed(v)' = Owed(v) - batch[v]
      /\ Unmoved /\ (Usable(v)' <=> Usable(v)) /\ lost' = lost
      /\ acked'[v] = IF link THEN acked[v] + batch[v] ELSE acked[v]
  BY NoneCounts DEF Flush, Owed, Unmoved, Usable, options, resources, chains
<1>2. CASE batch[v] = 0
  <2>1. Idle(v)
    BY <1>1, <1>2 DEF Idle, Told
  <2> QED
    BY <2>1, AnsweredIsStep DEF Answered
<1>3. CASE batch[v] # 0 /\ ~link
  <2>1. Forgotten(v)
    BY <1>1, <1>3 DEF Forgotten, Told, Stays
  <2> QED
    BY <2>1, AnsweredIsStep DEF Answered
<1>4. CASE batch[v] # 0 /\ link
  <2>1. ~closed /\ batch[v] + acked[v] > 0
    BY <1>4 DEF Unreachable
  <2>2. Usable(v)
    BY <2>1 DEF AckMeansUsable
  <2>3. Usable(v) \in BOOLEAN /\ Usable(v)' \in BOOLEAN
    BY UsableBoolean
  <2>4. Reach = "up" /\ Reach' = "up"
    BY <1>1, <1>4, <2>1 DEF Reach, Unmoved
  <2>5. batch[v] \in 1..Owed(v)
    BY <1>1, <1>4
  <2> QED
    BY <1>1, <1>4, <2>2, <2>3, <2>4, <2>5 DEF Unmoved, Answer!Next, Answer!TellReceived
<1> QED
  BY <1>2, <1>3, <1>4

LEMMA AnswerStep ==
    ASSUME AnswerInv, [Next]_vars, NEW v \in Uids PROVE [Answer(v)!Next]_(Answer(v)!vars)
<1>1. TypeOK
  BY DEF AnswerInv
<1>2. CASE \E u \in Uids : Chunk(u) \/ FetchSettles(u) \/ DecodeSettles(u)
  BY <1>1, <1>2, ChunkAnswered, FetchAnswered, DecodeAnswered, AnsweredIsStep DEF Answered
<1>3. CASE Flush
  BY <1>3, FlushAnswered
<1>4. CASE LinkChange
  <2>1. Reach # "closed" /\ Reach' \in {"up", "down"}
    BY <1>4 DEF LinkChange, Reach
  <2>2. UNCHANGED <<faulty, Owed(v), acked[v], lost[v], Usable(v)>>
    BY <1>4 DEF LinkChange, Owed, Usable, options, resources, chains, verdicts
  <2> QED
    BY <2>1, <2>2 DEF Answer!Next, Answer!Turn
<1>5. CASE Close
  <2>1. Reach' = "closed" /\ Usable(v)' \in BOOLEAN
    BY <1>5, UsableBoolean DEF Close, Reach
  <2>2. UNCHANGED <<faulty, Owed(v), acked[v], lost[v]>>
    BY <1>5 DEF Close, Owed, options, chains, verdicts
  <2> QED
    BY <2>1, <2>2 DEF Answer!Next, Answer!Close
<1>6. CASE UNCHANGED vars
  <2>1. UNCHANGED <<faulty, Reach, Owed(v), acked[v], lost[v], Usable(v)>>
    BY <1>6 DEF vars, Reach, Owed, Usable, options, resources, chains, verdicts
  <2> QED
    BY <2>1 DEF Answer!vars
<1> QED
  BY <1>2, <1>3, <1>4, <1>5, <1>6 DEF Next

LEMMA AnswerStarts == ASSUME Init, NEW v \in Uids PROVE Answer(v)!Init
<1>1. Reach = "up" /\ Owed(v) = 0 /\ acked[v] = 0 /\ lost[v] = 0
  <2>1. None[v] = 0
    BY NoneCounts
  <2> QED
    BY <2>1 DEF Init, Reach, Owed
<1>2. Usable(v) \in BOOLEAN /\ faulty \in BOOLEAN
  BY UsableBoolean DEF Init
<1> QED
  BY <1>1, <1>2 DEF Answer!Init

(* Whatever fetches, decoders, timers and transports do, the server of any number of
   resources sees Reception of each of them. *)
THEOREM ReceptionCorrect == Spec => \A u \in Uids : Answer(u)!Spec
<1>1. ASSUME NEW CONSTANT u \in Uids PROVE Spec => Answer(u)!Spec
  <2>1. Init => Answer(u)!Init
    BY AnswerStarts
  <2>2. AnswerInv /\ [Next]_vars => [Answer(u)!Next]_(Answer(u)!vars)
    BY AnswerStep
  <2> QED
    BY <2>1, <2>2, AnswerInvCorrect, PTL DEF Spec, Answer!Spec
<1> QED
  BY <1>1

(* The same as one action property, which is how TLC checks it. *)
THEOREM AnswersCorrect == Spec => AnswersOnce
<1>1. Init => \A u \in Uids : Answer(u)!Init
  BY AnswerStarts
<1>2. AnswerInv /\ [Next]_vars => [\A u \in Uids : [Answer(u)!Next]_(Answer(u)!vars)]_vars
  BY AnswerStep
<1> QED
  BY <1>1, <1>2, AnswerInvCorrect, PTL DEF Spec, AnswersOnce
=============================================================================

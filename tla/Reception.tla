----------------------------- MODULE Reception ------------------------------
(***************************************************************************)
(* What client.ts promises the server of the chunks of one resource: each  *)
(* that is taken is answered once, as received or as lost, as received     *)
(* only when the client has what it can use; only an answer that finds no  *)
(* transport is dropped, and none goes out after close().  A listener that *)
(* throws costs the chunk that is being handled its answer, and no other.  *)
(*                                                                         *)
(* Pointers, fetches, decoders, batches and timers are how it does so.     *)
(***************************************************************************)
EXTENDS Naturals

VARIABLES
    faulty,     \* a listener may throw
    reach,      \* the server is "up" or "down"; "closed" after close()
    owed,       \* chunks that were taken and wait for their answer
    received,   \* answers of the one kind
    lost,       \* answers of the other
    usable      \* the client has what the chunks stand for

vars == <<faulty, reach, owed, received, lost, usable>>

Init ==
    /\ faulty \in BOOLEAN
    /\ reach = "up"
    /\ owed = 0 /\ received = 0 /\ lost = 0
    /\ usable \in BOOLEAN

\* What the client has stays with it while it is open.
Keeps == usable' \in BOOLEAN /\ (usable => usable')

(* A chunk comes and is taken. *)
Take ==
    /\ reach # "closed"
    /\ owed' = owed + 1
    /\ Keeps
    /\ UNCHANGED <<faulty, reach, received, lost>>

(* A listener throws: the chunk that comes is not taken, or one that was is
   forgotten. *)
Swallow ==
    /\ faulty
    /\ \/ reach # "closed" /\ owed' = owed
       \/ owed > 0 /\ owed' = owed - 1
    /\ Keeps
    /\ UNCHANGED <<faulty, reach, received, lost>>

(* What it stands for is fetched or decoded. *)
Prepare ==
    /\ usable' = TRUE
    /\ UNCHANGED <<faulty, reach, owed, received, lost>>

(* Any number of chunks are acknowledged in one message. *)
TellReceived ==
    /\ reach = "up" /\ usable
    /\ \E n \in 1..owed : received' = received + n /\ owed' = owed - n
    /\ UNCHANGED <<faulty, reach, lost, usable>>

TellLost ==
    /\ reach = "up" /\ owed > 0
    /\ lost' = lost + 1 /\ owed' = owed - 1
    /\ Keeps
    /\ UNCHANGED <<faulty, reach, received>>

(* Answers that nobody can be told are not tried again. *)
Forget ==
    /\ reach # "up"
    /\ \E n \in 1..owed : owed' = owed - n
    /\ Keeps
    /\ UNCHANGED <<faulty, reach, received, lost>>

Turn ==
    /\ reach # "closed" /\ reach' \in {"up", "down"}
    /\ UNCHANGED <<faulty, owed, received, lost, usable>>

Close ==
    /\ reach' = "closed"
    /\ usable' \in BOOLEAN
    /\ UNCHANGED <<faulty, owed, received, lost>>

Next == Take \/ Swallow \/ Prepare \/ TellReceived \/ TellLost \/ Forget \/ Turn \/ Close

Spec == Init /\ [][Next]_vars
=============================================================================

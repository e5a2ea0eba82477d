----------------------------- MODULE MCSession -----------------------------
(* Session with bounded message counts, for TLC. *)
EXTENDS Session

(* Two setups, the re-delivery that client.ts:455 speaks of, and one message of
   each other kind; a lighting setup is answered as a ping is. *)
MCLimit == [k \in ServerKinds |-> CASE k \in {"setup", "ackHandshake"} -> 2
                                    [] k = "lighting" -> 0
                                    [] OTHER -> 1]
=============================================================================

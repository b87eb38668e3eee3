---------------------------- MODULE MCTransferFeed ----------------------------
(***************************************************************************)
(* Small instances of TransferFeed: streams with ids of their own, and two *)
(* streams of a client that reconnects.                                    *)
(***************************************************************************)
EXTENDS TransferFeed, TLC

CONSTANTS s1, s2, id1, id2, payer, payee

OwnIds == [s \in Streams |-> IF s = s1 THEN id1 ELSE id2]

SameId == [s \in Streams |-> id1]

\* Refills of an account that have begun.
Refills(a) == Len(objects[a]) - 1 + Cardinality({f \in Lookups : lookup[f].pc = "read" /\ lookup[f].account = a})

\* Handlers refill the payee's object, twice at most, while one stream is open.
\* Its side comes second, which leaves the most time for it.
Refilling ==
    /\ stream[s1] \in {"new", "open"} /\ stream[s2] = "new" /\ stalled = {}
    /\ Refills(payee) <= 2 /\ Refills(payer) = 0
    /\ Len(todo) = 2 => todo[2].account = payee

\* Two streams come, stall and go while nothing is refilled.
Streaming == rows <= 1 /\ Refills(payer) = 0 /\ Refills(payee) = 0

Scenes == Refilling \/ Streaming

\* Nothing tells one handler from another.
Handlers == Permutations(Lookups)
=============================================================================

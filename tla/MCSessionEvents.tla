--------------------------- MODULE MCSessionEvents ---------------------------
(* SessionEvents on small instances, for TLC. *)
EXTENDS SessionEvents, TLC

\* Requests are interchangeable: their events are chosen when they arrive.
RequestSymmetry == Permutations(Requests)

\* The view forgets the local variables a handler will not read again, and
\* the event of a request that ended without taking effect.
LiveView ==
    LET Live(f, places) ==
            [r \in Requests |-> IF pc[r] \in places THEN f[r] ELSE None]
        working == Running \ {"select", "lock", "create"}
    IN  <<pc, sess, sessLock, actions, actLock, took,
          Live(cand, {"lock"}),
          Live(sid, working),
          Live(row, {"locked", "decide", "fill", "commit"}),
          Live(prev, {"fill", "commit"}),
          [r \in Requests |-> IF pc[r] \in Answered /\ took[r] = None
                                THEN None ELSE ev[r]]>>
==============================================================================

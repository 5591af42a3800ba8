--------------------------- MODULE MCClosingStats ---------------------------
(* ClosingStats on small instances, for TLC. *)
EXTENDS ClosingStats, TLC

\* A session that stays plugged in after its charge, and one of another
\* charger that is an outlier of the fleet.
MCKinds ==
    { [charger |-> "c1", hour |-> 8, plugged |-> 2, charged |-> 1],
      [charger |-> "c2", hour |-> 8, plugged |-> 4, charged |-> 4] }

\* Sessions are interchangeable: what they are is chosen when they end.
SessionSymmetry == Permutations(Sessions)

\* The first update finds no batches and rebuilds them; it ends before others
\* overlap, so that these continue what it stored.
FirstIsAlone == Cardinality(InFlight) <= 1 \/ cdf # {}

\* The place of a finished update is not read again, nor is the clock: only
\* the order of the transactions that left rows behind matters.
LiveView ==
    LET Live(f) == [p \in Processes |-> IF pc[p] \in Working THEN f[p] ELSE 0]
        used == {w.at : w \in stats \cup cdf} \cup {start[p] : p \in InFlight}
                \cup {start[Importer]}
        rank(t) == Cardinality({u \in used : u <= t})
        Ranked(W) == {[w EXCEPT !.at = rank(w.at)] : w \in W}
        order == [s \in Sessions |->
                    IF sess[s] = None THEN None
                    ELSE [sess[s] EXCEPT !.end = Cardinality(
                            {t \in Ended : sess[t].end < sess[s].end})]]
    IN  <<order, pc, Live(step), [p \in Processes |-> rank(Live(start)[p])],
          rank(start[Importer]), [p \in Processes |-> Ranked(new[p])],
          Ranked(stats), Ranked(cdf), lock, file, plain>>
==============================================================================

----------------------------- MODULE MediaHealth ------------------------------
(***************************************************************************)
(* media_health of esxi.py: the label of a device from its SMART rows.  It *)
(* walks the counters as they come out of a set, whose order differs from  *)
(* one process to the next, and keeps a running score.                     *)
(***************************************************************************)
EXTENDS Integers, Sequences, SequencesExt

CONSTANT Documents      \* [passed, wear, rows]: what devices report, rows of three values

NoWear == -1

\* The values are what int() takes; a negative wear is cut to 0, so it is given as 0 here.
ASSUME DocumentTypes ==
    \A d \in Documents :
        /\ d.passed \in BOOLEAN /\ d.wear \in Nat \union {NoWear}
        /\ IsFiniteSet(DOMAIN d.rows)
        /\ \A name \in DOMAIN d.rows :
              d.rows[name] \in [normalized : Int, threshold : Int, raw : Int]

Severe == {"Pending Sector Reallocation Count", "Uncorrectable Sector Count",
           "Uncorrectable Error Count"}
Reallocations == {"Reallocated Sector Count", "Sector Reallocation Event Count"}

Least(a, b) == IF a < b THEN a ELSE b
Clip(score) == IF score < 0 THEN 0 ELSE Least(100, score)

Penalty(name, raw) ==
    IF name \in Severe THEN Least(60, 25 + raw)
    ELSE IF name \in Reallocations THEN Least(40, 10 + raw)
    ELSE Least(25, 5 + raw)

\* A normalized value of zero is one the driver does not have.
Reached(row) == row.normalized > 0 /\ row.threshold > 0 /\ row.normalized <= row.threshold

\* Seeded bug: a milder cap.
CountMildly(score, name, row) ==
    LET capped == IF Reached(row) THEN Least(score, 75) ELSE score
    IN  IF row.raw > 0 THEN capped - Penalty(name, row.raw) ELSE capped

\* The score after one more counter.
Count(score, name, row) ==
    LET capped == IF Reached(row) THEN Least(score, 20) ELSE score
    IN  IF row.raw > 0 THEN capped - Penalty(name, row.raw) ELSE capped

\* The score before any counter, and after each of them in turn.
StartScore(d) ==
    Least(IF d.passed THEN 100 ELSE 20, IF d.wear = NoWear THEN 100 ELSE Clip(d.wear))

Scores(d, order) ==
    LET scores[i \in 0..Len(order)] ==
            IF i = 0 THEN StartScore(d) ELSE Count(scores[i - 1], order[i], d.rows[order[i]])
    IN  scores

Score(d, order) == Clip(Scores(d, order)[Len(order)])

MediaFault(d) ==
    ~d.passed \/ \E name \in DOMAIN d.rows : Reached(d.rows[name]) \/ d.rows[name].raw > 0

\* The label, from 1 for Healthy to 4 for Critical.  Wear without a fault is judged by
\* a scale of its own.
Grade(d, order) ==
    LET limits == IF ~MediaFault(d) /\ d.wear # NoWear THEN <<50, 25, 10>> ELSE <<90, 70, 40>>
    IN  1 + Cardinality({i \in 1..3 : Score(d, order) < limits[i]})

\* The orders the set may be walked in; a counter the device lacks changes nothing.
Orders(d) == SetToSeqs(DOMAIN d.rows)

------------------------------------------------------------------------------

\* Every counter of e is at least as bad as that of d, and e reports no fewer.
Worse(d, e) ==
    /\ e.passed => d.passed
    /\ e.wear = d.wear
    /\ \A name \in DOMAIN d.rows :
          /\ name \in DOMAIN e.rows
          /\ e.rows[name].raw >= d.rows[name].raw
          /\ \/ e.rows[name].normalized \in 1..d.rows[name].normalized
             \/ e.rows[name].normalized = d.rows[name].normalized
          /\ e.rows[name].threshold = d.rows[name].threshold

DamageShows ==
    \A d, e \in Documents : Worse(d, e) =>
        \A p \in Orders(d), q \in Orders(e) : Grade(d, p) <= Grade(e, q)
=============================================================================

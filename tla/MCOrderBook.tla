---------------------------- MODULE MCOrderBook ----------------------------
(* OrderBook on small instances: its cfg files give the constants. *)
EXTENDS OrderBook, SequencedList, TLC

\* The levels are interchangeable: used by the runs without liveness.
LevelSymmetry == Permutations(Levels)

-----------------------------------------------------------------------------
(* The lists that hold a ladder, over bounded inputs: up to three pairs     *)
(* merged into every list that up to three pairs can make.                  *)

\* The levels of the cfg files: numbers.
Numbers == 1..3
NumberBelow(p, q) == p < q
Amounts == 0..2

Batches(subjects) == UNION {[1..n -> subjects] : n \in 0..3}

Lists == {Merge(EmptyList, b) : b \in Batches(Pair)}

\* A merge keeps a list sorted and in step with its keys, and every price has
\* the quantity the last pair gave it: what OrderBook takes Merged for.
ASSUME MergeIsRight ==
    \A list \in Lists, b \in Batches(Pair) :
        LET merged == Merge(list, b) IN
        /\ WellFormed(merged)
        /\ \A p \in Prices : At(merged, p) = Latest(b, p, At(list, p))

\* The levels of a payload: strings, none of which equals the number 0.
Texts == <<"10.00", "100.00", "9.00">>   \* in the order Python gives them
TextBelow(p, q) == \E i, j \in 1..3 : i < j /\ Texts[i] = p /\ Texts[j] = q

Payload == INSTANCE SequencedList WITH
    Prices <- Range(Texts), Below <- TextBelow,
    Quantities <- {"0.00", "1.50"}, Zero <- "the number 0"

\* The same holds of a payload's levels, and what it comes to: a level whose
\* quantity is '0.00' is there to stay, and the first of the asks at 9, 10 and 100
\* is not the best.
ASSUME PayloadMergeIsRight ==
    \A b, c \in Batches(Payload!Pair) :
        LET list == Payload!Merge(Payload!EmptyList, b)
            merged == Payload!Merge(list, c)
        IN  /\ Payload!WellFormed(merged)
            /\ \A p \in Range(Texts) :
                  Payload!At(merged, p) = Payload!Latest(c, p, Payload!At(list, p))
            /\ Payload!Listed(merged) =
                  Payload!Listed(list) \cup {c[i].price : i \in DOMAIN c}
            /\ Len(merged.keys) = 3 => merged.keys[1] = "10.00"
=============================================================================

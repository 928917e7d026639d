----------------------------- MODULE SequencedList -----------------------------
(***************************************************************************)
(* The sorted lists that hold the asks and the bids of an order book       *)
(* (binance.core.common.sequenced_list), as operators: a list of pairs of  *)
(* a price and a quantity, and beside it the list of their prices, which   *)
(* bisect searches.  Every operation must change both alike.               *)
(*                                                                         *)
(* Nothing converts the levels of a payload.  Whoever adds numbers, as the *)
(* annotations say, gets them in order of price and without empty levels;  *)
(* the levels of snapshots and diffs are strings, whose order is that of   *)
(* their characters and none of which equals the 0 that removes a level.   *)
(***************************************************************************)
EXTENDS Integers, SequencesExt

CONSTANTS
    Prices,        \* what a level may have for a price
    Below(_, _),   \* < between prices
    Quantities,    \* what it may have for a quantity
    Zero           \* 0: one of the quantities if they are numbers, none if strings

\* bisect needs a total order, as numbers and strings have.
ASSUME SequencedListAssumption ==
    /\ \A p, q \in Prices : Below(p, q) => ~Below(q, p)
    /\ \A p, q \in Prices : p # q => Below(p, q) \/ Below(q, p)
    /\ \A p, q, r \in Prices : Below(p, q) /\ Below(q, r) => Below(p, r)

Pair == [price : Prices, quantity : Quantities]
List == [pairs : Seq(Pair), keys : Seq(Prices)]

\* SequencedList(), and clear()
EmptyList == [pairs |-> <<>>, keys |-> <<>>]

\* append is the insertion at the end.
Inserted(list, index, subject) ==
    [pairs |-> InsertAt(list.pairs, index, subject),
     keys |-> InsertAt(list.keys, index, subject.price)]

Popped(list, index) ==
    [pairs |-> RemoveAt(list.pairs, index), keys |-> RemoveAt(list.keys, index)]

SetItem(list, index, subject) ==
    [pairs |-> [list.pairs EXCEPT ![index] = subject],
     keys |-> [list.keys EXCEPT ![index] = subject.price]]

\* bisect.bisect_left on a sorted list
BisectLeft(keys, key) ==
    CHOOSE index \in 1..(Len(keys) + 1) :
        /\ \A i \in 1..(index - 1) : Below(keys[i], key)
        /\ \A i \in index..Len(keys) : ~Below(keys[i], key)

\* A quantity of 0 removes the price, and a price that is not there stays so.
Add(list, subject) ==
    LET index == BisectLeft(list.keys, subject.price)
        present == index <= Len(list.pairs) /\ list.pairs[index].price = subject.price
    IN  CASE present /\ subject.quantity = Zero -> Popped(list, index)
          [] present /\ subject.quantity # Zero -> SetItem(list, index, subject)
          [] ~present /\ subject.quantity # Zero -> Inserted(list, index, subject)
          [] OTHER -> list

\* The list when the first i of the subjects have been added.
Merging(list, subjects) ==
    LET after[i \in 0..Len(subjects)] ==
            IF i = 0 THEN list ELSE Add(after[i - 1], subjects[i])
    IN  after

Merge(list, subjects) == Merging(list, subjects)[Len(subjects)]

-----------------------------------------------------------------------------
(* What the lists promise *)

\* Sorted by what < makes of the prices, every price once, none with a quantity
\* that equals 0, and the keys are the prices of the pairs.
WellFormed(list) ==
    /\ list \in List
    /\ Len(list.keys) = Len(list.pairs)
    /\ \A i \in 1..Len(list.pairs) :
          list.keys[i] = list.pairs[i].price /\ list.pairs[i].quantity # Zero
    /\ \A i, j \in 1..Len(list.pairs) : i < j => Below(list.keys[i], list.keys[j])

\* The prices that have a level.
Listed(list) == {list.pairs[i].price : i \in 1..Len(list.pairs)}

\* The quantity at a price.
At(list, price) ==
    IF \E i \in 1..Len(list.pairs) : list.pairs[i].price = price
    THEN list.pairs[CHOOSE i \in 1..Len(list.pairs) : list.pairs[i].price = price].quantity
    ELSE Zero

\* The quantity the last of the subjects gives to a price, or what it was.
Latest(subjects, price, before) ==
    LET those == {i \in DOMAIN subjects : subjects[i].price = price} IN
    IF those = {} THEN before ELSE subjects[Max(those)].quantity
=============================================================================
